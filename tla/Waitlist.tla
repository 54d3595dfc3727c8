------------------------------ MODULE Waitlist ------------------------------
(***************************************************************************)
(* The waitlist: a form that posts to an edge function, which validates    *)
(* the entry and inserts it into a table of the database with one row per  *)
(* address.  Posts and answers are lost, visitors press again while an     *)
(* earlier post is still on its way, and two of them may enter the same    *)
(* address, written differently.                                           *)
(*                                                                         *)
(* The function accepts posts from any site.  A form `Offers` its visitor  *)
(* the roles to choose from: those of the repository's own page are none   *)
(* of the ones the function knows.                                         *)
(***************************************************************************)
EXTENDS Naturals

CONSTANTS
  Guests,     \* open forms
  Written,    \* addresses as they are typed
  Lowered,    \* what toLowerCase makes of each
  Offers,     \* the roles each form offers
  RoleTypes,  \* the roles the function knows
  Posts,      \* bound on the posts under way
  NoPost,     \* a free slot for a post
  Unfilled,   \* a form in which a field it asks for is not filled in
  MaxFailures \* bound on database and network failures

ASSUME WaitlistAssumption ==
  /\ DOMAIN Lowered = Written
  /\ DOMAIN Offers = Guests
  /\ MaxFailures \in Nat

VARIABLES
  forms,     \* per form: what is in it, the post it waits for, the note under it
             \* and, of good news, the entry that it is about
  posts,     \* per post: its entry and whether it is being inserted
  rows,      \* the addresses in waitlist_signups
  failures

waitlistVars == <<forms, posts, rows, failures>>

(* Filled in; with a name over the length the function accepts; or with    *)
(* the field filled in that no person sees.                                *)
Kinds == {"complete", "too_long", "trapped"}

EntriesOf(g) == [kind : Kinds, email : Written, role : Offers[g]]

Entries == UNION {EntriesOf(g) : g \in Guests}

ASSUME UnfilledIsNoEntry == Unfilled \notin Entries

Post == [entry : Entries, inserting : BOOLEAN]

ASSUME NoPostIsNoPost == NoPost \notin Posts \union Post

WaitlistInit ==
  /\ forms = [g \in Guests |->
                [entry |-> Unfilled, waits |-> NoPost, note |-> "none", about |-> Unfilled]]
  /\ posts = [p \in Posts |-> NoPost]
  /\ rows = {} /\ failures = 0

Busy(g) == forms[g].waits # NoPost

Note(form, note, about) ==
  [form EXCEPT !.waits = NoPost, !.note = note, !.about = about]

ShowsError(g) == forms' = [forms EXCEPT ![g] = Note(@, "error", Unfilled)]

(* What is typed while a post is on its way is not part of it.             *)
Edit(g) ==
  /\ ~Busy(g)
  /\ \E e \in EntriesOf(g) : forms' = [forms EXCEPT ![g].entry = e]
  /\ UNCHANGED <<posts, rows, failures>>

(* The form asks for name, role and a well-formed address before it posts. *)
Submit(g) ==
  /\ ~Busy(g)
  /\ \/ forms[g].entry = Unfilled /\ ShowsError(g) /\ UNCHANGED posts
     \/ /\ forms[g].entry # Unfilled
        /\ \E p \in Posts :
             /\ posts[p] = NoPost
             /\ posts' = [posts EXCEPT ![p] = [entry |-> forms[g].entry, inserting |-> FALSE]]
             /\ forms' = [forms EXCEPT ![g] = [Note(@, "none", Unfilled) EXCEPT !.waits = p]]
  /\ UNCHANGED <<rows, failures>>

Fails == failures < MaxFailures /\ failures' = failures + 1

Told == {"thanked", "already"}

(* Whoever still waits for the post is told, and a success clears the form.*)
Reply(p, note) ==
  /\ posts' = [posts EXCEPT ![p] = NoPost]
  /\ forms' = [g \in Guests |->
       IF forms[g].waits # p THEN forms[g]
       ELSE IF note \in Told
            THEN [Note(forms[g], note, posts[p].entry) EXCEPT !.entry = Unfilled]
            ELSE Note(forms[g], note, Unfilled)]

At(p, inserting) == posts[p] # NoPost /\ posts[p].inserting = inserting

Refusable(entry) == entry.kind = "too_long" \/ entry.role \notin RoleTypes

(* A filled trap is thanked and forgotten; an entry that breaks a rule is  *)
(* refused; any other is inserted.                                         *)
Validate(p) ==
  /\ At(p, FALSE)
  /\ CASE posts[p].entry.kind = "trapped" -> Reply(p, "thanked")
       [] posts[p].entry.kind # "trapped" /\ Refusable(posts[p].entry) -> Reply(p, "error")
       [] OTHER -> posts' = [posts EXCEPT ![p].inserting = TRUE] /\ UNCHANGED forms
  /\ UNCHANGED <<rows, failures>>

IsDuplicateMutant(error) == TRUE

(* The database answers a second row for an address with a conflict.       *)
IsDuplicate(error) == error = "conflict"

Refused(p, error) == Reply(p, IF IsDuplicate(error) THEN "already" ELSE "error")

Insert(p) ==
  LET address == Lowered[posts[p].entry.email]
  IN  /\ At(p, TRUE)
      /\ rows' = rows \union {address}
      /\ IF address \in rows THEN Refused(p, "conflict") ELSE Reply(p, "thanked")
      /\ UNCHANGED failures

(* Refused for another reason, or not reached.                             *)
InsertFails(p) ==
  /\ At(p, TRUE) /\ Fails
  /\ Refused(p, "other")
  /\ UNCHANGED rows

(* The browser gives up on a post that goes on.                            *)
Disconnected(g) ==
  /\ Busy(g) /\ Fails
  /\ ShowsError(g)
  /\ UNCHANGED <<posts, rows>>

WaitlistNext ==
  \/ \E g \in Guests : Edit(g) \/ Submit(g) \/ Disconnected(g)
  \/ \E p \in Posts : Validate(p) \/ Insert(p) \/ InsertFails(p)

WaitlistSpec == WaitlistInit /\ [][WaitlistNext]_waitlistVars

(***************************************************************************)
(* Properties.                                                             *)
(***************************************************************************)
(* Whoever is told to be on the list, or to have been before, is: the      *)
(* address posted has a row, and a role the function knows was posted with *)
(* it, through lost answers, second presses, refused inserts and two       *)
(* spellings of one address.  Only a filled trap is thanked without.  A    *)
(* form that offers none of those roles, as the repository's page, so      *)
(* never tells a visitor of a place on the list.                           *)
ToldIsListed ==
  \A g \in Guests :
    forms[g].note \in Told /\ forms[g].about.kind # "trapped"
      => /\ Lowered[forms[g].about.email] \in rows
         /\ forms[g].about.role \in Offers[g] \intersect RoleTypes
=============================================================================
