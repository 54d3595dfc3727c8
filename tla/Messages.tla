------------------------------ MODULE Messages ------------------------------
(***************************************************************************)
(* Direct messages and the proposals attached to them: one localStorage    *)
(* array, read and rewritten as a whole by every tab.  Each page, drawer   *)
(* and notification list holds the copy it last read or wrote, so what is  *)
(* on a screen may be older than the store.  No lock is held between the   *)
(* reading and the writing, and tabs run side by side: whatever others     *)
(* store in between is overwritten.                                        *)
(*                                                                         *)
(* The array is in the order of sending, and each message has an id of its *)
(* own: it is modelled as a function from the ids to the messages.         *)
(***************************************************************************)
EXTENDS Profiles

CONSTANTS
  Typed,        \* what users type to start a chat
  Answers,      \* answers to a proposal: "accepted", "declined"
  MaxMessages   \* bound on the messages sent from a browser

ASSUME MessageAssumption ==
  /\ Typed \subseteq Keys
  /\ Answers \intersect {"none", "proposed"} = {}
  /\ MaxMessages \in Nat

VARIABLES
  messages,  \* the stored array
  writing,   \* per tab: the array its handler is about to store, or Absent
  sent,      \* how many messages were sent: ids are not used twice
  shown,     \* per tab: the copy on the screen
  partner,   \* per tab: the active conversation, a wallet or raw text
  screen     \* per tab: where its messages are shown

messageVars == <<messages, writing, sent, shown, partner, screen>>

(* proposal: none attached, or its status.  A recipient that is no wallet  *)
(* is text that resolved to no profile.                                    *)
Message ==
  [sender : Wallets, recipient : Keys, read : BOOLEAN,
   proposal : {"none", "proposed"} \union Answers]

(* A page with its notification list, the drawer over it, the inbox, and   *)
(* the inbox opened from a notification, whose address names the partner.  *)
Screens == {"page", "drawer", "inbox", "linked"}

MessagesInit ==
  /\ messages = <<>>
  /\ writing = [t \in Tabs |-> Absent] /\ sent = 0
  /\ shown = [t \in Tabs |-> <<>>]
  /\ partner = [t \in Tabs |-> Absent]
  /\ screen = [t \in Tabs |-> "page"]

(* A tab in the middle of a handler does nothing else. *)
Idle(t) == writing[t] = Absent

(* The first half of a handler: what it stores is settled by what it read. *)
Rewrite(t, all) ==
  /\ Idle(t)
  /\ writing' = [writing EXCEPT ![t] = all]
  /\ UNCHANGED <<messages, shown>>

(* The second: localStorage.setItem and setMessages with the same array.   *)
Write(t) ==
  /\ ~Idle(t)
  /\ messages' = writing[t]
  /\ shown' = [shown EXCEPT ![t] = writing[t]]
  /\ writing' = [writing EXCEPT ![t] = Absent]
  /\ UNCHANGED <<sent, partner, screen>>

BaseMutant(t) == shown[t]

(* What an operation of a tab starts from: getStoredMessages, not the screen. *)
Base(t) == messages

(* The wallet of a known handle, otherwise the text as typed. *)
Resolve(k) == IF Lookup(k) # Absent THEN Lookup(k).wallet ELSE k

Marked(t, p) ==
  [i \in DOMAIN Base(t) |->
     LET m == Base(t)[i]
     IN  IF m.sender = p /\ m.recipient = wallet[t] THEN [m EXCEPT !.read = TRUE] ELSE m]

MarkAsRead(t, p) ==
  /\ wallet[t] # Absent
  /\ Rewrite(t, Marked(t, p))
  /\ UNCHANGED sent

(* conversationPartners, in the order of their first message. *)
OtherParty(m, w) == IF m.sender = w THEN m.recipient ELSE m.sender

Involving(w, all) == {i \in DOMAIN all : w \in {all[i].sender, all[i].recipient}}

Partners(w, all) ==
  IF w = Absent THEN {} ELSE {OtherParty(all[i], w) : i \in Involving(w, all)}

FirstPartner(w, all) ==
  IF Partners(w, all) = {} THEN Absent
  ELSE OtherParty(all[CHOOSE i \in Involving(w, all) :
                        \A j \in Involving(w, all) : i <= j], w)

(***************************************************************************)
(* Sending and answering, in the inbox and in the drawer.                  *)
(***************************************************************************)
Appended(t, m) ==
  [i \in DOMAIN Base(t) \union {sent + 1} |-> IF i = sent + 1 THEN m ELSE Base(t)[i]]

SendMessage(t, proposal) ==
  /\ wallet[t] # Absent /\ partner[t] # Absent
  /\ sent < MaxMessages
  /\ sent' = sent + 1
  /\ Rewrite(t, Appended(t, [sender |-> wallet[t], recipient |-> Resolve(partner[t]),
                             read |-> FALSE, proposal |-> proposal]))
  /\ UNCHANGED <<partner, screen>>

(* The buttons are there while the screen shows an open proposal from the  *)
(* partner; the store is not asked again.                                  *)
Answerable(t, i) ==
  /\ i \in DOMAIN shown[t]
  /\ LET m == shown[t][i]
     IN  /\ m.proposal = "proposed"
         /\ m.sender = partner[t] /\ m.recipient = wallet[t] /\ m.sender # wallet[t]

Answered(t, i, answer) ==
  [j \in DOMAIN Base(t) |->
     IF j = i /\ Base(t)[j].proposal # "none"
     THEN [Base(t)[j] EXCEPT !.proposal = answer] ELSE Base(t)[j]]

(* An answer to a message that is no longer stored changes nothing.        *)
Answer(t, i, answer) ==
  /\ Answerable(t, i)
  /\ Rewrite(t, Answered(t, i, answer))
  /\ UNCHANGED <<sent, partner, screen>>

Talk(t) ==
  \/ \E p \in {"none", "proposed"} : SendMessage(t, p)
  \/ \E i \in 1 .. MaxMessages, a \in Answers : Answer(t, i, a)

(***************************************************************************)
(* The inbox.  It opens on the first conversation without marking it read. *)
(***************************************************************************)
OpenInbox(t) ==
  /\ Idle(t)
  /\ shown' = [shown EXCEPT ![t] = messages]
  /\ partner' = [partner EXCEPT ![t] = FirstPartner(wallet[t], messages)]
  /\ screen' = [screen EXCEPT ![t] = "inbox"]
  /\ UNCHANGED <<messages, writing, sent>>

StartChat(t, k) ==
  /\ Idle(t) /\ screen[t] = "inbox"
  /\ partner[t] # Resolve(k)
  /\ partner' = [partner EXCEPT ![t] = Resolve(k)]
  /\ UNCHANGED <<messages, writing, sent, shown, screen>>

(* The partner in the address is set again at every render, so selecting   *)
(* another thread marks it read and changes nothing else.                  *)
OpenThread(t, p) ==
  /\ screen[t] \in {"inbox", "linked"}
  /\ p \in Partners(wallet[t], shown[t])
  /\ MarkAsRead(t, p)
  /\ partner' = [partner EXCEPT ![t] = IF screen[t] = "linked" THEN @ ELSE p]
  /\ UNCHANGED screen

(* conversationPartners is a new array at every render, so the effect that *)
(* marks the linked partner's messages runs after every render it causes.  *)
KeepMarking(t) ==
  /\ screen[t] = "linked"
  /\ MarkAsRead(t, partner[t])
  /\ UNCHANGED <<partner, screen>>

Inbox(t) ==
  \/ OpenInbox(t)
  \/ KeepMarking(t)
  \/ \E k \in Typed : StartChat(t, k)
  \/ \E p \in Keys : OpenThread(t, p)
  \/ screen[t] \in {"inbox", "linked"} /\ Talk(t)

(***************************************************************************)
(* Other pages: the notification list, and the drawer opened from a        *)
(* profile or a listing.  Both load with the page; the drawer's partner is *)
(* set again at every render and its messages are not marked read.         *)
(***************************************************************************)
OpenAnyPage(t) ==
  /\ Idle(t)
  /\ shown' = [shown EXCEPT ![t] = messages]
  /\ partner' = [partner EXCEPT ![t] = Absent]
  /\ screen' = [screen EXCEPT ![t] = "page"]
  /\ UNCHANGED <<messages, writing, sent>>

FollowNotification(t, p) ==
  /\ screen[t] = "page"
  /\ \E i \in DOMAIN shown[t] :
       LET m == shown[t][i]
       IN  m.sender = p /\ m.recipient = wallet[t] /\ ~m.read
  /\ MarkAsRead(t, p)
  /\ partner' = [partner EXCEPT ![t] = p]
  /\ screen' = [screen EXCEPT ![t] = "linked"]

OpenDrawer(t, w) ==
  /\ Idle(t) /\ screen[t] \in {"page", "drawer"}
  /\ partner[t] # w
  /\ partner' = [partner EXCEPT ![t] = w]
  /\ screen' = [screen EXCEPT ![t] = "drawer"]
  /\ UNCHANGED <<messages, writing, sent, shown>>

Drawer(t) ==
  \/ \E w \in Wallets : OpenDrawer(t, w)
  \/ screen[t] = "drawer" /\ Talk(t)

(* Another account: an inbox without a partner opens its first thread. *)
ChangeWallet(t, w) ==
  /\ Idle(t) /\ Connect(t, w)
  /\ partner' = [partner EXCEPT ![t] =
                   IF screen[t] = "inbox" /\ @ = Absent THEN FirstPartner(w, shown[t]) ELSE @]
  /\ UNCHANGED <<messages, writing, sent, shown, screen>>

MessageStep ==
  \E t \in Tabs :
    \/ Write(t)
    \/ Inbox(t)
    \/ OpenAnyPage(t)
    \/ \E p \in Wallets : FollowNotification(t, p)
    \/ Drawer(t)

deskVars == <<wallet, profileVars, messageVars>>

Conversation ==
  \/ \E t \in Tabs, w \in Wallets : ChangeWallet(t, w)
  \/ MessageStep /\ UNCHANGED <<wallet, profileVars>>

(* Conversations beside profile pages; disconnecting leaves the partner.   *)
DeskSpec ==
  /\ ProfilesInit /\ MessagesInit
  /\ [][\/ Conversation
        \/ \E t \in Tabs :
             Idle(t) /\ (Disconnect(t) \/ ProfilePage(t)) /\ UNCHANGED messageVars]_deskVars

(***************************************************************************)
(* Properties.                                                             *)
(***************************************************************************)
(* What became of a message: its parties and whether it carries a proposal *)
(* stay, a read one is read, an answered one is not open.                  *)
Kept(m, n) ==
  /\ <<n.sender, n.recipient>> = <<m.sender, m.recipient>>
  /\ m.read => n.read
  /\ (m.proposal = "none") = (n.proposal = "none")
  /\ n.proposal = "proposed" => m.proposal = "proposed"

Holds(all, i, m) == i \in DOMAIN all /\ Kept(m, all[i])

(* In the store, and in whatever a tab is about to put in its place.       *)
Settled(i, m) ==
  /\ Holds(messages, i, m)
  /\ \A t \in Tabs : Idle(t) \/ Holds(writing[t], i, m)

(* A message may be lost, unread or open again only by a write that was    *)
(* under way when it was stored, read or answered.  Once every tab that    *)
(* was writing then has written and it is still there, it stays for good,  *)
(* however many writes overlap later and whatever old copies the screens   *)
(* show: every operation of messagesStore.ts starts from the store.        *)
SettledIsKept ==
  [][\A i \in DOMAIN messages : \A m \in Message :
       Settled(i, m) => Settled(i, m)']_deskVars
=============================================================================
