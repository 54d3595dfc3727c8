---------------------------- MODULE BrowserProofs ---------------------------
(***************************************************************************)
(* Proofs about what a browser keeps, for any number of tabs, wallets,     *)
(* handles, deals and stored messages and any limits on the listings: a    *)
(* handle finds exactly the wallet that carries it, no message is lost, a  *)
(* listing stands for a deal its creator proposed, and leaves the store    *)
(* only for newer ones.                                                    *)
(***************************************************************************)
EXTENDS Messages, Market, WellFoundedInduction, TLAPS

(***************************************************************************)
(* Profiles: handles stay unambiguous under any interleaving of stale      *)
(* pages.                                                                  *)
(***************************************************************************)

(* A profile page that is being edited shows a profile. *)
HandleInv ==
  /\ profiles \in [Keys -> Profile \union {Absent}]
  /\ card \in [Tabs -> Profile \union {Absent}]
  /\ editing \in [Tabs -> BOOLEAN]
  /\ \A t \in Tabs : editing[t] => card[t] # Absent
  /\ HandlesAgree

(* Saving a profile keeps every handle with the wallet that carries it:    *)
(* the old handle of the wallet is given up, and the new one was free.     *)
LEMMA SavedAgrees ==
  ASSUME profiles \in [Keys -> Profile \union {Absent}], HandlesAgree,
         NEW p \in Profile, SaveProfile(p)
  PROVE  profiles' \in [Keys -> Profile \union {Absent}] /\ HandlesAgree'
<1> USE ProfileAssumption
<1> DEFINE w0  == p.wallet
           h0  == p.username
           old == profiles[w0]
<1>1. w0 \in Wallets /\ h0 \in Handles
  BY DEF Profile
<1>2. \A k \in Keys : profiles[k] # Absent => profiles[k] \in Profile
  OBVIOUS
<1>3. profiles' = [ForgetOld(profiles, p) EXCEPT ![w0] = p, ![h0] = p]
  BY DEF SaveProfile, Stored
<1>4. old # Absent => old \in Profile /\ old.username \in Handles /\ old.wallet = w0
                    /\ profiles[old.username] = old
  BY <1>1, <1>2 DEF HandlesAgree, Profile, Keys
<1> DEFINE Gone(k) == old # Absent /\ old.username # h0 /\ k = old.username
<1>5. ForgetOld(profiles, p) = [k \in Keys |-> IF Gone(k) THEN Absent ELSE profiles[k]]
  <2>1. CASE old = Absent \/ old.username = h0
    BY <2>1 DEF ForgetOld
  <2>2. CASE old # Absent /\ old.username # h0
    BY <1>4, <2>2 DEF ForgetOld, Keys
  <2> QED
    BY <2>1, <2>2
<1>6. \A k \in Keys : profiles'[k] =
        IF k = w0 \/ k = h0 THEN p ELSE IF Gone(k) THEN Absent ELSE profiles[k]
  BY <1>1, <1>3, <1>5 DEF Keys
<1>7. profiles' \in [Keys -> Profile \union {Absent}]
  BY <1>1, <1>3, <1>5 DEF Keys
<1>8. Available(h0, w0)
  BY DEF SaveProfile, MaySave
<1> HIDE DEF w0, h0, old
<1>9. ASSUME NEW w \in Wallets, profiles'[w] # Absent
      PROVE  profiles'[w].wallet = w /\ profiles'[profiles'[w].username] = profiles'[w]
  <2>1. CASE w = w0
    <3>1. profiles'[w] = p /\ profiles'[h0] = p
      BY <1>1, <1>6, <2>1 DEF Keys
    <3> QED
      BY <2>1, <3>1 DEF w0, h0
  <2>2. CASE w # w0
    <3>1. w # h0 /\ w \in Keys /\ ~Gone(w)
      BY <1>1, <1>4 DEF Keys
    <3>2. profiles'[w] = profiles[w]
      BY <1>6, <2>2, <3>1
    <3> DEFINE q == profiles[w]
               u == q.username
    <3>3. q # Absent /\ q \in Profile /\ q.wallet = w /\ profiles[u] = q
      BY <1>2, <1>9, <3>1, <3>2 DEF HandlesAgree
    <3>4. u \in Handles
      BY <3>3 DEF Profile
    <3> HIDE DEF q, u
    <3>5. u # h0
      BY <1>1, <1>8, <2>2, <3>3, <3>4 DEF Available, Keys, u
    <3>6. ~Gone(u)
      BY <1>4, <2>2, <3>3
    <3>7. u # w0 /\ u \in Keys
      BY <1>1, <3>4 DEF Keys
    <3>8. profiles'[u] = profiles[u]
      BY <1>6, <3>5, <3>6, <3>7
    <3> QED
      BY <3>2, <3>3, <3>8 DEF q, u
  <2> QED
    BY <2>1, <2>2
<1>10. ASSUME NEW h \in Handles, profiles'[h] # Absent
       PROVE  profiles'[h].username = h /\ profiles'[profiles'[h].wallet] = profiles'[h]
  <2>1. CASE h = h0
    <3>1. profiles'[h] = p /\ profiles'[w0] = p
      BY <1>1, <1>6, <2>1 DEF Keys
    <3> QED
      BY <2>1, <3>1 DEF w0, h0
  <2>2. CASE h # h0
    <3>1. h # w0 /\ h \in Keys
      BY <1>1 DEF Keys
    <3>2. ~Gone(h) /\ profiles'[h] = profiles[h]
      BY <1>6, <1>10, <2>2, <3>1
    <3> DEFINE q == profiles[h]
    <3>3. q # Absent /\ q \in Profile /\ q.username = h /\ profiles[q.wallet] = q
      BY <1>2, <1>10, <3>1, <3>2 DEF HandlesAgree
    <3>4. q.wallet \in Wallets
      BY <3>3 DEF Profile
    <3> HIDE DEF q
    <3>5. q.wallet # w0
      BY <2>2, <3>2, <3>3 DEF old
    <3>6. q.wallet # h0 /\ q.wallet \in Keys /\ ~Gone(q.wallet)
      BY <1>1, <1>4, <3>4 DEF Keys
    <3>7. profiles'[q.wallet] = profiles[q.wallet]
      BY <1>6, <3>5, <3>6
    <3> QED
      BY <3>2, <3>3, <3>7 DEF q
  <2> QED
    BY <2>1, <2>2
<1> QED
  BY <1>7, <1>9, <1>10 DEF HandlesAgree

LEMMA HandleInvInductive ==
  HandleInv /\ [ProfileStep]_<<wallet, profileVars>> => HandleInv'
<1> SUFFICES ASSUME HandleInv, [ProfileStep]_<<wallet, profileVars>>
             PROVE  HandleInv'
  OBVIOUS
<1> USE ProfileAssumption
<1>1. ASSUME NEW t \in Tabs, NEW w \in Wallets, Connect(t, w)
      PROVE  HandleInv'
  <2>1. /\ card' = card /\ editing' = editing
        /\ EnsureProfile(w) \/ profiles' = profiles
    BY <1>1 DEF Connect
  <2>2. profiles' \in [Keys -> Profile \union {Absent}] /\ HandlesAgree'
    <3>1. CASE EnsureProfile(w)
      <4>1. PICK i \in 1 .. Len(DefaultsOf[w]) :
              SaveProfile([wallet |-> w, username |-> DefaultsOf[w][i]])
        BY <3>1 DEF EnsureProfile
      <4>2. DefaultsOf[w] \in Seq(Handles)
        OBVIOUS
      <4>3. DefaultsOf[w][i] \in Handles
        BY <4>2
      <4>4. [wallet |-> w, username |-> DefaultsOf[w][i]] \in Profile
        BY <4>3 DEF Profile
      <4> QED
        BY <4>1, <4>4, SavedAgrees DEF HandleInv
    <3>2. CASE profiles' = profiles
      BY <3>2 DEF HandleInv, HandlesAgree
    <3> QED
      BY <2>1, <3>1, <3>2
  <2> QED
    BY <2>1, <2>2 DEF HandleInv
<1>2. ASSUME NEW t \in Tabs, Disconnect(t)
      PROVE  HandleInv'
  BY <1>2 DEF Disconnect, profileVars, HandleInv, HandlesAgree
<1>3. ASSUME NEW t \in Tabs, NEW k \in Keys, OpenPage(t, k)
      PROVE  HandleInv'
  BY <1>3 DEF OpenPage, Lookup, HandleInv, HandlesAgree
<1>4. ASSUME NEW t \in Tabs, StartEditing(t)
      PROVE  HandleInv'
  BY <1>4 DEF StartEditing, HandleInv, HandlesAgree
<1>5. ASSUME NEW t \in Tabs, NEW h \in Handles, Save(t, h)
      PROVE  HandleInv'
  <2> DEFINE p == [card[t] EXCEPT !.username = h]
  <2>1. card[t] \in Profile
    BY <1>5 DEF Save, HandleInv
  <2>2. p \in Profile
    BY <2>1 DEF Profile
  <2>3. /\ SaveProfile(p) /\ card' = [card EXCEPT ![t] = p]
        /\ editing' = [editing EXCEPT ![t] = FALSE]
    BY <1>5 DEF Save
  <2> HIDE DEF p
  <2>4. profiles' \in [Keys -> Profile \union {Absent}] /\ HandlesAgree'
    BY <2>2, <2>3, SavedAgrees DEF HandleInv
  <2>5. /\ card' \in [Tabs -> Profile \union {Absent}]
        /\ editing' \in [Tabs -> BOOLEAN]
        /\ \A q \in Tabs : editing'[q] => card'[q] # Absent
    BY <2>2, <2>3 DEF HandleInv
  <2> QED
    BY <2>4, <2>5 DEF HandleInv
<1>6. CASE UNCHANGED <<wallet, profileVars>>
  BY <1>6 DEF profileVars, HandleInv, HandlesAgree
<1> QED
  BY <1>1, <1>2, <1>3, <1>4, <1>5, <1>6 DEF ProfileStep, ProfilePage

(* Whatever pages save from old copies, a handle finds exactly the wallet  *)
(* that carries it.                                                        *)
THEOREM HandlesStayUnambiguous == ProfileSpec => []HandlesAgree
<1>1. ProfilesInit => HandleInv
  BY DEF ProfilesInit, HandleInv, HandlesAgree, Keys
<1>2. HandleInv => HandlesAgree
  BY DEF HandleInv
<1> QED
  BY <1>1, <1>2, HandleInvInductive, PTL DEF ProfileSpec

(***************************************************************************)
(* Messages: every operation starts from the store, so what it writes      *)
(* keeps all it read; only what was stored in between is overwritten.      *)
(***************************************************************************)
(* Every non-empty set of natural numbers has a smallest one. *)
LEMMA NatHasLeast ==
  ASSUME NEW T \in SUBSET Nat, T # {}
  PROVE  \E x \in T : \A y \in T : x <= y
<1> DEFINE Below == {ss \in Nat \X Nat : ss[1] < ss[2]}
<1>1. IsWellFoundedOn(Below, Nat)
  BY NatLessThanWellFounded DEF OpToRel
<1>2. \A x, y \in Nat : x < y => <<x, y>> \in Below
  OBVIOUS
<1> HIDE DEF Below
<1>3. PICK x \in T : \A y \in T : ~ (<<y, x>> \in Below)
  BY <1>1, WFMin
<1>4. \A y \in T : ~ (y < x)
  BY <1>2, <1>3
<1> QED
  BY <1>4

(* The arrays a browser may hold. *)
Mail == UNION {[I -> Message] : I \in SUBSET (1 .. MaxMessages)}

LEMMA MailIs ==
  ASSUME NEW f
  PROVE  f \in Mail <=> DOMAIN f \subseteq 1 .. MaxMessages /\ f \in [DOMAIN f -> Message]
BY DEF Mail

DeskInv ==
  /\ HandleInv
  /\ wallet \in [Tabs -> Wallets \union {Absent}]
  /\ sent \in 0 .. MaxMessages
  /\ messages \in Mail /\ DOMAIN messages \subseteq 1 .. sent
  /\ writing \in [Tabs -> Mail \union {Absent}]
  /\ \A t \in Tabs : Idle(t) \/ DOMAIN writing[t] \subseteq 1 .. sent
  /\ shown \in [Tabs -> Mail]
  /\ partner \in [Tabs -> Keys \union {Absent}]

(* All that `old` holds, `new` does. *)
Keeps(old, new) == \A i \in DOMAIN old : Holds(new, i, old[i])

(* What a step keeps: the types, and every settled message. *)
SettledStays == \A i \in 1 .. MaxMessages, m \in Message : Settled(i, m) => Settled(i, m)'

DeskKept ==
  /\ sent' \in 0 .. MaxMessages
  /\ messages' \in Mail /\ DOMAIN messages' \subseteq 1 .. sent'
  /\ writing' \in [Tabs -> Mail \union {Absent}]
  /\ \A t \in Tabs : Idle(t)' \/ DOMAIN writing'[t] \subseteq 1 .. sent'
  /\ shown' \in [Tabs -> Mail]
  /\ partner' \in [Tabs -> Keys \union {Absent}]
  /\ SettledStays

LEMMA HoldsIsTransitive ==
  ASSUME NEW old \in Mail, NEW new \in Mail, Keeps(old, new),
         NEW i, NEW m \in Message, Holds(old, i, m)
  PROVE  Holds(new, i, m)
<1>1. i \in DOMAIN old /\ Kept(m, old[i])
  BY DEF Holds
<1>2. i \in DOMAIN new /\ Kept(old[i], new[i])
  BY <1>1 DEF Keeps, Holds
<1>3. old[i] \in Message /\ new[i] \in Message
  BY <1>1, <1>2, MailIs
<1>4. Kept(m, new[i])
  BY <1>1, <1>2, <1>3 DEF Kept, Message
<1> QED
  BY <1>2, <1>4 DEF Holds

(* The three ways an operation rewrites the store. *)
LEMMA AppendedKeeps ==
  ASSUME DeskInv, NEW t \in Tabs, NEW m \in Message, sent < MaxMessages
  PROVE  /\ Appended(t, m) \in Mail /\ Keeps(messages, Appended(t, m))
         /\ DOMAIN Appended(t, m) \subseteq 1 .. sent + 1
<1> DEFINE D == DOMAIN messages \union {sent + 1}
           new == Appended(t, m)
<1>1. new = [i \in D |-> IF i = sent + 1 THEN m ELSE messages[i]]
  BY DEF Appended, Base
<1>2. sent \in Nat /\ MaxMessages \in Nat /\ DOMAIN messages \subseteq 1 .. sent
      /\ messages \in [DOMAIN messages -> Message]
  BY MailIs, MessageAssumption DEF DeskInv
<1>3. D \subseteq 1 .. sent + 1 /\ D \subseteq 1 .. MaxMessages
  BY <1>2
<1>4. \A i \in DOMAIN messages : i \in D /\ i # sent + 1
  BY <1>2
<1> HIDE DEF D
<1>5. DOMAIN new = D /\ new \in [D -> Message]
  BY <1>1, <1>2, <1>4 DEF D
<1>6. \A i \in DOMAIN messages : i \in DOMAIN new /\ new[i] = messages[i]
  BY <1>1, <1>4, <1>5
<1> HIDE DEF new
<1>7. Keeps(messages, new)
  BY <1>6 DEF Keeps, Holds, Kept
<1>8. new \in Mail
  BY <1>3, <1>5, MailIs
<1> QED
  BY <1>3, <1>5, <1>7, <1>8 DEF new

(* Marking and answering change some messages and no id. *)
LEMMA ChangedKeeps ==
  ASSUME DeskInv, NEW new, DOMAIN new = DOMAIN messages, new \in [DOMAIN new -> Message],
         \A i \in DOMAIN messages : Kept(messages[i], new[i])
  PROVE  new \in Mail /\ Keeps(messages, new) /\ DOMAIN new \subseteq 1 .. sent
<1>1. DOMAIN messages \subseteq 1 .. MaxMessages
  BY MailIs DEF DeskInv
<1>2. new \in Mail
  BY <1>1, MailIs
<1> QED
  BY <1>2 DEF Keeps, Holds, DeskInv

LEMMA MarkedKeeps ==
  ASSUME DeskInv, NEW t \in Tabs, NEW p
  PROVE  /\ Marked(t, p) \in Mail /\ Keeps(messages, Marked(t, p))
         /\ DOMAIN Marked(t, p) \subseteq 1 .. sent
<1> DEFINE M(i) == IF messages[i].sender = p /\ messages[i].recipient = wallet[t]
                   THEN [messages[i] EXCEPT !.read = TRUE] ELSE messages[i]
           new == Marked(t, p)
<1>1. new = [i \in DOMAIN messages |-> M(i)]
  BY DEF Marked, Base
<1>2. ASSUME NEW i \in DOMAIN messages
      PROVE  M(i) \in Message /\ Kept(messages[i], M(i))
  <2>1. messages[i] \in Message
    BY MailIs DEF DeskInv
  <2> DEFINE n == [messages[i] EXCEPT !.read = TRUE]
  <2>2. n \in Message /\ Kept(messages[i], n) /\ Kept(messages[i], messages[i])
    BY <2>1 DEF Message, Kept
  <2> QED
    BY <2>1, <2>2
<1> HIDE DEF M, new
<1>3. DOMAIN new = DOMAIN messages /\ \A i \in DOMAIN messages : new[i] = M(i)
  BY <1>1
<1>4. new \in [DOMAIN new -> Message]
  BY <1>1, <1>2, <1>3
<1>5. \A i \in DOMAIN messages : Kept(messages[i], new[i])
  BY <1>2, <1>3
<1> QED
  BY <1>3, <1>4, <1>5, ChangedKeeps DEF new

LEMMA AnsweredKeeps ==
  ASSUME DeskInv, NEW t \in Tabs, NEW k, NEW a \in Answers
  PROVE  /\ Answered(t, k, a) \in Mail /\ Keeps(messages, Answered(t, k, a))
         /\ DOMAIN Answered(t, k, a) \subseteq 1 .. sent
<1> DEFINE M(i) == IF i = k /\ messages[i].proposal # "none"
                   THEN [messages[i] EXCEPT !.proposal = a] ELSE messages[i]
           new == Answered(t, k, a)
<1>1. new = [i \in DOMAIN messages |-> M(i)]
  BY DEF Answered, Base
<1>2. ASSUME NEW i \in DOMAIN messages
      PROVE  M(i) \in Message /\ Kept(messages[i], M(i))
  <2>1. messages[i] \in Message
    BY MailIs DEF DeskInv
  <2> DEFINE n == [messages[i] EXCEPT !.proposal = a]
  <2>2. Kept(messages[i], messages[i])
    BY DEF Kept
  <2>3. ASSUME messages[i].proposal # "none"
        PROVE  n \in Message /\ Kept(messages[i], n)
    BY <2>1, <2>3, MessageAssumption DEF Message, Kept
  <2> QED
    BY <2>1, <2>2, <2>3
<1> HIDE DEF M, new
<1>3. DOMAIN new = DOMAIN messages /\ \A i \in DOMAIN messages : new[i] = M(i)
  BY <1>1
<1>4. new \in [DOMAIN new -> Message]
  BY <1>1, <1>2, <1>3
<1>5. \A i \in DOMAIN messages : Kept(messages[i], new[i])
  BY <1>2, <1>3
<1> QED
  BY <1>3, <1>4, <1>5, ChangedKeeps DEF new

(* A tab that reads the store and is about to write what keeps it. *)
LEMMA RewriteKeeps ==
  ASSUME DeskInv, NEW t \in Tabs, NEW all \in Mail, Keeps(messages, all), Rewrite(t, all),
         sent' \in 0 .. MaxMessages, sent <= sent', DOMAIN all \subseteq 1 .. sent',
         partner' \in [Tabs -> Keys \union {Absent}]
  PROVE  DeskKept
<1>1. /\ messages' = messages /\ shown' = shown
      /\ writing' = [writing EXCEPT ![t] = all]
      /\ \A u \in Tabs : writing'[u] = IF u = t THEN all ELSE writing[u]
  BY DEF Rewrite, DeskInv
<1>2. SettledStays
  <2> SUFFICES ASSUME NEW i \in 1 .. MaxMessages, NEW m \in Message, Settled(i, m)
               PROVE  Settled(i, m)'
    BY DEF SettledStays
  <2>1. Holds(messages, i, m) /\ \A u \in Tabs : Idle(u) \/ Holds(writing[u], i, m)
    BY DEF Settled
  <2>2. Holds(all, i, m)
    BY <2>1, HoldsIsTransitive DEF DeskInv
  <2>3. \A u \in Tabs : Idle(u)' \/ Holds(writing'[u], i, m)
    BY <1>1, <2>1, <2>2 DEF Idle
  <2> QED
    BY <1>1, <2>1, <2>3 DEF Settled, Holds
<1>3. 1 .. sent \subseteq 1 .. sent'
  BY MessageAssumption DEF DeskInv
<1>4. \A u \in Tabs : Idle(u)' \/ DOMAIN writing'[u] \subseteq 1 .. sent'
  BY <1>1, <1>3 DEF Idle, DeskInv
<1> QED
  BY <1>1, <1>2, <1>3, <1>4 DEF DeskInv, DeskKept

(* What a tab stores, it was about to store. *)
LEMMA WriteKeeps ==
  ASSUME DeskInv, NEW t \in Tabs, Write(t)
  PROVE  DeskKept
<1>1. /\ ~Idle(t) /\ messages' = writing[t] /\ sent' = sent /\ partner' = partner
      /\ shown' = [shown EXCEPT ![t] = writing[t]]
      /\ writing' = [writing EXCEPT ![t] = Absent]
      /\ \A u \in Tabs : writing'[u] = IF u = t THEN Absent ELSE writing[u]
  BY DEF Write, DeskInv
<1>2. writing[t] \in Mail /\ DOMAIN writing[t] \subseteq 1 .. sent
  BY <1>1 DEF Idle, DeskInv
<1>3. SettledStays
  <2> SUFFICES ASSUME NEW i \in 1 .. MaxMessages, NEW m \in Message, Settled(i, m)
               PROVE  Settled(i, m)'
    BY DEF SettledStays
  <2>1. Holds(messages', i, m)
    BY <1>1 DEF Settled
  <2>2. \A u \in Tabs : Idle(u)' \/ Holds(writing'[u], i, m)
    BY <1>1 DEF Idle, Settled
  <2> QED
    BY <2>1, <2>2 DEF Settled, Holds
<1>4. \A u \in Tabs : Idle(u)' \/ DOMAIN writing'[u] \subseteq 1 .. sent'
  BY <1>1 DEF Idle, DeskInv
<1> QED
  BY <1>1, <1>2, <1>3, <1>4 DEF DeskInv, DeskKept

LEMMA FirstPartnerIsKey ==
  ASSUME NEW all \in Mail, NEW w \in Wallets \union {Absent}
  PROVE  FirstPartner(w, all) \in Keys \union {Absent}
<1>1. CASE Partners(w, all) = {}
  BY <1>1 DEF FirstPartner
<1>2. CASE Partners(w, all) # {}
  <2> DEFINE I == Involving(w, all)
             j == CHOOSE i \in I : \A k \in I : i <= k
  <2>1. I # {} /\ I \in SUBSET Nat
    BY <1>2, MailIs DEF Partners, Involving
  <2>2. j \in I
    BY <2>1, NatHasLeast
  <2>3. j \in DOMAIN all
    BY <2>2 DEF Involving
  <2>4. all[j] \in Message
    BY <2>3, MailIs
  <2>5. FirstPartner(w, all) = OtherParty(all[j], w)
    BY <1>2 DEF FirstPartner
  <2> HIDE DEF j
  <2> QED
    BY <2>4, <2>5 DEF OtherParty, Message, Keys
<1> QED
  BY <1>1, <1>2

LEMMA ResolveIsKey ==
  ASSUME HandleInv, NEW k \in Keys
  PROVE  Resolve(k) \in Keys
BY DEF HandleInv, Resolve, Lookup, Profile, Keys

LEMMA TalkKeeps ==
  ASSUME DeskInv, NEW t \in Tabs, Talk(t)
  PROVE  DeskKept
<1>1. ASSUME NEW p \in {"none", "proposed"}, SendMessage(t, p)
      PROVE  DeskKept
  <2> DEFINE m == [sender |-> wallet[t], recipient |-> Resolve(partner[t]),
                   read |-> FALSE, proposal |-> p]
             all == Appended(t, m)
  <2>1. /\ wallet[t] \in Wallets /\ partner[t] \in Keys
        /\ sent < MaxMessages /\ sent' = sent + 1
        /\ Rewrite(t, all) /\ partner' = partner
    BY <1>1 DEF SendMessage, DeskInv
  <2>2. m \in Message
    BY <2>1, ResolveIsKey DEF DeskInv, Message
  <2> HIDE DEF m
  <2>3. all \in Mail /\ Keeps(messages, all) /\ DOMAIN all \subseteq 1 .. sent + 1
    BY <2>1, <2>2, AppendedKeeps
  <2> HIDE DEF all
  <2>4. sent' \in 0 .. MaxMessages /\ sent <= sent'
    BY <2>1, MessageAssumption DEF DeskInv
  <2>5. DOMAIN all \subseteq 1 .. sent' /\ partner' \in [Tabs -> Keys \union {Absent}]
    BY <2>1, <2>3 DEF DeskInv
  <2> QED
    BY <2>1, <2>3, <2>4, <2>5, RewriteKeeps
<1>2. ASSUME NEW i \in 1 .. MaxMessages, NEW a \in Answers, Answer(t, i, a)
      PROVE  DeskKept
  <2> DEFINE all == Answered(t, i, a)
  <2>1. Rewrite(t, all) /\ partner' = partner /\ sent' = sent
    BY <1>2 DEF Answer
  <2>2. all \in Mail /\ Keeps(messages, all) /\ DOMAIN all \subseteq 1 .. sent
    BY AnsweredKeeps
  <2> HIDE DEF all
  <2>3. sent' \in 0 .. MaxMessages /\ sent <= sent'
    BY <2>1, MessageAssumption DEF DeskInv
  <2>4. DOMAIN all \subseteq 1 .. sent' /\ partner' \in [Tabs -> Keys \union {Absent}]
    BY <2>1, <2>2 DEF DeskInv
  <2> QED
    BY <2>1, <2>2, <2>3, <2>4, RewriteKeeps
<1> QED
  BY <1>1, <1>2 DEF Talk

LEMMA MarkKeeps ==
  ASSUME DeskInv, NEW t \in Tabs, NEW p, MarkAsRead(t, p),
         partner' \in [Tabs -> Keys \union {Absent}]
  PROVE  DeskKept
<1> DEFINE all == Marked(t, p)
<1>1. Rewrite(t, all) /\ sent' = sent
  BY DEF MarkAsRead
<1>2. all \in Mail /\ Keeps(messages, all) /\ DOMAIN all \subseteq 1 .. sent
  BY MarkedKeeps
<1> HIDE DEF all
<1>3. sent' \in 0 .. MaxMessages /\ sent <= sent' /\ DOMAIN all \subseteq 1 .. sent'
  BY <1>1, <1>2, MessageAssumption DEF DeskInv
<1> QED
  BY <1>1, <1>2, <1>3, RewriteKeeps

(* Loading a screen and moving about write nothing. *)
LEMMA StillKeeps ==
  ASSUME DeskInv, UNCHANGED <<messages, writing, sent>>, shown' \in [Tabs -> Mail],
         partner' \in [Tabs -> Keys \union {Absent}]
  PROVE  DeskKept
<1>1. \A u \in Tabs : Idle(u)' = Idle(u)
  BY DEF Idle
<1>2. SettledStays
  BY <1>1 DEF SettledStays, Settled
<1> QED
  BY <1>1, <1>2 DEF DeskInv, DeskKept

LEMMA InboxKeeps ==
  ASSUME DeskInv, NEW t \in Tabs, Inbox(t)
  PROVE  DeskKept
<1> USE MessageAssumption
<1>1. CASE OpenInbox(t)
  <2>1. FirstPartner(wallet[t], messages) \in Keys \union {Absent}
    BY FirstPartnerIsKey DEF DeskInv
  <2> QED
    BY <1>1, <2>1, StillKeeps DEF OpenInbox, DeskInv
<1>2. CASE KeepMarking(t)
  BY <1>2, MarkKeeps DEF KeepMarking, DeskInv
<1>3. ASSUME NEW k \in Typed, StartChat(t, k)
      PROVE  DeskKept
  BY <1>3, ResolveIsKey, StillKeeps DEF StartChat, DeskInv
<1>4. ASSUME NEW p \in Keys, OpenThread(t, p)
      PROVE  DeskKept
  BY <1>4, MarkKeeps DEF OpenThread, DeskInv
<1> QED
  BY <1>1, <1>2, <1>3, <1>4, TalkKeeps DEF Inbox

LEMMA MessageStepKeeps ==
  ASSUME DeskInv, MessageStep
  PROVE  DeskKept
<1>1. PICK t \in Tabs : \/ Write(t) \/ Inbox(t) \/ OpenAnyPage(t)
                        \/ \E p \in Wallets : FollowNotification(t, p)
                        \/ Drawer(t)
  BY DEF MessageStep
<1>2. CASE OpenAnyPage(t)
  BY <1>2, StillKeeps DEF OpenAnyPage, DeskInv
<1>3. ASSUME NEW p \in Wallets, FollowNotification(t, p)
      PROVE  DeskKept
  BY <1>3, MarkKeeps DEF FollowNotification, DeskInv, Keys
<1>4. CASE Drawer(t)
  <2>1. ASSUME NEW w \in Wallets, OpenDrawer(t, w)
        PROVE  DeskKept
    BY <2>1, StillKeeps DEF OpenDrawer, DeskInv, Keys
  <2> QED
    BY <1>4, <2>1, TalkKeeps DEF Drawer
<1> QED
  BY <1>1, <1>2, <1>3, <1>4, InboxKeeps, WriteKeeps

LEMMA ChangeWalletKeeps ==
  ASSUME DeskInv, NEW t \in Tabs, NEW w \in Wallets, ChangeWallet(t, w)
  PROVE  DeskKept
<1>1. FirstPartner(w, shown[t]) \in Keys \union {Absent}
  BY FirstPartnerIsKey DEF DeskInv
<1> QED
  BY <1>1, StillKeeps DEF ChangeWallet, DeskInv

DeskStep ==
  \/ Conversation
  \/ \E t \in Tabs : Idle(t) /\ (Disconnect(t) \/ ProfilePage(t)) /\ UNCHANGED messageVars

LEMMA DeskStepKeeps == DeskInv /\ [DeskStep]_deskVars => DeskInv' /\ DeskKept
<1> SUFFICES ASSUME DeskInv, [DeskStep]_deskVars
             PROVE  DeskInv' /\ DeskKept
  OBVIOUS
<1>1. CASE UNCHANGED deskVars
  <2>1. DeskKept
    BY <1>1, StillKeeps DEF deskVars, messageVars, DeskInv
  <2>2. HandleInv'
    BY <1>1, HandleInvInductive DEF deskVars, DeskInv
  <2> QED
    BY <1>1, <2>1, <2>2 DEF deskVars, messageVars, DeskInv, DeskKept
<1>2. ASSUME NEW t \in Tabs, NEW w \in Wallets, ChangeWallet(t, w)
      PROVE  DeskInv' /\ DeskKept
  <2>1. Connect(t, w)
    BY <1>2 DEF ChangeWallet
  <2>2. HandleInv'
    BY <2>1, HandleInvInductive DEF DeskInv, ProfileStep
  <2>3. wallet' \in [Tabs -> Wallets \union {Absent}]
    BY <2>1 DEF Connect, DeskInv
  <2> QED
    BY <1>2, <2>2, <2>3, ChangeWalletKeeps DEF DeskInv, DeskKept
<1>3. CASE MessageStep /\ UNCHANGED <<wallet, profileVars>>
  <2>1. HandleInv'
    BY <1>3, HandleInvInductive DEF DeskInv
  <2> QED
    BY <1>3, <2>1, MessageStepKeeps DEF DeskInv, DeskKept
<1>4. ASSUME NEW t \in Tabs, Disconnect(t) \/ ProfilePage(t), UNCHANGED messageVars
      PROVE  DeskInv' /\ DeskKept
  <2>1. DeskKept
    BY <1>4, StillKeeps DEF messageVars, DeskInv
  <2>2. HandleInv'
    BY <1>4, HandleInvInductive DEF DeskInv, ProfileStep
  <2>3. wallet' \in [Tabs -> Wallets \union {Absent}]
    BY <1>4 DEF DeskInv, Disconnect, ProfilePage, OpenPage, StartEditing, Save
  <2> QED
    BY <2>1, <2>2, <2>3 DEF DeskInv, DeskKept
<1> QED
  BY <1>1, <1>2, <1>3, <1>4 DEF DeskStep, Conversation

LEMMA DeskInvInitially == ProfilesInit /\ MessagesInit => DeskInv
<1> SUFFICES ASSUME ProfilesInit, MessagesInit
             PROVE  DeskInv
  OBVIOUS
<1>1. <<>> \in Mail
  <2>1. DOMAIN <<>> \subseteq 1 .. MaxMessages /\ <<>> \in [DOMAIN <<>> -> Message]
    OBVIOUS
  <2> QED
    BY <2>1, MailIs
<1>2. DOMAIN <<>> \subseteq 1 .. 0
  OBVIOUS
<1> QED
  BY <1>1, <1>2, MessageAssumption
     DEF ProfilesInit, MessagesInit, DeskInv, HandleInv, HandlesAgree, Keys, Idle

(* A message that is stored, and that no tab is about to overwrite, is     *)
(* never lost, made unread or opened again, however the writes of any      *)
(* number of tabs overlap.                                                 *)
THEOREM MessagesAreKept == DeskSpec => SettledIsKept
<1>1. DeskInv /\ [DeskStep]_deskVars =>
        [\A i \in DOMAIN messages : \A m \in Message :
           Settled(i, m) => Settled(i, m)']_deskVars
  <2>1. DeskInv => DOMAIN messages \subseteq 1 .. MaxMessages
    BY MailIs DEF DeskInv
  <2> QED
    BY <2>1, DeskStepKeeps DEF DeskKept, SettledStays
<1> QED
  BY <1>1, DeskInvInitially, DeskStepKeeps, PTL DEF DeskSpec, DeskStep, SettledIsKept

(***************************************************************************)
(* The marketplace: transactions that may land late, and listings that     *)
(* every tab rewrites.                                                     *)
(***************************************************************************)
(* Proposals that may still land or be listed. *)
Open == wire \union {sending[t] : t \in {u \in Tabs : sending[u] # NoAccount}}

SameDraft(p, q) == p.creator = q.creator /\ p.draft = q.draft

(* The deal on chain is the proposed one. *)
Matches(p) ==
  /\ deals[p.deal].creator = p.creator
  /\ deals[p.deal].creatorSide = p.draft.side
  /\ deals[p.deal].visibility = IF Public(p) THEN "Public" ELSE "Private"

MarketInv ==
  /\ deals \in [Deals -> DealAccount \union {NoAccount}]
  /\ account \in [Tabs -> Parties]
  /\ sending \in [Tabs -> Proposal \union {NoAccount}]
  /\ wire \subseteq Proposal
  /\ store \in Seq(Listing)
  /\ watched \in [Wallets -> (SUBSET Deals) \union {NoAccount}]
  /\ \A p, q \in Open : p.deal = q.deal => SameDraft(p, q)
  /\ \A p \in Open : HasDeal(p.deal) => Matches(p)
  /\ ListedWasProposed

LEMMA OpenIsTyped ==
  ASSUME MarketInv
  PROVE  Open \subseteq Proposal
BY DEF MarketInv, Open

(* Cutting and prepending. *)
LEMMA FirstIsPrefix ==
  ASSUME NEW S, NEW s \in Seq(S), NEW n \in Nat
  PROVE  /\ First(n, s) \in Seq(S)
         /\ Len(First(n, s)) = IF Len(s) < n THEN Len(s) ELSE n
         /\ \A i \in 1 .. Len(First(n, s)) : First(n, s)[i] = s[i] /\ i \in 1 .. Len(s)
         /\ \A i \in 1 .. Len(s) : i <= n => First(n, s)[i] = s[i] /\ i \in 1 .. Len(First(n, s))
<1> DEFINE m == IF Len(s) < n THEN Len(s) ELSE n
<1>1. m \in Nat /\ m <= Len(s) /\ Len(s) \in Nat
  OBVIOUS
<1>2. First(n, s) = SubSeq(s, 1, m)
  BY DEF First
<1>3. SubSeq(s, 1, m) \in Seq(S) /\ Len(SubSeq(s, 1, m)) = m
      /\ \A i \in 1 .. m : SubSeq(s, 1, m)[i] = s[i]
  BY <1>1
<1> QED
  BY <1>1, <1>2, <1>3

(* Only listings of the deal go, and the others move forward at most. *)
LEMMA WithoutKeepsOthers ==
  ASSUME NEW s \in Seq(Listing), NEW d
  PROVE  /\ Without(d, s) \in Seq(Listing)
         /\ \A i \in 1 .. Len(Without(d, s)) : \E j \in 1 .. Len(s) : Without(d, s)[i] = s[j]
         /\ \A j \in 1 .. Len(s) : s[j].deal # d =>
              \E i \in 1 .. Len(Without(d, s)) : i <= j /\ Without(d, s)[i] = s[j]
<1> DEFINE at == {i \in 1 .. Len(s) : s[i].deal = d}
<1>1. CASE at = {}
  <2>1. Without(d, s) = s
    BY <1>1 DEF Without
  <2> QED
    BY <2>1
<1>2. CASE at # {}
  <2> DEFINE k == CHOOSE i \in at : TRUE
             a == SubSeq(s, 1, k - 1)
             b == SubSeq(s, k + 1, Len(s))
  <2>1. Without(d, s) = a \o b
    BY <1>2 DEF Without, RemoveAt
  <2>2. k \in at
    BY <1>2
  <2>3. k \in 1 .. Len(s) /\ s[k].deal = d /\ Len(s) \in Nat
    BY <2>2
  <2> HIDE DEF k
  <2>4. a \in Seq(Listing) /\ Len(a) = k - 1 /\ \A i \in 1 .. k - 1 : a[i] = s[i]
    BY <2>3
  <2>5. /\ b \in Seq(Listing) /\ Len(b) = Len(s) - k
        /\ \A i \in 1 .. Len(s) - k : b[i] = s[i + k]
    BY <2>3
  <2> HIDE DEF a, b
  <2>6. /\ a \o b \in Seq(Listing) /\ Len(a \o b) = Len(s) - 1
        /\ \A i \in 1 .. Len(s) - 1 : (a \o b)[i] = IF i < k THEN s[i] ELSE s[i + 1]
    <3>1. a \o b \in Seq(Listing) /\ Len(a \o b) = Len(s) - 1
      <4>1. a \o b \in Seq(Listing) /\ Len(a \o b) = Len(a) + Len(b)
        BY <2>4, <2>5
      <4> QED
        BY <2>3, <2>4, <2>5, <4>1
    <3>2. ASSUME NEW i \in 1 .. Len(s) - 1
          PROVE  (a \o b)[i] = IF i < k THEN s[i] ELSE s[i + 1]
      <4>1. CASE i < k
        BY <2>3, <2>4, <2>5, <4>1
      <4>2. CASE ~(i < k)
        <5>1. (a \o b)[i] = b[i - (k - 1)]
          BY <2>3, <2>4, <2>5, <4>2
        <5>2. i - (k - 1) \in 1 .. Len(s) - k
          BY <2>3, <4>2
        <5> QED
          BY <2>3, <2>5, <4>2, <5>1, <5>2
      <4> QED
        BY <4>1, <4>2
    <3> QED
      BY <3>1, <3>2
  <2>7. ASSUME NEW j \in 1 .. Len(s), s[j].deal # d
        PROVE  \E i \in 1 .. Len(s) - 1 : i <= j /\ (a \o b)[i] = s[j]
    <3>1. j # k /\ j \in Int /\ k \in Int
      BY <2>3, <2>7
    <3>2. CASE j < k
      BY <2>3, <2>6, <3>2
    <3>3. CASE j > k
      <4>1. j - 1 \in 1 .. Len(s) - 1 /\ ~(j - 1 < k) /\ j - 1 <= j /\ j - 1 + 1 = j
        BY <2>3, <3>3
      <4>2. (a \o b)[j - 1] = s[j]
        BY <2>6, <4>1
      <4> QED
        BY <4>1, <4>2
    <3>4. j < k \/ j > k
      BY <3>1
    <3> QED
      BY <3>2, <3>3, <3>4
  <2>8. ASSUME NEW i \in 1 .. Len(s) - 1
        PROVE  \E j \in 1 .. Len(s) : (a \o b)[i] = s[j]
    <3>1. i \in 1 .. Len(s) /\ i + 1 \in 1 .. Len(s)
      BY <2>3
    <3> QED
      BY <2>6, <3>1
  <2> QED
    BY <2>1, <2>6, <2>7, <2>8
<1> QED
  BY <1>1, <1>2

(* What becomes of the store when a confirmed public proposal is listed.   *)
LEMMA SavedListing ==
  ASSUME MarketInv, NEW p \in Proposal
  PROVE  LET new == [deal |-> p.deal, creator |-> p.creator, side |-> p.draft.side]
         IN  /\ SaveListing(p) \in Seq(Listing)
             /\ \A i \in 1 .. Len(SaveListing(p)) :
                  SaveListing(p)[i] = new \/ \E j \in 1 .. Len(store) : SaveListing(p)[i] = store[j]
             /\ \A j \in 1 .. Len(store) : j <= ListCap /\ store[j].deal # p.deal =>
                  \E i \in 1 .. Len(SaveListing(p)) : SaveListing(p)[i] = store[j]
             /\ \E i \in 1 .. Len(SaveListing(p)) : SaveListing(p)[i] = new
<1> DEFINE new == [deal |-> p.deal, creator |-> p.creator, side |-> p.draft.side]
           rest == Without(p.deal, store)
           all == <<new>> \o rest
<1> USE MarketAssumption
<1>1. new \in Listing
  BY DEF Proposal, Listing
<1>2. store \in Seq(Listing)
  BY DEF MarketInv
<1>3. /\ rest \in Seq(Listing)
      /\ \A i \in 1 .. Len(rest) : \E j \in 1 .. Len(store) : rest[i] = store[j]
      /\ \A j \in 1 .. Len(store) : store[j].deal # p.deal =>
           \E i \in 1 .. Len(rest) : i <= j /\ rest[i] = store[j]
  BY <1>2, WithoutKeepsOthers
<1>4. SaveListing(p) = First(StoreCap, all)
  BY DEF SaveListing
<1> HIDE DEF new, rest
<1>5. /\ all \in Seq(Listing) /\ Len(all) = Len(rest) + 1 /\ all[1] = new
      /\ \A i \in 2 .. Len(rest) + 1 : all[i] = rest[i - 1]
  BY <1>1, <1>3
<1> HIDE DEF all
<1>6. /\ SaveListing(p) \in Seq(Listing)
      /\ \A i \in 1 .. Len(SaveListing(p)) : SaveListing(p)[i] = all[i] /\ i \in 1 .. Len(all)
      /\ \A i \in 1 .. Len(all) : i <= StoreCap =>
           SaveListing(p)[i] = all[i] /\ i \in 1 .. Len(SaveListing(p))
  BY <1>4, <1>5, FirstIsPrefix
<1>7. ASSUME NEW i \in 1 .. Len(SaveListing(p))
      PROVE  SaveListing(p)[i] = new \/ \E j \in 1 .. Len(store) : SaveListing(p)[i] = store[j]
  <2>1. SaveListing(p)[i] = all[i] /\ i \in 1 .. Len(rest) + 1 /\ Len(rest) \in Nat
    BY <1>3, <1>5, <1>6
  <2>2. CASE i = 1
    BY <1>5, <2>1, <2>2
  <2>3. CASE i # 1
    <3>1. i \in 2 .. Len(rest) + 1 /\ i - 1 \in 1 .. Len(rest)
      BY <2>1, <2>3
    <3> QED
      BY <1>3, <1>5, <2>1, <3>1
  <2> QED
    BY <2>2, <2>3
<1>8. ASSUME NEW j \in 1 .. Len(store), j <= ListCap, store[j].deal # p.deal
      PROVE  \E i \in 1 .. Len(SaveListing(p)) : SaveListing(p)[i] = store[j]
  <2>1. PICK i \in 1 .. Len(rest) : i <= j /\ rest[i] = store[j]
    BY <1>3, <1>8
  <2>2. Len(rest) \in Nat /\ Len(store) \in Nat
    BY <1>2, <1>3
  <2>3. /\ i + 1 \in 2 .. Len(rest) + 1 /\ i + 1 \in 1 .. Len(all) /\ i + 1 <= StoreCap
        /\ i + 1 - 1 = i
    BY <1>5, <1>8, <2>1, <2>2
  <2>4. all[i + 1] = rest[i]
    BY <1>5, <2>3
  <2> QED
    BY <1>6, <2>1, <2>3, <2>4
<1>9. \E i \in 1 .. Len(SaveListing(p)) : SaveListing(p)[i] = new
  <2>1. 1 \in 1 .. Len(all) /\ 1 <= StoreCap
    BY <1>3, <1>5
  <2> QED
    BY <1>5, <1>6, <2>1
<1> QED
  BY <1>6, <1>7, <1>8, <1>9 DEF new

(* A step that lists nothing new and leaves the chain alone.               *)
LEMMA MarketKeeps ==
  ASSUME MarketInv, deals' = deals,
         account' \in [Tabs -> Parties], sending' \in [Tabs -> Proposal \union {NoAccount}],
         wire' \subseteq Proposal, store' \in Seq(Listing),
         watched' \in [Wallets -> (SUBSET Deals) \union {NoAccount}],
         \A q \in Open' : \E p \in Open : q.deal = p.deal /\ SameDraft(p, q),
         \A i \in 1 .. Len(store') : \E j \in 1 .. Len(store) : store'[i] = store[j]
  PROVE  MarketInv'
<1>1. \A p, q \in Open' : p.deal = q.deal => SameDraft(p, q)
  BY DEF MarketInv, SameDraft
<1>2. \A q \in Open' : deals'[q.deal] # NoAccount =>
        /\ deals'[q.deal].creator = q.creator
        /\ deals'[q.deal].creatorSide = q.draft.side
        /\ deals'[q.deal].visibility = IF Public(q) THEN "Public" ELSE "Private"
  <2> SUFFICES ASSUME NEW q \in Open', deals'[q.deal] # NoAccount
               PROVE  /\ deals'[q.deal].creator = q.creator
                      /\ deals'[q.deal].creatorSide = q.draft.side
                      /\ deals'[q.deal].visibility = IF Public(q) THEN "Public" ELSE "Private"
    OBVIOUS
  <2>1. PICK p \in Open : q.deal = p.deal /\ SameDraft(p, q)
    OBVIOUS
  <2>2. HasDeal(p.deal)
    BY <2>1 DEF HasDeal
  <2>3. Matches(p)
    BY <2>2 DEF MarketInv
  <2> QED
    BY <2>1, <2>3 DEF Matches, SameDraft, Public
<1>3. ListedWasProposed'
  BY DEF MarketInv, ListedWasProposed, HasDeal
<1> QED
  BY <1>1, <1>2, <1>3 DEF MarketInv, HasDeal, Matches, SameDraft

LEMMA OpenOnlyShrinks ==
  ASSUME MarketInv, Open' \subseteq Open
  PROVE  \A q \in Open' : \E p \in Open : q.deal = p.deal /\ SameDraft(p, q)
BY DEF SameDraft

LEMMA ProposeKeeps ==
  ASSUME MarketInv, NEW t \in Tabs, NEW d \in Deals, NEW draft \in Drafts, Propose(t, d, draft)
  PROVE  MarketInv'
<1> DEFINE p == [deal |-> d, creator |-> account[t], draft |-> draft, retry |-> TRUE]
<1>1. /\ account[t] \in Wallets /\ Fresh(d) /\ sending[t] = NoAccount
      /\ sending' = [sending EXCEPT ![t] = p] /\ wire' = wire \union {p}
      /\ deals' = deals /\ account' = account /\ store' = store /\ watched' = watched
  BY DEF Propose, MarketInv, Parties, dealVars, tabVars
<1>2. p \in Proposal /\ p.deal = d
  BY <1>1 DEF Proposal
<1> HIDE DEF p
<1>3. p # NoAccount
  BY <1>2, NoAccountIsNoProposal
<1>4. \A q \in Open' : q = p \/ q \in Open
  BY <1>1 DEF Open, MarketInv
<1>5. \A q \in Open : q.deal # d
  BY <1>1, NoAccountIsNoProposal DEF Fresh, Open, MarketInv
<1>6. \A q, r \in Open' : q.deal = r.deal => SameDraft(q, r)
  BY <1>2, <1>4, <1>5 DEF MarketInv, SameDraft
<1>7. \A q \in Open' : HasDeal(q.deal) => Matches(q)
  BY <1>1, <1>2, <1>4 DEF MarketInv, Fresh
<1> QED
  BY <1>1, <1>2, <1>6, <1>7 DEF MarketInv, HasDeal, Matches, SameDraft, ListedWasProposed

(* A proposal lands on a deal the chain did not have, so every proposal of *)
(* that deal is this one, signed again or not.                             *)
LEMMA LandKeeps ==
  ASSUME MarketInv, NEW p \in wire, Land(p)
  PROVE  MarketInv'
<1> DEFINE v == [creator |-> p.creator,
                 borrower |-> IF p.draft.side = "Borrower" THEN p.creator ELSE p.draft.counterparty,
                 lender |-> IF p.draft.side = "Lender" THEN p.creator ELSE p.draft.counterparty,
                 creatorSide |-> p.draft.side,
                 visibility |-> IF Public(p) THEN "Public" ELSE "Private",
                 terms |-> p.draft.terms, state |-> "Proposed"]
<1>1. p \in Proposal /\ p \in Open
  BY DEF MarketInv, Open
<1>2. /\ p.deal \in Deals /\ p.creator \in Wallets /\ p.draft \in Drafts
  BY <1>1 DEF Proposal
<1>3. /\ p.draft.side \in {"Borrower", "Lender"} /\ p.draft.terms \in TermSheets
      /\ p.draft.counterparty \in Parties
  BY <1>2, MarketAssumption
<1>4. /\ ~HasDeal(p.deal) /\ deals' = [deals EXCEPT ![p.deal] = v]
      /\ wire' = wire \ {p}
      /\ account' = account /\ sending' = sending /\ store' = store /\ watched' = watched
  BY DEF Land, ProposeDeal, tabVars
<1>5. v \in DealAccount
  BY <1>2, <1>3 DEF DealAccount, Parties, DealState
<1>6. /\ v.creator = p.creator /\ v.creatorSide = p.draft.side
      /\ v.visibility = IF Public(p) THEN "Public" ELSE "Private"
  OBVIOUS
<1> HIDE DEF v
<1>7. /\ deals' \in [Deals -> DealAccount \union {NoAccount}]
      /\ \A d \in Deals : deals'[d] = IF d = p.deal THEN v ELSE deals[d]
  BY <1>2, <1>4, <1>5 DEF MarketInv
<1>8. Open' \subseteq Open /\ wire' \subseteq Proposal
  BY <1>4 DEF Open, MarketInv
<1>9. ASSUME NEW q \in Open', HasDeal(q.deal)'
      PROVE  Matches(q)'
  <2>1. q \in Open /\ q \in Proposal /\ q.deal \in Deals
    BY <1>8, OpenIsTyped DEF Proposal
  <2>2. CASE q.deal = p.deal
    <3>1. SameDraft(p, q)
      BY <1>1, <2>1, <2>2 DEF MarketInv
    <3> QED
      BY <1>6, <1>7, <2>1, <2>2, <3>1 DEF Matches, SameDraft, Public
  <2>3. CASE q.deal # p.deal
    <3>1. deals'[q.deal] = deals[q.deal]
      BY <1>7, <2>1, <2>3
    <3> QED
      BY <1>9, <2>1, <3>1 DEF MarketInv, HasDeal, Matches
  <2> QED
    BY <2>2, <2>3
<1>10. ListedWasProposed'
  BY <1>4, <1>7 DEF MarketInv, ListedWasProposed, HasDeal, Listing
<1>11. \A q, r \in Open' : q.deal = r.deal => SameDraft(q, r)
  BY <1>8 DEF MarketInv
<1> QED
  BY <1>4, <1>7, <1>8, <1>9, <1>10, <1>11 DEF MarketInv, SameDraft

(* Signing again sends the same proposal. *)
LEMMA SignAgainKeeps ==
  ASSUME MarketInv, NEW t \in Tabs, SignAgain(t)
  PROVE  MarketInv'
<1> DEFINE p == [sending[t] EXCEPT !.retry = FALSE]
<1>1. /\ sending[t] # NoAccount /\ sending[t] \in Proposal
      /\ sending' = [sending EXCEPT ![t] = p] /\ wire' = wire \union {p}
      /\ deals' = deals /\ account' = account /\ store' = store /\ watched' = watched
  BY DEF SignAgain, MarketInv, dealVars, tabVars
<1>2. p \in Proposal /\ p.deal = sending[t].deal /\ SameDraft(sending[t], p)
  BY <1>1 DEF Proposal, SameDraft
<1> HIDE DEF p
<1>3. sending[t] \in Open
  BY <1>1 DEF Open
<1>4. \A q \in Open' : q = p \/ q \in Open
  BY <1>1 DEF Open, MarketInv
<1>5. \A q \in Open' : \E r \in Open : q.deal = r.deal /\ SameDraft(r, q)
  BY <1>2, <1>3, <1>4 DEF SameDraft
<1>6. \A i \in 1 .. Len(store') : \E j \in 1 .. Len(store) : store'[i] = store[j]
  BY <1>1
<1>7. sending' \in [Tabs -> Proposal \union {NoAccount}] /\ wire' \subseteq Proposal
  BY <1>1, <1>2 DEF MarketInv
<1> QED
  BY <1>1, <1>5, <1>6, <1>7, MarketKeeps DEF MarketInv

(* A tab stops waiting, with or without an entry in the store. *)
LEMMA HearKeeps ==
  ASSUME MarketInv, NEW t \in Tabs, Hear(t) \/ GiveUp(t)
  PROVE  MarketInv'
<1> DEFINE p == sending[t]
<1>1. /\ p \in Proposal /\ p \in Open /\ p # NoAccount
      /\ sending' = [sending EXCEPT ![t] = NoAccount]
      /\ deals' = deals /\ account' = account /\ wire' = wire /\ watched' = watched
  BY DEF Hear, GiveUp, MarketInv, Open, dealVars, tabVars
<1>2. store' = store \/ (Hear(t) /\ Public(p) /\ HasDeal(p.deal) /\ store' = SaveListing(p))
  BY DEF Hear, GiveUp, Confirmed
<1> HIDE DEF p
<1>3. sending' \in [Tabs -> Proposal \union {NoAccount}] /\ Open' \subseteq Open
  BY <1>1 DEF MarketInv, Open
<1>4. CASE store' = store
  <2>1. \A i \in 1 .. Len(store') : \E j \in 1 .. Len(store) : store'[i] = store[j]
    BY <1>4
  <2> QED
    BY <1>1, <1>3, <1>4, <2>1, OpenOnlyShrinks, MarketKeeps DEF MarketInv
<1>5. CASE Public(p) /\ HasDeal(p.deal) /\ store' = SaveListing(p)
  <2> DEFINE new == [deal |-> p.deal, creator |-> p.creator, side |-> p.draft.side]
  <2>1. /\ store' \in Seq(Listing)
        /\ \A i \in 1 .. Len(store') : store'[i] = new \/ \E j \in 1 .. Len(store) : store'[i] = store[j]
    BY <1>1, <1>5, SavedListing
  <2>2. Matches(p)
    BY <1>1, <1>5 DEF MarketInv
  <2>3. /\ new.deal = p.deal /\ new.creator = p.creator /\ new.side = p.draft.side
    OBVIOUS
  <2> HIDE DEF new
  <2>4. ListedWasProposed'
    <3> SUFFICES ASSUME NEW i \in 1 .. Len(store')
                 PROVE  /\ deals[store'[i].deal] # NoAccount
                        /\ deals[store'[i].deal].creator = store'[i].creator
                        /\ deals[store'[i].deal].creatorSide = store'[i].side
                        /\ deals[store'[i].deal].visibility = "Public"
      BY <1>1 DEF ListedWasProposed, HasDeal
    <3>1. CASE store'[i] = new
      BY <1>5, <2>2, <2>3, <3>1 DEF Matches, HasDeal
    <3>2. ASSUME NEW j \in 1 .. Len(store), store'[i] = store[j]
          PROVE  /\ deals[store'[i].deal] # NoAccount
                 /\ deals[store'[i].deal].creator = store'[i].creator
                 /\ deals[store'[i].deal].creatorSide = store'[i].side
                 /\ deals[store'[i].deal].visibility = "Public"
      BY <3>2 DEF MarketInv, ListedWasProposed, HasDeal
    <3> QED
      BY <2>1, <3>1, <3>2
  <2>5. \A q, r \in Open' : q.deal = r.deal => SameDraft(q, r)
    BY <1>3 DEF MarketInv
  <2>6. \A q \in Open' : HasDeal(q.deal)' => Matches(q)'
    BY <1>1, <1>3 DEF MarketInv, HasDeal, Matches
  <2> QED
    BY <1>1, <1>3, <2>1, <2>4, <2>5, <2>6 DEF MarketInv, SameDraft
<1> QED
  BY <1>2, <1>4, <1>5

LEMMA ExpireKeeps ==
  ASSUME MarketInv, NEW p \in wire, Expire(p)
  PROVE  MarketInv'
<1>1. /\ wire' = wire \ {p} /\ deals' = deals /\ account' = account
      /\ sending' = sending /\ store' = store /\ watched' = watched
  BY DEF Expire, dealVars, tabVars
<1>2. Open' \subseteq Open
  BY <1>1 DEF Open
<1>3. \A i \in 1 .. Len(store') : \E j \in 1 .. Len(store) : store'[i] = store[j]
  BY <1>1
<1> QED
  BY <1>1, <1>2, <1>3, OpenOnlyShrinks, MarketKeeps DEF MarketInv

(* Whoever changes neither proposals nor the store keeps what it says. *)
LEMMA PageKeeps ==
  ASSUME MarketInv, UNCHANGED <<deals, sending, wire, store>>, account' \in [Tabs -> Parties],
         watched' \in [Wallets -> (SUBSET Deals) \union {NoAccount}]
  PROVE  MarketInv'
<1>1. Open' \subseteq Open
  BY DEF Open
<1>2. \A i \in 1 .. Len(store') : \E j \in 1 .. Len(store) : store'[i] = store[j]
  OBVIOUS
<1> QED
  BY <1>1, <1>2, OpenOnlyShrinks, MarketKeeps DEF MarketInv

(* A load writes back the front of the store. *)
LEMMA EndLoadCuts ==
  ASSUME MarketInv, NEW t \in Tabs, EndLoad(t)
  PROVE  /\ store' \in Seq(Listing)
         /\ \A i \in 1 .. Len(store') : \E j \in 1 .. Len(store) : store'[i] = store[j]
         /\ \A j \in 1 .. Len(store) : j <= ListCap =>
              \E i \in 1 .. Len(store') : store'[i] = store[j]
<1> DEFINE cut == First(ListCap, store)
<1> USE MarketAssumption
<1>1. store \in Seq(Listing) /\ store' = First(StoreCap, cut)
  BY DEF EndLoad, Merged, MarketInv
<1>2. /\ cut \in Seq(Listing)
      /\ \A i \in 1 .. Len(cut) : cut[i] = store[i] /\ i \in 1 .. Len(store)
      /\ \A i \in 1 .. Len(store) : i <= ListCap => cut[i] = store[i] /\ i \in 1 .. Len(cut)
  BY <1>1, FirstIsPrefix
<1> HIDE DEF cut
<1>3. /\ store' \in Seq(Listing)
      /\ \A i \in 1 .. Len(store') : store'[i] = cut[i] /\ i \in 1 .. Len(cut)
      /\ \A i \in 1 .. Len(cut) : i <= StoreCap => store'[i] = cut[i] /\ i \in 1 .. Len(store')
  BY <1>1, <1>2, FirstIsPrefix
<1>4. \A i \in 1 .. Len(store') : store'[i] = store[i] /\ i \in 1 .. Len(store)
  BY <1>2, <1>3
<1>5. ASSUME NEW j \in 1 .. Len(store), j <= ListCap
      PROVE  store'[j] = store[j] /\ j \in 1 .. Len(store')
  BY <1>2, <1>3, <1>5
<1> QED
  BY <1>3, <1>4, <1>5

LEMMA EndLoadKeeps ==
  ASSUME MarketInv, NEW t \in Tabs, EndLoad(t)
  PROVE  MarketInv'
<1>1. UNCHANGED <<deals, sending, wire, account, watched>>
  BY DEF EndLoad, dealVars
<1>2. Open' \subseteq Open
  BY <1>1 DEF Open
<1> QED
  BY <1>1, <1>2, EndLoadCuts, OpenOnlyShrinks, MarketKeeps DEF MarketInv

(* A press changes the stored list of the connected wallet by one deal.    *)
LEMMA PressChangesOne ==
  ASSUME MarketInv, NEW t \in Tabs, NEW d \in Deals, ToggleWatch(t, d) \/ Unwatch(t, d)
  PROVE  /\ account[t] \in Wallets /\ UNCHANGED <<deals, sending, wire, store, account>>
         /\ WithPress(t, d) \in SUBSET Deals
         /\ watched' = [watched EXCEPT ![account[t]] = WithPress(t, d)]
         /\ WithPress(t, d) \ {d} = WatchedBy(account[t]) \ {d}
<1>1. /\ account[t] \in Wallets /\ UNCHANGED <<deals, sending, wire, store, account>>
      /\ watched' = [watched EXCEPT ![account[t]] = WithPress(t, d)]
  BY DEF ToggleWatch, Unwatch, MarketInv, Parties, dealVars
<1>2. WatchedBy(account[t]) \in SUBSET Deals
  BY <1>1 DEF WatchedBy, MarketInv
<1> QED
  BY <1>1, <1>2 DEF WithPress

LEMMA PressKeeps ==
  ASSUME MarketInv, NEW t \in Tabs, NEW d \in Deals, ToggleWatch(t, d) \/ Unwatch(t, d)
  PROVE  MarketInv'
<1>1. /\ account[t] \in Wallets /\ UNCHANGED <<deals, sending, wire, store, account>>
      /\ WithPress(t, d) \in SUBSET Deals
      /\ watched' = [watched EXCEPT ![account[t]] = WithPress(t, d)]
  BY PressChangesOne
<1>2. watched' \in [Wallets -> (SUBSET Deals) \union {NoAccount}]
  BY <1>1 DEF MarketInv
<1> QED
  BY <1>1, <1>2, PageKeeps DEF MarketInv

(* Which steps write the store, and which the watched deals.               *)
LEMMA MarketSteps ==
  ASSUME MarketInv, [MarketNext]_marketVars
  PROVE  /\ \/ UNCHANGED <<store, watched>>
            \/ (\E t \in Tabs : Hear(t) \/ EndLoad(t)) /\ UNCHANGED watched
            \/ (\E t \in Tabs, d \in Deals : ToggleWatch(t, d) \/ Unwatch(t, d)) /\ UNCHANGED store
         /\ MarketInv'
<1>1. CASE UNCHANGED marketVars
  BY <1>1, PageKeeps DEF marketVars, dealVars, tabVars, MarketInv
<1>2. ASSUME NEW p \in wire, Land(p) \/ Expire(p)
      PROVE  UNCHANGED <<store, watched>> /\ MarketInv'
  BY <1>2, LandKeeps, ExpireKeeps DEF Land, Expire
<1>3. ASSUME NEW t \in Tabs, NEW d \in Deals, NEW draft \in Drafts, Propose(t, d, draft)
      PROVE  UNCHANGED <<store, watched>> /\ MarketInv'
  BY <1>3, ProposeKeeps DEF Propose
<1>4. ASSUME NEW t \in Tabs, SignAgain(t) \/ GiveUp(t)
      PROVE  UNCHANGED <<store, watched>> /\ MarketInv'
  BY <1>4, SignAgainKeeps, HearKeeps DEF SignAgain, GiveUp
<1>5. ASSUME NEW t \in Tabs, Hear(t) \/ EndLoad(t)
      PROVE  UNCHANGED watched /\ MarketInv'
  BY <1>5, HearKeeps, EndLoadKeeps DEF Hear, EndLoad
<1>6. ASSUME NEW t \in Tabs, NEW where \in Pages, GoTo(t, where)
      PROVE  UNCHANGED <<store, watched>> /\ MarketInv'
  BY <1>6, PageKeeps DEF GoTo, dealVars, MarketInv
<1>7. ASSUME NEW t \in Tabs, NEW w \in Parties, ChangeAccount(t, w)
      PROVE  UNCHANGED <<store, watched>> /\ MarketInv'
  BY <1>7, PageKeeps DEF ChangeAccount, dealVars, MarketInv
<1>8. ASSUME NEW t \in Tabs, Poll(t)
      PROVE  UNCHANGED <<store, watched>> /\ MarketInv'
  BY <1>8, PageKeeps DEF Poll, dealVars, MarketInv
<1>9. ASSUME NEW t \in Tabs, NEW d \in Deals, ToggleWatch(t, d) \/ Unwatch(t, d)
      PROVE  UNCHANGED store /\ MarketInv'
  BY <1>9, PressChangesOne, PressKeeps
<1> QED
  BY <1>1, <1>2, <1>3, <1>4, <1>5, <1>6, <1>7, <1>8, <1>9
     DEF MarketNext, Listings, Failures, Watches, marketVars

LEMMA MarketInvInitially == MarketInit => MarketInv
<1> SUFFICES ASSUME MarketInit
             PROVE  MarketInv
  OBVIOUS
<1>1. Open = {} /\ store = <<>>
  BY DEF MarketInit, Open
<1> QED
  BY <1>1 DEF MarketInit, DealInit, MarketInv, ListedWasProposed, Parties

(* What is listed was proposed on chain, publicly, by the wallet and on    *)
(* the side the listing names, whatever became of the proposal meanwhile.  *)
THEOREM ListingsAreBacked == MarketSpec => []ListedWasProposed
<1>1. MarketInv => ListedWasProposed
  BY DEF MarketInv
<1>2. MarketInv /\ [MarketNext]_marketVars => MarketInv'
  BY MarketSteps
<1> QED
  BY <1>1, <1>2, MarketInvInitially, PTL DEF MarketSpec

(* A listing leaves the store only from behind a full page of newer ones:  *)
(* the store is longer than a page, and listing a deal again changes       *)
(* nothing of it.                                                          *)
THEOREM ListingsAreKept == MarketSpec => DroppedOnlyWhenFull
<1> DEFINE Drops == \A i \in 1 .. Len(store) :
                      store[i] \notin {store'[j] : j \in 1 .. Len(store')} => i > ListCap
<1>1. ASSUME MarketInv, [MarketNext]_marketVars
      PROVE  Drops
  <2> USE MarketAssumption
  <2>1. SUFFICES ASSUME NEW i \in 1 .. Len(store), ~(i > ListCap)
                 PROVE  \E j \in 1 .. Len(store') : store'[j] = store[i]
    OBVIOUS
  <2>2. i <= ListCap
    BY <1>1, <2>1 DEF MarketInv
  <2>3. CASE store' = store
    BY <2>3
  <2>4. ASSUME NEW t \in Tabs, EndLoad(t)
        PROVE  \E j \in 1 .. Len(store') : store'[j] = store[i]
    BY <1>1, <2>2, <2>4, EndLoadCuts
  <2>5. ASSUME NEW t \in Tabs, Hear(t)
        PROVE  \E j \in 1 .. Len(store') : store'[j] = store[i]
    <3> DEFINE p == sending[t]
               new == [deal |-> p.deal, creator |-> p.creator, side |-> p.draft.side]
    <3>1. /\ p \in Proposal /\ p \in Open /\ HasDeal(p.deal)
          /\ store' = store \/ store' = SaveListing(p)
      BY <1>1, <2>5 DEF Hear, Confirmed, MarketInv, Open
    <3> HIDE DEF p
    <3>2. CASE store' = SaveListing(p)
      <4>1. CASE store[i].deal # p.deal
        BY <1>1, <2>2, <3>1, <3>2, <4>1, SavedListing
      <4>2. CASE store[i].deal = p.deal
        <5>1. Matches(p)
          BY <1>1, <3>1 DEF MarketInv
        <5>2. store[i] \in Listing
          BY <1>1 DEF MarketInv
        <5>3. store[i].creator = p.creator /\ store[i].side = p.draft.side
          BY <1>1, <4>2, <5>1 DEF MarketInv, ListedWasProposed, Matches
        <5>4. store[i] = new
          BY <4>2, <5>2, <5>3 DEF Listing
        <5> QED
          BY <1>1, <3>1, <3>2, <5>4, SavedListing
      <4> QED
        BY <4>1, <4>2
    <3> QED
      BY <2>3, <3>1, <3>2
  <2> QED
    BY <1>1, <2>3, <2>4, <2>5, MarketSteps
<1>2. MarketInv /\ [MarketNext]_marketVars => MarketInv' /\ [Drops]_marketVars
  BY <1>1, MarketSteps
<1> QED
  BY <1>2, MarketInvInitially, PTL DEF MarketSpec, DroppedOnlyWhenFull

(* One press changes one deal of one wallet, one that some tab has         *)
(* connected, however old the marks on its screen are.                     *)
THEOREM PressesAreLocal == MarketSpec => OnePressOneDeal
<1> DEFINE Local ==
      \A w \in Wallets : WatchedBy(w)' # WatchedBy(w) =>
        /\ \E t \in Tabs : account[t] = w
        /\ \E d \in Deals : WatchedBy(w)' \ {d} = WatchedBy(w) \ {d}
        /\ \A v \in Wallets \ {w} : WatchedBy(v)' = WatchedBy(v)
<1>1. ASSUME MarketInv, [MarketNext]_marketVars
      PROVE  Local
  <2>1. CASE watched' = watched
    BY <2>1 DEF WatchedBy
  <2>2. ASSUME NEW t \in Tabs, NEW d \in Deals, ToggleWatch(t, d) \/ Unwatch(t, d)
        PROVE  Local
    <3>1. PICK w \in Wallets : w = account[t]
      BY <1>1, <2>2, PressChangesOne
    <3>2. /\ WithPress(t, d) \in SUBSET Deals
          /\ watched' = [watched EXCEPT ![w] = WithPress(t, d)]
          /\ WithPress(t, d) \ {d} = WatchedBy(w) \ {d}
      BY <1>1, <2>2, <3>1, PressChangesOne
    <3>3. /\ \A v \in Wallets \ {w} : watched'[v] = watched[v]
          /\ watched'[w] = WithPress(t, d)
      BY <1>1, <3>2 DEF MarketInv
    <3>4. w # Default /\ WithPress(t, d) # NoAccount
      BY <3>2, BaseAssumption, NoAccountIsNoProposal
    <3>5. WatchedBy(w)' = WithPress(t, d)
      BY <3>3, <3>4 DEF WatchedBy
    <3>6. \A v \in Wallets \ {w} : WatchedBy(v)' = WatchedBy(v)
      BY <3>3 DEF WatchedBy
    <3> QED
      BY <3>1, <3>2, <3>5, <3>6
  <2> QED
    BY <1>1, <2>1, <2>2, MarketSteps
<1>2. MarketInv /\ [MarketNext]_marketVars => MarketInv' /\ [Local]_marketVars
  BY <1>1, MarketSteps
<1> QED
  BY <1>2, MarketInvInitially, PTL DEF MarketSpec, OnePressOneDeal
=============================================================================
