---------------------------- MODULE SessionStore ----------------------------
(***************************************************************************)
(* Challenges and sessions of the backend: rows of a database that may     *)
(* fail at any await, with maps in the memory of the process behind it.    *)
(* Each handler is split where it awaits; other handlers, expiry and       *)
(* restarts happen in between.  A row whose insert took effect although    *)
(* the driver reported an error is left out: nobody learns its id.         *)
(***************************************************************************)
EXTENDS ApiCalls

CONSTANTS Wallets, Challenges, Tokens

VARIABLES
  challenges,   \* challenge |-> Nothing or wallet, store and state
  sessions,     \* token |-> Nothing or wallet, challenge, store and state
  signed        \* history: which wallet signed the message of which challenge

storeVars == <<challenges, sessions, signed>>

Stores == {"database", "memory"}

Challenge == [wallet : Wallets, store : Stores,
              state : {"live", "used", "gone"}]

Session == [wallet : Wallets, challenge : Challenges, store : Stores,
            state : {"live", "revoked", "gone"}]

ASSUME NothingIsNoRow == Nothing \notin Challenge \union Session

StoreInit ==
  /\ challenges = [c \in Challenges |-> Nothing]
  /\ sessions = [t \in Tokens |-> Nothing]
  /\ signed = {}

StoreTypeOK ==
  /\ challenges \in [Challenges -> Challenge \union {Nothing}]
  /\ sessions \in [Tokens -> Session \union {Nothing}]
  /\ signed \subseteq Wallets \X Challenges

Live(row, store) == row # Nothing /\ row.store = store /\ row.state = "live"

(* The insert into the table, or into the map when the table is not there. *)
IssueChallenge(c, w) ==
  /\ challenges[c] = Nothing
  /\ \E s \in Stores :
       challenges' = [challenges EXCEPT ![c] = [wallet |-> w, store |-> s, state |-> "live"]]
  /\ UNCHANGED <<sessions, signed>>

SignatureMatchesMutant(h) == TRUE

(* The signature is the signer's, over the message of this challenge.      *)
SignatureMatches(h) ==
  LET r == handlers[h].request
  IN  challenges[r.challenge].wallet = r.signer

Use(c) == challenges' = [challenges EXCEPT ![c].state = "used"]

(* The new session and the answer; the wallet the client names must be the *)
(* wallet of the challenge.                                                *)
OpenSession(h, store) ==
  LET r == handlers[h].request
      w == challenges[r.challenge].wallet
  IN  \E t \in Tokens :
        /\ sessions[t] = Nothing
        /\ sessions' = [sessions EXCEPT ![t] =
             [wallet |-> w, challenge |-> r.challenge, store |-> store, state |-> "live"]]
        /\ Finish(h, IF r.wallet = w THEN [token |-> t, wallet |-> w] ELSE Nothing)
        /\ UNCHANGED signed

(* The memory path has no await: it is one step.                           *)
VerifyInMemory(h) ==
  LET c == handlers[h].request.challenge
  IN  \/ /\ Live(challenges[c], "memory") /\ SignatureMatches(h)
         /\ Use(c) /\ OpenSession(h, "memory")
      \/ /\ ~(Live(challenges[c], "memory") /\ SignatureMatches(h))
         /\ Finish(h, Nothing) /\ UNCHANGED storeVars

SelectChallenge(h) ==
  LET c == handlers[h].request.challenge
      accepted == Live(challenges[c], "database") /\ SignatureMatches(h)
  IN  /\ At(h, "verify", "start")
      /\ \/ accepted /\ Goto(h, "mark") /\ UNCHANGED storeVars
         \/ ~accepted /\ Finish(h, Nothing) /\ UNCHANGED storeVars
         \/ VerifyInMemory(h)

MarkUsed(h) ==
  /\ At(h, "verify", "mark")
  /\ \/ /\ Use(handlers[h].request.challenge)
        /\ Goto(h, "insert")
        /\ UNCHANGED <<sessions, signed>>
     \/ VerifyInMemory(h)

InsertSession(h) ==
  /\ At(h, "verify", "insert")
  /\ \/ OpenSession(h, "database") /\ UNCHANGED challenges
     \/ VerifyInMemory(h)

(* lookupSessionWallet finds an unrevoked, unexpired row in this store.    *)
LookupFinds(t, store) == t # Nothing /\ Live(sessions[t], store)

(* A failed database update is swallowed: only the map is then changed.    *)
Revoke(t) ==
  \E reached \in SUBSET Stores :
    /\ "memory" \in reached
    /\ sessions' = [sessions EXCEPT ![t] =
         IF @ # Nothing /\ @.state = "live" /\ @.store \in reached
         THEN [@ EXCEPT !.state = "revoked"] ELSE @]
    /\ UNCHANGED <<challenges, signed>>

ExpireChallenge(c) ==
  /\ challenges[c] # Nothing /\ challenges[c].state = "live"
  /\ challenges' = [challenges EXCEPT ![c].state = "gone"]
  /\ UNCHANGED <<sessions, signed>>

ExpireSession(t) ==
  /\ sessions[t] # Nothing /\ sessions[t].state = "live"
  /\ sessions' = [sessions EXCEPT ![t].state = "gone"]
  /\ UNCHANGED <<challenges, signed>>

Forgotten(row) ==
  IF row # Nothing /\ row.store = "memory" THEN [row EXCEPT !.state = "gone"] ELSE row

(* The maps are local to the process: a restart loses them.                *)
RestartServer(hs) ==
  /\ Crash(hs)
  /\ challenges' = [c \in Challenges |-> Forgotten(challenges[c])]
  /\ sessions' = [t \in Tokens |-> Forgotten(sessions[t])]
  /\ UNCHANGED signed

VerifyStep(h) == SelectChallenge(h) \/ MarkUsed(h) \/ InsertSession(h)
=============================================================================
