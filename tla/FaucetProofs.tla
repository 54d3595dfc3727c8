---------------------------- MODULE FaucetProofs ----------------------------
(***************************************************************************)
(* Proofs about the faucet, for any number of tabs, wallets and requests   *)
(* inside the server: whom the treasury served is cooling down unless the  *)
(* database failed, and for a pack that is announced a transaction was     *)
(* confirmed.                                                              *)
(***************************************************************************)
EXTENDS Faucet, TLAPS

(***************************************************************************)
(* The inductive invariant.                                                *)
(***************************************************************************)
(* At most one attempt of a call has somebody listening, and it is for the *)
(* request the caller waits for.                                           *)
Attended ==
  /\ \A h \in Handlers : handlers[h] # Nothing /\ handlers[h].by # Nothing =>
       /\ Status(handlers[h].by, "waiting")
       /\ calls[handlers[h].by].request = handlers[h].request
  /\ \A g, h \in Handlers :
       /\ handlers[g] # Nothing /\ handlers[h] # Nothing
       /\ handlers[g].by = handlers[h].by /\ handlers[g].by # Nothing
       => g = h

(* Who is about to dispense has recorded the claim, or failed to.          *)
DispensingCools ==
  \A h \in Handlers : handlers[h] # Nothing /\ handlers[h].step = "dispense" =>
    Key(h) \in cooling \union failed

(* What a flow has heard, remembers or shows of a pack, it got; and it has *)
(* a wallet.                                                               *)
GoodPanel(p) ==
  /\ p.heard = "server_dispense" \/ p.auto \/ p.sent => p.got
  /\ p.step = "idle" => p.heard = Nothing /\ ~p.auto
  /\ p.step # "idle" => p.wallet \in Wallets

(* A call is asked by a flow, for its wallet, and reports what the flow got. *)
Asked(c) ==
  /\ panels[c].step \in {"auto", "claim", "localClaim"}
  /\ calls[c].request.wallet = panels[c].wallet
  /\ calls[c].status = "answered" /\ calls[c].answer = "server_dispense" => panels[c].got

CallsInv ==
  /\ calls \in [Callers -> CallRecord \union {Nothing}]
  /\ handlers \in [Handlers -> HandlerRecord \union {Nothing}]
  /\ Attended

FaucetInv ==
  /\ FaucetTypeOK /\ Attended
  /\ DispensingCools /\ ServedIsCooling
  /\ \A c \in Callers : GoodPanel(panels[c])
  /\ \A c \in Callers : calls[c] # Nothing => Asked(c)

(* The calls that are left were there, for the same request, and are not   *)
(* answered anew.                                                          *)
OnlyRetried ==
  \A c \in Callers : calls'[c] # Nothing =>
    /\ calls[c] # Nothing /\ calls'[c].request = calls[c].request
    /\ calls'[c].status = "answered" => calls'[c] = calls[c]

(* Nobody new dispenses. *)
OnlyOlder ==
  \A h \in Handlers : handlers'[h] # Nothing /\ handlers'[h].step = "dispense" =>
    /\ handlers[h] # Nothing /\ handlers[h].step = "dispense"
    /\ handlers'[h].request = handlers[h].request

(***************************************************************************)
(* Calls and handlers.                                                     *)
(***************************************************************************)
LEMMA FaucetInvCalls == FaucetInv => CallsInv
BY DEF FaucetInv, CallsInv, FaucetTypeOK

LEMMA FailureIsRetry ==
  ASSUME NEW v \in CallRecord
  PROVE  /\ AfterFailure(v) \in CallRecord \union {Nothing}
         /\ AfterFailure(v) # Nothing =>
              AfterFailure(v).request = v.request /\ AfterFailure(v).status = "sending"
<1>1. CASE v.left > 0
  <2> DEFINE w == [v EXCEPT !.left = @ - 1, !.status = "sending"]
  <2>1. AfterFailure(v) = w
    BY <1>1 DEF AfterFailure
  <2>2. v.left - 1 \in 0..MaxRetries
    BY <1>1, CallAssumption DEF CallRecord
  <2> QED
    BY <2>1, <2>2 DEF CallRecord
<1>2. CASE ~(v.left > 0)
  BY <1>2 DEF AfterFailure
<1> QED
  BY <1>1, <1>2

LEMMA HandlerFacts ==
  ASSUME CallsInv, NEW h \in Handlers, handlers[h] # Nothing
  PROVE  /\ handlers[h] \in HandlerRecord
         /\ handlers[h].by \in Callers \union {Nothing}
         /\ handlers[h].by # Nothing =>
              /\ handlers[h].by \in Callers
              /\ calls[handlers[h].by] # Nothing
              /\ calls[handlers[h].by].status = "waiting"
              /\ calls[handlers[h].by].request = handlers[h].request
<1>1. handlers[h] \in HandlerRecord
  BY DEF CallsInv
<1> QED
  BY <1>1 DEF CallsInv, Attended, Status, HandlerRecord

(* Whoever is still attended was, by the same caller, whose call is as it  *)
(* was.                                                                    *)
LEMMA AttendedStays ==
  ASSUME CallsInv,
         \A h \in Handlers : handlers'[h] # Nothing /\ handlers'[h].by # Nothing =>
           /\ handlers[h] # Nothing /\ handlers[h].by = handlers'[h].by
           /\ handlers[h].request = handlers'[h].request
           /\ calls'[handlers[h].by] = calls[handlers[h].by]
  PROVE  Attended'
BY DEF CallsInv, Attended, Status

LEMMA CallKeeps ==
  ASSUME CallsInv, NEW c \in Callers, NEW q \in FaucetRequest, Call(c, q)
  PROVE  /\ CallsInv' /\ handlers' = handlers /\ calls[c] = Nothing
         /\ \A d \in Callers \ {c} : calls'[d] = calls[d]
         /\ calls'[c].request = q /\ calls'[c].status = "sending"
<1> DEFINE v == [request |-> q, left |-> MaxRetries, status |-> "sending", answer |-> Nothing]
<1>1. calls[c] = Nothing /\ calls' = [calls EXCEPT ![c] = v] /\ handlers' = handlers
  BY DEF Call
<1>2. v \in CallRecord /\ v.request = q /\ v.status = "sending"
  BY CallAssumption DEF CallRecord
<1> HIDE DEF v
<1>3. calls' \in [Callers -> CallRecord \union {Nothing}]
  BY <1>1, <1>2 DEF CallsInv
<1>4. \A h \in Handlers : handlers[h] # Nothing => handlers[h].by # c
  BY <1>1, HandlerFacts, CallAssumption
<1>5. Attended'
  BY <1>1, <1>4, HandlerFacts, AttendedStays DEF CallsInv
<1> QED
  BY <1>1, <1>2, <1>3, <1>5 DEF CallsInv

LEMMA SendKeeps ==
  ASSUME CallsInv, NEW c \in Callers, Send(c)
  PROVE  CallsInv' /\ OnlyRetried /\ OnlyOlder
<1>1. PICK h \in Handlers :
        /\ handlers[h] = Nothing
        /\ handlers' = [handlers EXCEPT ![h] =
             [request |-> calls[c].request, by |-> c, step |-> "start", wallet |-> Nothing]]
  BY DEF Send
<1> DEFINE n == [request |-> calls[c].request, by |-> c, step |-> "start", wallet |-> Nothing]
           v == [calls[c] EXCEPT !.status = "waiting"]
<1>2. calls[c] # Nothing /\ calls[c].status = "sending" /\ calls' = [calls EXCEPT ![c] = v]
  BY DEF Send, Status, CallsInv
<1>3. calls[c] \in CallRecord
  BY <1>2 DEF CallsInv
<1>4. v \in CallRecord /\ v.request = calls[c].request /\ v.status = "waiting"
  BY <1>3 DEF CallRecord
<1>5. n \in HandlerRecord /\ n.request = calls[c].request /\ n.by = c /\ n.step = "start"
  BY <1>3 DEF CallRecord, HandlerRecord
<1>6. handlers' = [handlers EXCEPT ![h] = n]
  BY <1>1
<1> HIDE DEF n, v
<1>7. /\ calls' \in [Callers -> CallRecord \union {Nothing}]
      /\ handlers' \in [Handlers -> HandlerRecord \union {Nothing}]
      /\ \A d \in Callers : calls'[d] = IF d = c THEN v ELSE calls[d]
      /\ \A g \in Handlers : handlers'[g] = IF g = h THEN n ELSE handlers[g]
  BY <1>2, <1>4, <1>5, <1>6 DEF CallsInv
<1>8. ASSUME NEW g \in Handlers, g # h, handlers[g] # Nothing, handlers[g].by # Nothing
      PROVE  handlers[g].by # c /\ handlers[g].by \in Callers
  BY <1>2, <1>8, HandlerFacts
<1>9. v # Nothing
  BY <1>4, FaucetAssumption
<1>10. Attended'
  BY <1>4, <1>5, <1>7, <1>8, <1>9 DEF CallsInv, Attended, Status
<1>11. OnlyRetried /\ OnlyOlder
  BY <1>2, <1>4, <1>5, <1>7 DEF OnlyRetried, OnlyOlder
<1> QED
  BY <1>7, <1>10, <1>11 DEF CallsInv

(* A call ends or goes to its next attempt, and nobody listens any more.   *)
LEMMA AbandonKeeps ==
  ASSUME CallsInv, NEW c \in Callers, NEW v \in CallRecord \union {Nothing},
         calls' = [calls EXCEPT ![c] = v], handlers' = Abandoned(c)
  PROVE  CallsInv' /\ OnlyOlder
<1>1. \A d \in Callers : calls'[d] = IF d = c THEN v ELSE calls[d]
  BY DEF CallsInv
<1>2. ASSUME NEW h \in Handlers
      PROVE  handlers'[h] = IF handlers[h] # Nothing /\ handlers[h].by = c
                            THEN [handlers[h] EXCEPT !.by = Nothing] ELSE handlers[h]
  BY DEF Abandoned, Listening
<1>3. ASSUME NEW h \in Handlers, handlers[h] # Nothing
      PROVE  LET n == [handlers[h] EXCEPT !.by = Nothing]
             IN  /\ n \in HandlerRecord /\ n.request = handlers[h].request
                 /\ n.step = handlers[h].step /\ n.by = Nothing
  BY <1>3, HandlerFacts DEF HandlerRecord
<1>4. ASSUME NEW h \in Handlers
      PROVE  handlers'[h] \in HandlerRecord \union {Nothing}
  BY <1>2, <1>3 DEF CallsInv
<1>5. handlers' = [h \in Handlers |-> handlers'[h]]
  BY DEF Abandoned
<1>6. ASSUME NEW h \in Handlers, handlers'[h] # Nothing, handlers'[h].by # Nothing
      PROVE  /\ handlers[h] # Nothing /\ handlers'[h] = handlers[h]
             /\ calls'[handlers[h].by] = calls[handlers[h].by]
  <2>1. ~(handlers[h] # Nothing /\ handlers[h].by = c)
    BY <1>2, <1>3, <1>6
  <2>2. handlers'[h] = handlers[h]
    BY <1>2, <2>1
  <2> QED
    BY <1>1, <1>6, <2>1, <2>2, HandlerFacts
<1>7. Attended'
  BY <1>6, AttendedStays
<1>8. OnlyOlder
  BY <1>2, <1>3 DEF OnlyOlder
<1>9. calls' \in [Callers -> CallRecord \union {Nothing}]
  BY DEF CallsInv
<1>10. handlers' \in [Handlers -> HandlerRecord \union {Nothing}]
  BY <1>4, <1>5
<1> QED
  BY <1>7, <1>8, <1>9, <1>10 DEF CallsInv

LEMMA TimeOutKeeps ==
  ASSUME CallsInv, NEW c \in Callers, TimeOut(c)
  PROVE  CallsInv' /\ OnlyRetried /\ OnlyOlder
<1>1. calls[c] # Nothing /\ calls' = [calls EXCEPT ![c] = AfterFailure(calls[c])]
      /\ handlers' = Abandoned(c)
  BY DEF TimeOut, Status, CallsInv
<1>2. calls[c] \in CallRecord
  BY <1>1 DEF CallsInv
<1>3. OnlyRetried
  BY <1>1, <1>2, FailureIsRetry DEF OnlyRetried, CallsInv
<1> QED
  BY <1>1, <1>2, <1>3, FailureIsRetry, AbandonKeeps

(* Nobody works for a call that was answered. *)
LEMMA DoneKeeps ==
  ASSUME CallsInv, NEW c \in Callers, Status(c, "answered"), calls' = Done(c),
         handlers' = handlers
  PROVE  CallsInv' /\ OnlyRetried /\ calls'[c] = Nothing
<1>1. \A h \in Handlers : handlers[h] # Nothing => handlers[h].by # c
  BY HandlerFacts, CallAssumption DEF Status
<1>2. handlers' = Abandoned(c)
  <2>1. handlers = [h \in Handlers |-> handlers[h]]
    BY DEF CallsInv
  <2>2. Listening(c) = {}
    BY <1>1 DEF Listening
  <2> QED
    BY <2>1, <2>2 DEF Abandoned
<1>3. calls' = [calls EXCEPT ![c] = Nothing]
  BY DEF Done
<1>4. OnlyRetried /\ calls'[c] = Nothing
  BY <1>3 DEF OnlyRetried, CallsInv
<1> QED
  BY <1>2, <1>3, <1>4, AbandonKeeps

(* A handler ends; only who listens to it hears its answer.                *)
LEMMA FinishKeeps ==
  ASSUME CallsInv, NEW h \in Handlers, handlers[h] # Nothing,
         NEW answer \in Dispense \union {Nothing}, Finish(h, answer)
  PROVE  /\ CallsInv' /\ OnlyOlder
         /\ \A d \in Callers : calls'[d] # Nothing =>
              /\ calls[d] # Nothing /\ calls'[d].request = calls[d].request
              /\ calls'[d].status = "answered" =>
                   \/ calls'[d] = calls[d]
                   \/ calls'[d].answer = answer /\ calls[d].request = handlers[h].request
<1> DEFINE c == handlers[h].by
<1>1. /\ c \in Callers \union {Nothing}
      /\ c # Nothing => /\ c \in Callers /\ calls[c] # Nothing
                        /\ calls[c].request = handlers[h].request
  BY HandlerFacts
<1>2. /\ handlers' = [handlers EXCEPT ![h] = Nothing]
      /\ calls' = IF c = Nothing THEN calls
                  ELSE [calls EXCEPT ![c] =
                          IF answer = Nothing THEN AfterFailure(calls[c])
                          ELSE [calls[c] EXCEPT !.status = "answered", !.answer = answer]]
  BY <1>1 DEF Finish, CallsInv
<1> HIDE DEF c
<1>3. ASSUME c # Nothing
      PROVE  \E v \in CallRecord \union {Nothing} :
               /\ v # Nothing => /\ v.request = calls[c].request
                                 /\ v.status = "answered" => v.answer = answer
               /\ calls' = [calls EXCEPT ![c] = v]
  <2>1. calls[c] \in CallRecord
    BY <1>1, <1>3 DEF CallsInv
  <2>2. CASE answer = Nothing
    BY <1>2, <1>3, <2>1, <2>2, FailureIsRetry
  <2>3. CASE answer # Nothing
    <3> DEFINE v == [calls[c] EXCEPT !.status = "answered", !.answer = answer]
    <3>1. /\ v \in CallRecord /\ v.request = calls[c].request /\ v.answer = answer
      BY <2>1, <2>3 DEF CallRecord
    <3>2. calls' = [calls EXCEPT ![c] = v]
      BY <1>2, <1>3, <2>3
    <3> HIDE DEF v
    <3> QED
      BY <3>1, <3>2
  <2> QED
    BY <2>2, <2>3
<1>4. /\ calls' \in [Callers -> CallRecord \union {Nothing}]
      /\ \A d \in Callers : d # c => calls'[d] = calls[d]
      /\ c # Nothing /\ calls'[c] # Nothing =>
           /\ calls'[c].request = calls[c].request
           /\ calls'[c].status = "answered" => calls'[c].answer = answer
  <2>1. CASE c = Nothing
    BY <1>2, <2>1 DEF CallsInv
  <2>2. CASE c # Nothing
    <3>1. PICK v \in CallRecord \union {Nothing} :
            /\ v # Nothing => /\ v.request = calls[c].request
                              /\ v.status = "answered" => v.answer = answer
            /\ calls' = [calls EXCEPT ![c] = v]
      BY <1>3, <2>2
    <3>2. \A d \in Callers : calls'[d] = IF d = c THEN v ELSE calls[d]
      BY <3>1 DEF CallsInv
    <3>3. calls' \in [Callers -> CallRecord \union {Nothing}]
      BY <3>1 DEF CallsInv
    <3> QED
      BY <1>1, <2>2, <3>1, <3>2, <3>3
  <2> QED
    BY <2>1, <2>2
<1>5. \A g \in Handlers : handlers'[g] = IF g = h THEN Nothing ELSE handlers[g]
  BY <1>2 DEF CallsInv
<1>6. handlers' \in [Handlers -> HandlerRecord \union {Nothing}]
  BY <1>2 DEF CallsInv
<1>7. ASSUME NEW g \in Handlers, handlers'[g] # Nothing, handlers'[g].by # Nothing
      PROVE  /\ handlers[g] # Nothing /\ handlers'[g] = handlers[g]
             /\ calls'[handlers[g].by] = calls[handlers[g].by]
  <2>1. g # h /\ handlers'[g] = handlers[g]
    BY <1>5, <1>7
  <2>2. handlers[g].by \in Callers
    BY <1>7, <2>1, HandlerFacts
  <2>3. handlers[g].by # c
    BY <1>7, <2>1 DEF CallsInv, Attended, c
  <2> QED
    BY <1>4, <1>7, <2>1, <2>2, <2>3
<1>8. Attended'
  BY <1>7, AttendedStays
<1>9. OnlyOlder
  BY <1>5 DEF OnlyOlder
<1> QED
  BY <1>1, <1>4, <1>6, <1>8, <1>9, CallAssumption DEF CallsInv

(* A handler goes on to its next await. *)
LEMMA GotoKeeps ==
  ASSUME CallsInv, NEW h \in Handlers, handlers[h] # Nothing,
         NEW step \in {"insert", "dispense"}, Goto(h, step)
  PROVE  /\ CallsInv' /\ OnlyRetried
         /\ \A g \in Handlers \ {h} : handlers'[g] = handlers[g]
         /\ handlers'[h].request = handlers[h].request /\ handlers'[h].step = step
<1> DEFINE v == [handlers[h] EXCEPT !.step = step]
<1>1. handlers' = [handlers EXCEPT ![h] = v] /\ calls' = calls
  BY DEF Goto, CallsInv
<1>2. handlers[h] \in HandlerRecord
  BY HandlerFacts
<1>3. /\ v \in HandlerRecord /\ v.request = handlers[h].request /\ v.by = handlers[h].by
      /\ v.step = step
  BY <1>2 DEF HandlerRecord
<1> HIDE DEF v
<1>4. \A g \in Handlers : handlers'[g] = IF g = h THEN v ELSE handlers[g]
  BY <1>1 DEF CallsInv
<1>5. handlers' \in [Handlers -> HandlerRecord \union {Nothing}]
  BY <1>1, <1>3 DEF CallsInv
<1>6. Attended'
  BY <1>1, <1>3, <1>4, AttendedStays
<1> QED
  BY <1>1, <1>3, <1>4, <1>5, <1>6 DEF CallsInv, OnlyRetried

(* A restart fails whatever these handlers were working on. *)
LEMMA CrashKeeps ==
  ASSUME CallsInv, Crash(Handlers)
  PROVE  CallsInv' /\ OnlyRetried /\ OnlyOlder
<1>1. /\ \A h \in Handlers : handlers'[h] = Nothing
      /\ \A c \in Callers : calls'[c] =
           IF Listening(c) \intersect Handlers # {} THEN AfterFailure(calls[c]) ELSE calls[c]
      /\ handlers' = [h \in Handlers |-> handlers'[h]]
      /\ calls' = [c \in Callers |-> calls'[c]]
  BY DEF Crash
<1>2. ASSUME NEW c \in Callers
      PROVE  /\ calls'[c] \in CallRecord \union {Nothing}
             /\ calls'[c] # Nothing =>
                  /\ calls[c] # Nothing /\ calls'[c].request = calls[c].request
                  /\ calls'[c].status = "answered" => calls'[c] = calls[c]
  <2>1. CASE Listening(c) \intersect Handlers # {}
    <3>1. PICK h \in Handlers : handlers[h] # Nothing /\ handlers[h].by = c
      BY <2>1 DEF Listening
    <3>2. calls[c] # Nothing /\ calls[c] \in CallRecord
      BY <3>1, HandlerFacts, CallAssumption DEF CallsInv
    <3> QED
      BY <1>1, <2>1, <3>2, FailureIsRetry
  <2>2. CASE Listening(c) \intersect Handlers = {}
    BY <1>1, <2>2 DEF CallsInv
  <2> QED
    BY <2>1, <2>2
<1>3. Attended'
  BY <1>1, AttendedStays
<1>4. handlers' \in [Handlers -> HandlerRecord \union {Nothing}]
  BY <1>1
<1>5. calls' \in [Callers -> CallRecord \union {Nothing}]
  BY <1>1, <1>2
<1> QED
  BY <1>1, <1>2, <1>3, <1>4, <1>5 DEF CallsInv, OnlyRetried, OnlyOlder

(***************************************************************************)
(* The routes and the network: panels stay as they are, but for what was   *)
(* got, and tables keep what a dispensing handler relies on.               *)
(***************************************************************************)
PanelsStay ==
  /\ panels' \in [Callers -> Panel]
  /\ \A c \in Callers :
       /\ panels'[c].step = panels[c].step /\ panels'[c].wallet = panels[c].wallet
       /\ panels'[c].auto = panels[c].auto /\ panels'[c].heard = panels[c].heard
       /\ panels'[c].sent = panels[c].sent
       /\ panels[c].got => panels'[c].got

TablesFit ==
  /\ server' = server /\ bundle' \in BOOLEAN
  /\ {cooling', failed', served'} \subseteq SUBSET Keys
  /\ served' \ failed' \subseteq cooling'
  /\ \A h \in Handlers : handlers'[h] # Nothing /\ handlers'[h].step = "dispense" =>
       <<handlers'[h].request.wallet, handlers'[h].request.asset>> \in cooling' \union failed'

CallsFit ==
  \A c \in Callers : calls'[c] # Nothing =>
    /\ calls[c] # Nothing /\ calls'[c].request = calls[c].request
    /\ calls'[c].status = "answered" /\ calls'[c].answer = "server_dispense" =>
         calls'[c] = calls[c] \/ panels'[c].got

LEMMA ServerStepKeeps ==
  ASSUME FaucetInv, CallsInv', PanelsStay, TablesFit, CallsFit
  PROVE  FaucetInv'
<1>1. FaucetTypeOK'
  BY DEF FaucetInv, FaucetTypeOK, CallsInv, PanelsStay, TablesFit
<1>2. \A c \in Callers : GoodPanel(panels'[c])
  BY DEF FaucetInv, GoodPanel, PanelsStay
<1>3. \A c \in Callers : calls'[c] # Nothing => Asked(c)'
  BY DEF FaucetInv, Asked, PanelsStay, CallsFit
<1>4. DispensingCools' /\ ServedIsCooling'
  BY DEF TablesFit, DispensingCools, ServedIsCooling, Key
<1> QED
  BY <1>1, <1>2, <1>3, <1>4 DEF FaucetInv, CallsInv, GoodPanel

LEMMA PanelsUnchanged ==
  ASSUME FaucetInv, UNCHANGED panels
  PROVE  PanelsStay
BY DEF FaucetInv, FaucetTypeOK, PanelsStay

LEMMA TablesUnchanged ==
  ASSUME FaucetInv, OnlyOlder, UNCHANGED <<server, cooling, failed, served, bundle>>
  PROVE  TablesFit
BY DEF FaucetInv, FaucetTypeOK, TablesFit, OnlyOlder, ServedIsCooling, DispensingCools, Key

LEMMA RetriedFits ==
  ASSUME OnlyRetried
  PROVE  CallsFit
BY DEF OnlyRetried, CallsFit

LEMMA NetworkStepKeeps ==
  ASSUME FaucetInv, UNCHANGED faucetVars, CallsInv', OnlyRetried, OnlyOlder
  PROVE  FaucetInv'
BY PanelsUnchanged, TablesUnchanged, RetriedFits, ServerStepKeeps DEF faucetVars, claimVars

(* A handler ends without having sent anything. *)
LEMMA RefusalKeeps ==
  ASSUME FaucetInv, NEW h \in Handlers, handlers[h] # Nothing,
         NEW answer \in {Nothing, "cooldown_only"}, Finish(h, answer), UNCHANGED faucetVars
  PROVE  FaucetInv'
<1>1. answer \in Dispense \union {Nothing} /\ answer # "server_dispense"
  BY FaucetAssumption DEF Dispense
<1>2. CallsInv' /\ OnlyOlder /\ CallsFit
  BY <1>1, FaucetInvCalls, FinishKeeps DEF CallsFit
<1> QED
  BY <1>2, PanelsUnchanged, TablesUnchanged, ServerStepKeeps DEF faucetVars, claimVars

LEMMA KeyIsKey ==
  ASSUME CallsInv, NEW h \in Handlers, handlers[h] # Nothing
  PROVE  Key(h) \in Keys /\ handlers[h].request \in FaucetRequest
BY HandlerFacts DEF HandlerRecord, FaucetRequest, Key, Keys

LEMMA SelectClaimKeeps ==
  ASSUME FaucetInv, NEW h \in Handlers, SelectClaim(h)
  PROVE  FaucetInv'
<1> USE FaucetInvCalls
<1>1. handlers[h] # Nothing /\ UNCHANGED <<server, cooling, served, panels, bundle>>
  BY DEF SelectClaim, Route, At
<1>2. CASE Finish(h, Nothing) /\ UNCHANGED failed
  BY <1>1, <1>2, RefusalKeeps DEF faucetVars, claimVars
<1>3. CASE Goto(h, "insert") /\ UNCHANGED failed
  <2>1. CallsInv' /\ OnlyRetried /\ OnlyOlder
    BY <1>1, <1>3, GotoKeeps DEF OnlyOlder
  <2> QED
    BY <1>1, <1>3, <2>1, NetworkStepKeeps DEF faucetVars, claimVars
<1>4. CASE Goto(h, "dispense") /\ failed' = failed \union {Key(h)}
  <2>1. /\ CallsInv' /\ OnlyRetried
        /\ \A g \in Handlers \ {h} : handlers'[g] = handlers[g]
        /\ handlers'[h].request = handlers[h].request
    BY <1>1, <1>4, GotoKeeps
  <2>2. TablesFit
    BY <1>1, <1>4, <2>1, KeyIsKey
       DEF FaucetInv, FaucetTypeOK, TablesFit, ServedIsCooling, DispensingCools, Key
  <2> QED
    BY <1>1, <2>1, <2>2, PanelsUnchanged, RetriedFits, ServerStepKeeps
<1> QED
  BY <1>2, <1>3, <1>4 DEF SelectClaim

LEMMA InsertClaimKeeps ==
  ASSUME FaucetInv, NEW h \in Handlers, InsertClaim(h)
  PROVE  FaucetInv'
<1> USE FaucetInvCalls
<1>1. /\ handlers[h] # Nothing /\ UNCHANGED <<server, served, panels, bundle>>
      /\ Record(h) /\ Goto(h, "dispense")
  BY DEF InsertClaim, Route, At
<1>2. /\ CallsInv' /\ OnlyRetried
      /\ \A g \in Handlers \ {h} : handlers'[g] = handlers[g]
      /\ handlers'[h].request = handlers[h].request
  BY <1>1, GotoKeeps
<1>3. /\ cooling \subseteq cooling' /\ failed \subseteq failed'
      /\ cooling' \subseteq Keys /\ failed' \subseteq Keys
      /\ Key(h) \in cooling' \union failed'
  BY <1>1, KeyIsKey DEF Record, FaucetInv, FaucetTypeOK
<1>4. TablesFit
  BY <1>1, <1>2, <1>3
     DEF FaucetInv, FaucetTypeOK, TablesFit, ServedIsCooling, DispensingCools, Key
<1> QED
  BY <1>1, <1>2, <1>4, PanelsUnchanged, RetriedFits, ServerStepKeeps

(* The transaction is confirmed: the claim was recorded before, and every  *)
(* flow for the wallet learns of it, the one that hears of it included.    *)
LEMMA ConfirmedKeeps ==
  ASSUME FaucetInv, NEW h \in Handlers, handlers[h] # Nothing, handlers[h].step = "dispense",
         NEW failedOnChain \in BOOLEAN, Confirmed(h, failedOnChain), NEW answer \in Dispense \union {Nothing}, Finish(h, answer),
         UNCHANGED <<server, cooling, failed, bundle>>
  PROVE  FaucetInv'
<1> USE FaucetInvCalls
<1> DEFINE w == handlers[h].request.wallet
<1>1. /\ served' \in {served, served \union {Key(h)}}
      /\ panels' = [c \in Callers |-> [panels[c] EXCEPT !.got = @ \/ panels[c].wallet = w]]
  BY DEF Confirmed
<1>2. /\ CallsInv' /\ OnlyOlder
      /\ \A d \in Callers : calls'[d] # Nothing =>
           /\ calls[d] # Nothing /\ calls'[d].request = calls[d].request
           /\ calls'[d].status = "answered" =>
                calls'[d] = calls[d] \/ calls[d].request = handlers[h].request
  BY FinishKeeps
<1>3. TablesFit
  <2>1. Key(h) \in Keys /\ Key(h) \in cooling \union failed
    BY KeyIsKey DEF FaucetInv, DispensingCools
  <2> QED
    BY <1>1, <1>2, <2>1
       DEF FaucetInv, FaucetTypeOK, TablesFit, OnlyOlder, ServedIsCooling, DispensingCools, Key
<1>4. ASSUME NEW c \in Callers
      PROVE  /\ panels'[c] \in Panel
             /\ panels'[c].step = panels[c].step /\ panels'[c].wallet = panels[c].wallet
             /\ panels'[c].auto = panels[c].auto /\ panels'[c].heard = panels[c].heard
             /\ panels'[c].sent = panels[c].sent
             /\ panels[c].got => panels'[c].got
             /\ panels[c].wallet = w => panels'[c].got
  <2> DEFINE g == panels[c].got \/ panels[c].wallet = w
             v == [panels[c] EXCEPT !.got = g]
  <2>1. panels[c] \in Panel
    BY DEF FaucetInv, FaucetTypeOK
  <2>2. panels'[c] = v
    BY <1>1
  <2>3. g \in BOOLEAN
    BY Zenon
  <2> HIDE DEF g
  <2>4. /\ v \in Panel /\ v.step = panels[c].step /\ v.wallet = panels[c].wallet
        /\ v.auto = panels[c].auto /\ v.heard = panels[c].heard /\ v.sent = panels[c].sent
        /\ v.got = g
    BY <2>1, <2>3 DEF Panel
  <2> QED
    BY <2>2, <2>4 DEF g
<1>5. PanelsStay
  BY <1>1, <1>4 DEF PanelsStay
<1>6. CallsFit
  BY <1>2, <1>4 DEF CallsFit, FaucetInv, Asked
<1> QED
  BY <1>2, <1>3, <1>5, <1>6, ServerStepKeeps

LEMMA HandleKeeps ==
  ASSUME FaucetInv, NEW h \in Handlers, Handle(h)
  PROVE  FaucetInv'
<1>1. CASE Unconfigured(h)
  BY <1>1, RefusalKeeps DEF Unconfigured, At
<1>2. CASE DispenseFromServer(h)
  <2>1. /\ handlers[h] # Nothing /\ handlers[h].step = "dispense"
        /\ UNCHANGED <<server, cooling, failed, bundle>>
        /\ FailedDispense(h) \in {Nothing, "cooldown_only"}
    BY <1>2 DEF DispenseFromServer, Route, At, FailedDispense
  <2>2. CASE Finish(h, FailedDispense(h)) /\ UNCHANGED <<served, panels>>
    BY <2>1, <2>2, RefusalKeeps DEF faucetVars, claimVars
  <2>3. ASSUME NEW failedOnChain \in BOOLEAN, Confirmed(h, failedOnChain),
               Finish(h, "server_dispense") \/ Finish(h, FailedDispense(h))
        PROVE  FaucetInv'
    <3>1. CASE Finish(h, FailedDispense(h))
      BY <2>1, <2>3, <3>1, ConfirmedKeeps DEF Dispense
    <3>2. CASE Finish(h, "server_dispense")
      BY <2>1, <2>3, <3>2, ConfirmedKeeps DEF Dispense
    <3> QED
      BY <2>3, <3>1, <3>2
  <2> QED
    BY <1>2, <2>2, <2>3 DEF DispenseFromServer
<1>3. CASE NoTreasury(h)
  BY <1>3, RefusalKeeps DEF NoTreasury, At
<1>4. CASE ClaimOnPhp(h)
  BY <1>4, RefusalKeeps DEF ClaimOnPhp, Route, At
<1> QED
  BY <1>1, <1>2, <1>3, <1>4, SelectClaimKeeps, InsertClaimKeeps DEF Handle

(* A cooldown ends only when no request for it is under way. *)
LEMMA CooldownEndsKeeps ==
  ASSUME FaucetInv, NEW key \in Keys, CooldownEnds(key)
  PROVE  FaucetInv'
<1>1. calls' = calls /\ handlers' = handlers /\ UNCHANGED <<server, panels, bundle>>
  BY DEF CooldownEnds, callVars
<1>2. CallsInv' /\ OnlyRetried
  BY <1>1, FaucetInvCalls DEF CallsInv, Attended, Status, OnlyRetried
<1>3. TablesFit
  BY <1>1 DEF CooldownEnds, FaucetInv, FaucetTypeOK, TablesFit, ServedIsCooling, DispensingCools, Key
<1> QED
  BY <1>1, <1>2, <1>3, PanelsUnchanged, RetriedFits, ServerStepKeeps

(***************************************************************************)
(* The page and the dialog.                                                *)
(***************************************************************************)
(* One flow moves on; its own call, if it has one, is its own.             *)
LEMMA FlowKeeps ==
  ASSUME FaucetInv, NEW c \in Callers, NEW p \in Panel, Set(c, p), handlers' = handlers,
         GoodPanel(p), CallsInv', \A d \in Callers \ {c} : calls'[d] = calls[d],
         calls'[c] # Nothing =>
           /\ p.step \in {"auto", "claim", "localClaim"}
           /\ calls'[c].request.wallet = p.wallet
           /\ calls'[c].status = "answered" /\ calls'[c].answer = "server_dispense" => p.got
  PROVE  FaucetInv'
<1>1. /\ panels' = [panels EXCEPT ![c] = p]
      /\ UNCHANGED <<server, cooling, failed, served, bundle>>
  BY DEF Set
<1>2. /\ \A d \in Callers : panels'[d] = IF d = c THEN p ELSE panels[d]
      /\ panels' \in [Callers -> Panel]
  BY <1>1 DEF FaucetInv, FaucetTypeOK
<1>3. FaucetTypeOK'
  BY <1>1, <1>2 DEF FaucetInv, FaucetTypeOK, CallsInv
<1>4. \A d \in Callers : GoodPanel(panels'[d])
  BY <1>2 DEF FaucetInv
<1>5. \A d \in Callers : calls'[d] # Nothing => Asked(d)'
  BY <1>2 DEF FaucetInv, Asked
<1>6. DispensingCools' /\ ServedIsCooling'
  BY <1>1 DEF FaucetInv, DispensingCools, ServedIsCooling, Key
<1> QED
  BY <1>3, <1>4, <1>5, <1>6 DEF FaucetInv, CallsInv, GoodPanel

LEMMA FlowAsks ==
  ASSUME FaucetInv, NEW c \in Callers, NEW p \in Panel, Set(c, p), GoodPanel(p),
         p.step \in {"auto", "claim", "localClaim"}, p.wallet \in Wallets,
         NEW op \in {"auto", "claim"}, NEW asset \in {"ALL", "SOL"}, Ask(c, op, asset)
  PROVE  FaucetInv'
<1> DEFINE q == [op |-> op, wallet |-> p.wallet, asset |-> asset]
<1>1. panels'[c] = p
  BY DEF Set, FaucetInv, FaucetTypeOK
<1>2. Call(c, q)
  BY <1>1 DEF Ask
<1>3. q \in FaucetRequest /\ q.wallet = p.wallet
  BY DEF FaucetRequest
<1> HIDE DEF q
<1> QED
  BY <1>2, <1>3, CallKeeps, FlowKeeps, FaucetInvCalls

LEMMA FlowRests ==
  ASSUME FaucetInv, NEW c \in Callers, NEW p \in Panel, Set(c, p), GoodPanel(p),
         calls[c] = Nothing, UNCHANGED callVars
  PROVE  FaucetInv'
<1>1. calls' = calls /\ handlers' = handlers
  BY DEF callVars
<1>2. CallsInv'
  BY <1>1, FaucetInvCalls DEF CallsInv, Attended, Status
<1> QED
  BY <1>1, <1>2, FlowKeeps

LEMMA ShowKeeps ==
  ASSUME FaucetInv, NEW c \in Callers, calls[c] = Nothing, NEW sent \in BOOLEAN,
         sent => panels[c].got, Show(c, sent)
  PROVE  FaucetInv'
<1> DEFINE p == [panels[c] EXCEPT !.step = "idle", !.auto = FALSE, !.heard = Nothing, !.sent = sent]
<1>1. panels[c] \in Panel
  BY DEF FaucetInv, FaucetTypeOK
<1>2. /\ p \in Panel /\ p.got = panels[c].got /\ p.sent = sent /\ p.heard = Nothing
      /\ p.auto = FALSE /\ p.step = "idle"
  BY <1>1 DEF Panel
<1>3. Set(c, p) /\ UNCHANGED callVars
  BY DEF Show, End
<1> HIDE DEF p
<1>4. GoodPanel(p)
  BY <1>2, FaucetAssumption DEF GoodPanel, Dispense
<1> QED
  BY <1>2, <1>3, <1>4, FlowRests

LEMMA PanelFacts ==
  ASSUME FaucetInv, NEW c \in Callers
  PROVE  /\ panels[c] \in Panel /\ GoodPanel(panels[c])
         /\ panels[c].step \in {"auto", "claim", "localClaim"} \/ calls[c] = Nothing
BY DEF FaucetInv, FaucetTypeOK, Asked

LEMMA StartKeeps ==
  ASSUME FaucetInv, NEW c \in Callers, ClaimFullPack(c) \/ HandleDispense(c)
  PROVE  FaucetInv'
<1>1. panels[c] \in Panel /\ GoodPanel(panels[c]) /\ panels[c].step = "idle"
  BY PanelFacts DEF ClaimFullPack, HandleDispense, InStep
<1>2. CASE ClaimFullPack(c)
  <2>1. PICK w \in Wallets, kind \in {"page", "dialog"} :
          Set(c, [panels[c] EXCEPT !.kind = kind, !.step = "auto", !.wallet = w,
                    !.got = FALSE, !.sent = FALSE])
    BY <1>2 DEF ClaimFullPack
  <2> DEFINE p == [panels[c] EXCEPT !.kind = kind, !.step = "auto", !.wallet = w,
                     !.got = FALSE, !.sent = FALSE]
  <2>2. /\ p \in Panel /\ p.step = "auto" /\ p.wallet = w /\ p.got = FALSE /\ p.sent = FALSE
        /\ p.heard = panels[c].heard /\ p.auto = panels[c].auto
    BY <1>1 DEF Panel
  <2>3. Set(c, p)
    BY <2>1
  <2> HIDE DEF p
  <2>4. GoodPanel(p)
    BY <1>1, <2>2, FaucetAssumption DEF GoodPanel, Dispense
  <2> QED
    BY <1>2, <2>2, <2>3, <2>4, FlowAsks DEF ClaimFullPack
<1>3. CASE HandleDispense(c)
  <2>1. PICK w \in Wallets :
          Set(c, [panels[c] EXCEPT !.kind = "page", !.step = "localClaim", !.wallet = w,
                    !.sent = FALSE])
    BY <1>3 DEF HandleDispense
  <2> DEFINE p == [panels[c] EXCEPT !.kind = "page", !.step = "localClaim", !.wallet = w,
                     !.sent = FALSE]
  <2>2. /\ p \in Panel /\ p.step = "localClaim" /\ p.wallet = w /\ p.sent = FALSE
        /\ p.heard = panels[c].heard /\ p.auto = panels[c].auto
    BY <1>1 DEF Panel
  <2>3. Set(c, p)
    BY <2>1
  <2> HIDE DEF p
  <2>4. GoodPanel(p)
    BY <1>1, <2>2, FaucetAssumption DEF GoodPanel, Dispense
  <2> QED
    BY <1>3, <2>2, <2>3, <2>4, FlowAsks DEF HandleDispense
<1> QED
  BY <1>2, <1>3

LEMMA HearKeeps ==
  ASSUME FaucetInv, NEW c \in Callers, Hear(c)
  PROVE  FaucetInv'
<1> DEFINE p == [panels[c] EXCEPT !.heard = calls[c].answer]
<1>1. /\ Status(c, "answered") /\ Set(c, p) /\ calls' = Done(c) /\ handlers' = handlers
  BY DEF Hear
<1>2. /\ panels[c] \in Panel /\ GoodPanel(panels[c])
      /\ calls[c] \in CallRecord /\ Asked(c)
  BY <1>1, PanelFacts DEF FaucetInv, FaucetTypeOK, Status
<1>3. /\ p \in Panel /\ p.heard = calls[c].answer /\ p.step = panels[c].step
      /\ p.got = panels[c].got /\ p.auto = panels[c].auto /\ p.sent = panels[c].sent
      /\ p.wallet = panels[c].wallet
  BY <1>2 DEF Panel, CallRecord
<1> HIDE DEF p
<1>4. GoodPanel(p)
  BY <1>1, <1>2, <1>3 DEF GoodPanel, Asked, Status
<1>5. CallsInv' /\ calls'[c] = Nothing
  BY <1>1, FaucetInvCalls, DoneKeeps
<1>6. \A d \in Callers \ {c} : calls'[d] = calls[d]
  BY <1>1 DEF Done, FaucetInv, FaucetTypeOK
<1> QED
  BY <1>1, <1>3, <1>4, <1>5, <1>6, FlowKeeps

LEMMA AutoRepliedKeeps ==
  ASSUME FaucetInv, NEW c \in Callers, AutoReplied(c)
  PROVE  FaucetInv'
<1> DEFINE ok == panels[c].heard = "server_dispense"
<1>1. /\ panels[c] \in Panel /\ GoodPanel(panels[c]) /\ calls[c] = Nothing
      /\ panels[c].step = "auto"
  BY PanelFacts DEF AutoReplied, Replied, InStep
<1>2. CASE panels[c].kind = "dialog" /\ ok
  BY <1>1, <1>2, ShowKeeps DEF AutoReplied, GoodPanel
<1>3. CASE ~(panels[c].kind = "dialog" /\ ok)
  <2> DEFINE p == [panels[c] EXCEPT !.step = "claim", !.auto = ok, !.heard = Nothing]
  <2>1. Set(c, p) /\ Ask(c, "claim", "ALL")
    BY <1>3 DEF AutoReplied
  <2>2. ok \in BOOLEAN /\ (ok => panels[c].got)
    <3>1. ok \in BOOLEAN
      BY Zenon
    <3>2. ok => panels[c].got
      BY <1>1 DEF GoodPanel
    <3> QED
      BY <3>1, <3>2
  <2> HIDE DEF ok
  <2>3. /\ p \in Panel /\ p.step = "claim" /\ p.wallet = panels[c].wallet /\ p.auto = ok
        /\ p.heard = Nothing /\ p.got = panels[c].got /\ p.sent = panels[c].sent
    BY <1>1, <2>2 DEF Panel
  <2>4. Call(c, [op |-> "claim", wallet |-> p.wallet, asset |-> "ALL"])
    <3>1. panels'[c] = p
      BY <2>1 DEF Set, FaucetInv, FaucetTypeOK
    <3> HIDE DEF p
    <3> QED
      BY <2>1, <3>1 DEF Ask
  <2> HIDE DEF p
  <2>5. GoodPanel(p)
    BY <1>1, <2>2, <2>3, FaucetAssumption DEF GoodPanel, Dispense
  <2>6. p.wallet \in Wallets
    BY <1>1, <2>3 DEF GoodPanel
  <2> QED
    BY <2>1, <2>3, <2>5, <2>6, FlowAsks
<1> QED
  BY <1>2, <1>3

LEMMA PageClaimRepliedKeeps ==
  ASSUME FaucetInv, NEW c \in Callers, PageClaimReplied(c)
  PROVE  FaucetInv'
<1>1. /\ panels[c] \in Panel /\ GoodPanel(panels[c]) /\ calls[c] = Nothing
      /\ panels[c].step = "claim"
  BY PanelFacts DEF PageClaimReplied, Replied, InStep
<1>2. CASE (panels[c].auto \/ panels[c].heard = "server_dispense") /\ Show(c, TRUE)
  BY <1>1, <1>2, ShowKeeps DEF GoodPanel
<1>3. CASE Set(c, [panels[c] EXCEPT !.step = "localClaim"]) /\ Ask(c, "claim", "SOL")
  <2> DEFINE p == [panels[c] EXCEPT !.step = "localClaim"]
  <2>1. /\ p \in Panel /\ p.step = "localClaim" /\ p.wallet = panels[c].wallet
        /\ p.auto = panels[c].auto /\ p.heard = panels[c].heard
        /\ p.got = panels[c].got /\ p.sent = panels[c].sent
    BY <1>1 DEF Panel
  <2>2. Set(c, p)
    BY <1>3
  <2> HIDE DEF p
  <2>3. GoodPanel(p) /\ p.wallet \in Wallets
    BY <1>1, <2>1 DEF GoodPanel
  <2> QED
    BY <1>3, <2>1, <2>2, <2>3, FlowAsks
<1>4. CASE Show(c, FALSE)
  BY <1>1, <1>4, ShowKeeps
<1> QED
  BY <1>2, <1>3, <1>4 DEF PageClaimReplied

LEMMA DialogClaimRepliedKeeps ==
  ASSUME FaucetInv, NEW c \in Callers, DialogClaimReplied(c)
  PROVE  FaucetInv'
<1>1. /\ panels[c] \in Panel /\ GoodPanel(panels[c]) /\ calls[c] = Nothing
      /\ panels[c].step = "claim"
  BY PanelFacts DEF DialogClaimReplied, Replied, InStep
<1>2. CASE panels[c].heard = "server_dispense" /\ Show(c, TRUE)
  BY <1>1, <1>2, ShowKeeps DEF GoodPanel
<1>3. CASE Show(c, FALSE)
  BY <1>1, <1>3, ShowKeeps
<1>4. CASE Set(c, [panels[c] EXCEPT !.step = "airdrop"]) /\ UNCHANGED callVars
  <2> DEFINE p == [panels[c] EXCEPT !.step = "airdrop"]
  <2>1. /\ p \in Panel /\ p.step = "airdrop" /\ p.wallet = panels[c].wallet
        /\ p.auto = panels[c].auto /\ p.heard = panels[c].heard
        /\ p.got = panels[c].got /\ p.sent = panels[c].sent
    BY <1>1 DEF Panel
  <2>2. Set(c, p)
    BY <1>4
  <2> HIDE DEF p
  <2>3. GoodPanel(p)
    BY <1>1, <2>1 DEF GoodPanel
  <2> QED
    BY <1>1, <1>4, <2>1, <2>2, <2>3, FlowRests
<1> QED
  BY <1>2, <1>3, <1>4 DEF DialogClaimReplied

LEMMA ContinueKeeps ==
  ASSUME FaucetInv, NEW c \in Callers, Continue(c)
  PROVE  FaucetInv'
<1>1. CASE Airdrop(c) \/ DispenseLocally(c)
  <2>1. calls[c] = Nothing /\ Show(c, FALSE)
    BY <1>1, PanelFacts DEF Airdrop, DispenseLocally, InStep
  <2> QED
    BY <2>1, ShowKeeps
<1>2. CASE CooldownAsked(c)
  <2> DEFINE p == [panels[c] EXCEPT !.step = "localSend"]
  <2>1. /\ panels[c] \in Panel /\ GoodPanel(panels[c]) /\ calls[c] = Nothing
        /\ panels[c].step = "localClaim" /\ UNCHANGED callVars
    BY <1>2, PanelFacts DEF CooldownAsked, Replied, InStep
  <2>2. /\ p \in Panel /\ p.step = "localSend" /\ p.wallet = panels[c].wallet
        /\ p.auto = panels[c].auto /\ p.heard = panels[c].heard
        /\ p.got = panels[c].got /\ p.sent = panels[c].sent
    BY <2>1 DEF Panel
  <2>3. Set(c, p)
    BY <1>2 DEF CooldownAsked
  <2> HIDE DEF p
  <2>4. GoodPanel(p)
    BY <2>1, <2>2 DEF GoodPanel
  <2> QED
    BY <2>1, <2>2, <2>3, <2>4, FlowRests
<1> QED
  BY <1>1, <1>2, HearKeeps, AutoRepliedKeeps, PageClaimRepliedKeeps, DialogClaimRepliedKeeps
     DEF Continue

(***************************************************************************)
(* The theorems.                                                           *)
(***************************************************************************)
LEMMA FaucetInvInitially == Init => FaucetInv
<1> SUFFICES ASSUME Init
             PROVE  FaucetInv
  OBVIOUS
<1>1. FaucetTypeOK
  BY DEF Init, CallsInit, FaucetTypeOK, Panel, Keys
<1> QED
  BY <1>1, FaucetAssumption
     DEF Init, CallsInit, FaucetInv, Attended, DispensingCools, ServedIsCooling, GoodPanel, Dispense

LEMMA FaucetInvInductive == FaucetInv /\ [Next]_vars => FaucetInv'
<1> SUFFICES ASSUME FaucetInv, [Next]_vars
             PROVE  FaucetInv'
  OBVIOUS
<1> USE FaucetInvCalls
<1>1. CASE UNCHANGED vars
  BY <1>1 DEF vars, callVars, faucetVars, claimVars, FaucetInv, FaucetTypeOK, Attended, Status,
              DispensingCools, Key, ServedIsCooling, GoodPanel, Asked
<1>2. ASSUME NEW c \in Callers, ClaimFullPack(c) \/ HandleDispense(c) \/ Continue(c)
      PROVE  FaucetInv'
  BY <1>2, StartKeeps, ContinueKeeps
<1>3. ASSUME NEW c \in Callers, Send(c) \/ TimeOut(c), UNCHANGED faucetVars
      PROVE  FaucetInv'
  BY <1>3, SendKeeps, TimeOutKeeps, NetworkStepKeeps
<1>4. CASE LoadBundle
  <2>1. /\ calls' = calls /\ handlers' = handlers /\ panels' = panels /\ bundle' \in BOOLEAN
        /\ UNCHANGED <<server, cooling, failed, served>>
    BY <1>4 DEF LoadBundle, callVars, claimVars
  <2>2. CallsInv' /\ OnlyRetried
    BY <2>1 DEF CallsInv, Attended, Status, OnlyRetried
  <2>3. TablesFit
    BY <2>1 DEF FaucetInv, FaucetTypeOK, TablesFit, ServedIsCooling, DispensingCools, Key
  <2> QED
    BY <2>1, <2>2, <2>3, PanelsUnchanged, RetriedFits, ServerStepKeeps
<1>5. CASE Crash(Handlers) /\ UNCHANGED faucetVars
  BY <1>5, CrashKeeps, NetworkStepKeeps
<1> QED
  BY <1>1, <1>2, <1>3, <1>4, <1>5, HandleKeeps, CooldownEndsKeeps DEF Next

(* The faucet's variables stay in their domains. *)
THEOREM FaucetTypes == Spec => []FaucetTypeOK
<1>1. FaucetInv => FaucetTypeOK
  BY DEF FaucetInv
<1> QED
  BY <1>1, FaucetInvInitially, FaucetInvInductive, PTL DEF Spec

(* Whoever was sent test assets today is cooling down, unless the database *)
(* failed to record it, whatever becomes of the request that asked.        *)
THEOREM WhoWasServedCools == Spec => []ServedIsCooling
<1>1. FaucetInv => ServedIsCooling
  BY DEF FaucetInv
<1> QED
  BY <1>1, FaucetInvInitially, FaucetInvInductive, PTL DEF Spec

(* A page or dialog announces a pack only when a transaction with one for  *)
(* its wallet was confirmed after its button was pressed.                  *)
THEOREM WhatIsAnnouncedWasConfirmed == Spec => []AnnouncedIsConfirmed
<1>1. FaucetInv => AnnouncedIsConfirmed
  BY DEF FaucetInv, GoodPanel, AnnouncedIsConfirmed
<1> QED
  BY <1>1, FaucetInvInitially, FaucetInvInductive, PTL DEF Spec
=============================================================================
