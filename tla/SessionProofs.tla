---------------------------- MODULE SessionProofs ----------------------------
(***************************************************************************)
(* Proofs about sessions, links and offers, for any number of tabs,        *)
(* visitors, wallets, challenges and requests inside the two hosts: whoever *)
(* the server takes a caller for has proved it, a tab is signed in for the *)
(* account it shows, and a claim is for good.                              *)
(***************************************************************************)
EXTENDS WalletSession, TLAPS

(***************************************************************************)
(* The inductive invariant.                                                *)
(***************************************************************************)
HandlerRecord ==
  [request : Request, by : Callers \union {Nothing},
   step : {"start", "select", "mark", "insert", "update", "read"},
   wallet : Wallets \union {Nothing}]

(* Wallet w has signed some challenge. *)
Proven(w) == w \in Wallets /\ \E c \in Challenges : <<w, c>> \in signed

(* The signature a request carries was made. *)
Signed(q) == q.op = "verify" => <<q.signer, q.challenge>> \in signed

(* The wallet challenge c was issued for has signed it. *)
Verified(c) == challenges[c] # Nothing /\ <<challenges[c].wallet, c>> \in signed

(* Token and wallet of an answer belong together. *)
Issued(a) == sessions[a.token] # Nothing /\ sessions[a.token].wallet = a.wallet

GoodCall(v) ==
  /\ Signed(v.request)
  /\ v.status = "answered" /\ v.request.op = "verify" =>
       v.answer \in [token : Tokens, wallet : Wallets] /\ Issued(v.answer)

(* Past its first step a handler has checked whom it works for. *)
GoodHandler(v) ==
  /\ Signed(v.request)
  /\ v.step # "start" =>
       /\ v.request.op = "verify" => Verified(v.request.challenge)
       /\ v.request.op \in {"create", "propose"} => Proven(v.wallet)
       /\ v.request.op = "claim" => links[v.request.link] # Nothing

(* At most one attempt of a call has somebody listening, and it is for the *)
(* request the caller waits for.                                           *)
Attended ==
  /\ \A h \in Handlers : handlers[h] # Nothing /\ handlers[h].by # Nothing =>
       /\ Status(handlers[h].by, "waiting")
       /\ calls[handlers[h].by].request = handlers[h].request
  /\ \A g, h \in Handlers :
       /\ handlers[g] # Nothing /\ handlers[h] # Nothing
       /\ handlers[g].by = handlers[h].by /\ handlers[g].by # Nothing
       => g = h

CallsInv ==
  /\ calls \in [Callers -> CallRecord \union {Nothing}]
  /\ handlers \in [Handlers -> HandlerRecord \union {Nothing}]
  /\ \A c \in Callers : calls[c] # Nothing => GoodCall(calls[c])
  /\ \A h \in Handlers : handlers[h] # Nothing => GoodHandler(handlers[h])
  /\ Attended

TablesInv ==
  /\ StoreTypeOK /\ LinksTypeOK /\ ProposalsTypeOK
  /\ \A t \in Tokens : sessions[t] # Nothing =>
       <<sessions[t].wallet, sessions[t].challenge>> \in signed
  /\ \A l \in Links : links[l] # Nothing => Proven(links[l].initiator)
  /\ \A p \in ProposalIds : proposals[p] # Nothing => Proven(proposals[p].proposer)

TabRecord ==
  [connected : Wallets \union {Nothing}, token : Tokens \union {Nothing},
   owner : Wallets \union {Nothing}, prompt : Challenges \union {Nothing}]

(* What a tab holds was issued: its challenge, and its token for its owner. *)
GoodTab(v) ==
  /\ v.prompt # Nothing => challenges[v.prompt] # Nothing
  /\ v.token # Nothing /\ v.owner # Nothing =>
       sessions[v.token] # Nothing /\ sessions[v.token].wallet = v.owner

TabsInv ==
  /\ tabs \in [Tabs -> TabRecord]
  /\ storage \in [token : Tokens \union {Nothing}, wallet : Wallets \union {Nothing}]
  /\ \A t \in Tabs : GoodTab(tabs[t])

SessionInv == CallsInv /\ TablesInv /\ TabsInv

(* What no step takes back: signatures, and whom a row is for.             *)
Stable ==
  /\ signed \subseteq signed'
  /\ \A c \in Challenges : challenges[c] # Nothing =>
       challenges'[c] # Nothing /\ challenges'[c].wallet = challenges[c].wallet
  /\ \A t \in Tokens : sessions[t] # Nothing =>
       sessions'[t] # Nothing /\ sessions'[t].wallet = sessions[t].wallet
  /\ \A l \in Links : links[l] # Nothing => links'[l] # Nothing

LEMMA RequestKinds ==
  \A q \in Request :
    /\ q.op = "verify" => q.challenge \in Challenges /\ q.signer \in Wallets /\ q.wallet \in Wallets
    /\ q.op \in {"create", "propose"} => q.token \in Tokens /\ q.wallet \in Wallets
    /\ q.op = "create" => q.deal \in DealIds
    /\ q.op = "propose" => q.listing \in Listings
    /\ q.op = "claim" => q.link \in Links /\ q.wallet \in Wallets
BY DEF Request, VerifyRequest, CreateRequest, ProposeRequest, ClaimRequest

(***************************************************************************)
(* Calls and handlers.  What they hold stays good while the tables only    *)
(* gain; GoodCallAfter and GoodHandlerAfter say it of the next state.      *)
(***************************************************************************)
GoodCallAfter(v) ==
  /\ v.request.op = "verify" => <<v.request.signer, v.request.challenge>> \in signed'
  /\ v.status = "answered" /\ v.request.op = "verify" =>
       /\ v.answer \in [token : Tokens, wallet : Wallets]
       /\ sessions'[v.answer.token] # Nothing
       /\ sessions'[v.answer.token].wallet = v.answer.wallet

GoodHandlerAfter(v) ==
  /\ v.request.op = "verify" => <<v.request.signer, v.request.challenge>> \in signed'
  /\ v.step # "start" =>
       /\ v.request.op = "verify" =>
            /\ challenges'[v.request.challenge] # Nothing
            /\ <<challenges'[v.request.challenge].wallet, v.request.challenge>> \in signed'
       /\ v.request.op \in {"create", "propose"} =>
            v.wallet \in Wallets /\ \E c \in Challenges : <<v.wallet, c>> \in signed'
       /\ v.request.op = "claim" => links'[v.request.link] # Nothing

LEMMA CallsInvAfter ==
  ASSUME calls' \in [Callers -> CallRecord \union {Nothing}],
         handlers' \in [Handlers -> HandlerRecord \union {Nothing}],
         \A c \in Callers : calls'[c] # Nothing => GoodCallAfter(calls'[c]),
         \A h \in Handlers : handlers'[h] # Nothing => GoodHandlerAfter(handlers'[h]),
         Attended'
  PROVE  CallsInv'
<1>1. \A c \in Callers : calls'[c] # Nothing => GoodCall(calls[c])'
  BY DEF GoodCallAfter, GoodCall, Signed, Issued
<1>2. \A h \in Handlers : handlers'[h] # Nothing => GoodHandler(handlers[h])'
  BY DEF GoodHandlerAfter, GoodHandler, Signed, Verified, Proven
<1> QED
  BY <1>1, <1>2 DEF CallsInv

LEMMA CallStays ==
  ASSUME Stable, NEW v \in CallRecord, GoodCall(v)
  PROVE  GoodCallAfter(v)
BY DEF Stable, GoodCall, GoodCallAfter, Signed, Issued

LEMMA HandlerStays ==
  ASSUME Stable, NEW v \in HandlerRecord, GoodHandler(v)
  PROVE  GoodHandlerAfter(v)
<1>1. v.request \in Request
  BY DEF HandlerRecord
<1>2. v.request.op = "verify" => v.request.challenge \in Challenges
  BY <1>1, RequestKinds
<1>3. v.request.op = "claim" => v.request.link \in Links
  BY <1>1, RequestKinds
<1> QED
  BY <1>2, <1>3 DEF Stable, GoodHandler, GoodHandlerAfter, Signed, Verified, Proven

LEMMA AllStay ==
  ASSUME CallsInv, Stable
  PROVE  /\ \A c \in Callers : calls[c] # Nothing =>
              calls[c] \in CallRecord /\ GoodCallAfter(calls[c])
         /\ \A h \in Handlers : handlers[h] # Nothing =>
              handlers[h] \in HandlerRecord /\ GoodHandlerAfter(handlers[h])
<1>1. ASSUME NEW c \in Callers, calls[c] # Nothing
      PROVE  calls[c] \in CallRecord /\ GoodCall(calls[c])
  BY <1>1 DEF CallsInv
<1>2. ASSUME NEW h \in Handlers, handlers[h] # Nothing
      PROVE  handlers[h] \in HandlerRecord /\ GoodHandler(handlers[h])
  BY <1>2 DEF CallsInv
<1> QED
  BY <1>1, <1>2, CallStays, HandlerStays

LEMMA UnchangedKeepsCalls ==
  ASSUME CallsInv, Stable, UNCHANGED callVars
  PROVE  CallsInv'
<1>1. calls' = calls /\ handlers' = handlers
  BY DEF callVars
<1>2. Attended'
  BY <1>1 DEF CallsInv, Attended, Status
<1> QED
  BY <1>1, <1>2, AllStay, CallsInvAfter DEF CallsInv

(* A caller without a call makes one. *)
LEMMA CallKeeps ==
  ASSUME CallsInv, Stable, NEW c \in Callers, NEW q \in Request, Call(c, q),
         q.op = "verify" => <<q.signer, q.challenge>> \in signed'
  PROVE  CallsInv'
<1> DEFINE v == [request |-> q, left |-> MaxRetries, status |-> "sending", answer |-> Nothing]
<1>1. calls[c] = Nothing /\ calls' = [calls EXCEPT ![c] = v] /\ handlers' = handlers
  BY DEF Call
<1>2. v \in CallRecord /\ v.request = q /\ v.status = "sending"
  BY CallAssumption DEF CallRecord
<1> HIDE DEF v
<1>3. GoodCallAfter(v)
  BY <1>2 DEF GoodCallAfter
<1>4. calls' \in [Callers -> CallRecord \union {Nothing}]
  BY <1>1, <1>2 DEF CallsInv
<1>5. \A d \in Callers : calls'[d] # Nothing => GoodCallAfter(calls'[d])
  BY <1>1, <1>3, AllStay DEF CallsInv
<1>6. ASSUME NEW h \in Handlers, handlers[h] # Nothing, handlers[h].by # Nothing
      PROVE  /\ handlers[h].by # c /\ handlers[h].by \in Callers
             /\ calls'[handlers[h].by] = calls[handlers[h].by]
  <2>1. handlers[h] \in HandlerRecord
    BY <1>6 DEF CallsInv
  <2>2. handlers[h].by \in Callers
    BY <1>6, <2>1 DEF HandlerRecord
  <2>3. Status(handlers[h].by, "waiting")
    BY <1>6 DEF CallsInv, Attended
  <2> QED
    BY <1>1, <2>2, <2>3 DEF Status, CallsInv
<1>7. Attended'
  BY <1>1, <1>6 DEF CallsInv, Attended, Status
<1> QED
  BY <1>1, <1>4, <1>5, <1>7, AllStay, CallsInvAfter DEF CallsInv

(* What follows a failure is the call before its next attempt, or none. *)
LEMMA FailureIsGood ==
  ASSUME NEW v \in CallRecord, GoodCallAfter(v)
  PROVE  /\ AfterFailure(v) \in CallRecord \union {Nothing}
         /\ AfterFailure(v) # Nothing => GoodCallAfter(AfterFailure(v))
<1>1. CASE v.left > 0
  <2> DEFINE w == [v EXCEPT !.left = @ - 1, !.status = "sending"]
  <2>1. AfterFailure(v) = w
    BY <1>1 DEF AfterFailure
  <2>2. v.left \in Nat
    BY DEF CallRecord
  <2>3. v.left - 1 \in Nat
    BY <1>1, <2>2
  <2>4. w \in CallRecord /\ w.request = v.request /\ w.status = "sending"
    BY <2>3 DEF CallRecord
  <2> HIDE DEF w
  <2> QED
    BY <2>1, <2>4 DEF GoodCallAfter
<1>2. CASE ~(v.left > 0)
  BY <1>2 DEF AfterFailure
<1> QED
  BY <1>1, <1>2

(* Whoever is still attended was, by the same caller, whose call is as it  *)
(* was.                                                                    *)
LEMMA AttendedStays ==
  ASSUME CallsInv,
         \A h \in Handlers : handlers'[h] # Nothing /\ handlers'[h].by # Nothing =>
           /\ handlers[h] # Nothing /\ handlers[h].by = handlers'[h].by
           /\ handlers[h].request = handlers'[h].request
           /\ calls'[handlers[h].by] = calls[handlers[h].by]
  PROVE  Attended'
BY DEF CallsInv, Attended, Status

LEMMA HandlerFacts ==
  ASSUME CallsInv, NEW h \in Handlers, handlers[h] # Nothing
  PROVE  /\ handlers[h] \in HandlerRecord /\ handlers[h].request \in Request
         /\ handlers[h].by \in Callers \union {Nothing} /\ GoodHandler(handlers[h])
         /\ handlers[h].by # Nothing =>
              /\ handlers[h].by \in Callers
              /\ calls[handlers[h].by] # Nothing
              /\ calls[handlers[h].by].status = "waiting"
              /\ calls[handlers[h].by].request = handlers[h].request
<1>1. handlers[h] \in HandlerRecord
  BY DEF CallsInv
<1> QED
  BY <1>1 DEF CallsInv, Attended, Status, HandlerRecord

LEMMA SendKeeps ==
  ASSUME CallsInv, Stable, NEW c \in Callers, Send(c)
  PROVE  CallsInv'
<1>1. PICK h \in Handlers :
        /\ handlers[h] = Nothing
        /\ handlers' = [handlers EXCEPT ![h] =
             [request |-> calls[c].request, by |-> c, step |-> "start", wallet |-> Nothing]]
  BY DEF Send
<1> DEFINE n == [request |-> calls[c].request, by |-> c, step |-> "start", wallet |-> Nothing]
           v == [calls[c] EXCEPT !.status = "waiting"]
<1>2. calls[c] # Nothing /\ calls[c].status = "sending" /\ calls' = [calls EXCEPT ![c] = v]
  BY DEF Send, Status, CallsInv
<1>3. calls[c] \in CallRecord /\ GoodCallAfter(calls[c])
  BY <1>2, AllStay
<1>4. v \in CallRecord /\ v.request = calls[c].request /\ v.status = "waiting"
  BY <1>3 DEF CallRecord
<1>5. n \in HandlerRecord /\ n.request = calls[c].request /\ n.by = c /\ n.step = "start"
  BY <1>3 DEF CallRecord, HandlerRecord
<1>6. handlers' = [handlers EXCEPT ![h] = n]
  BY <1>1
<1> HIDE DEF n, v
<1>7. GoodCallAfter(v) /\ GoodHandlerAfter(n)
  BY <1>3, <1>4, <1>5 DEF GoodCallAfter, GoodHandlerAfter
<1>8. /\ calls' \in [Callers -> CallRecord \union {Nothing}]
      /\ handlers' \in [Handlers -> HandlerRecord \union {Nothing}]
      /\ \A d \in Callers : calls'[d] = IF d = c THEN v ELSE calls[d]
      /\ \A g \in Handlers : handlers'[g] = IF g = h THEN n ELSE handlers[g]
  BY <1>2, <1>4, <1>5, <1>6 DEF CallsInv
<1>9. ASSUME NEW g \in Handlers, g # h, handlers[g] # Nothing, handlers[g].by # Nothing
      PROVE  handlers[g].by # c /\ handlers[g].by \in Callers
  BY <1>2, <1>9, HandlerFacts
<1>10. v # Nothing
  BY <1>4, NothingIsNoCall
<1>11. Attended'
  BY <1>4, <1>5, <1>8, <1>9, <1>10 DEF CallsInv, Attended, Status
<1> QED
  BY <1>7, <1>8, <1>11, AllStay, CallsInvAfter

(* A call ends or goes to its next attempt, and nobody listens any more.   *)
LEMMA AbandonKeeps ==
  ASSUME CallsInv, Stable, NEW c \in Callers, NEW v \in CallRecord \union {Nothing},
         v # Nothing => GoodCallAfter(v),
         calls' = [calls EXCEPT ![c] = v], handlers' = Abandoned(c)
  PROVE  CallsInv'
<1>1. \A d \in Callers : calls'[d] = IF d = c THEN v ELSE calls[d]
  BY DEF CallsInv
<1>2. ASSUME NEW h \in Handlers
      PROVE  handlers'[h] = IF handlers[h] # Nothing /\ handlers[h].by = c
                            THEN [handlers[h] EXCEPT !.by = Nothing] ELSE handlers[h]
  BY DEF Abandoned, Listening
<1>3. ASSUME NEW h \in Handlers, handlers[h] # Nothing
      PROVE  LET n == [handlers[h] EXCEPT !.by = Nothing]
             IN  /\ n \in HandlerRecord /\ n.request = handlers[h].request
                 /\ n.step = handlers[h].step /\ n.wallet = handlers[h].wallet
                 /\ n.by = Nothing
  BY <1>3, HandlerFacts DEF HandlerRecord
<1>4. ASSUME NEW h \in Handlers
      PROVE  /\ handlers'[h] \in HandlerRecord \union {Nothing}
             /\ handlers'[h] # Nothing => GoodHandlerAfter(handlers'[h])
  <2>1. CASE handlers[h] # Nothing /\ handlers[h].by = c
    <3> DEFINE n == [handlers[h] EXCEPT !.by = Nothing]
    <3>1. /\ n \in HandlerRecord /\ n.request = handlers[h].request
          /\ n.step = handlers[h].step /\ n.wallet = handlers[h].wallet
      BY <1>3, <2>1
    <3>2. handlers'[h] = n
      BY <1>2, <2>1
    <3> HIDE DEF n
    <3>3. GoodHandlerAfter(n)
      BY <2>1, <3>1, AllStay DEF GoodHandlerAfter
    <3> QED
      BY <3>1, <3>2, <3>3
  <2>2. CASE ~(handlers[h] # Nothing /\ handlers[h].by = c)
    BY <1>2, <2>2, AllStay
  <2> QED
    BY <2>1, <2>2
<1>5. handlers' = [h \in Handlers |-> handlers'[h]]
  BY DEF Abandoned
<1>6. handlers' \in [Handlers -> HandlerRecord \union {Nothing}]
  BY <1>4, <1>5
<1>7. ASSUME NEW h \in Handlers, handlers'[h] # Nothing, handlers'[h].by # Nothing
      PROVE  /\ handlers[h] # Nothing /\ handlers'[h] = handlers[h]
             /\ calls'[handlers[h].by] = calls[handlers[h].by]
  <2>1. ~(handlers[h] # Nothing /\ handlers[h].by = c)
    BY <1>2, <1>3, <1>7
  <2>2. handlers'[h] = handlers[h]
    BY <1>2, <2>1
  <2> QED
    BY <1>1, <1>7, <2>1, <2>2, HandlerFacts
<1>8. Attended'
  BY <1>7, AttendedStays
<1>9. calls' \in [Callers -> CallRecord \union {Nothing}]
  BY DEF CallsInv
<1> QED
  BY <1>1, <1>4, <1>6, <1>8, <1>9, AllStay, CallsInvAfter

LEMMA TimeOutKeeps ==
  ASSUME CallsInv, Stable, NEW c \in Callers, TimeOut(c)
  PROVE  CallsInv'
<1>1. calls[c] # Nothing /\ calls' = [calls EXCEPT ![c] = AfterFailure(calls[c])]
      /\ handlers' = Abandoned(c)
  BY DEF TimeOut, Status, CallsInv
<1>2. calls[c] \in CallRecord /\ GoodCallAfter(calls[c])
  BY <1>1, AllStay
<1> QED
  BY <1>1, <1>2, FailureIsGood, AbandonKeeps

(* Nobody works for a call that was answered. *)
LEMMA DoneKeeps ==
  ASSUME CallsInv, Stable, NEW c \in Callers, Status(c, "answered"), calls' = Done(c),
         handlers' = handlers
  PROVE  CallsInv'
<1>1. \A h \in Handlers : handlers[h] # Nothing => handlers[h].by # c
  BY HandlerFacts, CallAssumption DEF Status
<1>2. handlers' = Abandoned(c)
  <2>1. handlers = [h \in Handlers |-> handlers[h]]
    BY DEF CallsInv
  <2>2. Listening(c) = {}
    BY <1>1 DEF Listening
  <2> QED
    BY <2>1, <2>2 DEF Abandoned
<1>3. calls' = [calls EXCEPT ![c] = Nothing]
  BY DEF Done
<1> QED
  BY <1>2, <1>3, AbandonKeeps

Answer == [token : Tokens, wallet : Wallets] \union [link : Links] \union [claimed : Wallets]
            \union [proposer : Wallets]

(* A handler ends; its answer, if it has one, fits its request.            *)
LEMMA FinishKeeps ==
  ASSUME CallsInv, Stable, NEW h \in Handlers, handlers[h] # Nothing,
         NEW answer, Finish(h, answer),
         answer # Nothing => answer \in Answer,
         answer # Nothing /\ handlers[h].request.op = "verify" =>
           /\ answer \in [token : Tokens, wallet : Wallets]
           /\ sessions'[answer.token] # Nothing
           /\ sessions'[answer.token].wallet = answer.wallet
  PROVE  CallsInv'
<1> DEFINE c == handlers[h].by
<1>1. /\ c \in Callers \union {Nothing}
      /\ c # Nothing => /\ c \in Callers /\ calls[c] # Nothing
                        /\ calls[c].request = handlers[h].request
  BY HandlerFacts
<1>2. /\ handlers' = [handlers EXCEPT ![h] = Nothing]
      /\ calls' = IF c = Nothing THEN calls
                  ELSE [calls EXCEPT ![c] =
                          IF answer = Nothing THEN AfterFailure(calls[c])
                          ELSE [calls[c] EXCEPT !.status = "answered", !.answer = answer]]
  BY <1>1 DEF Finish, CallsInv
<1> HIDE DEF c
<1>3. ASSUME c # Nothing
      PROVE  \E v \in CallRecord \union {Nothing} :
               /\ v # Nothing => GoodCallAfter(v)
               /\ calls' = [calls EXCEPT ![c] = v]
  <2>1. calls[c] \in CallRecord /\ GoodCallAfter(calls[c])
    BY <1>1, <1>3, AllStay
  <2>2. CASE answer = Nothing
    BY <1>2, <1>3, <2>1, <2>2, FailureIsGood
  <2>3. CASE answer # Nothing
    <3> DEFINE v == [calls[c] EXCEPT !.status = "answered", !.answer = answer]
    <3>1. /\ v \in CallRecord /\ v.request = calls[c].request /\ v.answer = answer
      BY <2>1, <2>3 DEF CallRecord, Answer
    <3>2. calls' = [calls EXCEPT ![c] = v]
      BY <1>2, <1>3, <2>3
    <3> HIDE DEF v
    <3>3. GoodCallAfter(v)
      BY <1>1, <1>3, <2>1, <2>3, <3>1 DEF GoodCallAfter
    <3> QED
      BY <3>1, <3>2, <3>3
  <2> QED
    BY <2>2, <2>3
<1>4. /\ calls' \in [Callers -> CallRecord \union {Nothing}]
      /\ \A d \in Callers : calls'[d] # Nothing => GoodCallAfter(calls'[d])
      /\ \A d \in Callers : d # c => calls'[d] = calls[d]
  <2>1. CASE c = Nothing
    BY <1>2, <2>1, AllStay DEF CallsInv
  <2>2. CASE c # Nothing
    <3>1. PICK v \in CallRecord \union {Nothing} :
            (v # Nothing => GoodCallAfter(v)) /\ calls' = [calls EXCEPT ![c] = v]
      BY <1>3, <2>2
    <3>2. \A d \in Callers : calls'[d] = IF d = c THEN v ELSE calls[d]
      BY <3>1 DEF CallsInv
    <3> QED
      BY <3>1, <3>2, AllStay DEF CallsInv
  <2> QED
    BY <2>1, <2>2
<1>5. \A g \in Handlers : handlers'[g] = IF g = h THEN Nothing ELSE handlers[g]
  BY <1>2 DEF CallsInv
<1>6. handlers' \in [Handlers -> HandlerRecord \union {Nothing}]
  BY <1>2 DEF CallsInv
<1>7. ASSUME NEW g \in Handlers, handlers'[g] # Nothing, handlers'[g].by # Nothing
      PROVE  /\ handlers[g] # Nothing /\ handlers'[g] = handlers[g]
             /\ calls'[handlers[g].by] = calls[handlers[g].by]
  <2>1. g # h /\ handlers'[g] = handlers[g]
    BY <1>5, <1>7
  <2>2. handlers[g].by \in Callers
    BY <1>7, <2>1, HandlerFacts
  <2>3. handlers[g].by # c
    BY <1>7, <2>1 DEF CallsInv, Attended, c
  <2> QED
    BY <1>4, <1>7, <2>1, <2>2, <2>3
<1>8. Attended'
  BY <1>7, AttendedStays
<1> QED
  BY <1>4, <1>5, <1>6, <1>8, AllStay, CallsInvAfter

(* A handler goes on to its next await. *)
LEMMA NextStepKeeps ==
  ASSUME CallsInv, Stable, NEW h \in Handlers, handlers[h] # Nothing,
         NEW v \in HandlerRecord, v.request = handlers[h].request, v.by = handlers[h].by,
         GoodHandlerAfter(v), handlers' = [handlers EXCEPT ![h] = v], calls' = calls
  PROVE  CallsInv'
<1>1. \A g \in Handlers : handlers'[g] = IF g = h THEN v ELSE handlers[g]
  BY DEF CallsInv
<1>2. handlers' \in [Handlers -> HandlerRecord \union {Nothing}]
  BY DEF CallsInv
<1>3. \A g \in Handlers : handlers'[g] # Nothing =>
        /\ handlers[g] # Nothing /\ handlers'[g].by = handlers[g].by
        /\ handlers'[g].request = handlers[g].request
  BY <1>1
<1>4. Attended'
  BY <1>3, AttendedStays
<1>5. \A g \in Handlers : handlers'[g] # Nothing => GoodHandlerAfter(handlers'[g])
  BY <1>1, AllStay
<1> QED
  BY <1>2, <1>4, <1>5, AllStay, CallsInvAfter DEF CallsInv

LEMMA GotoKeeps ==
  ASSUME CallsInv, Stable, NEW h \in Handlers, handlers[h] # Nothing,
         NEW step \in {"select", "mark", "insert", "update", "read"}, Goto(h, step),
         handlers[h].request.op = "verify" =>
           /\ challenges'[handlers[h].request.challenge] # Nothing
           /\ <<challenges'[handlers[h].request.challenge].wallet,
                handlers[h].request.challenge>> \in signed',
         handlers[h].request.op \in {"create", "propose"} =>
           /\ handlers[h].wallet \in Wallets
           /\ \E c \in Challenges : <<handlers[h].wallet, c>> \in signed',
         handlers[h].request.op = "claim" => links'[handlers[h].request.link] # Nothing
  PROVE  CallsInv'
<1> DEFINE v == [handlers[h] EXCEPT !.step = step]
<1>1. handlers' = [handlers EXCEPT ![h] = v] /\ calls' = calls
  BY DEF Goto, CallsInv
<1>2. handlers[h] \in HandlerRecord /\ GoodHandlerAfter(handlers[h])
  BY AllStay
<1>3. /\ v \in HandlerRecord /\ v.request = handlers[h].request /\ v.by = handlers[h].by
      /\ v.wallet = handlers[h].wallet
  BY <1>2 DEF HandlerRecord
<1> HIDE DEF v
<1>4. GoodHandlerAfter(v)
  BY <1>2, <1>3 DEF GoodHandlerAfter
<1> QED
  BY <1>1, <1>3, <1>4, NextStepKeeps

(* A restart fails whatever these handlers were working on. *)
LEMMA CrashKeeps ==
  ASSUME CallsInv, Stable, NEW hs \in SUBSET Handlers, Crash(hs)
  PROVE  CallsInv'
<1>1. /\ \A h \in Handlers : handlers'[h] = IF h \in hs THEN Nothing ELSE handlers[h]
      /\ \A c \in Callers : calls'[c] =
           IF Listening(c) \intersect hs # {} THEN AfterFailure(calls[c]) ELSE calls[c]
      /\ handlers' = [h \in Handlers |-> handlers'[h]]
      /\ calls' = [c \in Callers |-> calls'[c]]
  BY DEF Crash
<1>2. ASSUME NEW c \in Callers
      PROVE  /\ calls'[c] \in CallRecord \union {Nothing}
             /\ calls'[c] # Nothing => GoodCallAfter(calls'[c])
  <2>1. CASE Listening(c) \intersect hs # {}
    <3>1. PICK h \in Handlers : handlers[h] # Nothing /\ handlers[h].by = c
      BY <2>1 DEF Listening
    <3>2. calls[c] # Nothing
      BY <3>1, HandlerFacts, CallAssumption
    <3>3. calls[c] \in CallRecord /\ GoodCallAfter(calls[c])
      BY <3>2, AllStay
    <3> QED
      BY <1>1, <2>1, <3>3, FailureIsGood
  <2>2. CASE Listening(c) \intersect hs = {}
    BY <1>1, <2>2, AllStay
  <2> QED
    BY <2>1, <2>2
<1>3. ASSUME NEW g \in Handlers, handlers'[g] # Nothing, handlers'[g].by # Nothing
      PROVE  /\ handlers[g] # Nothing /\ handlers'[g] = handlers[g]
             /\ calls'[handlers[g].by] = calls[handlers[g].by]
  <2>1. g \notin hs /\ handlers'[g] = handlers[g]
    BY <1>1, <1>3
  <2>2. handlers[g].by \in Callers
    BY <1>3, <2>1, HandlerFacts
  <2>3. Listening(handlers[g].by) \intersect hs = {}
    <3> SUFFICES ASSUME NEW h \in Listening(handlers[g].by), h \in hs
                 PROVE  FALSE
      OBVIOUS
    <3>1. h \in Handlers /\ handlers[h] # Nothing /\ handlers[h].by = handlers[g].by
      BY DEF Listening
    <3>2. g = h
      BY <1>3, <2>1, <3>1 DEF CallsInv, Attended
    <3> QED
      BY <2>1, <3>2
  <2> QED
    BY <1>1, <1>3, <2>1, <2>2, <2>3
<1>4. Attended'
  BY <1>3, AttendedStays
<1>5. handlers' \in [Handlers -> HandlerRecord \union {Nothing}]
  BY <1>1 DEF CallsInv
<1>6. calls' \in [Callers -> CallRecord \union {Nothing}]
  BY <1>1, <1>2
<1> QED
  BY <1>1, <1>2, <1>4, <1>5, <1>6, AllStay, CallsInvAfter

(***************************************************************************)
(* The tables.                                                             *)
(***************************************************************************)

(* The store changes so that rows keep whom they are for, and new sessions *)
(* are signed for.                                                         *)
LEMMA StoreGains ==
  ASSUME TablesInv, signed \subseteq signed', signed' \subseteq Wallets \X Challenges,
         challenges' \in [Challenges -> Challenge \union {Nothing}],
         sessions' \in [Tokens -> Session \union {Nothing}],
         \A c \in Challenges : challenges[c] # Nothing =>
           challenges'[c] # Nothing /\ challenges'[c].wallet = challenges[c].wallet,
         \A t \in Tokens : sessions[t] # Nothing =>
           /\ sessions'[t] # Nothing /\ sessions'[t].wallet = sessions[t].wallet
           /\ sessions'[t].challenge = sessions[t].challenge,
         \A t \in Tokens : sessions'[t] # Nothing /\ sessions[t] = Nothing =>
           <<sessions'[t].wallet, sessions'[t].challenge>> \in signed',
         UNCHANGED <<linkVars, proposalVars>>
  PROVE  Stable /\ TablesInv'
<1>1. links' = links /\ proposals' = proposals
  BY DEF linkVars, proposalVars
<1>2. Stable
  BY <1>1 DEF Stable
<1>3. \A t \in Tokens : sessions'[t] # Nothing =>
        <<sessions'[t].wallet, sessions'[t].challenge>> \in signed'
  BY DEF TablesInv
<1>4. StoreTypeOK' /\ LinksTypeOK' /\ ProposalsTypeOK'
  BY <1>1 DEF TablesInv, StoreTypeOK, LinksTypeOK, ProposalsTypeOK
<1>5. \A l \in Links : links'[l] # Nothing =>
        links'[l].initiator \in Wallets /\ \E c \in Challenges : <<links'[l].initiator, c>> \in signed'
  BY <1>1 DEF TablesInv, Proven
<1>6. \A p \in ProposalIds : proposals'[p] # Nothing =>
        proposals'[p].proposer \in Wallets
        /\ \E c \in Challenges : <<proposals'[p].proposer, c>> \in signed'
  BY <1>1 DEF TablesInv, Proven
<1> QED
  BY <1>2, <1>3, <1>4, <1>5, <1>6 DEF TablesInv, Proven

LEMMA StoreTypes ==
  ASSUME TablesInv
  PROVE  /\ challenges \in [Challenges -> Challenge \union {Nothing}]
         /\ sessions \in [Tokens -> Session \union {Nothing}]
         /\ signed \subseteq Wallets \X Challenges
         /\ links \in [Links -> Link \union {Nothing}]
         /\ proposals \in [ProposalIds -> Proposal \union {Nothing}]
BY DEF TablesInv, StoreTypeOK, LinksTypeOK, ProposalsTypeOK

LEMMA UnchangedTables ==
  ASSUME TablesInv, UNCHANGED TableVars
  PROVE  Stable /\ TablesInv'
<1>1. challenges' = challenges /\ sessions' = sessions /\ signed' = signed
      /\ UNCHANGED <<linkVars, proposalVars>>
  BY DEF TableVars, storeVars
<1> QED
  BY <1>1, StoreTypes, StoreGains

LEMMA IssueGains ==
  ASSUME TablesInv, NEW c \in Challenges, NEW w \in Wallets, IssueChallenge(c, w),
         UNCHANGED <<linkVars, proposalVars>>
  PROVE  Stable /\ TablesInv' /\ challenges'[c] # Nothing
<1>1. PICK s \in Stores :
        challenges' = [challenges EXCEPT ![c] = [wallet |-> w, store |-> s, state |-> "live"]]
  BY DEF IssueChallenge
<1> DEFINE n == [wallet |-> w, store |-> s, state |-> "live"]
<1>2. n \in Challenge
  BY DEF Challenge
<1>3. challenges[c] = Nothing /\ challenges' = [challenges EXCEPT ![c] = n]
      /\ sessions' = sessions /\ signed' = signed
  BY <1>1 DEF IssueChallenge
<1> HIDE DEF n
<1>4. challenges' \in [Challenges -> Challenge \union {Nothing}]
      /\ (\A d \in Challenges : challenges'[d] = IF d = c THEN n ELSE challenges[d])
  BY <1>2, <1>3, StoreTypes
<1>5. n # Nothing
  BY <1>2, NothingIsNoRow
<1> QED
  BY <1>3, <1>4, <1>5, StoreTypes, StoreGains

(* Marking a challenge leaves it whose it is. *)
LEMMA RestatedChallenge ==
  ASSUME NEW row \in Challenge, NEW state \in {"live", "used", "gone"}
  PROVE  /\ [row EXCEPT !.state = state] \in Challenge
         /\ [row EXCEPT !.state = state] # Nothing
         /\ [row EXCEPT !.state = state].wallet = row.wallet
<1>1. [row EXCEPT !.state = state] \in Challenge
  BY DEF Challenge
<1> QED
  BY <1>1, NothingIsNoRow DEF Challenge

LEMMA RestatedSession ==
  ASSUME NEW row \in Session, NEW state \in {"live", "revoked", "gone"}
  PROVE  /\ [row EXCEPT !.state = state] \in Session
         /\ [row EXCEPT !.state = state] # Nothing
         /\ [row EXCEPT !.state = state].wallet = row.wallet
         /\ [row EXCEPT !.state = state].challenge = row.challenge
<1>1. [row EXCEPT !.state = state] \in Session
  BY DEF Session
<1> QED
  BY <1>1, NothingIsNoRow DEF Session

LEMMA MarkedChallenge ==
  ASSUME TablesInv, NEW c \in Challenges, challenges[c] # Nothing,
         NEW state \in {"live", "used", "gone"},
         challenges' = [challenges EXCEPT ![c].state = state]
  PROVE  /\ challenges' \in [Challenges -> Challenge \union {Nothing}]
         /\ \A d \in Challenges : challenges[d] # Nothing =>
              challenges'[d] # Nothing /\ challenges'[d].wallet = challenges[d].wallet
<1> DEFINE n == [challenges[c] EXCEPT !.state = state]
<1>1. challenges[c] \in Challenge
  BY StoreTypes
<1>2. n \in Challenge /\ n # Nothing /\ n.wallet = challenges[c].wallet
  BY <1>1, RestatedChallenge
<1>3. challenges' = [challenges EXCEPT ![c] = n]
  BY StoreTypes
<1> HIDE DEF n
<1>4. challenges' \in [Challenges -> Challenge \union {Nothing}]
      /\ (\A d \in Challenges : challenges'[d] = IF d = c THEN n ELSE challenges[d])
  BY <1>2, <1>3, StoreTypes
<1> QED
  BY <1>2, <1>4

LEMMA MarkGains ==
  ASSUME TablesInv, NEW c \in Challenges, challenges[c] # Nothing,
         NEW state \in {"live", "used", "gone"},
         challenges' = [challenges EXCEPT ![c].state = state],
         UNCHANGED <<sessions, signed, linkVars, proposalVars>>
  PROVE  Stable /\ TablesInv'
BY MarkedChallenge, StoreTypes, StoreGains

(* A new session is for the wallet that signed its challenge. *)
LEMMA OpenGains ==
  ASSUME TablesInv, NEW c \in Challenges, Verified(c), NEW store \in Stores,
         NEW t \in Tokens, sessions[t] = Nothing,
         sessions' = [sessions EXCEPT ![t] =
           [wallet |-> challenges[c].wallet, challenge |-> c, store |-> store, state |-> "live"]],
         challenges' = challenges \/ challenges' = [challenges EXCEPT ![c].state = "used"],
         UNCHANGED <<signed, linkVars, proposalVars>>
  PROVE  /\ Stable /\ TablesInv'
         /\ sessions'[t] # Nothing /\ sessions'[t].wallet = challenges[c].wallet
<1> DEFINE n == [wallet |-> challenges[c].wallet, challenge |-> c, store |-> store,
                 state |-> "live"]
<1>1. challenges[c] \in Challenge /\ <<challenges[c].wallet, c>> \in signed
  BY StoreTypes DEF Verified
<1>2. n \in Session /\ n.wallet = challenges[c].wallet /\ n.challenge = c
  BY <1>1 DEF Session, Challenge
<1>3. sessions' = [sessions EXCEPT ![t] = n]
  OBVIOUS
<1> HIDE DEF n
<1>4. sessions' \in [Tokens -> Session \union {Nothing}]
      /\ (\A q \in Tokens : sessions'[q] = IF q = t THEN n ELSE sessions[q])
  BY <1>2, <1>3, StoreTypes
<1>5. n # Nothing
  BY <1>2, NothingIsNoRow
<1>6. /\ challenges' \in [Challenges -> Challenge \union {Nothing}]
      /\ \A d \in Challenges : challenges[d] # Nothing =>
           challenges'[d] # Nothing /\ challenges'[d].wallet = challenges[d].wallet
  BY MarkedChallenge, StoreTypes DEF Verified
<1>7. Stable /\ TablesInv'
  BY <1>1, <1>2, <1>4, <1>5, <1>6, StoreTypes, StoreGains
<1> QED
  BY <1>2, <1>4, <1>5, <1>7

LEMMA RevokeGains ==
  ASSUME TablesInv, NEW t \in Tokens, Revoke(t), UNCHANGED <<linkVars, proposalVars>>
  PROVE  Stable /\ TablesInv'
<1>1. PICK reached \in SUBSET Stores :
        sessions' = [sessions EXCEPT ![t] =
          IF @ # Nothing /\ @.state = "live" /\ @.store \in reached
          THEN [@ EXCEPT !.state = "revoked"] ELSE @]
  BY DEF Revoke
<1>2. challenges' = challenges /\ signed' = signed
  BY DEF Revoke
<1>3. ASSUME NEW q \in Tokens
      PROVE  /\ sessions'[q] \in Session \union {Nothing}
             /\ sessions[q] = Nothing => sessions'[q] = Nothing
             /\ sessions[q] # Nothing =>
                  /\ sessions'[q] # Nothing /\ sessions'[q].wallet = sessions[q].wallet
                  /\ sessions'[q].challenge = sessions[q].challenge
  <2>1. sessions[q] \in Session \union {Nothing}
    BY StoreTypes
  <2>2. sessions'[q] = sessions[q] \/
        (sessions[q] # Nothing /\ sessions'[q] = [sessions[q] EXCEPT !.state = "revoked"])
    BY <1>1, StoreTypes
  <2> QED
    BY <2>1, <2>2, RestatedSession
<1>4. sessions' \in [Tokens -> Session \union {Nothing}]
  BY <1>1, <1>3, StoreTypes
<1> QED
  BY <1>2, <1>3, <1>4, StoreTypes, StoreGains

LEMMA ExpireGains ==
  ASSUME TablesInv, UNCHANGED <<linkVars, proposalVars>>,
         (\E c \in Challenges : ExpireChallenge(c)) \/ (\E t \in Tokens : ExpireSession(t))
  PROVE  Stable /\ TablesInv'
<1>1. ASSUME NEW c \in Challenges, ExpireChallenge(c)
      PROVE  Stable /\ TablesInv'
  BY <1>1, MarkGains DEF ExpireChallenge
<1>2. ASSUME NEW t \in Tokens, ExpireSession(t)
      PROVE  Stable /\ TablesInv'
  <2> DEFINE n == [sessions[t] EXCEPT !.state = "gone"]
  <2>1. sessions[t] \in Session /\ challenges' = challenges /\ signed' = signed
    BY <1>2, StoreTypes DEF ExpireSession
  <2>2. n \in Session /\ n # Nothing /\ n.wallet = sessions[t].wallet
        /\ n.challenge = sessions[t].challenge
    BY <2>1, RestatedSession
  <2>3. sessions' = [sessions EXCEPT ![t] = n]
    BY <1>2, StoreTypes DEF ExpireSession
  <2> HIDE DEF n
  <2>4. sessions' \in [Tokens -> Session \union {Nothing}]
        /\ (\A q \in Tokens : sessions'[q] = IF q = t THEN n ELSE sessions[q])
    BY <2>2, <2>3, StoreTypes
  <2>5. sessions[t] # Nothing
    BY <1>2 DEF ExpireSession
  <2> QED
    BY <2>1, <2>2, <2>4, <2>5, StoreTypes, StoreGains
<1> QED
  BY <1>1, <1>2

(* A restart loses the rows in memory, not whom they were for. *)
LEMMA RestartGains ==
  ASSUME TablesInv, NEW hs, RestartServer(hs), UNCHANGED <<linkVars, proposalVars>>
  PROVE  Stable /\ TablesInv'
<1>1. /\ challenges' = [c \in Challenges |-> Forgotten(challenges[c])]
      /\ sessions' = [t \in Tokens |-> Forgotten(sessions[t])] /\ signed' = signed
  BY DEF RestartServer
<1>2. ASSUME NEW c \in Challenges
      PROVE  /\ challenges'[c] \in Challenge \union {Nothing}
             /\ challenges[c] # Nothing =>
                  challenges'[c] # Nothing /\ challenges'[c].wallet = challenges[c].wallet
  <2>1. challenges[c] \in Challenge \union {Nothing}
    BY StoreTypes
  <2>2. challenges'[c] = challenges[c] \/
        (challenges[c] # Nothing /\ challenges'[c] = [challenges[c] EXCEPT !.state = "gone"])
    BY <1>1 DEF Forgotten
  <2> QED
    BY <2>1, <2>2, RestatedChallenge
<1>3. ASSUME NEW t \in Tokens
      PROVE  /\ sessions'[t] \in Session \union {Nothing}
             /\ sessions[t] = Nothing => sessions'[t] = Nothing
             /\ sessions[t] # Nothing =>
                  /\ sessions'[t] # Nothing /\ sessions'[t].wallet = sessions[t].wallet
                  /\ sessions'[t].challenge = sessions[t].challenge
  <2>1. sessions[t] \in Session \union {Nothing}
    BY StoreTypes
  <2>2. sessions'[t] = sessions[t] \/
        (sessions[t] # Nothing /\ sessions'[t] = [sessions[t] EXCEPT !.state = "gone"])
    BY <1>1 DEF Forgotten
  <2> QED
    BY <2>1, <2>2, RestatedSession
<1>4. /\ challenges' \in [Challenges -> Challenge \union {Nothing}]
      /\ sessions' \in [Tokens -> Session \union {Nothing}]
  BY <1>1, <1>2, <1>3
<1> QED
  BY <1>1, <1>2, <1>3, <1>4, StoreTypes, StoreGains

(* The rows of the links, or of the offers, change: who made them stays    *)
(* and a new one was made by a wallet that signed.                         *)
LEMMA LinksGain ==
  ASSUME TablesInv, links' \in [Links -> Link \union {Nothing}],
         \A l \in Links : links[l] # Nothing =>
           links'[l] # Nothing /\ links'[l].initiator = links[l].initiator,
         \A l \in Links : links'[l] # Nothing /\ links[l] = Nothing => Proven(links'[l].initiator),
         UNCHANGED <<storeVars, proposalVars>>
  PROVE  Stable /\ TablesInv'
<1>1. /\ challenges' = challenges /\ sessions' = sessions /\ signed' = signed
      /\ proposals' = proposals
  BY DEF storeVars, proposalVars
<1>2. Stable
  BY <1>1 DEF Stable
<1>3. \A l \in Links : links'[l] # Nothing => Proven(links'[l].initiator)
  BY DEF TablesInv
<1>4. StoreTypeOK' /\ LinksTypeOK' /\ ProposalsTypeOK'
  BY <1>1 DEF TablesInv, StoreTypeOK, LinksTypeOK, ProposalsTypeOK
<1> QED
  BY <1>1, <1>2, <1>3, <1>4 DEF TablesInv, Proven

LEMMA ProposalsGain ==
  ASSUME TablesInv, NEW p \in ProposalIds, NEW v \in Proposal, Proven(v.proposer),
         proposals' = [proposals EXCEPT ![p] = v],
         UNCHANGED <<storeVars, linkVars>>
  PROVE  Stable /\ TablesInv'
<1>1. /\ challenges' = challenges /\ sessions' = sessions /\ signed' = signed
      /\ links' = links
  BY DEF storeVars, linkVars
<1>2. Stable
  BY <1>1 DEF Stable
<1>3. proposals' \in [ProposalIds -> Proposal \union {Nothing}]
      /\ (\A q \in ProposalIds : proposals'[q] = IF q = p THEN v ELSE proposals[q])
  BY StoreTypes
<1>4. \A q \in ProposalIds : proposals'[q] # Nothing => Proven(proposals'[q].proposer)
  BY <1>3 DEF TablesInv
<1>5. StoreTypeOK' /\ LinksTypeOK' /\ ProposalsTypeOK'
  BY <1>1, <1>3 DEF TablesInv, StoreTypeOK, LinksTypeOK, ProposalsTypeOK
<1> QED
  BY <1>1, <1>2, <1>4, <1>5 DEF TablesInv, Proven

(***************************************************************************)
(* The steps of the handlers.                                              *)
(***************************************************************************)
Kept == Stable /\ TablesInv' /\ CallsInv'

LEMMA RefusalKeeps ==
  ASSUME CallsInv, TablesInv, NEW h \in Handlers, handlers[h] # Nothing,
         Finish(h, Nothing), UNCHANGED TableVars
  PROVE  Kept
BY UnchangedTables, FinishKeeps DEF Kept

LEMMA OpenKeeps ==
  ASSUME CallsInv, TablesInv, NEW h \in Handlers, handlers[h] # Nothing,
         handlers[h].request.op = "verify", Verified(handlers[h].request.challenge),
         NEW store \in Stores, OpenSession(h, store),
         challenges' = challenges \/ Use(handlers[h].request.challenge),
         UNCHANGED <<linkVars, proposalVars>>
  PROVE  Kept
<1> DEFINE r == handlers[h].request
           w == challenges[r.challenge].wallet
<1>1. r.challenge \in Challenges
  BY HandlerFacts, RequestKinds
<1>2. PICK t \in Tokens :
        /\ sessions[t] = Nothing
        /\ sessions' = [sessions EXCEPT ![t] =
             [wallet |-> w, challenge |-> r.challenge, store |-> store, state |-> "live"]]
        /\ Finish(h, IF r.wallet = w THEN [token |-> t, wallet |-> w] ELSE Nothing)
        /\ UNCHANGED signed
  BY DEF OpenSession
<1>3. /\ Stable /\ TablesInv'
      /\ sessions'[t] # Nothing /\ sessions'[t].wallet = w
  BY <1>1, <1>2, OpenGains DEF Use
<1>4. w \in Wallets
  BY <1>1, StoreTypes DEF Verified, Challenge
<1>5. CASE r.wallet = w
  <2> DEFINE a == [token |-> t, wallet |-> w]
  <2>1. a \in [token : Tokens, wallet : Wallets] /\ a.token = t /\ a.wallet = w
    BY <1>4
  <2>2. Finish(h, a)
    BY <1>2, <1>5
  <2> HIDE DEF a
  <2> QED
    BY <1>3, <2>1, <2>2, FinishKeeps DEF Kept, Answer
<1>6. CASE r.wallet # w
  BY <1>2, <1>3, <1>6, FinishKeeps DEF Kept
<1> QED
  BY <1>5, <1>6

LEMMA MatchIsVerified ==
  ASSUME CallsInv, NEW h \in Handlers, handlers[h] # Nothing,
         handlers[h].request.op = "verify", SignatureMatches(h),
         challenges[handlers[h].request.challenge] # Nothing
  PROVE  Verified(handlers[h].request.challenge)
BY HandlerFacts DEF GoodHandler, Signed, SignatureMatches, Verified

LEMMA MemoryKeeps ==
  ASSUME CallsInv, TablesInv, NEW h \in Handlers, handlers[h] # Nothing,
         handlers[h].request.op = "verify", VerifyInMemory(h),
         UNCHANGED <<linkVars, proposalVars>>
  PROVE  Kept
<1> DEFINE c == handlers[h].request.challenge
<1>1. CASE /\ Live(challenges[c], "memory") /\ SignatureMatches(h)
           /\ Use(c) /\ OpenSession(h, "memory")
  <2>1. Verified(c)
    BY <1>1, MatchIsVerified DEF Live
  <2> QED
    BY <1>1, <2>1, OpenKeeps DEF Stores
<1>2. CASE Finish(h, Nothing) /\ UNCHANGED storeVars
  BY <1>2, RefusalKeeps DEF TableVars
<1> QED
  BY <1>1, <1>2 DEF VerifyInMemory

(* A challenge that passes goes on to be marked, and from there to the     *)
(* insert of the session.                                                  *)
LEMMA AcceptedKeeps ==
  ASSUME CallsInv, TablesInv, NEW h \in Handlers, handlers[h] # Nothing,
         handlers[h].request.op = "verify", SignatureMatches(h),
         challenges[handlers[h].request.challenge] # Nothing,
         Goto(h, "mark"), UNCHANGED TableVars
  PROVE  Kept
<1>1. Stable /\ TablesInv'
  BY UnchangedTables
<1>2. Verified(handlers[h].request.challenge)
  BY MatchIsVerified
<1>3. challenges' = challenges /\ signed' = signed
  BY DEF TableVars, storeVars
<1> QED
  BY <1>1, <1>2, <1>3, GotoKeeps DEF Kept, Verified

LEMMA MarkKeeps ==
  ASSUME CallsInv, TablesInv, NEW h \in Handlers, At(h, "verify", "mark"),
         Use(handlers[h].request.challenge), Goto(h, "insert"),
         UNCHANGED <<sessions, signed, linkVars, proposalVars>>
  PROVE  Kept
<1> DEFINE c == handlers[h].request.challenge
<1>1. c \in Challenges /\ Verified(c)
  BY HandlerFacts, RequestKinds DEF At, GoodHandler
<1>2. Stable /\ TablesInv'
  BY <1>1, MarkGains DEF Use, Verified
<1>3. challenges'[c] # Nothing /\ <<challenges'[c].wallet, c>> \in signed'
  BY <1>1, <1>2 DEF Stable, Verified
<1> QED
  BY <1>2, <1>3, GotoKeeps DEF Kept, At

LEMMA VerifyKeeps ==
  ASSUME CallsInv, TablesInv, NEW h \in Handlers, VerifyStep(h) \/ PhpVerifyStep(h),
         UNCHANGED <<linkVars, proposalVars>>
  PROVE  Kept
<1>1. handlers[h] # Nothing /\ handlers[h].request.op = "verify"
  BY DEF VerifyStep, PhpVerifyStep, SelectChallenge, MarkUsed, InsertSession,
         PhpSelectChallenge, PhpMarkUsed, PhpInsertSession, At
<1>2. CASE Failed(h)
  BY <1>1, <1>2, RefusalKeeps DEF Failed, TableVars
<1>3. CASE VerifyInMemory(h)
  BY <1>1, <1>3, MemoryKeeps
<1>4. CASE /\ Live(challenges[handlers[h].request.challenge], "database")
           /\ SignatureMatches(h) /\ Goto(h, "mark") /\ UNCHANGED storeVars
  BY <1>1, <1>4, AcceptedKeeps DEF Live, TableVars
<1>5. CASE /\ At(h, "verify", "mark") /\ Use(handlers[h].request.challenge)
           /\ Goto(h, "insert") /\ UNCHANGED <<sessions, signed>>
  BY <1>5, MarkKeeps
<1>6. CASE /\ At(h, "verify", "insert") /\ OpenSession(h, "database")
           /\ UNCHANGED challenges
  <2>1. Verified(handlers[h].request.challenge)
    BY <1>1, <1>6, HandlerFacts DEF At, GoodHandler
  <2> QED
    BY <1>1, <1>6, <2>1, OpenKeeps DEF Stores
<1>7. CASE SelectChallenge(h)
  BY <1>2, <1>3, <1>4, <1>7 DEF SelectChallenge, Failed
<1>8. CASE MarkUsed(h)
  BY <1>3, <1>5, <1>8 DEF MarkUsed
<1>9. CASE InsertSession(h)
  BY <1>3, <1>6, <1>9 DEF InsertSession
<1>10. CASE PhpSelectChallenge(h)
  BY <1>2, <1>4, <1>10 DEF PhpSelectChallenge
<1>11. CASE PhpMarkUsed(h)
  BY <1>2, <1>5, <1>11 DEF PhpMarkUsed
<1>12. CASE PhpInsertSession(h)
  BY <1>2, <1>6, <1>12 DEF PhpInsertSession
<1> QED
  BY <1>7, <1>8, <1>9, <1>10, <1>11, <1>12 DEF VerifyStep, PhpVerifyStep

(* A session found makes its wallet the one the handler works for. *)
LEMMA AuthorisedKeeps ==
  ASSUME CallsInv, TablesInv, NEW h \in Handlers, NEW op \in {"create", "propose"},
         At(h, op, "start"), NEW store \in Stores,
         LookupFinds(handlers[h].request.token, store),
         handlers' = [handlers EXCEPT ![h].step = "select",
                                      ![h].wallet = sessions[handlers[h].request.token].wallet],
         UNCHANGED <<calls, TableVars>>
  PROVE  Kept
<1> DEFINE k == handlers[h].request.token
           w == sessions[k].wallet
           v == [handlers[h] EXCEPT !.step = "select", !.wallet = w]
<1>1. /\ handlers[h] # Nothing /\ handlers[h] \in HandlerRecord
      /\ handlers[h].request.op = op /\ handlers[h].request \in Request
      /\ GoodHandler(handlers[h])
  BY HandlerFacts DEF At
<1>2. k \in Tokens /\ sessions[k] # Nothing
  BY <1>1, RequestKinds DEF LookupFinds, Live
<1>3. sessions[k] \in Session /\ <<w, sessions[k].challenge>> \in signed
  BY <1>2, StoreTypes DEF TablesInv
<1>4. w \in Wallets /\ sessions[k].challenge \in Challenges
  BY <1>3 DEF Session
<1>5. Stable /\ TablesInv' /\ signed' = signed
  BY UnchangedTables DEF TableVars, storeVars
<1>6. /\ v \in HandlerRecord /\ v.request = handlers[h].request /\ v.by = handlers[h].by
      /\ v.wallet = w
  BY <1>1, <1>4 DEF HandlerRecord
<1>7. handlers' = [handlers EXCEPT ![h] = v]
  BY <1>1 DEF CallsInv
<1> HIDE DEF v
<1>8. GoodHandlerAfter(v)
  BY <1>1, <1>3, <1>4, <1>5, <1>6 DEF GoodHandlerAfter, GoodHandler, Signed
<1> QED
  BY <1>1, <1>5, <1>6, <1>7, <1>8, NextStepKeeps DEF Kept

(* A handler past its check goes on with the tables as they are. *)
LEMMA WorkingKeeps ==
  ASSUME CallsInv, TablesInv, NEW h \in Handlers, NEW op \in {"create", "propose"},
         NEW from \in {"select", "insert"}, NEW step \in {"insert", "read"},
         At(h, op, from), Goto(h, step), Stable, TablesInv'
  PROVE  Kept
<1>1. /\ handlers[h] # Nothing /\ handlers[h].request.op = op
      /\ GoodHandler(handlers[h]) /\ handlers[h].step # "start"
  BY HandlerFacts DEF At
<1>2. Proven(handlers[h].wallet)
  BY <1>1 DEF GoodHandler
<1> QED
  BY <1>1, <1>2, GotoKeeps DEF Kept, Proven, Stable

LEMMA InsertLinkKeeps ==
  ASSUME CallsInv, TablesInv, NEW h \in Handlers, InsertLink(h), UNCHANGED proposalVars
  PROVE  Kept
<1> DEFINE r == handlers[h].request
<1>1. /\ handlers[h] # Nothing /\ r.op = "create" /\ r.deal \in DealIds
      /\ Proven(handlers[h].wallet)
  BY HandlerFacts, RequestKinds DEF InsertLink, At, GoodHandler
<1>2. CASE Refuse(h)
  BY <1>1, <1>2, RefusalKeeps DEF Refuse, TableVars
<1>3. ASSUME NEW l \in Links, links[l] = Nothing,
             links' = [links EXCEPT ![l] =
               [deal |-> r.deal, initiator |-> handlers[h].wallet,
                claimer |-> Nothing, live |-> TRUE]],
             Finish(h, [link |-> l]), UNCHANGED storeVars
      PROVE  Kept
  <2> DEFINE n == [deal |-> r.deal, initiator |-> handlers[h].wallet,
                   claimer |-> Nothing, live |-> TRUE]
             a == [link |-> l]
  <2>1. n \in Link /\ n.initiator = handlers[h].wallet
    BY <1>1 DEF Link, Proven
  <2>2. links' = [links EXCEPT ![l] = n] /\ Finish(h, a)
    BY <1>3
  <2>3. a \in [link : Links]
    OBVIOUS
  <2> HIDE DEF n, a
  <2>4. links' \in [Links -> Link \union {Nothing}]
        /\ (\A k \in Links : links'[k] = IF k = l THEN n ELSE links[k])
    BY <2>1, <2>2, StoreTypes
  <2>5. Stable /\ TablesInv'
    BY <1>1, <1>3, <2>1, <2>4, LinksGain
  <2> QED
    BY <1>1, <2>2, <2>3, <2>5, FinishKeeps DEF Kept, Answer
<1> QED
  BY <1>2, <1>3 DEF InsertLink

(* Claiming a link, or letting it expire, leaves it whose it was. *)
LEMMA RestatedLink ==
  ASSUME TablesInv, NEW l \in Links, links[l] # Nothing, NEW v \in Link,
         v.initiator = links[l].initiator, links' = [links EXCEPT ![l] = v],
         UNCHANGED <<storeVars, proposalVars>>
  PROVE  Stable /\ TablesInv'
<1>1. links' \in [Links -> Link \union {Nothing}]
      /\ (\A k \in Links : links'[k] = IF k = l THEN v ELSE links[k])
  BY StoreTypes
<1>2. v # Nothing
  BY NothingIsNoLink
<1> QED
  BY <1>1, <1>2, LinksGain

LEMMA UpdateClaimKeeps ==
  ASSUME CallsInv, TablesInv, NEW h \in Handlers, UpdateClaim(h), UNCHANGED proposalVars
  PROVE  Kept
<1> DEFINE r == handlers[h].request
           l == r.link
<1>1. /\ handlers[h] # Nothing /\ r.op = "claim" /\ l \in Links /\ r.wallet \in Wallets
      /\ links[l] # Nothing
  BY HandlerFacts, RequestKinds DEF UpdateClaim, At, GoodHandler
<1>2. CASE Refuse(h)
  BY <1>1, <1>2, RefusalKeeps DEF Refuse, TableVars
<1>3. CASE /\ links' = [links EXCEPT ![l] =
                IF Unclaimed(@) THEN [@ EXCEPT !.claimer = r.wallet] ELSE @]
           /\ Finish(h, [claimed |-> r.wallet]) /\ UNCHANGED storeVars
  <2> DEFINE v == IF Unclaimed(links[l]) THEN [links[l] EXCEPT !.claimer = r.wallet]
                  ELSE links[l]
             a == [claimed |-> r.wallet]
  <2>1. links[l] \in Link
    BY <1>1, StoreTypes
  <2>2. [links[l] EXCEPT !.claimer = r.wallet] \in Link
        /\ [links[l] EXCEPT !.claimer = r.wallet].initiator = links[l].initiator
    BY <1>1, <2>1 DEF Link
  <2>3. v \in Link /\ v.initiator = links[l].initiator
    BY <2>1, <2>2
  <2>4. links' = [links EXCEPT ![l] = v] /\ Finish(h, a)
    BY <1>1, <1>3, StoreTypes
  <2>5. a \in [claimed : Wallets]
    BY <1>1
  <2> HIDE DEF v, a
  <2>6. Stable /\ TablesInv'
    BY <1>1, <1>3, <2>3, <2>4, RestatedLink
  <2> QED
    BY <1>1, <2>4, <2>5, <2>6, FinishKeeps DEF Kept, Answer
<1> QED
  BY <1>2, <1>3 DEF UpdateClaim

LEMMA ExpireLinkKeeps ==
  ASSUME CallsInv, TablesInv, NEW l \in Links, ExpireLink(l), UNCHANGED proposalVars
  PROVE  Kept
<1> DEFINE v == [links[l] EXCEPT !.live = FALSE]
<1>1. links[l] # Nothing /\ links[l] \in Link
  BY StoreTypes DEF ExpireLink
<1>2. v \in Link /\ v.initiator = links[l].initiator
  BY <1>1 DEF Link
<1>3. links' = [links EXCEPT ![l] = v] /\ UNCHANGED <<callVars, storeVars>>
  BY <1>1, StoreTypes DEF ExpireLink
<1> HIDE DEF v
<1> QED
  BY <1>1, <1>2, <1>3, RestatedLink, UnchangedKeepsCalls DEF Kept

LEMMA LinkKeeps ==
  ASSUME CallsInv, TablesInv, NEW h \in Handlers, LinkStep(h) \/ PhpLinkStep(h),
         UNCHANGED proposalVars
  PROVE  Kept
<1>1. CASE Refuse(h) /\ handlers[h] # Nothing
  BY <1>1, RefusalKeeps DEF Refuse, TableVars
<1>2. CASE Authorise(h)
  BY <1>1, <1>2, AuthorisedKeeps DEF Authorise, At, TableVars, Stores
<1>3. CASE PhpSession(h, "create")
  BY <1>3, AuthorisedKeeps, RefusalKeeps DEF PhpSession, At, Decline, Stores
<1>4. CASE SelectActive(h)
  <2>1. handlers[h] # Nothing
    BY <1>4 DEF SelectActive, At
  <2>2. CASE At(h, "create", "select") /\ Goto(h, "insert")
             /\ UNCHANGED <<storeVars, linkVars>>
    <3>1. Stable /\ TablesInv'
      BY <2>2, UnchangedTables DEF TableVars
    <3> QED
      BY <2>2, <3>1, WorkingKeeps
  <2> QED
    BY <1>1, <1>4, <2>1, <2>2 DEF SelectActive
<1>5. CASE SelectClaimable(h)
  <2>1. handlers[h] # Nothing /\ handlers[h].request.op = "claim"
    BY <1>5 DEF SelectClaimable, At
  <2>2. CASE /\ Claimable(handlers[h].request.link)
             /\ Goto(h, "update") /\ UNCHANGED <<storeVars, linkVars>>
    <3>1. Stable /\ TablesInv' /\ links' = links
      BY <2>2, UnchangedTables DEF TableVars, linkVars
    <3>2. links'[handlers[h].request.link] # Nothing
      BY <2>2, <3>1 DEF Claimable
    <3> QED
      BY <2>1, <2>2, <3>1, <3>2, GotoKeeps DEF Kept
  <2> QED
    BY <1>1, <1>5, <2>1, <2>2 DEF SelectClaimable
<1> QED
  BY <1>2, <1>3, <1>4, <1>5, InsertLinkKeeps, UpdateClaimKeeps DEF LinkStep, PhpLinkStep

LEMMA InsertProposalKeeps ==
  ASSUME CallsInv, TablesInv, NEW h \in Handlers, InsertProposal(h)
  PROVE  Kept
<1> DEFINE r == handlers[h].request
           w == handlers[h].wallet
<1>1. /\ At(h, "propose", "insert") /\ handlers[h] # Nothing /\ r.op = "propose"
      /\ r.listing \in Listings /\ Proven(w)
  BY HandlerFacts, RequestKinds DEF InsertProposal, At, GoodHandler
<1>2. CASE Decline(h)
  BY <1>1, <1>2, RefusalKeeps DEF Decline
<1>3. ASSUME NEW p \in ProposalIds,
             proposals' = [proposals EXCEPT ![p] = [listing |-> r.listing, proposer |-> w]],
             Goto(h, "read") \/ Finish(h, Nothing),
             UNCHANGED <<storeVars, linkVars>>
      PROVE  Kept
  <2> DEFINE n == [listing |-> r.listing, proposer |-> w]
  <2>1. n \in Proposal /\ n.proposer = w
    BY <1>1 DEF Proposal, Proven
  <2>2. proposals' = [proposals EXCEPT ![p] = n]
    BY <1>3
  <2> HIDE DEF n
  <2>3. Stable /\ TablesInv'
    BY <1>1, <1>3, <2>1, <2>2, ProposalsGain
  <2> QED
    BY <1>1, <1>3, <2>3, WorkingKeeps, FinishKeeps DEF Kept
<1> QED
  BY <1>2, <1>3 DEF InsertProposal

LEMMA ProposalKeeps ==
  ASSUME CallsInv, TablesInv, NEW h \in Handlers, ProposalStep(h) \/ PhpProposalStep(h)
  PROVE  Kept
<1>1. CASE Decline(h) /\ handlers[h] # Nothing
  BY <1>1, RefusalKeeps DEF Decline
<1>2. CASE AuthoriseProposal(h)
  BY <1>1, <1>2, AuthorisedKeeps DEF AuthoriseProposal, At, Stores
<1>3. CASE PhpSession(h, "propose")
  BY <1>1, <1>3, AuthorisedKeeps DEF PhpSession, At, Stores
<1>4. CASE SelectPending(h)
  <2>1. CASE At(h, "propose", "select") /\ Goto(h, "insert") /\ UNCHANGED TableVars
    <3>1. Stable /\ TablesInv'
      BY <2>1, UnchangedTables
    <3> QED
      BY <2>1, <3>1, WorkingKeeps
  <2> QED
    BY <1>1, <1>4, <2>1 DEF SelectPending, At
<1>5. CASE ReadProposal(h)
  <2> DEFINE w == handlers[h].wallet
             a == [proposer |-> w]
  <2>1. handlers[h] # Nothing /\ handlers[h].request.op = "propose" /\ w \in Wallets
    BY <1>5, HandlerFacts DEF ReadProposal, At, GoodHandler, Proven
  <2>2. CASE Finish(h, a) /\ UNCHANGED TableVars
    <3>1. a \in [proposer : Wallets]
      BY <2>1
    <3> HIDE DEF a
    <3>2. Stable /\ TablesInv'
      BY <2>2, UnchangedTables
    <3> QED
      BY <2>1, <2>2, <3>1, <3>2, FinishKeeps DEF Kept, Answer
  <2> QED
    BY <1>1, <1>5, <2>1, <2>2 DEF ReadProposal
<1> QED
  BY <1>2, <1>3, <1>4, <1>5, InsertProposalKeeps DEF ProposalStep, PhpProposalStep

(***************************************************************************)
(* The tabs.                                                               *)
(***************************************************************************)
GoodTabAfter(v) ==
  /\ v.prompt # Nothing => challenges'[v.prompt] # Nothing
  /\ v.token # Nothing /\ v.owner # Nothing =>
       sessions'[v.token] # Nothing /\ sessions'[v.token].wallet = v.owner

StorageRecord == [token : Tokens \union {Nothing}, wallet : Wallets \union {Nothing}]

LEMMA TabStays ==
  ASSUME Stable, NEW v \in TabRecord, GoodTab(v)
  PROVE  GoodTabAfter(v)
<1>1. v.prompt \in Challenges \union {Nothing} /\ v.token \in Tokens \union {Nothing}
  BY DEF TabRecord
<1> QED
  BY <1>1 DEF Stable, GoodTab, GoodTabAfter

LEMMA TabFacts ==
  ASSUME TabsInv, Stable, NEW t \in Tabs
  PROVE  tabs[t] \in TabRecord /\ GoodTab(tabs[t]) /\ GoodTabAfter(tabs[t])
<1>1. tabs[t] \in TabRecord /\ GoodTab(tabs[t])
  BY DEF TabsInv
<1> QED
  BY <1>1, TabStays

LEMMA TabsStay ==
  ASSUME TabsInv, Stable, UNCHANGED browserVars
  PROVE  TabsInv'
<1>1. tabs' = tabs /\ storage' = storage
  BY DEF browserVars
<1>2. \A t \in Tabs : GoodTabAfter(tabs'[t])
  BY <1>1, TabFacts
<1> QED
  BY <1>1, <1>2 DEF TabsInv, GoodTab, GoodTabAfter

LEMMA TabBecomes ==
  ASSUME TabsInv, Stable, NEW t \in Tabs, NEW v \in TabRecord, GoodTabAfter(v),
         tabs' = [tabs EXCEPT ![t] = v], storage' \in StorageRecord
  PROVE  TabsInv'
<1>1. tabs' \in [Tabs -> TabRecord]
      /\ (\A u \in Tabs : tabs'[u] = IF u = t THEN v ELSE tabs[u])
  BY DEF TabsInv
<1>2. \A u \in Tabs : GoodTabAfter(tabs'[u])
  BY <1>1, TabFacts
<1> QED
  BY <1>1, <1>2 DEF TabsInv, GoodTab, GoodTabAfter, StorageRecord

(* A tab that drops its token is good whatever it shows. *)
LEMMA TabDrops ==
  ASSUME TabsInv, Stable, NEW t \in Tabs, NEW v \in TabRecord,
         v.prompt # Nothing => challenges'[v.prompt] # Nothing,
         tabs' = [tabs EXCEPT ![t] = [v EXCEPT !.token = Nothing, !.owner = Nothing]],
         storage' \in StorageRecord
  PROVE  TabsInv'
<1> DEFINE n == [v EXCEPT !.token = Nothing, !.owner = Nothing]
<1>1. n \in TabRecord /\ n.token = Nothing /\ n.prompt = v.prompt
  BY DEF TabRecord
<1>2. tabs' = [tabs EXCEPT ![t] = n]
  OBVIOUS
<1> HIDE DEF n
<1> QED
  BY <1>1, <1>2, TabBecomes DEF GoodTabAfter

(* After a render a tab has no session but that of its account. *)
LEMMA RenderKeeps ==
  ASSUME TabsInv, Stable, NEW t \in Tabs, NEW tab \in TabRecord,
         NEW stored \in StorageRecord, Render(t, tab, stored),
         tab.prompt # Nothing => challenges'[tab.prompt] # Nothing,
         ~Foreign(tab) => GoodTabAfter(tab)
  PROVE  TabsInv'
<1>1. storage' \in StorageRecord
  BY DEF Render, NoToken, StorageRecord
<1>2. CASE Foreign(tab)
  BY <1>1, <1>2, TabDrops DEF Render
<1>3. CASE ~Foreign(tab)
  BY <1>1, <1>3, TabBecomes DEF Render
<1> QED
  BY <1>2, <1>3

LEMMA LocalKeeps ==
  ASSUME SessionInv, Local
  PROVE  Kept /\ UNCHANGED <<challenges, sessions, signed, links>>
<1>1. Stable /\ TablesInv' /\ UNCHANGED callVars
  BY UnchangedTables DEF SessionInv, Local
<1>2. CallsInv'
  BY <1>1, UnchangedKeepsCalls DEF SessionInv
<1> QED
  BY <1>1, <1>2 DEF Kept, Local, TableVars, storeVars, linkVars

LEMMA ChangeAccountKeeps ==
  ASSUME SessionInv, NEW t \in Tabs, ChangeAccount(t)
  PROVE  Kept /\ TabsInv'
<1>1. PICK w \in Wallets \union {Nothing} :
        Render(t, [tabs[t] EXCEPT !.connected = w], storage)
  BY DEF ChangeAccount
<1>2. Kept
  BY LocalKeeps DEF ChangeAccount
<1>3. tabs[t] \in TabRecord /\ GoodTabAfter(tabs[t])
  BY <1>2, TabFacts DEF SessionInv, Kept
<1> DEFINE v == [tabs[t] EXCEPT !.connected = w]
<1>4. v \in TabRecord /\ v.prompt = tabs[t].prompt /\ v.token = tabs[t].token
      /\ v.owner = tabs[t].owner
  BY <1>3 DEF TabRecord
<1>5. Render(t, v, storage)
  BY <1>1
<1> HIDE DEF v
<1>6. storage \in StorageRecord
  BY DEF SessionInv, TabsInv, StorageRecord
<1> QED
  BY <1>2, <1>3, <1>4, <1>5, <1>6, RenderKeeps DEF SessionInv, Kept, GoodTabAfter

(* A page that is loaded anew has no account yet, so it keeps no token.    *)
LEMMA ReloadKeeps ==
  ASSUME SessionInv, NEW t \in Tabs, Reload(t)
  PROVE  Kept /\ TabsInv'
<1> DEFINE v == [connected |-> Nothing, token |-> storage.token,
                 owner |-> storage.wallet, prompt |-> Nothing]
<1>1. storage \in StorageRecord
  BY DEF SessionInv, TabsInv, StorageRecord
<1>2. Stable /\ TablesInv'
  BY UnchangedTables DEF SessionInv, Reload
<1>3. t \in Callers
  BY BrowserAssumption
<1>4. calls' = [calls EXCEPT ![t] = Nothing] /\ handlers' = Abandoned(t)
  BY DEF Reload, Done
<1>5. CallsInv'
  BY <1>2, <1>3, <1>4, AbandonKeeps DEF SessionInv
<1>6. v \in TabRecord /\ v.connected = Nothing /\ v.prompt = Nothing
  BY <1>1 DEF TabRecord, StorageRecord
<1>7. Render(t, v, storage)
  BY DEF Reload
<1> HIDE DEF v
<1>8. ~Foreign(v) => GoodTabAfter(v)
  BY <1>6 DEF Foreign, GoodTabAfter
<1> QED
  BY <1>1, <1>2, <1>5, <1>6, <1>7, <1>8, RenderKeeps DEF SessionInv, Kept

LEMMA CheckSessionKeeps ==
  ASSUME SessionInv, NEW t \in Tabs, CheckSession(t)
  PROVE  Kept /\ TabsInv'
<1> DEFINE tab == tabs[t]
<1>1. Kept /\ UNCHANGED sessions
  BY LocalKeeps DEF CheckSession
<1>2. tab \in TabRecord /\ GoodTabAfter(tab)
  BY <1>1, TabFacts DEF SessionInv, Kept
<1>3. tab.token # Nothing /\ tab.connected \in Wallets /\ tabs = [u \in Tabs |-> tabs[u]]
      /\ storage \in StorageRecord
  BY <1>2 DEF CheckSession, TabRecord, SessionInv, TabsInv, StorageRecord
<1>4. CASE /\ \E s \in Stores : LookupFinds(tab.token, s)
           /\ sessions[tab.token].wallet = tab.connected
           /\ tabs' = [tabs EXCEPT ![t].owner = tab.connected]
           /\ storage' = [storage EXCEPT !.wallet = tab.connected]
  <2> DEFINE v == [tab EXCEPT !.owner = tab.connected]
  <2>1. /\ v \in TabRecord /\ v.token = tab.token /\ v.owner = tab.connected
        /\ v.prompt = tab.prompt
    BY <1>2, <1>3 DEF TabRecord
  <2>2. tabs' = [tabs EXCEPT ![t] = v]
    BY <1>4 DEF SessionInv, TabsInv
  <2>3. storage' \in StorageRecord
    BY <1>3, <1>4 DEF StorageRecord
  <2>4. sessions[tab.token] # Nothing
    BY <1>4 DEF LookupFinds, Live
  <2> HIDE DEF v
  <2>5. GoodTabAfter(v)
    BY <1>1, <1>2, <1>4, <2>1, <2>4 DEF GoodTabAfter
  <2> QED
    BY <1>1, <2>1, <2>2, <2>3, <2>5, TabBecomes DEF SessionInv, Kept
<1>5. CASE /\ tabs' = [tabs EXCEPT ![t].token = Nothing, ![t].owner = Nothing]
           /\ storage' = NoToken
  <2>1. tabs' = [tabs EXCEPT ![t] = [tab EXCEPT !.token = Nothing, !.owner = Nothing]]
    BY <1>5 DEF SessionInv, TabsInv
  <2>2. storage' \in StorageRecord
    BY <1>5 DEF NoToken, StorageRecord
  <2> QED
    BY <1>1, <1>2, <2>1, <2>2, TabDrops DEF SessionInv, Kept, GoodTabAfter
<1> QED
  BY <1>4, <1>5 DEF CheckSession

LEMMA PromptKeeps ==
  ASSUME SessionInv, Stable, NEW t \in Tabs, NEW c \in Challenges \union {Nothing},
         c # Nothing => challenges'[c] # Nothing,
         tabs' = [tabs EXCEPT ![t].prompt = c], UNCHANGED storage
  PROVE  TabsInv'
<1> DEFINE v == [tabs[t] EXCEPT !.prompt = c]
<1>1. tabs[t] \in TabRecord /\ GoodTabAfter(tabs[t])
  BY TabFacts DEF SessionInv
<1>2. /\ v \in TabRecord /\ v.token = tabs[t].token /\ v.owner = tabs[t].owner
      /\ v.prompt = c
  BY <1>1 DEF TabRecord
<1>3. tabs' = [tabs EXCEPT ![t] = v] /\ storage' \in StorageRecord
  BY DEF SessionInv, TabsInv, StorageRecord
<1> HIDE DEF v
<1>4. GoodTabAfter(v)
  BY <1>1, <1>2 DEF GoodTabAfter
<1> QED
  BY <1>2, <1>3, <1>4, TabBecomes DEF SessionInv

LEMMA StartSignInKeeps ==
  ASSUME SessionInv, NEW t \in Tabs, StartSignIn(t)
  PROVE  Kept /\ TabsInv'
<1> DEFINE w == tabs[t].connected
<1>1. w \in Wallets
  BY DEF StartSignIn, SessionInv, TabsInv, TabRecord
<1>2. PICK c \in Challenges :
        /\ IssueChallenge(c, w)
        /\ tabs' = [tabs EXCEPT ![t].prompt = c]
  BY DEF StartSignIn, PhpIssueChallenge
<1>3. UNCHANGED <<callVars, linkVars, proposalVars, storage>>
  BY DEF StartSignIn
<1>4. Stable /\ TablesInv' /\ challenges'[c] # Nothing
  BY <1>1, <1>2, <1>3, IssueGains DEF SessionInv
<1>5. CallsInv'
  BY <1>3, <1>4, UnchangedKeepsCalls DEF SessionInv
<1> QED
  BY <1>2, <1>3, <1>4, <1>5, PromptKeeps DEF Kept

(* The extension signs with the account it has now. *)
LEMMA ApproveKeeps ==
  ASSUME SessionInv, NEW t \in Tabs, Approve(t)
  PROVE  Kept /\ TabsInv'
<1> DEFINE c == tabs[t].prompt
           s == tabs[t].connected
           q == [op |-> "verify", challenge |-> c, signer |-> s, wallet |-> challenges[c].wallet]
<1>1. c \in Challenges /\ s \in Wallets /\ challenges[c] # Nothing
  BY DEF Approve, SessionInv, TabsInv, TabRecord, GoodTab
<1>2. challenges[c].wallet \in Wallets
  BY <1>1, StoreTypes DEF SessionInv, Challenge
<1>3. /\ Call(t, q) /\ signed' = signed \union {<<s, c>>}
      /\ tabs' = [tabs EXCEPT ![t].prompt = Nothing]
      /\ UNCHANGED <<challenges, sessions, linkVars, proposalVars, storage>>
  BY DEF Approve
<1>4. q \in Request /\ q.op = "verify" /\ q.signer = s /\ q.challenge = c
  BY <1>1, <1>2 DEF Request, VerifyRequest
<1> HIDE DEF q
<1>5. Stable /\ TablesInv'
  BY <1>1, <1>3, StoreTypes, StoreGains DEF SessionInv
<1>6. t \in Callers
  BY BrowserAssumption
<1>7. <<q.signer, q.challenge>> \in signed'
  BY <1>3, <1>4
<1>8. CallsInv'
  BY <1>3, <1>4, <1>5, <1>6, <1>7, CallKeeps DEF SessionInv
<1> QED
  BY <1>3, <1>5, <1>8, PromptKeeps DEF Kept

LEMMA RejectKeeps ==
  ASSUME SessionInv, NEW t \in Tabs, Reject(t)
  PROVE  Kept /\ TabsInv'
<1>1. Kept
  BY LocalKeeps DEF Reject
<1> QED
  BY <1>1, PromptKeeps DEF Reject, Kept

(* The page keeps the token for the wallet the server verified. *)
LEMMA SignedInKeeps ==
  ASSUME SessionInv, NEW t \in Tabs, SignedIn(t)
  PROVE  Kept /\ TabsInv'
<1> DEFINE a == [token |-> calls[t].answer.token, wallet |-> SessionOwner(t)]
           v == [tabs[t] EXCEPT !.token = a.token, !.owner = a.wallet]
<1>1. Stable /\ TablesInv' /\ sessions' = sessions
  BY UnchangedTables DEF SessionInv, SignedIn, TableVars, storeVars
<1>2. t \in Callers
  BY BrowserAssumption
<1>3. CallsInv'
  BY <1>1, <1>2, DoneKeeps DEF SessionInv, SignedIn
<1>4. /\ calls[t].answer.token \in Tokens /\ calls[t].answer.wallet \in Wallets
      /\ sessions[calls[t].answer.token] # Nothing
      /\ sessions[calls[t].answer.token].wallet = calls[t].answer.wallet
  BY <1>2 DEF SignedIn, Status, SessionInv, CallsInv, GoodCall, Issued
<1>5. a \in StorageRecord /\ a.token = calls[t].answer.token
      /\ a.wallet = calls[t].answer.wallet
  BY <1>4 DEF SessionOwner, StorageRecord
<1>6. Render(t, v, a)
  BY DEF SignedIn
<1> HIDE DEF a
<1>7. tabs[t] \in TabRecord /\ GoodTabAfter(tabs[t])
  BY <1>1, TabFacts DEF SessionInv
<1>8. v \in TabRecord /\ v.token = a.token /\ v.owner = a.wallet /\ v.prompt = tabs[t].prompt
  BY <1>5, <1>7 DEF TabRecord, StorageRecord
<1> HIDE DEF v
<1>9. GoodTabAfter(v)
  BY <1>1, <1>4, <1>5, <1>7, <1>8 DEF GoodTabAfter
<1> QED
  BY <1>1, <1>3, <1>5, <1>6, <1>8, <1>9, RenderKeeps DEF SessionInv, Kept, GoodTabAfter

LEMMA SignOutKeeps ==
  ASSUME SessionInv, NEW t \in Tabs, SignOut(t)
  PROVE  Kept /\ TabsInv'
<1>1. UNCHANGED <<callVars, linkVars, proposalVars>>
  BY DEF SignOut
<1>2. Stable /\ TablesInv'
  <2>1. CASE storage.token # Nothing /\ Revoke(storage.token)
    <3>1. storage.token \in Tokens
      BY <2>1 DEF SessionInv, TabsInv
    <3> QED
      BY <1>1, <2>1, <3>1, RevokeGains DEF SessionInv
  <2>2. CASE UNCHANGED storeVars
    BY <1>1, <2>2, UnchangedTables DEF SessionInv, TableVars
  <2> QED
    BY <2>1, <2>2 DEF SignOut
<1>3. CallsInv'
  BY <1>1, <1>2, UnchangedKeepsCalls DEF SessionInv
<1>4. tabs[t] \in TabRecord /\ GoodTabAfter(tabs[t])
  BY <1>2, TabFacts DEF SessionInv
<1>5. tabs' = [tabs EXCEPT ![t] = [tabs[t] EXCEPT !.token = Nothing, !.owner = Nothing]]
  BY DEF SignOut, SessionInv, TabsInv
<1>6. storage' \in StorageRecord
  BY DEF SignOut, NoToken, StorageRecord
<1> QED
  BY <1>2, <1>3, <1>4, <1>5, <1>6, TabDrops DEF SessionInv, Kept, GoodTabAfter

LEMMA RequestKeeps ==
  ASSUME SessionInv, NEW c \in Callers, NEW q \in Request, q.op # "verify", Call(c, q),
         Unstored
  PROVE  Kept /\ TabsInv'
<1>1. Stable /\ TablesInv' /\ UNCHANGED browserVars
  BY UnchangedTables DEF SessionInv, Unstored
<1> QED
  BY <1>1, CallKeeps, TabsStay DEF SessionInv, Kept

LEMMA ClientKeeps ==
  ASSUME SessionInv,
         (\E t \in Tabs : CreateLink(t) \/ CreateProposal(t)) \/ (\E v \in Visitors : ClaimLink(v))
  PROVE  Kept /\ TabsInv'
<1>1. ASSUME NEW t \in Tabs, CreateLink(t) \/ CreateProposal(t)
      PROVE  Kept /\ TabsInv'
  <2>1. /\ t \in Callers /\ storage.token \in Tokens /\ tabs[t].connected \in Wallets
        /\ Unstored
    BY <1>1, BrowserAssumption
       DEF CreateLink, CreateProposal, SessionInv, TabsInv, TabRecord, Unstored
  <2>2. CASE CreateLink(t)
    <3>1. PICK d \in DealIds :
            Call(t, [op |-> "create", token |-> storage.token, deal |-> d,
                     wallet |-> tabs[t].connected])
      BY <2>2 DEF CreateLink
    <3> DEFINE q == [op |-> "create", token |-> storage.token, deal |-> d,
                     wallet |-> tabs[t].connected]
    <3>2. q \in Request /\ q.op # "verify"
      BY <2>1 DEF Request, CreateRequest
    <3> QED
      BY <2>1, <3>1, <3>2, RequestKeeps
  <2>3. CASE CreateProposal(t)
    <3>1. PICK g \in Listings :
            Call(t, [op |-> "propose", token |-> storage.token, listing |-> g,
                     wallet |-> tabs[t].connected])
      BY <2>3 DEF CreateProposal
    <3> DEFINE q == [op |-> "propose", token |-> storage.token, listing |-> g,
                     wallet |-> tabs[t].connected]
    <3>2. q \in Request /\ q.op # "verify"
      BY <2>1 DEF Request, ProposeRequest
    <3> QED
      BY <2>1, <3>1, <3>2, RequestKeeps
  <2> QED
    BY <1>1, <2>2, <2>3
<1>2. ASSUME NEW v \in Visitors, ClaimLink(v)
      PROVE  Kept /\ TabsInv'
  <2>1. PICK l \in Links, w \in Wallets : Call(v, [op |-> "claim", link |-> l, wallet |-> w])
    BY <1>2 DEF ClaimLink
  <2> DEFINE q == [op |-> "claim", link |-> l, wallet |-> w]
  <2>2. q \in Request /\ q.op # "verify"
    BY DEF Request, ClaimRequest
  <2>3. v \in Callers /\ Unstored
    BY <1>2, BrowserAssumption DEF ClaimLink, Unstored
  <2> QED
    BY <2>1, <2>2, <2>3, RequestKeeps
<1> QED
  BY <1>1, <1>2

LEMMA TabKeeps ==
  ASSUME SessionInv, NEW t \in Tabs, TabStep(t)
  PROVE  Kept /\ TabsInv'
BY ChangeAccountKeeps, ReloadKeeps, CheckSessionKeeps, StartSignInKeeps, ApproveKeeps,
   RejectKeeps, SignedInKeeps, SignOutKeeps, ClientKeeps DEF TabStep

LEMMA NetworkKeeps ==
  ASSUME SessionInv, NEW c \in Callers, NetworkStep(c) \/ Acknowledge(c)
  PROVE  Kept /\ TabsInv'
<1>1. Stable /\ TablesInv' /\ UNCHANGED browserVars
  BY UnchangedTables DEF SessionInv, NetworkStep, Unstored, Acknowledge
<1>2. CallsInv'
  BY <1>1, SendKeeps, TimeOutKeeps, DoneKeeps DEF SessionInv, NetworkStep, Acknowledge
<1> QED
  BY <1>1, <1>2, TabsStay DEF SessionInv, Kept

LEMMA HandlerKeeps ==
  ASSUME SessionInv, NEW h \in Handlers, ServerStep(h) \/ PhpServerStep(h)
  PROVE  Kept /\ TabsInv'
<1>1. Kept /\ UNCHANGED browserVars
  BY VerifyKeeps, LinkKeeps, ProposalKeeps DEF SessionInv, ServerStep, PhpServerStep
<1> QED
  BY <1>1, TabsStay DEF SessionInv, Kept

LEMMA ServerKeeps ==
  ASSUME SessionInv, UNCHANGED browserVars,
         \/ /\ (\E c \in Challenges : ExpireChallenge(c)) \/ (\E t \in Tokens : ExpireSession(t))
            /\ UNCHANGED <<callVars, linkVars, proposalVars>>
         \/ \E l \in Links : ExpireLink(l) /\ UNCHANGED proposalVars
         \/ RestartServer(Handlers \ PhpHandlers) /\ UNCHANGED <<linkVars, proposalVars>>
  PROVE  Kept /\ TabsInv'
<1>1. Kept
  <2>1. CASE /\ (\E c \in Challenges : ExpireChallenge(c)) \/ (\E t \in Tokens : ExpireSession(t))
             /\ UNCHANGED <<callVars, linkVars, proposalVars>>
    BY <2>1, ExpireGains, UnchangedKeepsCalls DEF SessionInv, Kept
  <2>2. CASE \E l \in Links : ExpireLink(l) /\ UNCHANGED proposalVars
    BY <2>2, ExpireLinkKeeps DEF SessionInv
  <2>3. CASE RestartServer(Handlers \ PhpHandlers) /\ UNCHANGED <<linkVars, proposalVars>>
    <3>1. Stable /\ TablesInv'
      BY <2>3, RestartGains DEF SessionInv
    <3>2. Crash(Handlers \ PhpHandlers)
      BY <2>3 DEF RestartServer
    <3> QED
      BY <3>1, <3>2, CrashKeeps DEF SessionInv, Kept
  <2> QED
    BY <2>1, <2>2, <2>3
<1> QED
  BY <1>1, TabsStay DEF SessionInv, Kept

LEMMA SessionInvInductive ==
  SessionInv /\ [SessionNext]_sessionVars => SessionInv' /\ Stable
<1> SUFFICES ASSUME SessionInv, [SessionNext]_sessionVars
             PROVE  Kept /\ TabsInv'
  BY DEF SessionInv, Kept
<1>1. CASE UNCHANGED sessionVars
  <2>1. Stable /\ TablesInv' /\ UNCHANGED <<callVars, browserVars>>
    BY <1>1, UnchangedTables DEF SessionInv, sessionVars
  <2> QED
    BY <2>1, UnchangedKeepsCalls, TabsStay DEF SessionInv, Kept
<1>2. CASE \E t \in Tabs : TabStep(t)
  BY <1>2, TabKeeps
<1>3. CASE \E v \in Visitors : ClaimLink(v)
  BY <1>3, ClientKeeps
<1>4. CASE \E c \in Callers : NetworkStep(c) \/ Acknowledge(c)
  BY <1>4, NetworkKeeps
<1>5. CASE \/ \E h \in Handlers \ PhpHandlers : ServerStep(h)
           \/ \E h \in PhpHandlers : PhpServerStep(h)
  BY <1>5, HandlerKeeps, PhpAssumption
<1>6. CASE \E c \in Challenges :
             ExpireChallenge(c) /\ UNCHANGED <<callVars, linkVars, proposalVars, browserVars>>
  BY <1>6, ServerKeeps
<1>7. CASE \E t \in Tokens :
             ExpireSession(t) /\ UNCHANGED <<callVars, linkVars, proposalVars, browserVars>>
  BY <1>7, ServerKeeps
<1>8. CASE \E l \in Links : ExpireLink(l) /\ UNCHANGED <<proposalVars, browserVars>>
  BY <1>8, ServerKeeps
<1>9. CASE /\ RestartServer(Handlers \ PhpHandlers)
           /\ UNCHANGED <<linkVars, proposalVars, browserVars>>
  BY <1>9, ServerKeeps
<1> QED
  BY <1>1, <1>2, <1>3, <1>4, <1>5, <1>6, <1>7, <1>8, <1>9 DEF SessionNext

LEMMA SessionInvInitially == SessionInit => SessionInv
<1> SUFFICES ASSUME SessionInit
             PROVE  SessionInv
  OBVIOUS
<1>1. CallsInv
  BY DEF SessionInit, CallsInit, CallsInv, Attended
<1>2. TablesInv
  BY DEF SessionInit, StoreInit, LinksInit, ProposalsInit, TablesInv, StoreTypeOK,
         LinksTypeOK, ProposalsTypeOK
<1>3. TabsInv
  BY DEF SessionInit, TabsInv, TabRecord, GoodTab, NoToken
<1> QED
  BY <1>1, <1>2, <1>3 DEF SessionInv

(* Through retries, restarts, two hosts and changing accounts: whoever a   *)
(* session, a link or an offer names has signed for it.                    *)
THEOREM EveryActIsProved == SessionSpec => []ActsAreProved
<1>1. SessionInv => ActsAreProved
  BY DEF SessionInv, TablesInv, Proven, ActsAreProved
<1> QED
  BY <1>1, SessionInvInitially, SessionInvInductive, PTL DEF SessionSpec

(* A tab that shows itself signed in holds a token of the account that is  *)
(* connected now.                                                          *)
THEOREM SignedInIsOwner == SessionSpec => []AuthenticatedIsOwner
<1>1. SessionInv => AuthenticatedIsOwner
  BY DEF SessionInv, TabsInv, TabRecord, GoodTab, Authenticated, AuthenticatedIsOwner
<1> QED
  BY <1>1, SessionInvInitially, SessionInvInductive, PTL DEF SessionSpec

(***************************************************************************)
(* Claims.  Only three steps write a row of the links, and none of them    *)
(* writes the claimer of a claimed one.                                    *)
(***************************************************************************)
ClaimsStay ==
  \A l \in Links : links[l] # Nothing /\ links[l].claimer # Nothing =>
    links'[l] # Nothing /\ links'[l].claimer = links[l].claimer

LEMMA WritersKeepClaims ==
  ASSUME SessionInv,
         \/ \E h \in Handlers : InsertLink(h) \/ UpdateClaim(h)
         \/ \E l \in Links : ExpireLink(l)
  PROVE  ClaimsStay
<1>1. links \in [Links -> Link \union {Nothing}]
  BY StoreTypes DEF SessionInv
<1>2. ASSUME NEW h \in Handlers, InsertLink(h)
      PROVE  ClaimsStay
  <2>1. CASE links' = links
    BY <2>1 DEF ClaimsStay
  <2>2. CASE \E l \in Links : \E v : links[l] = Nothing /\ links' = [links EXCEPT ![l] = v]
    BY <1>1, <2>2 DEF ClaimsStay
  <2> QED
    BY <1>2, <2>1, <2>2 DEF InsertLink, Refuse, linkVars
<1>3. ASSUME NEW h \in Handlers, UpdateClaim(h)
      PROVE  ClaimsStay
  <2> DEFINE l == handlers[h].request.link
             w == handlers[h].request.wallet
  <2>1. l \in Links /\ links[l] # Nothing
    BY <1>3, HandlerFacts, RequestKinds DEF SessionInv, UpdateClaim, At, GoodHandler
  <2>2. CASE links' = links
    BY <2>2 DEF ClaimsStay
  <2>3. CASE links' = [links EXCEPT ![l] =
                IF Unclaimed(@) THEN [@ EXCEPT !.claimer = w] ELSE @]
    BY <1>1, <2>1, <2>3 DEF ClaimsStay, Unclaimed
  <2> QED
    BY <1>3, <2>2, <2>3 DEF UpdateClaim, Refuse, linkVars
<1>4. ASSUME NEW l \in Links, ExpireLink(l)
      PROVE  ClaimsStay
  <2> DEFINE v == [links[l] EXCEPT !.live = FALSE]
  <2>1. links[l] \in Link /\ links' = [links EXCEPT ![l] = v]
    BY <1>1, <1>4 DEF ExpireLink
  <2>2. v \in Link /\ v.claimer = links[l].claimer
    BY <2>1 DEF Link
  <2> HIDE DEF v
  <2> QED
    BY <1>1, <2>1, <2>2, NothingIsNoLink DEF ClaimsStay
<1> QED
  BY <1>2, <1>3, <1>4

LEMMA OthersLeaveLinks ==
  ASSUME [SessionNext]_sessionVars,
         ~ \E h \in Handlers : InsertLink(h) \/ UpdateClaim(h),
         ~ \E l \in Links : ExpireLink(l)
  PROVE  links' = links
<1> USE DEF TableVars, linkVars, Local, Unstored
<1>1. CASE UNCHANGED sessionVars
  BY <1>1 DEF sessionVars
<1>2. ASSUME NEW t \in Tabs, TabStep(t)
      PROVE  links' = links
  BY <1>2 DEF TabStep, ChangeAccount, Reload, CheckSession, StartSignIn, Approve, Reject,
              SignedIn, SignOut, CreateLink, CreateProposal
<1>3. ASSUME NEW h \in Handlers, ServerStep(h) \/ PhpServerStep(h)
      PROVE  links' = links
  BY <1>3 DEF ServerStep, PhpServerStep, LinkStep, PhpLinkStep, Authorise, SelectActive,
              SelectClaimable, Refuse, PhpSession, Decline, ProposalStep, PhpProposalStep,
              AuthoriseProposal, SelectPending, InsertProposal, ReadProposal
<1> QED
  BY <1>1, <1>2, <1>3, PhpAssumption DEF SessionNext, ClaimLink, NetworkStep, Acknowledge

(* However many claims passed the check, the first one written is for good. *)
THEOREM FirstClaimIsFinal == SessionSpec => ClaimSticks
<1>1. SessionInv /\ [SessionNext]_sessionVars => [ClaimsStay]_sessionVars
  <2> SUFFICES ASSUME SessionInv, [SessionNext]_sessionVars
               PROVE  ClaimsStay
    OBVIOUS
  <2>1. CASE links' = links
    BY <2>1 DEF ClaimsStay
  <2> QED
    BY <2>1, WritersKeepClaims, OthersLeaveLinks
<1> QED
  BY <1>1, SessionInvInitially, SessionInvInductive, PTL
     DEF SessionSpec, ClaimSticks, ClaimsStay
=============================================================================
