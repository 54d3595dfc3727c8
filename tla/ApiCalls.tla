------------------------------ MODULE ApiCalls ------------------------------
(***************************************************************************)
(* One browser call of the backend API: the page retries a request whose   *)
(* answer is an error or does not come in time, while the handler of the   *)
(* abandoned attempt goes on inside the server.  Every caller has one call *)
(* at a time; a handler is one attempt that reached the server.            *)
(***************************************************************************)
EXTENDS Naturals

CONSTANTS
  Callers,     \* who sends requests: browser tabs and visitors of a link
  Handlers,    \* bound on requests inside the server at the same time
  MaxRetries,  \* how often a failed request is sent again (2 in the code)
  Nothing      \* null

ASSUME CallAssumption ==
  /\ MaxRetries \in Nat
  /\ Nothing \notin Callers \union Handlers

VARIABLES
  calls,     \* caller |-> Nothing or its request, how often it may be repeated, its status
  handlers   \* handler |-> Nothing or the request, the caller still listening, the next step

callVars == <<calls, handlers>>

CallsInit ==
  /\ calls = [c \in Callers |-> Nothing]
  /\ handlers = [h \in Handlers |-> Nothing]

CallsTypeOK ==
  /\ DOMAIN calls = Callers
  /\ \A c \in Callers : calls[c] # Nothing =>
       /\ calls[c].left \in 0..MaxRetries
       /\ calls[c].status \in {"sending", "waiting", "answered"}
  /\ DOMAIN handlers = Handlers
  /\ \A h \in Handlers : handlers[h] # Nothing => handlers[h].by \in Callers \union {Nothing}

Status(c, s) == calls[c] # Nothing /\ calls[c].status = s

Listening(c) == {h \in Handlers : handlers[h] # Nothing /\ handlers[h].by = c}

Call(c, request) ==
  /\ calls[c] = Nothing
  /\ calls' = [calls EXCEPT ![c] =
       [request |-> request, left |-> MaxRetries, status |-> "sending", answer |-> Nothing]]
  /\ UNCHANGED handlers

Send(c) ==
  /\ Status(c, "sending")
  /\ \E h \in Handlers :
       /\ handlers[h] = Nothing
       /\ handlers' = [handlers EXCEPT ![h] =
            [request |-> calls[c].request, by |-> c, step |-> "start", wallet |-> Nothing]]
  /\ calls' = [calls EXCEPT ![c].status = "waiting"]

AfterFailureMutant(call) == [call EXCEPT !.status = "sending"]

(* Every error is retried, refusals included, until no attempt is left; an *)
(* error that is only shown ends the call.                                 *)
AfterFailure(call) ==
  IF call.left > 0 THEN [call EXCEPT !.left = @ - 1, !.status = "sending"]
                   ELSE Nothing

Abandoned(c) ==
  [h \in Handlers |-> IF h \in Listening(c) THEN [handlers[h] EXCEPT !.by = Nothing]
                                            ELSE handlers[h]]

(* The page aborts after eight seconds; nobody tells the handler.          *)
TimeOut(c) ==
  /\ Status(c, "waiting")
  /\ calls' = [calls EXCEPT ![c] = AfterFailure(@)]
  /\ handlers' = Abandoned(c)

(* A handler ends with an answer, or with Nothing for an error status.     *)
Finish(h, answer) ==
  /\ handlers' = [handlers EXCEPT ![h] = Nothing]
  /\ LET c == handlers[h].by
     IN  calls' = IF c = Nothing THEN calls
                  ELSE [calls EXCEPT ![c] =
                          IF answer = Nothing THEN AfterFailure(@)
                          ELSE [@ EXCEPT !.status = "answered", !.answer = answer]]

At(h, op, step) ==
  /\ handlers[h] # Nothing
  /\ handlers[h].request.op = op
  /\ handlers[h].step = step

Goto(h, step) ==
  /\ handlers' = [handlers EXCEPT ![h].step = step]
  /\ UNCHANGED calls

Done(c) == [calls EXCEPT ![c] = Nothing]

(* A restart of the server fails whatever these handlers were working on.  *)
Crash(hs) ==
  /\ handlers' = [h \in Handlers |-> IF h \in hs THEN Nothing ELSE handlers[h]]
  /\ calls' = [c \in Callers |-> IF Listening(c) \intersect hs # {} THEN AfterFailure(calls[c])
                                                                  ELSE calls[c]]
=============================================================================
