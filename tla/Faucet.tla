------------------------------- MODULE Faucet -------------------------------
(***************************************************************************)
(* The devnet faucet: the claim and auto routes, which check and record a  *)
(* cooldown before the treasury sends a pack of test assets, the page and  *)
(* the dialog that try one route after the other, and the page's own       *)
(* dispenser, which sends with a keypair bundle loaded into the browser.   *)
(***************************************************************************)
EXTENDS ApiCalls

CONSTANT Wallets

VARIABLES
  server,      \* the host of the routes: "treasury", "no_treasury" (Node) or "php"
  cooling,     \* wallet and asset pairs with a claim in the last 24 hours
  failed,      \* history: such pairs the database failed to record
  served,      \* history: such pairs the treasury sent assets for in the last 24 hours
  panels,      \* caller |-> where its flow is, for which wallet, what it heard and shows
  bundle       \* is a keypair bundle loaded in the browser?

claimVars == <<cooling, failed, served>>
faucetVars == <<server, claimVars, panels, bundle>>
vars == <<callVars, faucetVars>>

Keys == Wallets \X {"ALL", "SOL"}

Dispense == {"server_dispense", "cooldown_only"}

Panel == [kind : {"page", "dialog"},
          step : {"idle", "auto", "claim", "airdrop", "localClaim", "localSend"},
          wallet : Wallets \union {Nothing},
          auto   : BOOLEAN,            \* did the first route send a pack?
          heard  : Dispense \union {Nothing},
          got    : BOOLEAN,            \* history: was a pack's transaction confirmed since?
          sent   : BOOLEAN]            \* the page announces a pack of the treasury

FaucetRequest == [op : {"auto", "claim"}, wallet : Wallets, asset : {"ALL", "SOL"}]

CallRecord ==
  [request : FaucetRequest, left : 0..MaxRetries,
   status : {"sending", "waiting", "answered"}, answer : Dispense \union {Nothing}]

HandlerRecord ==
  [request : FaucetRequest, by : Callers \union {Nothing},
   step : {"start", "insert", "dispense"}, wallet : {Nothing}]

(* Null is neither an answer nor a call.                                   *)
ASSUME FaucetAssumption == Nothing \notin Dispense \union CallRecord

FaucetTypeOK ==
  /\ calls \in [Callers -> CallRecord \union {Nothing}]
  /\ handlers \in [Handlers -> HandlerRecord \union {Nothing}]
  /\ server \in {"treasury", "no_treasury", "php"} /\ bundle \in BOOLEAN
  /\ {cooling, failed, served} \subseteq SUBSET Keys
  /\ panels \in [Callers -> Panel]

Init ==
  /\ CallsInit
  /\ server \in {"treasury", "no_treasury", "php"} /\ bundle = FALSE
  /\ cooling = {} /\ failed = {} /\ served = {}
  /\ panels = [c \in Callers |-> [kind |-> "page", step |-> "idle", wallet |-> Nothing, auto |-> FALSE,
                 heard |-> Nothing, got |-> FALSE, sent |-> FALSE]]

(***************************************************************************)
(* The routes.                                                             *)
(***************************************************************************)
Key(h) == <<handlers[h].request.wallet, handlers[h].request.asset>>

Route(h, step) == At(h, "auto", step) \/ At(h, "claim", step)

(* On Node, /auto refuses at once without a treasury; both routes refuse   *)
(* while the wallet cools down, and go on without a record when the        *)
(* database fails.                                                         *)
Unconfigured(h) ==
  /\ At(h, "auto", "start") /\ server = "no_treasury"
  /\ Finish(h, Nothing)
  /\ UNCHANGED faucetVars

SelectClaim(h) ==
  /\ Route(h, "start") /\ (At(h, "auto", "start") => server # "no_treasury")
  /\ \/ Key(h) \in cooling /\ Finish(h, Nothing) /\ UNCHANGED failed
     \/ Key(h) \notin cooling /\ Goto(h, "insert") /\ UNCHANGED failed
     \/ Goto(h, "dispense") /\ failed' = failed \union {Key(h)}
  /\ UNCHANGED <<server, cooling, served, panels, bundle>>

RecordMutant(h) == UNCHANGED <<cooling, failed>>

Record(h) ==
  \/ cooling' = cooling \union {Key(h)} /\ UNCHANGED failed
  \/ failed' = failed \union {Key(h)} /\ UNCHANGED cooling

InsertClaim(h) ==
  /\ Route(h, "insert")
  /\ Record(h)
  /\ Goto(h, "dispense")
  /\ UNCHANGED <<server, served, panels, bundle>>

(* The transaction with the pack is confirmed, also for a flow that no     *)
(* longer waits for it.  It may have failed on the chain, as a whole.      *)
Confirmed(h, failedOnChain) ==
  LET w == handlers[h].request.wallet
  IN  /\ served' = IF failedOnChain THEN served ELSE served \union {Key(h)}
      /\ panels' = [c \in Callers |-> [panels[c] EXCEPT !.got = @ \/ panels[c].wallet = w]]

FailedDispenseMutant(h) == "server_dispense"

(* The error of a dispense is an error of /auto but not of /claim.         *)
FailedDispense(h) == IF handlers[h].request.op = "auto" THEN Nothing ELSE "cooldown_only"

(* The transaction may land although sending or confirming it throws; and  *)
(* what the confirmation says of its result is not looked at.              *)
DispenseFromServer(h) ==
  /\ server = "treasury" /\ Route(h, "dispense")
  /\ \/ \E failedOnChain \in BOOLEAN :
          /\ Confirmed(h, failedOnChain)
          /\ Finish(h, "server_dispense") \/ Finish(h, FailedDispense(h))
     \/ Finish(h, FailedDispense(h)) /\ UNCHANGED <<served, panels>>
  /\ UNCHANGED <<server, cooling, failed, bundle>>

NoTreasury(h) ==
  /\ server = "no_treasury" /\ At(h, "claim", "dispense")
  /\ Finish(h, "cooldown_only")
  /\ UNCHANGED faucetVars

(* The PHP host checks and records in the same two statements, which one   *)
(* try encloses, and has nothing to dispense from: /auto has then recorded *)
(* a claim and ends in an error.                                           *)
ClaimOnPhp(h) ==
  /\ server = "php" /\ Route(h, "dispense")
  /\ Finish(h, IF handlers[h].request.op = "auto" THEN Nothing ELSE "cooldown_only")
  /\ UNCHANGED faucetVars

Handle(h) ==
  \/ Unconfigured(h) \/ SelectClaim(h) \/ InsertClaim(h)
  \/ DispenseFromServer(h) \/ NoTreasury(h) \/ ClaimOnPhp(h)

(* A day is longer than any request that is still under way.               *)
CooldownEnds(key) ==
  /\ key \in cooling \union served \union failed
  /\ \A h \in Handlers : handlers[h] # Nothing => Key(h) # key
  /\ cooling' = cooling \ {key} /\ served' = served \ {key} /\ failed' = failed \ {key}
  /\ UNCHANGED <<callVars, server, panels, bundle>>

(***************************************************************************)
(* The page and the dialog.                                                *)
(***************************************************************************)
InStep(c, step) == panels[c].step = step

Set(c, panel) ==
  /\ panels' = [panels EXCEPT ![c] = panel]
  /\ UNCHANGED <<server, cooling, failed, served, bundle>>

Ask(c, op, asset) == Call(c, [op |-> op, wallet |-> panels'[c].wallet, asset |-> asset])

ClaimFullPack(c) ==
  /\ InStep(c, "idle")
  /\ \E w \in Wallets, kind \in {"page", "dialog"} :
       Set(c, [panels[c] EXCEPT !.kind = kind, !.step = "auto", !.wallet = w,
                 !.got = FALSE, !.sent = FALSE])
  /\ Ask(c, "auto", "ALL")

Hear(c) ==
  /\ Status(c, "answered")
  /\ Set(c, [panels[c] EXCEPT !.heard = calls[c].answer])
  /\ calls' = Done(c)
  /\ UNCHANGED handlers

Replied(c, step) == InStep(c, step) /\ calls[c] = Nothing

(* The flow ends, with or without the announcement of a pack.              *)
End(c, sent) ==
  Set(c, [panels[c] EXCEPT !.step = "idle", !.auto = FALSE, !.heard = Nothing, !.sent = sent])

Show(c, sent) == End(c, sent) /\ UNCHANGED callVars

(* The page asks /claim even after /auto has sent a pack; the dialog only  *)
(* when it has not.                                                        *)
AutoReplied(c) ==
  LET ok == panels[c].heard = "server_dispense"
  IN  /\ Replied(c, "auto")
      /\ IF panels[c].kind = "dialog" /\ ok THEN Show(c, TRUE)
         ELSE /\ Set(c, [panels[c] EXCEPT !.step = "claim", !.auto = ok, !.heard = Nothing])
              /\ Ask(c, "claim", "ALL")

(* A refusal, cooldown included, reaches the page as no answer, and no     *)
(* answer is shown as a recorded claim.                                    *)
PageClaimReplied(c) ==
  LET p == panels[c]
  IN  /\ p.kind = "page" /\ Replied(c, "claim")
      /\ \/ (p.auto \/ p.heard = "server_dispense") /\ Show(c, TRUE)
         \/ /\ ~p.auto /\ p.heard = "cooldown_only" /\ bundle
            /\ Set(c, [p EXCEPT !.step = "localClaim"])
            /\ Ask(c, "claim", "SOL")
         \/ ~p.auto /\ p.heard = "cooldown_only" /\ ~bundle /\ Show(c, FALSE)
         \/ ~p.auto /\ p.heard = Nothing /\ Show(c, FALSE)

(* The dialog sees the error text: a cooldown, or anything else, after     *)
(* which it asks the public faucet for SOL.                                *)
DialogClaimReplied(c) ==
  LET p == panels[c]
  IN  /\ p.kind = "dialog" /\ Replied(c, "claim")
      /\ \/ p.heard = "server_dispense" /\ Show(c, TRUE)
         \/ p.heard = Nothing /\ Show(c, FALSE)
         \/ /\ p.heard # "server_dispense"
            /\ Set(c, [p EXCEPT !.step = "airdrop"]) /\ UNCHANGED callVars

Airdrop(c) ==
  InStep(c, "airdrop") /\ Show(c, FALSE)

(***************************************************************************)
(* The dispenser of the page.                                              *)
(***************************************************************************)
LoadBundle ==
  /\ bundle' = ~bundle
  /\ UNCHANGED <<callVars, server, claimVars, panels>>

(* By a button, or by the effect that runs while the balance last read is  *)
(* low; the full pack asks for the cooldown of its first asset.            *)
HandleDispense(c) ==
  /\ InStep(c, "idle") /\ bundle
  /\ \E w \in Wallets :
       Set(c, [panels[c] EXCEPT !.kind = "page", !.step = "localClaim", !.wallet = w, !.sent = FALSE])
  /\ Ask(c, "claim", "SOL")

(* Whatever the claim said, refusals included, the dispense goes on.       *)
CooldownAsked(c) ==
  /\ Replied(c, "localClaim")
  /\ Set(c, [panels[c] EXCEPT !.step = "localSend"])
  /\ UNCHANGED callVars

DispenseLocally(c) == InStep(c, "localSend") /\ Show(c, FALSE)

Continue(c) ==
  \/ Hear(c) \/ AutoReplied(c) \/ PageClaimReplied(c) \/ DialogClaimReplied(c)
  \/ Airdrop(c) \/ CooldownAsked(c) \/ DispenseLocally(c)

Next ==
  \/ \E c \in Callers :
       \/ ClaimFullPack(c) \/ HandleDispense(c) \/ Continue(c)
       \/ (Send(c) \/ TimeOut(c)) /\ UNCHANGED faucetVars
  \/ \E h \in Handlers : Handle(h)
  \/ \E key \in Keys : CooldownEnds(key)
  \/ LoadBundle
  \/ Crash(Handlers) /\ UNCHANGED faucetVars

(* The browser and the server make progress; a free slot for a request     *)
(* comes again and again.                                                  *)
Fairness ==
  /\ \A c \in Callers :
       /\ WF_vars(Continue(c)) /\ WF_vars(TimeOut(c) /\ UNCHANGED faucetVars)
       /\ SF_vars(Send(c) /\ UNCHANGED faucetVars)
  /\ \A h \in Handlers : WF_vars(Handle(h))

Spec == Init /\ [][Next]_vars /\ Fairness

(***************************************************************************)
(* Properties.                                                             *)
(***************************************************************************)
(* While the database answers, whoever was sent something today is cooling *)
(* down, although handlers outlive their requests, requests are repeated   *)
(* and sent transactions are reported as failed.                           *)
ServedIsCooling == served \ failed \subseteq cooling

(* A page or dialog that announces a pack has one to speak of: since its   *)
(* button was pressed a transaction with the pack for its wallet was       *)
(* confirmed, through time-outs, retries, two routes and handlers that     *)
(* outlive their requests.  That it also succeeded nobody has looked at.   *)
AnnouncedIsConfirmed == \A c \in Callers : panels[c].sent => panels[c].got

(* The button does not stay busy, whatever is lost on the way.             *)
ClaimEnds == \A c \in Callers : (panels[c].step # "idle") ~> (panels[c].step = "idle")
=============================================================================
