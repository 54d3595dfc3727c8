------------------------------ MODULE DealPage ------------------------------
(***************************************************************************)
(* The pages of one deal: reload() reads its deal, vault and loan accounts *)
(* side by side and shows them together; a press on a button prepares and  *)
(* sends a transaction and reloads.  The manage and repay pages also       *)
(* reload every ten seconds.                                               *)
(*                                                                         *)
(* The deal id is decoded anew by every render, so reload(), which depends *)
(* on it, is a new function after every render, and the effect that calls  *)
(* it on mount runs again.                                                 *)
(***************************************************************************)
EXTENDS Naturals

CONSTANTS
  Accounts,    \* the accounts of a deal
  Loads,       \* bound on the reloads under way
  MaxUpdates,  \* bound on the instructions that change the accounts
  MaxRefusals  \* bound on RPC failures

ASSUME PageAssumption == {MaxUpdates, MaxRefusals} \subseteq Nat

VARIABLES
  kind,      \* "deal", or "manage" for one of the two pages with an interval
  away,      \* document.hidden
  stored,    \* version of the deal's accounts on chain
  loads,     \* per reload: is it under way, and the version read of each account
  view,      \* the versions the page shows, and whether it shows an error instead
  sending,   \* pending.busy, and why
  updates, refusals

pageVars == <<kind, away, stored, loads, view, sending, updates, refusals>>

NotRead == MaxUpdates + 1
Blank == [a \in Accounts |-> NotRead]
Fresh == [on |-> TRUE, got |-> Blank]
Rest == [on |-> FALSE, got |-> Blank]

PageInit ==
  /\ kind \in {"deal", "manage"} /\ away = FALSE
  /\ stored = 0 /\ updates = 0 /\ refusals = 0
  /\ loads = [[l \in Loads |-> Rest] EXCEPT ![CHOOSE l \in Loads : TRUE] = Fresh]
  /\ view = [shown |-> Blank, error |-> FALSE]
  /\ sending = "no"

(* One more reload, unless as many are under way as the bound allows.      *)
Begin(ls) ==
  \/ \E l \in Loads : ~ls[l].on /\ loads' = [ls EXCEPT ![l] = Fresh]
  \/ (\A l \in Loads : ls[l].on) /\ loads' = ls

(* A render makes a new deal id, hence a new reload(), hence the effect.   *)
Render(ls) == Begin(ls)

Without(l) == [loads EXCEPT ![l] = Rest]

ReadAccount(l, a) ==
  /\ loads[l].on /\ loads[l].got[a] = NotRead
  /\ loads' = [loads EXCEPT ![l].got[a] = stored]
  /\ UNCHANGED <<kind, away, stored, view, sending, updates, refusals>>

(* The decoded accounts are new objects, so the page renders even if they  *)
(* say what it showed before.                                              *)
EndLoad(l) ==
  /\ loads[l].on /\ \A a \in Accounts : loads[l].got[a] # NotRead
  /\ view' = [shown |-> loads[l].got, error |-> FALSE]
  /\ Render(Without(l))
  /\ UNCHANGED <<kind, away, stored, sending, updates, refusals>>

Refusal == refusals < MaxRefusals /\ refusals' = refusals + 1

(* The same error text twice is no change and renders nothing.             *)
FailLoad(l) ==
  /\ loads[l].on /\ Refusal
  /\ view' = [view EXCEPT !.error = TRUE]
  /\ Render(Without(l)) \/ (view.error /\ loads' = Without(l))
  /\ UNCHANGED <<kind, away, stored, sending, updates>>

(* The interval, or the reload button.                                     *)
Tick ==
  /\ kind = "manage" /\ ~away
  /\ Begin(loads)
  /\ UNCHANGED <<kind, away, stored, view, sending, updates, refusals>>

(* act(): send() is busy from before it looks for the token accounts ...   *)
Press ==
  /\ ~away /\ sending = "no"
  /\ ~view.error /\ view.shown # Blank
  /\ sending' = "preparing"
  /\ Render(loads)
  /\ UNCHANGED <<kind, away, stored, view, updates, refusals>>

(* ... and for good if it cannot: that error is caught by nobody.          *)
Prepare ==
  /\ sending = "preparing"
  /\ \/ sending' = "confirming" /\ UNCHANGED refusals
     \/ sending' = "lost" /\ Refusal
  /\ UNCHANGED <<kind, away, stored, loads, view, updates>>

Changes == updates < MaxUpdates /\ updates' = updates + 1 /\ stored' = stored + 1

(* Whatever became of the transaction; the render and act() itself each    *)
(* begin a reload.                                                         *)
EndSend ==
  /\ sending = "confirming" /\ sending' = "no"
  /\ Changes \/ UNCHANGED <<stored, updates>>
  /\ Render(loads)
  /\ UNCHANGED <<kind, away, view, refusals>>

(* The other party, the keeper, or a transaction thought lost.             *)
Elsewhere == Changes /\ UNCHANGED <<kind, away, loads, view, sending, refusals>>

LeaveOrReturn ==
  /\ away' = ~away
  /\ UNCHANGED <<kind, stored, loads, view, sending, updates, refusals>>

LoadOn(l) == EndLoad(l) \/ \E a \in Accounts : ReadAccount(l, a)

PageNext ==
  \/ \E l \in Loads : LoadOn(l) \/ FailLoad(l)
  \/ Tick \/ Press \/ Prepare \/ EndSend \/ Elsewhere \/ LeaveOrReturn

(* The interval fires and reads end.                                       *)
PageFairness ==
  /\ WF_pageVars(Tick)
  /\ \A l \in Loads : WF_pageVars(LoadOn(l))

PageSpec == PageInit /\ [][PageNext]_pageVars /\ PageFairness

(***************************************************************************)
(* Properties.                                                             *)
(***************************************************************************)
(* The manage and repay pages, once they stay visible, come to show the    *)
(* accounts as they are stored and stay so, although reloads overlap, each *)
(* reads the three accounts at different times, and some fail (reload()).  *)
PageSettles ==
  <>[](kind = "manage" /\ ~away)
    => <>[](~view.error /\ \A a \in Accounts : view.shown[a] = stored)

(* "10s poll + hidden-tab backoff": no reload begins while the tab is      *)
(* hidden, other than the one a transaction sent before ends with (the     *)
(* test of document.hidden in the interval of the two pages).              *)
RestsWhenHidden ==
  [][kind = "manage" /\ away /\ sending = "no" =>
       \A l \in Loads : loads'[l] = Fresh => loads[l] = Fresh]_pageVars
=============================================================================
