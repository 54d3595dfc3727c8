----------------------------- MODULE MCServices -----------------------------
(***************************************************************************)
(* What runs around the programs, for TLC: the deployment scripts with two *)
(* configuration accounts, two assets and one clean checkout; the balances *)
(* a page shows of two wallets; the pages of one deal, with two of its     *)
(* accounts; and the waitlist with one address in two spellings, two       *)
(* forms, a role the function knows and one of the repository's own page.  *)
(*                                                                         *)
(* They share nothing, so each is explored on its own: `focus` is chosen   *)
(* once, from the `Parts` of the run, and fairness is asked of its module. *)
(***************************************************************************)
EXTENDS Deployment, Balances, DealPage, Waitlist, TLC

CONSTANTS registry, treasury, tBTC, USDC, email, EMAIL, g1, g2, lend, both, Parts

VARIABLE focus

serviceVars == <<focus, deploymentVars, balanceVars, pageVars, waitlistVars>>

MCConfigs == <<registry, treasury>>
MCAssets == <<tBTC, USDC>>
MCLowered == (email :> email) @@ (EMAIL :> email)
MCOffers == (g1 :> {lend, both}) @@ (g2 :> {both})

ServicesInit ==
  /\ focus \in Parts
  /\ DeploymentInit /\ BalanceInit /\ PageInit /\ WaitlistInit
  /\ focus # "deal_page" => kind = "deal"

ServicesNext ==
  /\ UNCHANGED focus
  /\ \/ /\ focus = "deployment"
        /\ DeploymentNext /\ UNCHANGED <<balanceVars, pageVars, waitlistVars>>
     \/ /\ focus = "balances"
        /\ BalanceNext /\ UNCHANGED <<deploymentVars, pageVars, waitlistVars>>
     \/ /\ focus = "deal_page"
        /\ PageNext /\ UNCHANGED <<deploymentVars, balanceVars, waitlistVars>>
     \/ /\ focus = "waitlist"
        /\ WaitlistNext /\ UNCHANGED <<deploymentVars, balanceVars, pageVars>>

(* The fairness of each module, while its part is explored.                *)
ServicesFairness ==
  /\ WF_deploymentVars(focus = "deployment" /\ Start)
  /\ WF_deploymentVars(focus = "deployment" /\ Proceed)
  /\ WF_balanceVars(focus = "balances" /\ Poll)
  /\ \A s \in Slots : WF_balanceVars(focus = "balances" /\ ReadOn(s))
  /\ WF_pageVars(focus = "deal_page" /\ Tick)
  /\ \A l \in Loads : WF_pageVars(focus = "deal_page" /\ LoadOn(l))

ServicesSpec == ServicesInit /\ [][ServicesNext]_serviceVars /\ ServicesFairness

(* What a page shows of the chain settles, whether it is the balances of   *)
(* the wallet or the accounts of a deal.                                   *)
ScreensSettle == BalancesSettle /\ PageSettles
=============================================================================
