----------------------------- MODULE MCBrowser ------------------------------
(***************************************************************************)
(* What a browser keeps, for TLC: two tabs, two wallets whose addresses    *)
(* begin and end alike, so that they compete for the same default handle;  *)
(* two deals, and a marketplace page that holds one listing, so that the   *)
(* second drops the first.                                                 *)
(*                                                                         *)
(* `focus` is the part a behaviour exercises, chosen once: profile pages;  *)
(* messages between wallets that keep the handle they were given;          *)
(* proposals whose transactions fail; or watched deals.  The parts share   *)
(* no storage key, and their product is out of TLC's reach.                *)
(***************************************************************************)
EXTENDS Messages, Market

CONSTANTS t1, t2, alice, bob, user, user1, name, d1, d2, usdc, tbtc

VARIABLE focus

Interchangeable ==
  UNION {Permutations(S) : S \in {Tabs, Wallets, Deals}}

MCDefaults == [w \in Wallets |-> <<user, user1>>]

MCTermSheets ==
  {[principal |-> 100, loanMint |-> usdc, collateralMint |-> tbtc,
    collateral |-> 2, rate |-> 1000, duration |-> 6, ltv |-> 5000]}

(* A public draft, and one for each wallet, who gets its own refused. *)
MCDrafts ==
  {[side |-> IF c = Default THEN "Borrower" ELSE "Lender",
    terms |-> t, counterparty |-> c] : t \in MCTermSheets, c \in Parties}

(* A bound: a tab that talks stays with the first account it connects. *)
KeepsAccount == \A t \in Tabs : wallet[t] = Absent \/ wallet'[t] = wallet[t]

BrowserInit ==
  /\ ProfilesInit /\ MessagesInit /\ MarketInit
  /\ focus \in {"profiles", "messages", "failures", "watches"}

BrowserNext ==
  /\ \/ /\ focus = "profiles"
        /\ ProfileStep
        /\ UNCHANGED <<messageVars, marketVars>>
     \/ /\ focus = "messages"
        /\ Conversation /\ KeepsAccount
        /\ UNCHANGED marketVars
     \/ /\ focus \in {"failures", "watches"}
        /\ Listings \/ (IF focus = "failures" THEN Failures ELSE Watches)
        /\ UNCHANGED deskVars
  /\ UNCHANGED focus

BrowserSpec == BrowserInit /\ [][BrowserNext]_<<deskVars, marketVars, focus>>
=============================================================================
