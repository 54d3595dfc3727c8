------------------------------- MODULE Market -------------------------------
(***************************************************************************)
(* The marketplace: proposing a deal from a browser, listing it once the   *)
(* chain has it, and watching the listings of others.  Listings and        *)
(* watched deals are localStorage arrays that every tab reads and rewrites *)
(* as a whole, in one step here; the deal itself is the registry's.        *)
(*                                                                         *)
(* A listing stands for the terms it shows by its deal, creator and side.  *)
(* The store is kept newest first, which is the order load sorts into.     *)
(***************************************************************************)
EXTENDS DealRegistry, Browser, SequencesExt

CONSTANTS
  Drafts,    \* what the form may hold: side, terms, and whom it names
  ListCap,   \* listings a load keeps (100 in the code)
  StoreCap   \* listings a save keeps (200 in the code)

ASSUME MarketAssumption ==
  /\ ListCap \in Nat \ {0} /\ StoreCap \in Nat /\ ListCap < StoreCap
  /\ Drafts \subseteq [side : {"Borrower", "Lender"}, terms : TermSheets,
                       counterparty : Parties]

Proposal == [deal : Deals, creator : Wallets, draft : Drafts, retry : BOOLEAN]

Listing == [deal : Deals, creator : Wallets, side : {"Borrower", "Lender"}]

ASSUME NoAccountIsNoProposal ==
  NoAccount \notin Proposal /\ \A ds \in SUBSET Deals : NoAccount # ds

VARIABLES
  account,   \* per tab: the connected wallet, or Default
  page,      \* per tab: the page it is on
  sending,   \* per tab: the proposal its propose() is waiting for, or NoAccount
  wire,      \* proposals broadcast that may still land
  store,     \* the stored listings
  loading,   \* per tab: is a load awaiting the backend?
  listed,     \* per tab: the listings on its screen
  watched,   \* per wallet: the stored watched deals, NoAccount if never stored
  marks      \* per tab: the deals it shows as watched, or lists on My Deals

tabVars == <<account, page, loading, listed, marks>>
marketVars == <<dealVars, tabVars, sending, wire, store, watched>>

(* "other" stands for the pages that keep none of this, the form included. *)
Pages == {"market", "deals", "other"}

MarketInit ==
  /\ DealInit
  /\ account = [t \in Tabs |-> Default]
  /\ page = [t \in Tabs |-> "other"]
  /\ sending = [t \in Tabs |-> NoAccount]
  /\ wire = {}
  /\ store = <<>>
  /\ loading = [t \in Tabs |-> FALSE]
  /\ listed = [t \in Tabs |-> <<>>]
  /\ watched = [w \in Wallets |-> NoAccount]
  /\ marks = [t \in Tabs |-> {}]

First(n, s) == SubSeq(s, 1, IF Len(s) < n THEN Len(s) ELSE n)

WatchedBy(w) == IF w = Default \/ watched[w] = NoAccount THEN {} ELSE watched[w]

(***************************************************************************)
(* Proposing.  sendAndConfirm broadcasts, waits at most 35 seconds and     *)
(* signs once more when the blockhash had expired.  The wait may end while *)
(* the transaction can still land.  The code fixes the deal id, wallet and *)
(* side when the button is pressed.                                        *)
(***************************************************************************)
Fresh(d) == ~HasDeal(d) /\ \A p \in wire \union {sending[t] : t \in Tabs} :
                             p # NoAccount => p.deal # d

Public(p) == p.draft.counterparty = Default

Propose(t, d, draft) ==
  /\ page[t] = "other" /\ account[t] # Default /\ sending[t] = NoAccount
  /\ Fresh(d)
  /\ LET p == [deal |-> d, creator |-> account[t], draft |-> draft, retry |-> TRUE]
     IN  /\ sending' = [sending EXCEPT ![t] = p]
         /\ wire' = wire \union {p}
  /\ UNCHANGED <<dealVars, tabVars, store, watched>>

Land(p) ==
  /\ p \in wire
  /\ ProposeDeal(p.deal, p.creator, p.draft.terms,
                 IF Public(p) THEN "Public" ELSE "Private",
                 p.draft.side, p.draft.counterparty)
  /\ wire' = wire \ {p}
  /\ UNCHANGED <<tabVars, sending, store, watched>>

Expire(p) ==
  /\ p \in wire
  /\ wire' = wire \ {p}
  /\ UNCHANGED <<dealVars, tabVars, sending, store, watched>>

SignAgain(t) ==
  /\ sending[t] # NoAccount /\ sending[t].retry /\ sending[t] \notin wire
  /\ LET p == [sending[t] EXCEPT !.retry = FALSE]
     IN  /\ sending' = [sending EXCEPT ![t] = p]
         /\ wire' = wire \union {p}
  /\ UNCHANGED <<dealVars, tabVars, store, watched>>

(* The filter of saveListing; the store lists a deal at most once.         *)
Without(d, s) ==
  LET at == {i \in 1 .. Len(s) : s[i].deal = d}
  IN  IF at = {} THEN s ELSE RemoveAt(s, CHOOSE i \in at : TRUE)

(* saveListing: newest first, one per deal. *)
SaveListing(p) ==
  First(StoreCap, <<[deal |-> p.deal, creator |-> p.creator, side |-> p.draft.side]>>
                    \o Without(p.deal, store))

ConfirmedMutant(p) == TRUE

Confirmed(p) == HasDeal(p.deal)

(* A confirmed proposal is listed if public, then the tab goes to the      *)
(* deal's page, dropping what it was doing.                                *)
Hear(t) ==
  /\ sending[t] # NoAccount
  /\ Confirmed(sending[t])
  /\ store' = IF Public(sending[t]) THEN SaveListing(sending[t]) ELSE store
  /\ sending' = [sending EXCEPT ![t] = NoAccount]
  /\ page' = [page EXCEPT ![t] = "other"]
  /\ loading' = [loading EXCEPT ![t] = FALSE]
  /\ listed' = [listed EXCEPT ![t] = <<>>]
  /\ marks' = [marks EXCEPT ![t] = {}]
  /\ UNCHANGED <<dealVars, account, wire, watched>>

(* Refused by wallet or chain, failed, or 35 seconds without news. *)
GiveUp(t) ==
  /\ sending[t] # NoAccount
  /\ sending' = [sending EXCEPT ![t] = NoAccount]
  /\ UNCHANGED <<dealVars, tabVars, wire, store, watched>>

(***************************************************************************)
(* Pages.                                                                  *)
(***************************************************************************)
(* My Deals shows the deals a wallet watches and those it listed itself,   *)
(* each once.                                                              *)
Tracked(w) ==
  IF w = Default THEN {}
  ELSE WatchedBy(w) \union
         {store[i].deal : i \in {j \in 1 .. Len(store) : store[j].creator = w}}

(* The market page keeps the marks it has for a wallet that never stored   *)
(* any; My Deals loads its own again.                                      *)
MarksOn(where, w, old) ==
  CASE where = "market" -> IF w # Default /\ watched[w] # NoAccount THEN watched[w] ELSE old
    [] where = "deals"  -> Tracked(w)
    [] OTHER            -> {}

GoTo(t, where) ==
  /\ page[t] # where
  /\ page' = [page EXCEPT ![t] = where]
  /\ listed' = [listed EXCEPT ![t] = <<>>]
  /\ loading' = [loading EXCEPT ![t] = @ \/ where = "market"]
  /\ marks' = [marks EXCEPT ![t] = MarksOn(where, account[t], {})]
  /\ UNCHANGED <<dealVars, account, sending, wire, store, watched>>

ChangeAccount(t, w) ==
  /\ account[t] # w
  /\ account' = [account EXCEPT ![t] = w]
  /\ marks' = [marks EXCEPT ![t] = MarksOn(page[t], w, @)]
  /\ UNCHANGED <<dealVars, page, loading, listed, sending, wire, store, watched>>

Poll(t) ==
  /\ \/ /\ page[t] = "market" /\ ~loading[t]
        /\ loading' = [loading EXCEPT ![t] = TRUE]
        /\ UNCHANGED marks
     \/ /\ page[t] = "deals"
        /\ marks' = [marks EXCEPT ![t] = Tracked(account[t])]
        /\ UNCHANGED loading
  /\ UNCHANGED <<dealVars, account, page, listed, sending, wire, store, watched>>

MergedMutant(t) == First(ListCap, listed[t])

(* The backend contributes nothing; the store is read after the await.     *)
Merged(t) == First(ListCap, store)

EndLoad(t) ==
  /\ loading[t]
  /\ loading' = [loading EXCEPT ![t] = FALSE]
  /\ store' = First(StoreCap, Merged(t))
  /\ listed' = [listed EXCEPT ![t] = IF page[t] = "market" THEN Merged(t) ELSE @]
  /\ UNCHANGED <<dealVars, account, page, marks, sending, wire, watched>>

(***************************************************************************)
(* Watching.  The button toggles what its screen shows; the stored list is *)
(* read again before it is changed.  My Deals offers to unwatch a listing  *)
(* of one's own as well, which takes it off the screen until the next load.*)
(***************************************************************************)
WithPressMutant(t, d) == (marks[t] \ {d}) \union ({d} \ marks[t])

WithPress(t, d) ==
  IF d \in marks[t] THEN WatchedBy(account[t]) \ {d}
                    ELSE WatchedBy(account[t]) \union {d}

ToggleWatch(t, d) ==
  /\ page[t] = "market" /\ account[t] # Default
  /\ \E i \in 1 .. Len(listed[t]) : listed[t][i].deal = d
  /\ watched' = [watched EXCEPT ![account[t]] = WithPress(t, d)]
  /\ marks' = [marks EXCEPT ![t] = (@ \ {d}) \union ({d} \ @)]
  /\ UNCHANGED <<dealVars, account, page, loading, listed, sending, wire, store>>

Unwatch(t, d) ==
  /\ page[t] = "deals" /\ account[t] # Default
  /\ d \in marks[t]
  /\ watched' = [watched EXCEPT ![account[t]] = WithPress(t, d)]
  /\ marks' = [marks EXCEPT ![t] = @ \ {d}]
  /\ UNCHANGED <<dealVars, account, page, loading, listed, sending, wire, store>>

Listings ==
  \/ \E p \in wire : Land(p)
  \/ \E t \in Tabs :
       \/ \E d \in Deals, draft \in Drafts : Propose(t, d, draft)
       \/ \E where \in Pages : GoTo(t, where)
       \/ \E w \in Parties : ChangeAccount(t, w)
       \/ Hear(t) \/ Poll(t) \/ EndLoad(t)

Failures ==
  \/ \E p \in wire : Expire(p)
  \/ \E t \in Tabs : SignAgain(t) \/ GiveUp(t)

Watches == \E t \in Tabs, d \in Deals : ToggleWatch(t, d) \/ Unwatch(t, d)

MarketNext == Listings \/ Failures \/ Watches

MarketSpec == MarketInit /\ [][MarketNext]_marketVars

(***************************************************************************)
(* Properties.                                                             *)
(***************************************************************************)
(* What is listed was proposed on chain, publicly, by the wallet and on    *)
(* the side the listing names, through every time-out, second signature,   *)
(* change of account and late landing (propose() in deal/new/page.tsx).    *)
ListedWasProposed ==
  \A i \in 1 .. Len(store) :
    LET l == store[i]
    IN  /\ HasDeal(l.deal)
        /\ deals[l.deal].creator = l.creator
        /\ deals[l.deal].creatorSide = l.side
        /\ deals[l.deal].visibility = "Public"

(* A listing leaves the store only when a full page of newer ones is in    *)
(* it: a tab that waits for the backend, or shows an old list, never       *)
(* writes away what another tab listed meanwhile (load's read after its    *)
(* await).                                                                 *)
DroppedOnlyWhenFull ==
  [][\A i \in 1 .. Len(store) :
       store[i] \notin {store'[j] : j \in 1 .. Len(store')} => i > ListCap]_marketVars

(* One press on a watch button changes one deal of one wallet, a wallet    *)
(* connected in some tab, however old the marks on the pressed screen are  *)
(* (toggleWatch and unwatch).                                              *)
OnePressOneDeal ==
  [][\A w \in Wallets : WatchedBy(w)' # WatchedBy(w) =>
       /\ \E t \in Tabs : account[t] = w
       /\ \E d \in Deals : WatchedBy(w)' \ {d} = WatchedBy(w) \ {d}
       /\ \A v \in Wallets \ {w} : WatchedBy(v)' = WatchedBy(v)]_marketVars
=============================================================================
