----------------------------- MODULE DealLinks ------------------------------
(***************************************************************************)
(* Links that invite a counterparty to a deal: created under a session,    *)
(* claimed by whoever holds the link.  Both handlers read a row in one     *)
(* await and write in the next.                                            *)
(***************************************************************************)
EXTENDS SessionStore

CONSTANTS DealIds, Links

VARIABLE links   \* link |-> Nothing or its deal, initiator, claimer and whether it is live

linkVars == <<links>>

Link == [deal : DealIds, initiator : Wallets, claimer : Wallets \union {Nothing},
         live : BOOLEAN]

ASSUME NothingIsNoLink == Nothing \notin Link

LinksInit == links = [l \in Links |-> Nothing]

LinksTypeOK == links \in [Links -> Link \union {Nothing}]

Claimable(l) == links[l] # Nothing /\ links[l].live /\ links[l].claimer = Nothing

ActiveLink(d) == \E l \in Links : Claimable(l) /\ links[l].deal = d

(* Whatever throws in these handlers is answered with an error.            *)
Refuse(h) == Finish(h, Nothing) /\ UNCHANGED <<storeVars, linkVars>>

(* requireWalletSession, then the wallet in the body against the session.  *)
Authorise(h) ==
  LET r == handlers[h].request
      found == \E s \in Stores : LookupFinds(r.token, s)
      w == sessions[r.token].wallet
  IN  /\ At(h, "create", "start")
      /\ \/ /\ found /\ r.wallet = w
            /\ handlers' = [handlers EXCEPT ![h].step = "select", ![h].wallet = w]
            /\ UNCHANGED <<calls, storeVars, linkVars>>
         \/ Refuse(h)

SelectActive(h) ==
  /\ At(h, "create", "select")
  /\ \/ /\ ~ActiveLink(handlers[h].request.deal)
        /\ Goto(h, "insert") /\ UNCHANGED <<storeVars, linkVars>>
     \/ Refuse(h)

(* The deal is a unique key of the table, whatever became of its link.     *)
Linked(d) == \E l \in Links : links[l] # Nothing /\ links[l].deal = d

InsertLink(h) ==
  /\ At(h, "create", "insert")
  /\ \/ \E l \in Links :
          /\ links[l] = Nothing /\ ~Linked(handlers[h].request.deal)
          /\ links' = [links EXCEPT ![l] =
               [deal |-> handlers[h].request.deal, initiator |-> handlers[h].wallet,
                claimer |-> Nothing, live |-> TRUE]]
          /\ Finish(h, [link |-> l])
          /\ UNCHANGED storeVars
     \/ Refuse(h)

SelectClaimable(h) ==
  /\ At(h, "claim", "start")
  /\ \/ Claimable(handlers[h].request.link)
        /\ Goto(h, "update") /\ UNCHANGED <<storeVars, linkVars>>
     \/ Refuse(h)

UnclaimedMutant(row) == TRUE

Unclaimed(row) == row.claimer = Nothing

(* The update names unclaimed rows only, but its row count is not read:    *)
(* the answer is the same for one row changed and none.                    *)
UpdateClaim(h) ==
  LET r == handlers[h].request
  IN  /\ At(h, "claim", "update")
      /\ \/ /\ links' = [links EXCEPT ![r.link] =
                 IF Unclaimed(@) THEN [@ EXCEPT !.claimer = r.wallet] ELSE @]
            /\ Finish(h, [claimed |-> r.wallet])
            /\ UNCHANGED storeVars
         \/ Refuse(h)

ExpireLink(l) ==
  /\ links[l] # Nothing /\ links[l].live
  /\ links' = [links EXCEPT ![l].live = FALSE]
  /\ UNCHANGED <<callVars, storeVars>>

LinkStep(h) ==
  \/ Authorise(h) \/ SelectActive(h) \/ InsertLink(h)
  \/ SelectClaimable(h) \/ UpdateClaim(h)
=============================================================================
