----------------------------- MODULE Proposals ------------------------------
(***************************************************************************)
(* Offers on marketplace listings: posted under a session, one pending     *)
(* offer of a wallet for a listing as far as the select before the insert  *)
(* can see.  Their terms are columns of the row nothing here looks at, and *)
(* no code ever moves a row out of "pending".                              *)
(***************************************************************************)
EXTENDS DealLinks

CONSTANTS Listings, ProposalIds

VARIABLE proposals   \* id |-> Nothing or the listing and the proposer

proposalVars == <<proposals>>

Proposal == [listing : Listings, proposer : Wallets]

ProposalsInit == proposals = [p \in ProposalIds |-> Nothing]

ProposalsTypeOK == proposals \in [ProposalIds -> Proposal \union {Nothing}]

TableVars == <<storeVars, linkVars, proposalVars>>

Pending(listing, w) ==
  \E p \in ProposalIds : proposals[p] = [listing |-> listing, proposer |-> w]

Decline(h) == Finish(h, Nothing) /\ UNCHANGED TableVars

NamesSession(r, w) == r.wallet = w

(* The same preHandler as the links; the wallet in the body is optional.   *)
AuthoriseProposal(h) ==
  LET r == handlers[h].request
      w == sessions[r.token].wallet
  IN  /\ At(h, "propose", "start")
      /\ \/ /\ \E s \in Stores : LookupFinds(r.token, s)
            /\ NamesSession(r, w)
            /\ handlers' = [handlers EXCEPT ![h].step = "select", ![h].wallet = w]
            /\ UNCHANGED <<calls, TableVars>>
         \/ Decline(h)

SelectPending(h) ==
  /\ At(h, "propose", "select")
  /\ \/ /\ ~Pending(handlers[h].request.listing, handlers[h].wallet)
        /\ Goto(h, "insert") /\ UNCHANGED TableVars
     \/ Decline(h)

(* The row names the wallet of the session, never the one in the body.  It *)
(* may be there although the insert is reported as failed, and the answer  *)
(* is sent after one more await, the select that reads the row back.       *)
InsertProposal(h) ==
  /\ At(h, "propose", "insert")
  /\ \/ /\ \E p \in ProposalIds :
             /\ proposals[p] = Nothing
             /\ proposals' = [proposals EXCEPT ![p] =
                  [listing |-> handlers[h].request.listing, proposer |-> handlers[h].wallet]]
        /\ Goto(h, "read") \/ Finish(h, Nothing)
        /\ UNCHANGED <<storeVars, linkVars>>
     \/ Decline(h)

ReadProposal(h) ==
  /\ At(h, "propose", "read")
  /\ \/ Finish(h, [proposer |-> handlers[h].wallet]) /\ UNCHANGED TableVars
     \/ Decline(h)

ProposalStep(h) ==
  AuthoriseProposal(h) \/ SelectPending(h) \/ InsertProposal(h) \/ ReadProposal(h)
=============================================================================
