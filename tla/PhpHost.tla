------------------------------ MODULE PhpHost -------------------------------
(***************************************************************************)
(* The PHP port of the API, on the same tables as the Node server and      *)
(* without its maps: a request of either kind may find rows the other      *)
(* wrote, and whatever fails here ends in an error.                        *)
(***************************************************************************)
EXTENDS Proposals

CONSTANT PhpHandlers   \* the handlers that run on the PHP host

ASSUME PhpAssumption == PhpHandlers \subseteq Handlers

PhpIssueChallenge(c, w) ==
  IssueChallenge(c, w) /\ challenges'[c].store = "database"

Failed(h) == Finish(h, Nothing) /\ UNCHANGED storeVars

(* The wallet the client names is compared before the signature.           *)
PhpSelectChallenge(h) ==
  LET r == handlers[h].request
      row == challenges[r.challenge]
      accepted == Live(row, "database") /\ r.wallet = row.wallet /\ SignatureMatches(h)
  IN  /\ At(h, "verify", "start")
      /\ \/ accepted /\ Goto(h, "mark") /\ UNCHANGED storeVars
         \/ Failed(h)

PhpMarkUsed(h) ==
  /\ At(h, "verify", "mark")
  /\ \/ /\ Use(handlers[h].request.challenge) /\ Goto(h, "insert")
        /\ UNCHANGED <<sessions, signed>>
     \/ Failed(h)

PhpInsertSession(h) ==
  /\ At(h, "verify", "insert")
  /\ \/ OpenSession(h, "database") /\ UNCHANGED challenges
     \/ Failed(h)

PhpVerifyStep(h) ==
  PhpSelectChallenge(h) \/ PhpMarkUsed(h) \/ PhpInsertSession(h)

(* requireSession sees the rows of the table only.                         *)
PhpSession(h, op) ==
  LET r == handlers[h].request
  IN  /\ At(h, op, "start")
      /\ \/ /\ LookupFinds(r.token, "database")
            /\ NamesSession(r, sessions[r.token].wallet)
            /\ handlers' = [handlers EXCEPT ![h].step = "select",
                                            ![h].wallet = sessions[r.token].wallet]
            /\ UNCHANGED <<calls, TableVars>>
         \/ Decline(h)

PhpLinkStep(h) ==
  \/ PhpSession(h, "create") \/ SelectActive(h) \/ InsertLink(h)
  \/ SelectClaimable(h) \/ UpdateClaim(h)

PhpProposalStep(h) ==
  PhpSession(h, "propose") \/ SelectPending(h) \/ InsertProposal(h) \/ ReadProposal(h)
=============================================================================
