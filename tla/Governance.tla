----------------------------- MODULE Governance -----------------------------
(***************************************************************************)
(* The governance program: three signers, proposals that need two of them  *)
(* and a day's delay, and an emergency pause that needs one to set and two *)
(* to lift.  One action per instruction.  What a proposal would change is  *)
(* left out: the program stores the payload and acts on none of it.        *)
(*                                                                         *)
(* `acts` is a history variable: which wallet signed what for a proposal,  *)
(* and when.                                                               *)
(***************************************************************************)
EXTENDS Integers, FiniteSets

CONSTANTS
  Keys,        \* wallets that may sign
  DefaultKey,  \* Pubkey::default()
  NoRecord,    \* an address the program has not initialised
  Proposals,   \* proposal ids
  Timelock,    \* TIMELOCK_SECONDS, in clock ticks
  Expiry,      \* PROPOSAL_EXPIRY_SECONDS, in clock ticks
  LastTick     \* bound on the clock

ASSUME GovernanceAssumption ==
  /\ DefaultKey \notin Keys
  /\ IsFiniteSet(Proposals)
  /\ Timelock \in Nat /\ Expiry \in Nat /\ LastTick \in Nat

VARIABLES
  governance,  \* the Governance singleton
  proposals,   \* the proposal account of each id
  tick,        \* Clock::get()?.unix_timestamp
  acts         \* [proposal, key, at]: key proposed or approved

govVars == <<governance, proposals, tick, acts>>

Seats == 1 .. 3
ApprovalThreshold == 2

GovernanceRecord ==
  [signers : [Seats -> Keys], paused : BOOLEAN, executed : Nat]

Proposal ==
  [createdAt : Nat, executableAt : Nat, expiresAt : Nat,
   approvals : [Seats -> BOOLEAN], executed : BOOLEAN]

Act == [proposal : Proposals, key : Keys, at : Nat]

ASSUME NoRecordIsNone == NoRecord \notin GovernanceRecord /\ NoRecord \notin Proposal

Exists(i) == proposals[i] # NoRecord

GovernanceTypeOK ==
  /\ governance \in GovernanceRecord \union {NoRecord}
  /\ proposals \in [Proposals -> Proposal \union {NoRecord}]
  /\ tick \in 0 .. LastTick
  /\ acts \subseteq Act

GovernanceInit ==
  /\ governance = NoRecord
  /\ proposals = [i \in Proposals |-> NoRecord]
  /\ tick = 0
  /\ acts = {}

(* Three real, distinct keys. *)
SignersAllowed(signers) ==
  /\ \A s \in Seats : signers[s] # DefaultKey
  /\ \A s, t \in Seats : s # t => signers[s] # signers[t]

InitializeGovernance(signers) ==
  /\ governance = NoRecord
  /\ SignersAllowed(signers)
  /\ governance' = [signers |-> signers, paused |-> FALSE, executed |-> 0]
  /\ UNCHANGED <<proposals, tick, acts>>

(* signer_index: the first seat that holds the key. *)
HoldsSeat(key, s) ==
  /\ governance.signers[s] = key
  /\ \A t \in Seats : t < s => governance.signers[t] # key

IsSigner(key) == governance # NoRecord /\ \E s \in Seats : HoldsSeat(key, s)

Record(i, key) ==
  acts' = acts \union {[proposal |-> i, key |-> key, at |-> tick]}

ProposeParameterChange(i, key) ==
  /\ ~Exists(i)
  /\ governance # NoRecord
  /\ \E s \in Seats :
       /\ HoldsSeat(key, s)
       /\ proposals' = [proposals EXCEPT ![i] =
            [createdAt |-> tick, executableAt |-> tick + Timelock,
             expiresAt |-> tick + Expiry,
             approvals |-> [t \in Seats |-> t = s], executed |-> FALSE]]
  /\ Record(i, key)
  /\ UNCHANGED <<governance, tick>>

Approvable(p, s) ==
  /\ ~p.executed
  /\ tick < p.expiresAt
  /\ ~p.approvals[s]

ApproveProposal(i, key) ==
  /\ Exists(i)
  /\ governance # NoRecord
  /\ \E s \in Seats :
       /\ HoldsSeat(key, s)
       /\ Approvable(proposals[i], s)
       /\ proposals' = [proposals EXCEPT ![i].approvals[s] = TRUE]
  /\ Record(i, key)
  /\ UNCHANGED <<governance, tick>>

Approved(p, s) == IF p.approvals[s] THEN 1 ELSE 0

ApprovalCount(p) == Approved(p, 1) + Approved(p, 2) + Approved(p, 3)

ExecutableEarlyMutant(p) ==
  /\ ~p.executed
  /\ ApprovalCount(p) >= ApprovalThreshold
  /\ tick + 1 >= p.executableAt
  /\ tick < p.expiresAt
  /\ ~governance.paused

Executable(p) ==
  /\ ~p.executed
  /\ ApprovalCount(p) >= ApprovalThreshold
  /\ tick >= p.executableAt
  /\ tick < p.expiresAt
  /\ ~governance.paused

(* Anyone may execute. *)
ExecuteProposal(i) ==
  /\ governance # NoRecord
  /\ Exists(i)
  /\ Executable(proposals[i])
  /\ proposals' = [proposals EXCEPT ![i].executed = TRUE]
  /\ governance' = [governance EXCEPT !.executed = @ + 1]
  /\ UNCHANGED <<tick, acts>>

EmergencyPause(key) ==
  /\ IsSigner(key)
  /\ ~governance.paused
  /\ governance' = [governance EXCEPT !.paused = TRUE]
  /\ UNCHANGED <<proposals, tick, acts>>

EmergencyUnpause(first, second) ==
  /\ first # second
  /\ IsSigner(first) /\ IsSigner(second)
  /\ governance.paused
  /\ governance' = [governance EXCEPT !.paused = FALSE]
  /\ UNCHANGED <<proposals, tick, acts>>

AdvanceTick ==
  /\ tick < LastTick
  /\ tick' = tick + 1
  /\ UNCHANGED <<governance, proposals, acts>>

GovernanceNext ==
  \/ \E signers \in [Seats -> Keys \union {DefaultKey}] : InitializeGovernance(signers)
  \/ \E i \in Proposals, key \in Keys : ProposeParameterChange(i, key)
  \/ \E i \in Proposals, key \in Keys : ApproveProposal(i, key)
  \/ \E i \in Proposals : ExecuteProposal(i)
  \/ \E key \in Keys : EmergencyPause(key)
  \/ \E first, second \in Keys : EmergencyUnpause(first, second)
  \/ AdvanceTick

GovernanceSpec == GovernanceInit /\ [][GovernanceNext]_govVars

(***************************************************************************)
(* Properties.                                                             *)
(***************************************************************************)

(* The counter kept for auditors is the number of executed proposals: no   *)
(* proposal is enacted twice, however long it stays approved.              *)
ExecutionsCounted ==
  governance # NoRecord =>
    governance.executed =
      Cardinality({i \in Proposals : Exists(i) /\ proposals[i].executed})

(* When a proposal is enacted, two different signers have signed it, one   *)
(* of them at least the timelock ago, so the chain has shown it for that   *)
(* long; and none of its signatures is older than the expiry, so approvals *)
(* are not banked.                                                         *)
OpenlyEnacted(i) ==
  (Exists(i) /\ ~proposals[i].executed /\ proposals'[i].executed) =>
    /\ \E a, b \in acts :
         /\ a.proposal = i /\ b.proposal = i
         /\ a.key # b.key
         /\ IsSigner(a.key) /\ IsSigner(b.key)
         /\ a.at + Timelock <= tick
    /\ \A c \in acts : c.proposal = i => tick < c.at + Expiry

EnactedInTheOpen == [][\A i \in Proposals : OpenlyEnacted(i)]_govVars

(* An enacted proposal is a record: its approvals and times stay as they   *)
(* were when it was enacted, and the signer set never changes.             *)
StaysEnacted(i) ==
  (Exists(i) /\ proposals[i].executed) => proposals'[i] = proposals[i]

EnactedIsFrozen ==
  [][/\ \A i \in Proposals : StaysEnacted(i)
     /\ governance # NoRecord => governance'.signers = governance.signers]_govVars
=============================================================================
