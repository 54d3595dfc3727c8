---------------------------- MODULE EscrowVault -----------------------------
(***************************************************************************)
(* The escrow_vault program: the collateral of each deal, from deposit to  *)
(* release or seizure.  One action per instruction.  The vault's token     *)
(* account is an SPL account anybody may transfer to, so a balance and the *)
(* recorded collateral are two things.  One collateral mint is modelled:   *)
(* every instruction pins the mint recorded at creation.                   *)
(*                                                                         *)
(* `flows` is a history variable: what entered and left each vault.        *)
(***************************************************************************)
EXTENDS ProtocolBase

CONSTANTS
  Programs,         \* keys a vault may record as its two programs
  DepositAmounts,   \* amounts a client deposits, locks for or seizes
  InitialBtc        \* collateral tokens each wallet starts with

ASSUME VaultAssumption ==
  /\ Deals \intersect Wallets = {}
  /\ Programs \subseteq Wallets
  /\ DepositAmounts \subseteq U64
  /\ InitialBtc \in Nat

VARIABLES
  vaults,   \* the vault account of each deal
  btc,      \* token balances: of the wallets, and of the vaults by deal id
  flows     \* per deal: atoms deposited, released, seized and sent in unasked

vaultVars == <<vaults, btc, flows>>

VaultState == {"Open", "Locked", "Closed"}

Vault ==
  [borrower : Wallets, loanProgram : Programs, liquidationProgram : Programs,
   atoms : U64, state : VaultState]

Flow == [deposited : Nat, released : Nat, seized : Nat, stray : Nat]

ASSUME NoAccountIsNoVault == NoAccount \notin Vault

HasVault(d) == vaults[d] # NoAccount

InVaultState(d, states) == HasVault(d) /\ vaults[d].state \in states

VaultTypeOK ==
  /\ vaults \in [Deals -> Vault \union {NoAccount}]
  /\ btc \in [Wallets \union Deals -> Nat]
  /\ flows \in [Deals -> Flow]

VaultInit ==
  /\ vaults = [d \in Deals |-> NoAccount]
  /\ btc = [a \in Wallets \union Deals |-> IF a \in Wallets THEN InitialBtc ELSE 0]
  /\ flows = [d \in Deals |->
       [deposited |-> 0, released |-> 0, seized |-> 0, stray |-> 0]]

InitializeVault(d, borrower, loanProgram, liquidationProgram) ==
  /\ ~HasVault(d)
  /\ vaults' = [vaults EXCEPT ![d] =
       [borrower |-> borrower, loanProgram |-> loanProgram,
        liquidationProgram |-> liquidationProgram, atoms |-> 0, state |-> "Open"]]
  /\ UNCHANGED <<btc, flows>>

Depositable(s) == s = "Open"

DepositCollateral(d, signer, amount) ==
  /\ amount > 0
  /\ HasVault(d)
  /\ Depositable(vaults[d].state)
  /\ signer = vaults[d].borrower
  /\ CanPay(btc, signer, amount)
  /\ vaults[d].atoms + amount <= MaxU64
  /\ btc' = Transfer(btc, signer, d, amount)
  /\ vaults' = [vaults EXCEPT ![d].atoms = @ + amount]
  /\ flows' = [flows EXCEPT ![d].deposited = @ + amount]

Enough(atoms, required) == atoms >= required

LockVault(d, signer, required) ==
  /\ InVaultState(d, {"Open"})
  /\ signer = vaults[d].loanProgram
  /\ Enough(vaults[d].atoms, required)
  /\ vaults' = [vaults EXCEPT ![d].state = "Locked"]
  /\ UNCHANGED <<btc, flows>>

ReleasableMutant(d) == btc[d]

(* What a release pays out: the recorded collateral, not the balance.      *)
Releasable(d) == vaults[d].atoms

MayReceive(d, wallet) == wallet = vaults[d].borrower

ReleaseCollateral(d, signer, recipient) ==
  /\ InVaultState(d, {"Locked"})
  /\ signer = vaults[d].loanProgram
  /\ vaults[d].atoms > 0
  /\ MayReceive(d, recipient)
  /\ CanPay(btc, d, Releasable(d))
  /\ btc' = Transfer(btc, d, recipient, Releasable(d))
  /\ vaults' = [vaults EXCEPT ![d].atoms = 0, ![d].state = "Closed"]
  /\ flows' = [flows EXCEPT ![d].released = @ + Releasable(d)]

Seizable(d, amount) == amount <= vaults[d].atoms

AfterSeizureMutant(left) == "Closed"

AfterSeizure(left) == IF left = 0 THEN "Closed" ELSE "Locked"

SeizeCollateral(d, signer, recipient, amount) ==
  /\ amount > 0
  /\ InVaultState(d, {"Locked"})
  /\ signer = vaults[d].liquidationProgram
  /\ Seizable(d, amount)
  /\ CanPay(btc, d, amount)
  /\ btc' = Transfer(btc, d, recipient, amount)
  /\ vaults' = [vaults EXCEPT ![d].atoms = @ - amount,
                              ![d].state = AfterSeizure(vaults[d].atoms - amount)]
  /\ flows' = [flows EXCEPT ![d].seized = @ + amount]

(* The token program, external: anybody may send tokens to a vault's token *)
(* account without the vault program knowing.                              *)
StrayTransfer(d, sender, amount) ==
  /\ amount > 0
  /\ HasVault(d)
  /\ CanPay(btc, sender, amount)
  /\ btc' = Transfer(btc, sender, d, amount)
  /\ flows' = [flows EXCEPT ![d].stray = @ + amount]
  /\ UNCHANGED vaults

VaultNext ==
  \/ \E d \in Deals, w \in Wallets, p, q \in Programs : InitializeVault(d, w, p, q)
  \/ \E d \in Deals, w \in Wallets, a \in DepositAmounts : DepositCollateral(d, w, a)
  \/ \E d \in Deals, w \in Wallets, a \in DepositAmounts : LockVault(d, w, a)
  \/ \E d \in Deals, w, r \in Wallets : ReleaseCollateral(d, w, r)
  \/ \E d \in Deals, w, r \in Wallets, a \in DepositAmounts : SeizeCollateral(d, w, r, a)
  \/ \E d \in Deals, w \in Wallets, a \in DepositAmounts : StrayTransfer(d, w, a)

VaultSpec == VaultInit /\ [][VaultNext]_vaultVars

(***************************************************************************)
(* Properties.                                                             *)
(***************************************************************************)

(* The token account always covers the recorded collateral, and what it    *)
(* holds beyond that is exactly what was sent in unasked: nothing sweeps a *)
(* stray transfer out, whatever mix of releases and seizures runs.         *)
VaultBacked ==
  \A d \in Deals : HasVault(d) => btc[d] = vaults[d].atoms + flows[d].stray

(* Every deposited atom is in the vault, was released, or was seized; none *)
(* leaves twice.  A closed vault has accounted for all of them, so no atom *)
(* is recorded in a vault no instruction can open any more.                *)
CollateralAccounted ==
  \A d \in Deals : HasVault(d) =>
    /\ flows[d].deposited = vaults[d].atoms + flows[d].released + flows[d].seized
    /\ vaults[d].state = "Closed" => vaults[d].atoms = 0

(* Collateral leaves a vault only once it is locked, and only as a seizure *)
(* or as a release of everything left to the borrower recorded when the    *)
(* vault was created.                                                      *)
LeavesByDesign(d) ==
  btc'[d] < btc[d] =>
    /\ InVaultState(d, {"Locked"})
    /\ \/ flows'[d].seized > flows[d].seized
       \/ /\ vaults'[d].state = "Closed"
          /\ btc'[vaults[d].borrower] = btc[vaults[d].borrower] + vaults[d].atoms

LeavesOnlyByDesign == [][\A d \in Deals : LeavesByDesign(d)]_vaultVars

(* Once the vault is locked the borrower's stake is fixed: nothing more is *)
(* deposited, what is recorded only falls, the borrower and the two        *)
(* programs recorded do not change, it never reopens, and a closed vault   *)
(* does not change at all.                                                 *)
StaysCommitted(d) ==
  InVaultState(d, {"Locked", "Closed"}) =>
    /\ InVaultState(d, {"Locked", "Closed"})'
    /\ flows'[d].deposited = flows[d].deposited
    /\ vaults'[d].atoms <= vaults[d].atoms
    /\ \A party \in {"borrower", "loanProgram", "liquidationProgram"} :
         vaults'[d][party] = vaults[d][party]
    /\ vaults[d].state = "Closed" => vaults'[d] = vaults[d]

CommittedForGood == [][\A d \in Deals : StaysCommitted(d)]_vaultVars
=============================================================================
