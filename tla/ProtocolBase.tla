---------------------------- MODULE ProtocolBase ----------------------------
(***************************************************************************)
(* What the on-chain programs share: the identifiers of deals and wallets, *)
(* program-derived accounts that may not exist yet, 64-bit amounts, and    *)
(* the SPL token transfer every program calls.                             *)
(*                                                                         *)
(* Every account of a program is derived from a deal id, so the accounts   *)
(* of one kind are a function on Deals whose value is NoAccount until the  *)
(* program initialises the address (Anchor's `init` refuses a second time).*)
(***************************************************************************)
EXTENDS Integers

CONSTANTS
  Deals,       \* deal ids (client-generated UUIDs)
  Wallets,     \* wallet public keys
  Default,     \* Pubkey::default(), the key that marks "nobody yet"
  NoAccount,   \* an address no program has initialised
  MaxU64       \* largest u64; a small number in the models

ASSUME BaseAssumption ==
  /\ Default \notin Wallets
  /\ MaxU64 \in Nat

U64 == 0 .. MaxU64

(***************************************************************************)
(* token_interface::transfer_checked, external: fails when the source does *)
(* not hold the amount; source and destination may be the same account.    *)
(***************************************************************************)
CanPay(balances, from, amount) == balances[from] >= amount

Transfer(balances, from, to, amount) ==
  LET debited == [balances EXCEPT ![from] = @ - amount]
  IN  [debited EXCEPT ![to] = @ + amount]

=============================================================================
