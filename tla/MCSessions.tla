----------------------------- MODULE MCSessions -----------------------------
EXTENDS WalletSession, TLC

(* No definition tells one wallet from another.                            *)
Interchangeable == Permutations(Wallets)
=============================================================================
