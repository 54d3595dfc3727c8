------------------------------ MODULE MCFaucet ------------------------------
(* One tab that funds its wallet, and two requests inside the server.      *)
EXTENDS Faucet
=============================================================================
