------------------------------ MODULE MCWallet ------------------------------
(***************************************************************************)
(* TLC instances of Wallet: two requests of one user.                      *)
(***************************************************************************)
EXTENDS Wallet, TLC

CONSTANTS r1, r2

MCRequests == {r1, r2}
AllOperations == {"consume", "transfer", "redeem"}
TransferOnly == {"transfer"}

RequestSymmetry == Permutations(MCRequests)
=============================================================================
