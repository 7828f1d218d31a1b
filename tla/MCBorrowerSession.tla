-------------------------- MODULE MCBorrowerSession --------------------------
(***************************************************************************)
(* Small instances of BorrowerSession for TLC.                              *)
(***************************************************************************)
EXTENDS BorrowerSession, TLC

CONSTANTS alice, bob, n1, n2, n3, l1, l2   \* model values

MCWallets == {alice, bob}
MCTwoLogins == {n1, n2}
MCThreeLogins == {n1, n2, n3}
MCLoads == {l1, l2}
=============================================================================
