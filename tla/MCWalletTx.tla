------------------------------ MODULE MCWalletTx ------------------------------
(***************************************************************************)
(* Small instances of WalletTx for TLC.                                     *)
(***************************************************************************)
EXTENDS WalletTx, TLC

CONSTANTS t1, t2   \* model values

MCTwoTasks == {t1, t2}
=============================================================================
