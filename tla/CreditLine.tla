----------------------------- MODULE CreditLine -----------------------------
(***************************************************************************)
(* What the credit contracts promise one borrower, whatever others do: a     *)
(* single line of credit that is idle, pending or active; an escrow that is  *)
(* the borrower's own, given back whole when the line closes and lost only   *)
(* by default on it; and no other way for LEND to leave the wallet.          *)
(***************************************************************************)
EXTENDS Integers

CONSTANT Users

VARIABLES
  credit,     \* the state of each line
  escrow,     \* LEND of each user that the line holds
  holdings,   \* LEND in each wallet
  seized      \* LEND taken by defaults and not yet disposed of

lineVars == <<credit, escrow, holdings, seized>>

LineInit ==
  /\ credit = [u \in Users |-> "idle"]
  /\ escrow = [u \in Users |-> 0]
  /\ holdings \in [Users -> Nat]
  /\ seized = 0

Move(u, from, to) == credit[u] = from /\ credit' = [credit EXCEPT ![u] = to]

Ask(u) ==
  /\ Move(u, "idle", "pending")
  /\ \E c \in 0..holdings[u] :
       /\ escrow' = [escrow EXCEPT ![u] = c]
       /\ holdings' = [holdings EXCEPT ![u] = @ - c]
  /\ UNCHANGED seized

Grant(u) == Move(u, "pending", "active") /\ UNCHANGED <<escrow, holdings, seized>>

\* Withdrawn, turned down or paid off: the escrow goes home.
Close(u) ==
  /\ \E from \in {"pending", "active"} : Move(u, from, "idle")
  /\ escrow' = [escrow EXCEPT ![u] = 0]
  /\ holdings' = [holdings EXCEPT ![u] = @ + escrow[u]]
  /\ UNCHANGED seized

Forfeit(u) ==
  /\ Move(u, "active", "idle")
  /\ escrow' = [escrow EXCEPT ![u] = 0]
  /\ seized' = seized + escrow[u]
  /\ UNCHANGED holdings

Dispose(u) ==
  /\ \E amount \in 1..seized :
       /\ seized' = seized - amount
       /\ holdings' = [holdings EXCEPT ![u] = @ + amount]
  /\ UNCHANGED <<credit, escrow>>

LineNext == \E u \in Users : Ask(u) \/ Grant(u) \/ Close(u) \/ Forfeit(u) \/ Dispose(u)

LineSpec == LineInit /\ [][LineNext]_lineVars
=============================================================================
