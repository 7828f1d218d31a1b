------------------------------ MODULE LendToken ------------------------------
(***************************************************************************)
(* The LEND ledger (tokenomics/lend_token.move): what each user holds in the *)
(* wallet and staked, the protocol reserve and staking vaults, and the       *)
(* supply counters.  The chain's coin module keeps wallet balances and       *)
(* aborts a withdrawal that is not covered (CanPay).                         *)
(***************************************************************************)
EXTENDS Tokenomics

LendType ==
  [wallet : [Users -> Nat], staked : [Users -> Nat],
   reserve : Nat, stakingVault : Nat, minted : Nat, burned : Nat]

TotalBalance(l, u) == l.wallet[u] + l.staked[u]

\* Fault: a withdrawal that nobody checks against the balance.
CanPayAnything(l, u, amount) == TRUE

CanPay(l, u, amount) == l.wallet[u] >= amount

\* coin::withdraw from, and coin::deposit to, the wallet of u.
Debit(l, u, amount) == [l EXCEPT !.wallet[u] = @ - amount]
Credit(l, u, amount) == [l EXCEPT !.wallet[u] = @ + amount]

\* burn_from_protocol_reserve burns what the reserve can cover, perhaps nothing.
Burnable(l, amount) == IF l.reserve >= amount THEN amount ELSE l.reserve

BurnReserve(l, amount) ==
  [l EXCEPT !.reserve = @ - amount, !.burned = @ + amount]

\* coin::mint into the reserve, and a deposit from the wallet of u.
MintToReserve(l, amount) ==
  [l EXCEPT !.reserve = @ + amount, !.minted = @ + amount]
DepositFrom(l, u, amount) ==
  [l EXCEPT !.wallet[u] = @ - amount, !.reserve = @ + amount]

\* distribute_from_protocol pays u out of the reserve.
CanDistribute(l, amount) == l.reserve >= amount
Distribute(l, u, amount) ==
  [l EXCEPT !.reserve = @ - amount, !.wallet[u] = @ + amount]

\* collect_fee_from_user: one withdrawal, part credited, part burned.
\* Fault: the burned share is taken but not counted.
CollectFeeUncounted(l, u, credit, burn) ==
  [l EXCEPT !.wallet[u] = @ - credit - burn, !.reserve = @ + credit]

CollectFee(l, u, credit, burn) ==
  [l EXCEPT !.wallet[u] = @ - credit - burn, !.reserve = @ + credit,
            !.burned = @ + burn]

\* move_to_staked and release_from_staked.
MoveToStaked(l, u, amount) ==
  [l EXCEPT !.wallet[u] = @ - amount, !.staked[u] = @ + amount,
            !.stakingVault = @ + amount]
ReleaseFromStaked(l, u, amount) ==
  [l EXCEPT !.wallet[u] = @ + amount, !.staked[u] = @ - amount,
            !.stakingVault = @ - amount]
=============================================================================
