------------------------------- MODULE Staking -------------------------------
(***************************************************************************)
(* The staking registry (tokenomics/staking.move).  A registry s is a record *)
(* with the index of rewards per staked unit, scaled by Precision, what no   *)
(* staker has been credited with yet, and a position per user; a user with   *)
(* no position yet has the zero one.  Products are taken in u64 and abort    *)
(* when they do not fit, so every operator comes with the Can... under which *)
(* it returns.                                                              *)
(***************************************************************************)
EXTENDS Config

CONSTANTS
  Precision,   \* PRECISION_E12
  MaxU64       \* the largest u64

ASSUME StakingAssumption == Precision \in Nat \ {0} /\ MaxU64 \in Nat

PositionType == [staked : Nat, debt : Nat, pending : Nat, claimed : Nat]

RegistryType ==
  [positions : [Users -> PositionType], total : Nat, index : Nat,
   undistributed : Nat, claimed : Nat]

NoStakes ==
  [positions |-> [u \in Users |-> [staked |-> 0, debt |-> 0, pending |-> 0, claimed |-> 0]],
   total |-> 0, index |-> 0, undistributed |-> 0, claimed |-> 0]

\* mul_div multiplies first, whatever the quotient.
CanMultiply(a, b) == a * b <= MaxU64
MulDiv(a, b, c) == (a * b) \div c

\* sync_registry_rewards: with nobody staked the fees wait.
Distributes(s) == s.total > 0 /\ s.undistributed > 0
CanSync(s) ==
  Distributes(s) =>
    /\ CanMultiply(s.undistributed, Precision)
    /\ s.index + MulDiv(s.undistributed, Precision, s.total) <= MaxU64
Sync(s) ==
  IF Distributes(s)
  THEN [s EXCEPT !.index = @ + MulDiv(s.undistributed, Precision, s.total),
                 !.undistributed = 0]
  ELSE s

\* accrue_position leaves a debt scaled by Precision.
Gross(p, index) == MulDiv(p.staked, index, Precision)
CanAccrue(p, index) == CanMultiply(p.staked, index)

\* Fault: the new gain replaces what was pending.
AccruedOver(p, index) ==
  LET previous == p.debt \div Precision
  IN [p EXCEPT
        !.pending = IF Gross(p, index) > previous
                    THEN Gross(p, index) - previous ELSE 0,
        !.debt = p.staked * index]

Accrued(p, index) ==
  LET previous == p.debt \div Precision
  IN [p EXCEPT
        !.pending = @ + IF Gross(p, index) > previous
                        THEN Gross(p, index) - previous ELSE 0,
        !.debt = p.staked * index]

\* stake and unstake then overwrite the debt with one that is not scaled.
CanRestake(staked, index) == CanMultiply(staked, index)
Restaked(p, staked, index) ==
  [Accrued(p, index) EXCEPT !.staked = staked, !.debt = MulDiv(staked, index, Precision)]

\* The registry after u changes its stake by delta, both synchronisations done.
CanChangeStake(s, u, delta) ==
  LET synced == Sync(s)
      p == s.positions[u]
  IN /\ CanSync(s) /\ CanAccrue(p, synced.index)
     /\ CanRestake(p.staked + delta, synced.index)
     /\ CanSync([synced EXCEPT !.total = @ + delta])

\* Fault: the total never goes down.
ChangeStakeUpwards(s, u, delta) ==
  LET synced == Sync(s)
  IN Sync([synced EXCEPT
             !.positions[u] = Restaked(@, @.staked + delta, synced.index),
             !.total = IF delta > 0 THEN @ + delta ELSE @])

ChangeStake(s, u, delta) ==
  LET synced == Sync(s)
  IN Sync([synced EXCEPT
             !.positions[u] = Restaked(@, @.staked + delta, synced.index),
             !.total = @ + delta])

\* The part of claim_rewards that is kept here.
CanHarvest(s, u) == CanSync(s) /\ CanAccrue(s.positions[u], Sync(s).index)
Harvest(s, u) == Accrued(s.positions[u], Sync(s).index).pending

\* Fault: the claim is not recorded with the staker.
HarvestedUnrecorded(s, u) ==
  LET p == Accrued(s.positions[u], Sync(s).index)
  IN [Sync(s) EXCEPT !.positions[u] = [p EXCEPT !.pending = 0],
                     !.claimed = @ + p.pending]

Harvested(s, u) ==
  LET p == Accrued(s.positions[u], Sync(s).index)
      amount == p.pending
  IN [Sync(s) EXCEPT
        !.positions[u] = [p EXCEPT !.pending = 0, !.claimed = @ + amount],
        !.claimed = @ + amount]

\* fund_from_fee; amount 0 returns at once.
Funded(s, amount) == [s EXCEPT !.undistributed = @ + amount]
CanFund(s, amount) == amount = 0 \/ CanSync(Funded(s, amount))

\* Fault: the fee waits for the next stake.
FundLater(s, amount) == Funded(s, amount)

FundFromFee(s, amount) == IF amount = 0 THEN s ELSE Sync(Funded(s, amount))
=============================================================================
