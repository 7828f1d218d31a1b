--------------------------- MODULE Economy_proofs ---------------------------
(***************************************************************************)
(* The LEND economy, for every instance: the three books of what is staked   *)
(* agree, earnings only grow, and every fee, payout and point is accounted   *)
(* for, whatever the credit life cycle does in between.                     *)
(***************************************************************************)
EXTENDS Offers, LoanBookStanding_proofs

-----------------------------------------------------------------------------
(* The staking registry.                                                    *)

\* Nobody loses earnings and no new fee is left waiting while somebody stakes.
Advances(s, n) ==
  /\ n \in RegistryType /\ n.index >= s.index
  /\ n.total = 0 \/ n.undistributed = 0
  /\ \A v \in Users : n.positions[v].pending + n.positions[v].claimed
                        >= s.positions[v].pending + s.positions[v].claimed

LEMMA MulDivType ==
  ASSUME NEW a \in Nat, NEW b \in Nat, NEW c \in Nat \ {0}
  PROVE  MulDiv(a, b, c) \in Nat
<1>1. a * b \in Nat
  OBVIOUS
<1>2. \A n \in Nat : n \div c \in Nat
  OBVIOUS
<1> QED
  BY <1>1, <1>2 DEF MulDiv

LEMMA SyncFacts ==
  ASSUME NEW s \in RegistryType
  PROVE  /\ Sync(s) \in RegistryType /\ Sync(s).positions = s.positions
         /\ Sync(s).total = s.total /\ Sync(s).claimed = s.claimed
         /\ Sync(s).index >= s.index
         /\ Sync(s).total = 0 \/ Sync(s).undistributed = 0
<1> DEFINE gain == MulDiv(s.undistributed, Precision, s.total)
           i == s.index + gain
<1>0. /\ s.total \in Nat /\ s.index \in Nat /\ s.undistributed \in Nat
      /\ Precision \in Nat
  BY StakingAssumption DEF RegistryType
<1>1. CASE Distributes(s)
  <2>1. gain \in Nat
    <3>1. s.total \in Nat \ {0}
      BY <1>0, <1>1 DEF Distributes
    <3> QED
      BY <1>0, <3>1, MulDivType
  <2>2. i \in Nat /\ i >= s.index
    BY <1>0, <2>1
  <2> HIDE DEF i
  <2>3. Sync(s) = [s EXCEPT !.index = i, !.undistributed = 0]
    BY <1>1 DEF Sync, i
  <2>4. /\ [s EXCEPT !.index = i, !.undistributed = 0] \in RegistryType
        /\ [s EXCEPT !.index = i, !.undistributed = 0].positions = s.positions
        /\ [s EXCEPT !.index = i, !.undistributed = 0].total = s.total
        /\ [s EXCEPT !.index = i, !.undistributed = 0].claimed = s.claimed
        /\ [s EXCEPT !.index = i, !.undistributed = 0].index = i
        /\ [s EXCEPT !.index = i, !.undistributed = 0].undistributed = 0
    BY <2>2, Zenon DEF RegistryType
  <2> QED
    BY <2>2, <2>3, <2>4
<1>2. CASE ~Distributes(s)
  BY <1>0, <1>2 DEF Distributes, Sync
<1> QED
  BY <1>1, <1>2

LEMMA AccruedFacts ==
  ASSUME NEW p \in PositionType, NEW index \in Nat
  PROVE  /\ Accrued(p, index) \in PositionType
         /\ Accrued(p, index).staked = p.staked
         /\ Accrued(p, index).claimed = p.claimed
         /\ Accrued(p, index).pending >= p.pending
<1> DEFINE previous == p.debt \div Precision
           gain == IF Gross(p, index) > previous THEN Gross(p, index) - previous ELSE 0
           pending == p.pending + gain
           debt == p.staked * index
<1>0. /\ p.staked \in Nat /\ p.debt \in Nat /\ p.pending \in Nat /\ p.claimed \in Nat
      /\ Precision \in Nat \ {0}
  BY StakingAssumption DEF PositionType
<1>1. Gross(p, index) \in Nat
  BY <1>0, MulDivType DEF Gross
<1>2. previous \in Nat
  BY <1>0
<1> HIDE DEF previous
<1>3. gain \in Nat
  BY <1>1, <1>2
<1>4. debt \in Nat
  BY <1>0
<1>5. pending \in Nat /\ pending >= p.pending
  BY <1>0, <1>3
<1>6. Accrued(p, index) = [p EXCEPT !.pending = pending, !.debt = debt]
  BY DEF Accrued, previous
<1> HIDE DEF pending, debt
<1>7. /\ [p EXCEPT !.pending = pending, !.debt = debt] \in PositionType
      /\ [p EXCEPT !.pending = pending, !.debt = debt].staked = p.staked
      /\ [p EXCEPT !.pending = pending, !.debt = debt].claimed = p.claimed
      /\ [p EXCEPT !.pending = pending, !.debt = debt].pending = pending
  BY <1>4, <1>5, Zenon DEF PositionType
<1> QED
  BY <1>5, <1>6, <1>7

LEMMA RestakedFacts ==
  ASSUME NEW p \in PositionType, NEW staked \in Nat, NEW index \in Nat
  PROVE  /\ Restaked(p, staked, index) \in PositionType
         /\ Restaked(p, staked, index).staked = staked
         /\ Restaked(p, staked, index).claimed = p.claimed
         /\ Restaked(p, staked, index).pending >= p.pending
<1> DEFINE a == Accrued(p, index)
           debt == MulDiv(staked, index, Precision)
<1>1. a \in PositionType /\ a.claimed = p.claimed /\ a.pending >= p.pending
  BY AccruedFacts
<1>2. debt \in Nat
  BY StakingAssumption, MulDivType
<1>3. Restaked(p, staked, index) = [a EXCEPT !.staked = staked, !.debt = debt]
  BY DEF Restaked
<1> HIDE DEF a, debt
<1>4. /\ [a EXCEPT !.staked = staked, !.debt = debt] \in PositionType
      /\ [a EXCEPT !.staked = staked, !.debt = debt].staked = staked
      /\ [a EXCEPT !.staked = staked, !.debt = debt].claimed = a.claimed
      /\ [a EXCEPT !.staked = staked, !.debt = debt].pending = a.pending
  BY <1>1, <1>2, Zenon DEF PositionType
<1> QED
  BY <1>1, <1>3, <1>4

Updated(s, u, p, sums) ==
  [s EXCEPT !.positions[u] = p, !.total = sums.total, !.claimed = sums.claimed]

\* What an update of one position and of the totals leaves.
LEMMA PositionUpdate ==
  ASSUME NEW s \in RegistryType, NEW u \in Users, NEW p \in PositionType,
         NEW sums \in [total : Nat, claimed : Nat]
  PROVE  /\ Updated(s, u, p, sums) \in RegistryType
         /\ Updated(s, u, p, sums).positions[u] = p
         /\ Updated(s, u, p, sums).total = sums.total
         /\ Updated(s, u, p, sums).claimed = sums.claimed
         /\ Updated(s, u, p, sums).index = s.index
         /\ Updated(s, u, p, sums).undistributed = s.undistributed
         /\ \A v \in Users : v # u => Updated(s, u, p, sums).positions[v]
                                       = s.positions[v]
<1> DEFINE ps == [s.positions EXCEPT ![u] = p]
           n == [s EXCEPT !.positions = ps, !.total = sums.total, !.claimed = sums.claimed]
<1>1. s.positions \in [Users -> PositionType]
  BY DEF RegistryType
<1>2. /\ ps \in [Users -> PositionType] /\ ps[u] = p
      /\ \A v \in Users : v # u => ps[v] = s.positions[v]
  BY <1>1
<1>n. sums.total \in Nat /\ sums.claimed \in Nat
  OBVIOUS
<1>3. Updated(s, u, p, sums) = n
  BY DEF RegistryType, Updated
<1> HIDE DEF ps
<1>4. /\ n \in RegistryType /\ n.positions = ps /\ n.total = sums.total
      /\ n.claimed = sums.claimed /\ n.index = s.index /\ n.undistributed = s.undistributed
  BY <1>2, <1>n, Zenon DEF RegistryType
<1> HIDE DEF n
<1> QED
  BY <1>2, <1>3, <1>4

LEMMA ChangeStakeFacts ==
  ASSUME NEW s \in RegistryType, NEW u \in Users, NEW delta \in Int,
         s.positions[u].staked + delta \in Nat, s.total + delta \in Nat
  PROVE  LET n == ChangeStake(s, u, delta)
         IN /\ Advances(s, n) /\ n.total = s.total + delta /\ n.claimed = s.claimed
            /\ n.positions[u].staked = s.positions[u].staked + delta
            /\ \A v \in Users : /\ v # u => n.positions[v] = s.positions[v]
                                /\ n.positions[v].claimed = s.positions[v].claimed
<1> DEFINE t == Sync(s)
           p == Restaked(s.positions[u], s.positions[u].staked + delta, t.index)
           sums == [total |-> s.total + delta, claimed |-> s.claimed]
           m == Updated(t, u, p, sums)
           n == Sync(m)
<1>1. /\ t \in RegistryType /\ t.positions = s.positions /\ t.index >= s.index
      /\ t.index \in Nat /\ s.index \in Nat /\ t.total = s.total
      /\ t.claimed = s.claimed /\ s.claimed \in Nat
      /\ \A v \in Users : s.positions[v] \in PositionType
  BY SyncFacts DEF RegistryType
<1>2. /\ p \in PositionType /\ p.staked = s.positions[u].staked + delta
      /\ p.claimed = s.positions[u].claimed /\ p.pending >= s.positions[u].pending
  BY ZenonT(40), <1>1, RestakedFacts
<1>3. ChangeStake(s, u, delta) = n
  <2>1. [t EXCEPT !.positions[u] = Restaked(@, @.staked + delta, t.index),
                  !.total = @ + delta] = m
    BY <1>1 DEF RegistryType, Updated
  <2> QED
    BY <2>1 DEF ChangeStake
<1>t. /\ sums \in [total : Nat, claimed : Nat]
      /\ sums.total = s.total + delta /\ sums.claimed = s.claimed
  BY <1>1
<1> HIDE DEF t, p, sums
<1>4. /\ m \in RegistryType /\ m.positions[u] = p /\ m.index = t.index
      /\ m.total = sums.total /\ m.claimed = sums.claimed
      /\ \A v \in Users : v # u => m.positions[v] = t.positions[v]
  BY <1>1, <1>2, <1>t, PositionUpdate
<1> HIDE DEF m
<1>5. /\ n \in RegistryType /\ n.positions = m.positions /\ n.total = m.total
      /\ n.claimed = m.claimed /\ n.index >= m.index /\ n.index \in Nat
      /\ n.total = 0 \/ n.undistributed = 0
  BY <1>4, SyncFacts DEF RegistryType
<1> HIDE DEF n
<1>6. ASSUME NEW v \in Users
      PROVE  /\ n.positions[v].claimed = s.positions[v].claimed
             /\ n.positions[v].pending + n.positions[v].claimed
                  >= s.positions[v].pending + s.positions[v].claimed
  <2>1. /\ s.positions[v].pending \in Nat /\ s.positions[v].claimed \in Nat
        /\ p.pending \in Nat /\ p.claimed \in Nat
    BY <1>1, <1>2 DEF PositionType
  <2>2. CASE v = u
    <3>1. n.positions[v] = p
      BY <1>4, <1>5, <2>2
    <3> QED
      BY <1>2, <2>1, <2>2, <3>1
  <2>3. CASE v # u
    <3>1. n.positions[v] = s.positions[v]
      BY <1>1, <1>4, <1>5, <2>3
    <3> QED
      BY <2>1, <3>1
  <2> QED
    BY <2>2, <2>3
<1>7. n.index >= s.index
  BY <1>1, <1>4, <1>5
<1>8. Advances(s, n)
  BY <1>5, <1>6, <1>7 DEF Advances
<1>9. /\ n.total = s.total + delta /\ n.claimed = s.claimed
      /\ n.positions[u].staked = s.positions[u].staked + delta
      /\ \A v \in Users : v # u => n.positions[v] = s.positions[v]
  BY <1>1, <1>2, <1>t, <1>4, <1>5
<1> QED
  BY <1>3, <1>6, <1>8, <1>9

LEMMA HarvestedFacts ==
  ASSUME NEW s \in RegistryType, NEW u \in Users
  PROVE  LET n == Harvested(s, u)
             h == Harvest(s, u)
         IN /\ h \in Nat /\ Advances(s, n) /\ n.total = s.total
            /\ n.claimed = s.claimed + h
            /\ n.positions[u].claimed = s.positions[u].claimed + h
            /\ n.positions[u].staked = s.positions[u].staked
            /\ \A v \in Users : v # u => n.positions[v] = s.positions[v]
<1> DEFINE t == Sync(s)
           a == Accrued(s.positions[u], t.index)
           h == a.pending
           c == a.claimed + h
           p == [a EXCEPT !.pending = 0, !.claimed = c]
           sums == [total |-> s.total, claimed |-> s.claimed + h]
           n == Updated(t, u, p, sums)
<1>1. /\ t \in RegistryType /\ t.positions = s.positions /\ t.index >= s.index
      /\ t.index \in Nat /\ s.index \in Nat /\ t.total = s.total
      /\ t.total = 0 \/ t.undistributed = 0
      /\ t.claimed = s.claimed /\ s.claimed \in Nat /\ s.total \in Nat
      /\ \A v \in Users : s.positions[v] \in PositionType
  BY SyncFacts DEF RegistryType
<1>2. /\ a \in PositionType /\ a.staked = s.positions[u].staked
      /\ a.claimed = s.positions[u].claimed /\ a.pending >= s.positions[u].pending
  BY <1>1, AccruedFacts
<1>3. Harvested(s, u) = n /\ Harvest(s, u) = h
  <2>1. Harvested(s, u) = [t EXCEPT !.positions[u] = p, !.claimed = @ + h]
    BY DEF Harvested
  <2>2. PICK k : k = s.claimed + h
    OBVIOUS
  <2>3. PICK ps : ps = [t.positions EXCEPT ![u] = p]
    OBVIOUS
  <2> HIDE DEF t, p, h
  <2>4. sums.total = t.total /\ sums.claimed = k /\ t.claimed + h = k
    BY <1>1, <2>2
  <2>5. [t EXCEPT !.positions = ps, !.claimed = k]
          = [t EXCEPT !.positions = ps, !.total = t.total, !.claimed = k]
    BY <1>1, Zenon DEF RegistryType
  <2>6. n = [t EXCEPT !.positions = ps, !.total = t.total, !.claimed = k]
    BY <2>3, <2>4 DEF Updated
  <2>7. Harvested(s, u) = [t EXCEPT !.positions = ps, !.claimed = k]
    BY <2>1, <2>3, <2>4
  <2>8. Harvest(s, u) = h
    BY DEF Harvest, h, t
  <2> QED
    BY <2>5, <2>6, <2>7, <2>8
<1> HIDE DEF t, a
<1>4. h \in Nat /\ c \in Nat /\ a.claimed \in Nat
  BY <1>1, <1>2 DEF PositionType
<1>t. /\ sums \in [total : Nat, claimed : Nat]
      /\ sums.total = s.total /\ sums.claimed = s.claimed + h
  BY <1>1, <1>4
<1> HIDE DEF c
<1>5. p \in PositionType /\ p.staked = a.staked /\ p.claimed = c /\ p.pending = 0
  BY <1>2, <1>4, Zenon DEF PositionType
<1> HIDE DEF h, p, sums
<1>6. /\ n \in RegistryType /\ n.positions[u] = p /\ n.index = t.index
      /\ n.total = sums.total /\ n.claimed = sums.claimed
      /\ n.undistributed = t.undistributed
      /\ \A v \in Users : v # u => n.positions[v] = t.positions[v]
  BY <1>1, <1>t, <1>5, PositionUpdate
<1> HIDE DEF n
<1>7. c = s.positions[u].claimed + h /\ h >= s.positions[u].pending
  BY <1>2 DEF c, h
<1>8. ASSUME NEW v \in Users
      PROVE  n.positions[v].pending + n.positions[v].claimed
               >= s.positions[v].pending + s.positions[v].claimed
  <2>1. s.positions[v].pending \in Nat /\ s.positions[v].claimed \in Nat
    BY <1>1 DEF PositionType
  <2>2. CASE v = u
    BY <1>4, <1>5, <1>6, <1>7, <2>1, <2>2
  <2>3. CASE v # u
    <3>1. n.positions[v] = s.positions[v]
      BY <1>1, <1>6, <2>3
    <3> QED
      BY <2>1, <3>1
  <2> QED
    BY <2>2, <2>3
<1>9. Advances(s, n)
  BY <1>1, <1>t, <1>6, <1>8 DEF Advances
<1> QED
  BY <1>1, <1>2, <1>3, <1>4, <1>t, <1>5, <1>6, <1>7, <1>9

LEMMA FundFacts ==
  ASSUME NEW s \in RegistryType, NEW amount \in Nat, s.total = 0 \/ s.undistributed = 0
  PROVE  LET n == FundFromFee(s, amount)
         IN /\ Advances(s, n) /\ n.total = s.total /\ n.claimed = s.claimed
            /\ n.positions = s.positions
<1> DEFINE waiting == s.undistributed + amount
           m == Funded(s, amount)
           n == FundFromFee(s, amount)
<1>1. /\ waiting \in Nat /\ s.index \in Nat
      /\ \A v \in Users : s.positions[v].pending + s.positions[v].claimed \in Nat
  BY DEF RegistryType, PositionType
<1>2. m = [s EXCEPT !.undistributed = waiting]
  BY DEF Funded
<1> HIDE DEF m, waiting
<1>3. /\ m \in RegistryType /\ m.positions = s.positions /\ m.total = s.total
      /\ m.index = s.index /\ m.claimed = s.claimed
  BY <1>1, <1>2, Zenon DEF RegistryType
<1>4. CASE amount = 0
  BY <1>1, <1>4 DEF FundFromFee, Advances
<1>5. CASE amount # 0
  <2>1. n = Sync(m)
    BY <1>5 DEF FundFromFee, m
  <2> HIDE DEF n
  <2>2. /\ n \in RegistryType /\ n.positions = s.positions /\ n.total = s.total
        /\ n.claimed = s.claimed /\ n.index >= s.index
        /\ n.total = 0 \/ n.undistributed = 0
    BY <1>3, <2>1, SyncFacts
  <2> QED
    BY <1>1, <2>2 DEF Advances, n
<1> QED
  BY <1>4, <1>5

-----------------------------------------------------------------------------
(* The LEND ledger.                                                         *)

\* No unit of LEND appears or disappears uncounted between l and m.
LedgerKept(l, m) ==
  m.minted - m.burned - SumFunction(m.wallet) - m.stakingVault - m.reserve
    = l.minted - l.burned - SumFunction(l.wallet) - l.stakingVault - l.reserve

SameStakes(l, m) == m.staked = l.staked /\ m.stakingVault = l.stakingVault

LEMMA BalanceSum ==
  ASSUME NEW f \in [Users -> Nat], NEW u \in Users, NEW w \in Nat
  PROVE  /\ [f EXCEPT ![u] = w] \in [Users -> Nat]
         /\ SumFunction([f EXCEPT ![u] = w]) = SumFunction(f) - f[u] + w
         /\ SumFunction(f) \in Nat /\ f[u] \in Nat
         /\ SumFunction([f EXCEPT ![u] = w]) \in Nat
<1> DEFINE g == [f EXCEPT ![u] = w]
<1>1. /\ g \in [Users -> Nat] /\ g[u] = w /\ f[u] \in Nat
      /\ \A x \in Users : x # u => g[x] = f[x]
  OBVIOUS
<1> HIDE DEF g
<1>2. SumFunction(g) = SumFunction(f) - f[u] + g[u]
  BY <1>1, LoanBookAssumption, SumFunctionChanges
<1>3. SumFunction(f) \in Nat /\ SumFunction(g) \in Nat
  BY <1>1, LoanBookAssumption, SumFunctionType
<1> QED
  BY <1>1, <1>2, <1>3 DEF g

LEMMA LendParts ==
  ASSUME NEW l \in LendType
  PROVE  /\ l.wallet \in [Users -> Nat] /\ l.staked \in [Users -> Nat]
         /\ l.reserve \in Nat /\ l.stakingVault \in Nat /\ l.minted \in Nat
         /\ l.burned \in Nat /\ \A u \in Users : l.wallet[u] \in Nat /\ l.staked[u] \in Nat
BY DEF LendType

LEMMA DistributeFacts ==
  ASSUME NEW l \in LendType, NEW u \in Users, NEW amount \in Nat, CanDistribute(l, amount)
  PROVE  LET m == Distribute(l, u, amount)
         IN /\ m \in LendType /\ LedgerKept(l, m) /\ SameStakes(l, m)
            /\ m.reserve = l.reserve - amount
<1> DEFINE w == l.wallet[u] + amount
           f == [l.wallet EXCEPT ![u] = w]
           r == l.reserve - amount
           m == [l EXCEPT !.reserve = r, !.wallet = f]
<1>1. w \in Nat /\ r \in Nat
  BY LendParts DEF CanDistribute
<1>2. Distribute(l, u, amount) = m
  BY LendParts DEF Distribute, LendType
<1>3. w = l.wallet[u] + amount /\ r = l.reserve - amount
  OBVIOUS
<1> HIDE DEF w, r
<1>4. /\ f \in [Users -> Nat] /\ SumFunction(f) = SumFunction(l.wallet) - l.wallet[u] + w
      /\ SumFunction(l.wallet) \in Nat /\ SumFunction(f) \in Nat /\ l.wallet[u] \in Nat
  BY <1>1, LendParts, BalanceSum
<1> HIDE DEF f
<1>5. /\ m \in LendType /\ m.wallet = f /\ m.reserve = r
      /\ m.minted = l.minted /\ m.burned = l.burned /\ SameStakes(l, m)
  BY <1>1, <1>4, Zenon DEF LendType, SameStakes
<1> HIDE DEF m
<1>6. LedgerKept(l, m)
  BY <1>1, <1>3, <1>4, <1>5, LendParts DEF LedgerKept, SameStakes
<1> QED
  BY <1>2, <1>3, <1>5, <1>6

LEMMA CollectFeeFacts ==
  ASSUME NEW l \in LendType, NEW u \in Users, NEW credit \in Nat, NEW burn \in Nat,
         CanPay(l, u, credit + burn)
  PROVE  LET m == CollectFee(l, u, credit, burn)
         IN /\ m \in LendType /\ LedgerKept(l, m) /\ SameStakes(l, m)
            /\ m.reserve = l.reserve + credit
<1> DEFINE w == l.wallet[u] - credit - burn
           f == [l.wallet EXCEPT ![u] = w]
           r == l.reserve + credit
           b == l.burned + burn
           m == [l EXCEPT !.wallet = f, !.reserve = r, !.burned = b]
<1>1. w \in Nat /\ r \in Nat /\ b \in Nat
  BY LendParts DEF CanPay
<1>2. CollectFee(l, u, credit, burn) = m
  BY LendParts DEF CollectFee, LendType
<1>3. w = l.wallet[u] - credit - burn /\ r = l.reserve + credit /\ b = l.burned + burn
  OBVIOUS
<1> HIDE DEF w, r, b
<1>4. /\ f \in [Users -> Nat] /\ SumFunction(f) = SumFunction(l.wallet) - l.wallet[u] + w
      /\ SumFunction(l.wallet) \in Nat /\ SumFunction(f) \in Nat /\ l.wallet[u] \in Nat
  BY <1>1, LendParts, BalanceSum
<1> HIDE DEF f
<1>5. /\ m \in LendType /\ m.wallet = f /\ m.reserve = r
      /\ m.minted = l.minted /\ m.burned = b /\ SameStakes(l, m)
  BY <1>1, <1>4, Zenon DEF LendType, SameStakes
<1> HIDE DEF m
<1>6. LedgerKept(l, m)
  BY <1>1, <1>3, <1>4, <1>5, LendParts DEF LedgerKept, SameStakes
<1> QED
  BY <1>2, <1>3, <1>5, <1>6

LEMMA MintFacts ==
  ASSUME NEW l \in LendType, NEW amount \in Nat
  PROVE  LET m == MintToReserve(l, amount)
         IN /\ m \in LendType /\ LedgerKept(l, m) /\ SameStakes(l, m)
            /\ m.reserve = l.reserve + amount
<1> DEFINE r == l.reserve + amount
           x == l.minted + amount
           m == [l EXCEPT !.reserve = r, !.minted = x]
<1>1. r \in Nat /\ x \in Nat /\ SumFunction(l.wallet) \in Nat
  BY LendParts, LoanBookAssumption, SumFunctionType
<1>2. MintToReserve(l, amount) = m
  BY DEF MintToReserve, LendType
<1>3. r = l.reserve + amount /\ x = l.minted + amount
  OBVIOUS
<1> HIDE DEF r, x
<1>4. /\ m \in LendType /\ m.wallet = l.wallet /\ m.reserve = r
      /\ m.minted = x /\ m.burned = l.burned /\ SameStakes(l, m)
  BY <1>1, Zenon DEF LendType, SameStakes
<1> HIDE DEF m
<1>5. LedgerKept(l, m)
  BY <1>1, <1>3, <1>4, LendParts DEF LedgerKept, SameStakes
<1> QED
  BY <1>2, <1>3, <1>4, <1>5

LEMMA DepositFacts ==
  ASSUME NEW l \in LendType, NEW u \in Users, NEW amount \in Nat, CanPay(l, u, amount)
  PROVE  LET m == DepositFrom(l, u, amount)
         IN /\ m \in LendType /\ LedgerKept(l, m) /\ SameStakes(l, m)
            /\ m.reserve = l.reserve + amount
<1> DEFINE w == l.wallet[u] - amount
           f == [l.wallet EXCEPT ![u] = w]
           r == l.reserve + amount
           m == [l EXCEPT !.wallet = f, !.reserve = r]
<1>1. w \in Nat /\ r \in Nat
  BY LendParts DEF CanPay
<1>2. DepositFrom(l, u, amount) = m
  BY LendParts DEF DepositFrom, LendType
<1>3. w = l.wallet[u] - amount /\ r = l.reserve + amount
  OBVIOUS
<1> HIDE DEF w, r
<1>4. /\ f \in [Users -> Nat] /\ SumFunction(f) = SumFunction(l.wallet) - l.wallet[u] + w
      /\ SumFunction(l.wallet) \in Nat /\ SumFunction(f) \in Nat /\ l.wallet[u] \in Nat
  BY <1>1, LendParts, BalanceSum
<1> HIDE DEF f
<1>5. /\ m \in LendType /\ m.wallet = f /\ m.reserve = r
      /\ m.minted = l.minted /\ m.burned = l.burned /\ SameStakes(l, m)
  BY <1>1, <1>4, Zenon DEF LendType, SameStakes
<1> HIDE DEF m
<1>6. LedgerKept(l, m)
  BY <1>1, <1>3, <1>4, <1>5, LendParts DEF LedgerKept, SameStakes
<1> QED
  BY <1>2, <1>3, <1>5, <1>6

LEMMA PurseFacts ==
  ASSUME NEW l \in LendType, NEW u \in Users, NEW amount \in Nat
  PROVE  /\ SameStakes(l, Debit(l, u, amount)) /\ SameStakes(l, Credit(l, u, amount))
         /\ SameSupply(Debit(l, u, amount), l) /\ SameSupply(Credit(l, u, amount), l)
         /\ SumFunction(Credit(l, u, amount).wallet) = SumFunction(l.wallet) + amount
         /\ CanPay(l, u, amount)
              => SumFunction(Debit(l, u, amount).wallet) = SumFunction(l.wallet) - amount
<1>1. SameStakes(l, Debit(l, u, amount)) /\ SameStakes(l, Credit(l, u, amount))
  BY Zenon DEF LendType, SameStakes, Debit, Credit
<1>2. SumFunction(Credit(l, u, amount).wallet) = SumFunction(l.wallet) + amount
  <2> DEFINE w == l.wallet[u] + amount
  <2>1. w \in Nat /\ Credit(l, u, amount).wallet = [l.wallet EXCEPT ![u] = w]
    BY LendParts, CreditFacts
  <2>2. w = l.wallet[u] + amount
    OBVIOUS
  <2> HIDE DEF w
  <2>3. /\ SumFunction([l.wallet EXCEPT ![u] = w])
             = SumFunction(l.wallet) - l.wallet[u] + w
        /\ SumFunction(l.wallet) \in Nat /\ l.wallet[u] \in Nat
    BY <2>1, LendParts, BalanceSum
  <2> QED
    BY <2>1, <2>2, <2>3
<1>3. ASSUME CanPay(l, u, amount)
      PROVE  SumFunction(Debit(l, u, amount).wallet) = SumFunction(l.wallet) - amount
  <2> DEFINE w == l.wallet[u] - amount
  <2>1. w \in Nat /\ Debit(l, u, amount).wallet = [l.wallet EXCEPT ![u] = w]
    BY <1>3, LendParts, DebitFacts DEF CanPay
  <2>2. w = l.wallet[u] - amount /\ l.wallet \in [Users -> Nat] /\ l.wallet[u] \in Nat
    BY LendParts
  <2> HIDE DEF w
  <2>3. /\ SumFunction([l.wallet EXCEPT ![u] = w]) = SumFunction(l.wallet) - l.wallet[u] + w
        /\ SumFunction(l.wallet) \in Nat
    BY <2>1, <2>2, BalanceSum
  <2> QED
    BY <2>1, <2>2, <2>3
<1> QED
  BY <1>1, <1>2, <1>3, DebitFacts, CreditFacts

LEMMA TransferFacts ==
  ASSUME NEW l \in LendType, NEW u \in Users, NEW v \in Users, NEW amount \in Nat,
         CanPay(l, u, amount)
  PROVE  LET m == Credit(Debit(l, u, amount), v, amount)
         IN /\ m \in LendType /\ LedgerKept(l, m) /\ SameStakes(l, m)
            /\ m.reserve = l.reserve
<1> DEFINE d == Debit(l, u, amount)
           m == Credit(d, v, amount)
<1>1. d \in LendType /\ SameStakes(l, d) /\ SameSupply(d, l)
  BY LendStep, PurseFacts
<1>2. SumFunction(d.wallet) = SumFunction(l.wallet) - amount
  BY PurseFacts
<1> HIDE DEF d
<1>3. m \in LendType /\ SameStakes(d, m) /\ SameSupply(m, d)
  BY <1>1, LendStep, PurseFacts
<1>4. SumFunction(m.wallet) = SumFunction(d.wallet) + amount
  BY <1>1, PurseFacts
<1>5. SumFunction(l.wallet) \in Nat
  BY LendParts, LoanBookAssumption, SumFunctionType
<1> HIDE DEF m
<1>6. LedgerKept(l, m)
  BY <1>1, <1>2, <1>3, <1>4, <1>5, LendParts DEF SameSupply, LedgerKept
<1>7. SameStakes(l, m) /\ m.reserve = l.reserve
  BY <1>1, <1>3 DEF SameStakes, SameSupply
<1> QED
  BY <1>3, <1>6, <1>7 DEF d, m

\* Staking and unstaking move the same amount in the wallet, in the record of
\* the ledger and in the vault.
StakeMoves(l, m, u, delta) ==
  /\ m \in LendType /\ LedgerKept(l, m) /\ m.reserve = l.reserve
  /\ m.staked = [l.staked EXCEPT ![u] = l.staked[u] + delta]
  /\ m.stakingVault = l.stakingVault + delta

LEMMA StakeMovesFacts ==
  ASSUME NEW l \in LendType, NEW u \in Users, NEW delta \in Int, NEW m,
         l.wallet[u] - delta \in Nat, l.staked[u] + delta \in Nat,
         l.stakingVault + delta \in Nat,
         m = [l EXCEPT !.wallet = [l.wallet EXCEPT ![u] = l.wallet[u] - delta],
                       !.staked = [l.staked EXCEPT ![u] = l.staked[u] + delta],
                       !.stakingVault = l.stakingVault + delta]
  PROVE  StakeMoves(l, m, u, delta)
<1> DEFINE w == l.wallet[u] - delta
           f == [l.wallet EXCEPT ![u] = w]
           g == [l.staked EXCEPT ![u] = l.staked[u] + delta]
           v == l.stakingVault + delta
<1>1. w \in Nat /\ v \in Nat /\ w = l.wallet[u] - delta /\ v = l.stakingVault + delta
  OBVIOUS
<1>2. g \in [Users -> Nat]
  BY LendParts
<1>3. m = [l EXCEPT !.wallet = f, !.staked = g, !.stakingVault = v]
  OBVIOUS
<1> HIDE DEF w, g, v
<1>4. /\ f \in [Users -> Nat] /\ SumFunction(f) = SumFunction(l.wallet) - l.wallet[u] + w
      /\ SumFunction(l.wallet) \in Nat /\ SumFunction(f) \in Nat /\ l.wallet[u] \in Nat
  BY <1>1, LendParts, BalanceSum
<1> HIDE DEF f
<1>5. /\ m \in LendType /\ m.wallet = f /\ m.staked = g /\ m.stakingVault = v
      /\ m.reserve = l.reserve /\ m.minted = l.minted /\ m.burned = l.burned
  BY <1>1, <1>2, <1>3, <1>4, Zenon DEF LendType
<1>6. LedgerKept(l, m)
  BY <1>1, <1>4, <1>5, LendParts DEF LedgerKept
<1> QED
  BY <1>1, <1>5, <1>6 DEF StakeMoves, g

LEMMA MoveToStakedFacts ==
  ASSUME NEW l \in LendType, NEW u \in Users, NEW amount \in Nat, CanPay(l, u, amount)
  PROVE  StakeMoves(l, MoveToStaked(l, u, amount), u, amount)
<1>1. /\ l.wallet[u] - amount \in Nat /\ l.staked[u] + amount \in Nat
      /\ l.stakingVault + amount \in Nat /\ amount \in Int
  BY LendParts DEF CanPay
<1>2. MoveToStaked(l, u, amount)
        = [l EXCEPT !.wallet = [l.wallet EXCEPT ![u] = l.wallet[u] - amount],
                    !.staked = [l.staked EXCEPT ![u] = l.staked[u] + amount],
                    !.stakingVault = l.stakingVault + amount]
  BY LendParts DEF MoveToStaked, LendType
<1> QED
  BY <1>1, <1>2, StakeMovesFacts

LEMMA ReleaseFromStakedFacts ==
  ASSUME NEW l \in LendType, NEW u \in Users, NEW amount \in Nat,
         l.staked[u] >= amount, l.stakingVault >= amount
  PROVE  StakeMoves(l, ReleaseFromStaked(l, u, amount), u, -amount)
<1>0. PICK delta \in Int : delta = -amount
  OBVIOUS
<1>1. /\ l.wallet[u] - delta \in Nat /\ l.staked[u] + delta \in Nat
      /\ l.stakingVault + delta \in Nat
      /\ l.wallet[u] - delta = l.wallet[u] + amount
      /\ l.staked[u] + delta = l.staked[u] - amount
      /\ l.stakingVault + delta = l.stakingVault - amount
  BY <1>0, LendParts
<1>2. ReleaseFromStaked(l, u, amount)
        = [l EXCEPT !.wallet = [l.wallet EXCEPT ![u] = l.wallet[u] + amount],
                    !.staked = [l.staked EXCEPT ![u] = l.staked[u] - amount],
                    !.stakingVault = l.stakingVault - amount]
  BY LendParts DEF ReleaseFromStaked, LendType
<1> QED
  BY <1>0, <1>1, <1>2, StakeMovesFacts

-----------------------------------------------------------------------------
(* The treasury and the shares of a fee.                                    *)

LEMMA ReserveSteps ==
  ASSUME NEW t \in TreasuryType, NEW amount \in Nat
  PROVE  /\ AbsorbProtocolLend(t, amount) \in TreasuryType
         /\ SameVaults(AbsorbProtocolLend(t, amount), t)
         /\ AbsorbProtocolLend(t, amount).lendClaimed = t.lendClaimed
         /\ \A reserve \in Nat : Balanced(t, reserve)
              => Balanced(AbsorbProtocolLend(t, amount), reserve + amount)
         /\ CanSpendReserve(t, amount) => ReleaseReward(t, amount) \in TreasuryType
         /\ SameVaults(ReleaseReward(t, amount), t)
         /\ ReleaseReward(t, amount).lendClaimed = t.lendClaimed + amount
         /\ \A reserve \in Nat : Balanced(t, reserve)
              => Balanced(ReleaseReward(t, amount), reserve - amount)
<1>0. /\ t.rewardReserve \in Nat /\ t.rewardFunded \in Nat /\ t.lendClaimed \in Nat
      /\ t.lendBurned \in Nat
  BY DEF TreasuryType
<1>1. AbsorbProtocolLend(t, amount) \in TreasuryType
  <2>1. t.rewardReserve + amount \in Nat /\ t.rewardFunded + amount \in Nat
    BY <1>0
  <2> QED
    BY <2>1, Zenon DEF AbsorbProtocolLend, TreasuryType
<1>2. CanSpendReserve(t, amount) => ReleaseReward(t, amount) \in TreasuryType
  <2> SUFFICES ASSUME CanSpendReserve(t, amount)
               PROVE  ReleaseReward(t, amount) \in TreasuryType
    OBVIOUS
  <2>1. t.rewardReserve - amount \in Nat /\ t.lendClaimed + amount \in Nat
    BY <1>0 DEF CanSpendReserve
  <2> QED
    BY <2>1, Zenon DEF ReleaseReward, TreasuryType
<1>3. /\ SameVaults(AbsorbProtocolLend(t, amount), t)
      /\ AbsorbProtocolLend(t, amount).lendClaimed = t.lendClaimed
      /\ SameVaults(ReleaseReward(t, amount), t)
      /\ ReleaseReward(t, amount).lendClaimed = t.lendClaimed + amount
  BY Zenon DEF TreasuryType, SameVaults, AbsorbProtocolLend, ReleaseReward
<1>4. \A reserve \in Nat : Balanced(t, reserve)
        => Balanced(AbsorbProtocolLend(t, amount), reserve + amount)
  BY DEF Balanced, TreasuryType, AbsorbProtocolLend
<1>5. \A reserve \in Nat : Balanced(t, reserve)
        => Balanced(ReleaseReward(t, amount), reserve - amount)
  BY DEF Balanced, TreasuryType, ReleaseReward
<1> QED
  BY <1>1, <1>2, <1>3, <1>4, <1>5

ShareType == [treasury : Nat, staking : Nat, burn : Nat]

\* The three shares of an amount, whatever the rounding, add up to it.
LEMMA SplitFacts ==
  ASSUME NEW amount \in Nat
  PROVE  /\ SplitStandard(amount) \in ShareType /\ SplitLate(amount) \in ShareType
         /\ SplitStandard(amount).treasury + SplitStandard(amount).staking
              + SplitStandard(amount).burn = amount
         /\ SplitLate(amount).treasury + SplitLate(amount).staking
              + SplitLate(amount).burn = amount
<1> DEFINE t == (amount * 4000) \div 10000
           s == (amount * 3000) \div 10000
           b == (amount * 5000) \div 10000
           h == (amount - b) \div 2
<1>1. t \in Nat /\ s \in Nat /\ t + s <= amount
  OBVIOUS
<1>2. b \in Nat /\ b <= amount
  OBVIOUS
<1>3. SplitStandard(amount) = [treasury |-> t, staking |-> s, burn |-> amount - t - s]
  BY DEF SplitStandard, Shares, FeeSplit, BPS
<1>4. SplitLate(amount) = [treasury |-> h, staking |-> amount - b - h, burn |-> b]
  BY DEF SplitLate, Shares, LateFeeBurn, BPS
<1> HIDE DEF t, s, b
<1>5. h \in Nat /\ h <= amount - b
  BY <1>2
<1> HIDE DEF h
<1>6. amount - t - s \in Nat /\ amount - b - h \in Nat
  BY <1>1, <1>2, <1>5
<1>7. SplitStandard(amount) \in ShareType /\ SplitLate(amount) \in ShareType
  BY <1>1, <1>2, <1>3, <1>4, <1>5, <1>6 DEF ShareType
<1>8. /\ SplitStandard(amount).treasury = t /\ SplitStandard(amount).staking = s
      /\ SplitStandard(amount).burn = amount - t - s
      /\ SplitLate(amount).treasury = h /\ SplitLate(amount).staking = amount - b - h
      /\ SplitLate(amount).burn = b
  BY <1>3, <1>4
<1> QED
  BY <1>1, <1>2, <1>5, <1>7, <1>8

\* A discount of at most 100% leaves a natural amount.
LEMMA RateShare ==
  ASSUME NEW due \in Nat, NEW bps \in 0..BPS
  PROVE  ApplyDiscount(due, bps) \in Nat
<1>1. bps \in Nat /\ bps <= 10000
  BY DEF BPS
<1>2. due * bps <= due * 10000 /\ due * bps \in Nat
  BY <1>1
<1>3. \A n \in Nat : n <= due * 10000 => n \div 10000 \in Nat /\ n \div 10000 <= due
  OBVIOUS
<1>4. (due * bps) \div 10000 \in Nat /\ (due * bps) \div 10000 <= due
  BY <1>2, <1>3
<1> QED
  BY <1>4 DEF ApplyDiscount, BPS

LEMMA InLendType == ASSUME NEW due \in Nat PROVE InLend(due) \in Nat
<1>1. Policy.payInLendDiscountBps \in 0..BPS
  BY PolicyAssumption DEF PolicyType
<1> QED
  BY <1>1, RateShare, Zenon DEF InLend

LEMMA SharesFacts ==
  ASSUME NEW state \in FeeStateType
  PROVE  LET shares == SharesOf(state)
         IN /\ shares.treasury \in Nat /\ shares.staking \in Nat /\ shares.burn \in Nat
            /\ shares.treasury + shares.staking + shares.burn = DueInLend(state)
            /\ DueInLend(state) \in Nat
<1> DEFINE o == InLend(state.originationDue)
           l == InLend(state.lateDue)
           so == SplitStandard(o)
           sl == SplitLate(l)
<1>1. o \in Nat /\ l \in Nat
  BY InLendType DEF FeeStateType
<1>2. DueInLend(state) = o + l
  BY DEF DueInLend
<1>3. SharesOf(state) = [treasury |-> so.treasury + sl.treasury,
                         staking |-> so.staking + sl.staking,
                         burn |-> so.burn + sl.burn]
  BY DEF SharesOf, Shares
<1> HIDE DEF o, l
<1>4. /\ so \in ShareType /\ so.treasury + so.staking + so.burn = o
      /\ sl \in ShareType /\ sl.treasury + sl.staking + sl.burn = l
  BY <1>1, SplitFacts
<1> HIDE DEF so, sl
<1>5. /\ so.treasury \in Nat /\ so.staking \in Nat /\ so.burn \in Nat
      /\ sl.treasury \in Nat /\ sl.staking \in Nat /\ sl.burn \in Nat
  BY <1>4 DEF ShareType
<1>6. /\ SharesOf(state).treasury = so.treasury + sl.treasury
      /\ SharesOf(state).staking = so.staking + sl.staking
      /\ SharesOf(state).burn = so.burn + sl.burn
  BY <1>3
<1> QED
  BY <1>1, <1>2, <1>4, <1>5, <1>6

-----------------------------------------------------------------------------
(* What the credit life cycle leaves alone.                                 *)

LEMMA LedgerKeepsStakes ==
  ASSUME NEW l \in LendType, NEW u \in Users, NEW amount
  PROVE  /\ SameStakes(l, Debit(l, u, amount)) /\ SameStakes(l, Credit(l, u, amount))
         /\ SameStakes(l, BurnReserve(l, amount))
BY Zenon DEF LendType, SameStakes, Debit, Credit, BurnReserve

SameClaims(t, n) == n.lendClaimed = t.lendClaimed

LEMMA TreasuryKeepsClaims ==
  ASSUME NEW t \in TreasuryType, NEW a
  PROVE  /\ SameClaims(t, DepositLiquidityTo(t, a)) /\ SameClaims(t, Disburse(t, a))
         /\ SameClaims(t, RecordRepayment(t, a)) /\ SameClaims(t, LockCollateral(t, a))
         /\ SameClaims(t, ReleaseCollateral(t, a)) /\ SameClaims(t, LiquidateCollateral(t, a))
         /\ SameClaims(t, WithdrawFromSeized(t, a)) /\ SameClaims(t, BurnProtocolLend(t, a))
BY Zenon DEF TreasuryType, SameClaims, DepositLiquidityTo, Disburse, RecordRepayment,
             LockCollateral, ReleaseCollateral, LiquidateCollateral, WithdrawFromSeized,
             BurnProtocolLend

\* No step of LoanBook stakes, unstakes or claims LEND.
StakesAside == SameStakes(lend, lend') /\ SameClaims(treasury, treasury')

LEMMA RepaymentAside ==
  ASSUME TypeOK, NEW i \in DOMAIN loans, RepayInstallment(i)
  PROVE  StakesAside
<1> DEFINE loan == loans[i]
           final == loan.paid + 1 = loan.total
           refund == Freed(loan, final)
           burn == IF final THEN Burnable(lend, BurnForFullRepayment(loan.amount)) ELSE 0
           t1 == RecordRepayment(treasury, loan.installment)
           t2 == ReleaseCollateral(t1, refund)
           l1 == Credit(lend, loan.borrower, refund)
<1>1. /\ treasury' = BurnProtocolLend(t2, burn) /\ lend' = BurnReserve(l1, burn)
      /\ CanUnlock(treasury, refund)
  BY DEF RepayInstallment
<1>2. /\ loan \in LoanType /\ loan.borrower \in Users /\ loan.installment \in Nat
      /\ lend \in LendType /\ treasury \in TreasuryType
  BY Entries DEF TypeOK, LoanType
<1>3. refund \in Nat
  <2>1. final \in BOOLEAN
    OBVIOUS
  <2> QED
    BY <1>2, <2>1, FreedType
<1> HIDE DEF refund, burn
<1>4. t1 \in TreasuryType /\ SameClaims(treasury, t1) /\ SameVaults(t1, treasury)
  BY <1>2, TreasuryStep, TreasuryKeepsClaims, SameVaultsFacts
<1>5. l1 \in LendType /\ SameStakes(lend, l1)
  BY <1>2, <1>3, LendStep, LedgerKeepsStakes
<1> HIDE DEF t1, l1
<1>6. t2 \in TreasuryType /\ SameClaims(t1, t2)
  <2>1. CanUnlock(t1, refund)
    BY <1>1, <1>4 DEF CanUnlock, SameVaults
  <2> QED
    BY <1>3, <1>4, <2>1, TreasuryStep, TreasuryKeepsClaims
<1> HIDE DEF t2
<1>7. SameClaims(t2, treasury') /\ SameStakes(l1, lend')
  BY <1>1, <1>2, <1>5, <1>6, TreasuryKeepsClaims, LedgerKeepsStakes
<1> QED
  BY <1>4, <1>5, <1>6, <1>7 DEF StakesAside, SameClaims, SameStakes

LEMMA LoanStepsAside ==
  ASSUME TypeOK, [Next]_vars
  PROVE  StakesAside
<1>0. lend \in LendType /\ treasury \in TreasuryType
  BY DEF TypeOK
<1>1. UNCHANGED money => StakesAside
  BY DEF money, StakesAside, SameStakes, SameClaims
<1>2. ASSUME NEW u \in Users, Borrow(u)
      PROVE  StakesAside
  <2>1. PICK amount \in Amounts, tenor \in Tenors :
          \/ RequestLoan(u, amount, tenor)
          \/ \E p \in DOMAIN Profiles : RequestProfiledLoan(u, p, amount, tenor)
          \/ \E p \in DOMAIN Profiles, collateral \in Collaterals :
               RequestCollateralizedLoan(u, p, amount, collateral, tenor)
    BY <1>2 DEF Borrow
  <2>2. ASSUME NEW p, NEW collateral,
               RequestCollateralizedLoan(u, p, amount, collateral, tenor)
        PROVE  StakesAside
    BY <1>0, <2>2, LedgerKeepsStakes, TreasuryKeepsClaims
    DEF RequestCollateralizedLoan, StakesAside
  <2> QED
    BY <1>1, <2>1, <2>2 DEF RequestLoan, RequestProfiledLoan
<1>3. ASSUME NEW i \in DOMAIN requests, NEW outcome, CloseRequest(i, outcome)
      PROVE  StakesAside
  <2>1. requests[i].borrower \in Users
    BY Entries DEF RequestType
  <2> QED
    BY <1>0, <1>3, <2>1, LedgerKeepsStakes, TreasuryKeepsClaims
    DEF CloseRequest, StakesAside
<1>4. ASSUME NEW i \in DOMAIN requests, NEW apr, NEW installment, NEW grace,
             ApproveRequest(i, apr, installment, grace)
      PROVE  StakesAside
  BY <1>0, <1>4, TreasuryKeepsClaims DEF ApproveRequest, StakesAside, SameStakes
<1>5. ASSUME NEW i \in DOMAIN loans, MarkDefault(i)
      PROVE  StakesAside
  BY <1>0, <1>5, TreasuryKeepsClaims DEF MarkDefault, StakesAside, SameStakes
<1>6. ASSUME NEW amount, DepositLiquidity(amount)
      PROVE  StakesAside
  BY <1>0, <1>6, TreasuryKeepsClaims DEF DepositLiquidity, StakesAside, SameStakes
<1>7. ASSUME NEW u \in Users, NEW amount, WithdrawSeizedCollateral(u, amount)
      PROVE  StakesAside
  BY <1>0, <1>7, LedgerKeepsStakes, TreasuryKeepsClaims
  DEF WithdrawSeizedCollateral, StakesAside
<1>8. CASE \/ \E value \in BOOLEAN : SetPause(value)
           \/ \E u \in Users : Refer(u)
           \/ Tick \/ UNCHANGED vars
  BY <1>1, <1>8 DEF SetPause, Refer, GenerateCode, ApplyCode, RewardReferrer, Tick,
                    vars, money
<1> QED
  BY <1>2, <1>3, <1>4, <1>5, <1>6, <1>7, <1>8, RepaymentAside
  DEF Next, Decide, RejectRequest, CancelRequest, Service, Administer

-----------------------------------------------------------------------------
(* Reward accounts: what they earn, what a default takes, what is spent.     *)

\* Two grants never round to more LEND than one grant of both.
LEMMA LendOfSum ==
  ASSUME NEW p \in Nat, NEW q \in Nat
  PROVE  /\ PointsToLend(p) + PointsToLend(q) <= PointsToLend(p + q)
         /\ PointsToLend(p) \in Nat /\ PointsToLend(q) \in Nat /\ PointsToLend(p + q) \in Nat
<1>1. PICK rate \in Nat : rate = Policy.lendPerPointBps
  BY PolicyFacts
<1>2. PICK a \in Nat, b \in Nat : a = p * rate /\ b = q * rate
  OBVIOUS
<1>3. (p + q) * rate = a + b
  BY <1>2
<1>4. \A x, y \in Nat : (x \div 10000) + (y \div 10000) <= (x + y) \div 10000
  OBVIOUS
<1>5. (a \div 10000) + (b \div 10000) <= (a + b) \div 10000
  BY <1>4
<1>6. /\ PointsToLend(p) = a \div 10000 /\ PointsToLend(q) = b \div 10000
      /\ PointsToLend(p + q) = (a + b) \div 10000
  BY <1>1, <1>2, <1>3 DEF PointsToLend, BPS
<1> QED
  BY <1>5, <1>6, PointsToLendType

\* From e to f points were granted, and no more LEND than they are worth.
Earns(e, f) ==
  /\ f.spent = e.spent /\ f.claimed = e.claimed
  /\ f.points - e.points = f.lifetime - e.lifetime
  /\ f.claimable - e.claimable <= PointsToLend(f.lifetime) - PointsToLend(e.lifetime)

\* A default takes points and nothing else that counts here.
Fined(e, f) ==
  /\ f.spent = e.spent /\ f.claimed = e.claimed /\ f.lifetime = e.lifetime
  /\ f.claimable = e.claimable /\ f.points <= e.points

LEMMA AccountParts ==
  ASSUME NEW e \in RewardAccountType
  PROVE  /\ e.points \in Nat /\ e.spent \in Nat /\ e.lifetime \in Nat
         /\ e.claimable \in Nat /\ e.claimed \in Nat
         /\ PointsToLend(e.lifetime) \in Nat /\ PointsToLend(e.spent) \in Nat
<1>1. /\ e.points \in Nat /\ e.spent \in Nat /\ e.lifetime \in Nat
      /\ e.claimable \in Nat /\ e.claimed \in Nat
  BY DEF RewardAccountType
<1> QED
  BY <1>1, PointsToLendType

LEMMA EarnsNothing ==
  ASSUME NEW e \in RewardAccountType
  PROVE  Earns(e, e)
BY AccountParts DEF Earns

LEMMA EarnsMore ==
  ASSUME NEW e \in RewardAccountType, NEW f \in RewardAccountType,
         NEW g \in RewardAccountType, Earns(e, f), Earns(f, g)
  PROVE  Earns(e, g)
<1>1. /\ e.points \in Nat /\ e.lifetime \in Nat /\ e.claimable \in Nat
      /\ PointsToLend(e.lifetime) \in Nat
  BY AccountParts
<1>2. /\ f.points \in Nat /\ f.lifetime \in Nat /\ f.claimable \in Nat
      /\ PointsToLend(f.lifetime) \in Nat
  BY AccountParts
<1>3. /\ g.points \in Nat /\ g.lifetime \in Nat /\ g.claimable \in Nat
      /\ PointsToLend(g.lifetime) \in Nat
  BY AccountParts
<1> QED
  BY <1>1, <1>2, <1>3 DEF Earns

LEMMA EarnsGranted ==
  ASSUME NEW e \in RewardAccountType, NEW points \in Nat, NEW streak
  PROVE  Earns(e, Granted(e, points, streak))
<1> DEFINE f == Granted(e, points, streak)
           c == PointsToLend(points)
<1>1. /\ e.points \in Nat /\ e.lifetime \in Nat /\ e.claimable \in Nat
      /\ e.spent \in Nat /\ e.claimed \in Nat
  BY AccountParts
<1>2. /\ f.spent = e.spent /\ f.claimed = e.claimed /\ f.points = e.points + points
      /\ f.lifetime = e.lifetime + points /\ f.claimable = e.claimable + c
  BY Zenon DEF Granted, RewardAccountType
<1>3. /\ c \in Nat /\ PointsToLend(e.lifetime) \in Nat
      /\ PointsToLend(e.lifetime + points) \in Nat
      /\ PointsToLend(e.lifetime) + c <= PointsToLend(e.lifetime + points)
  BY <1>1, LendOfSum
<1> HIDE DEF f, c
<1>4. f.claimable - e.claimable <= PointsToLend(f.lifetime) - PointsToLend(e.lifetime)
  BY <1>1, <1>2, <1>3
<1> QED
  BY <1>1, <1>2, <1>4 DEF Earns, f

\* A grant to anybody, a user or not, lets every user earn.
LEMMA EarnsFromGrant ==
  ASSUME NEW rw \in RewardsType, NEW u, NEW points \in Nat, NEW streak, NEW v \in Users
  PROVE  Earns(rw[v], GrantPoints(rw, u, points, streak)[v])
<1>1. rw[v] \in RewardAccountType /\ DOMAIN rw = Users
  BY DEF RewardsType
<1>2. CASE v = u
  <2>1. GrantPoints(rw, u, points, streak)[v] = Granted(rw[v], points, streak)
    BY <1>1, <1>2 DEF GrantPoints
  <2> QED
    BY <1>1, <2>1, EarnsGranted
<1>3. CASE v # u
  <2>1. GrantPoints(rw, u, points, streak)[v] = rw[v]
    BY <1>1, <1>3 DEF GrantPoints
  <2> QED
    BY <1>1, <2>1, EarnsNothing
<1> QED
  BY <1>2, <1>3

LEMMA HooksEarn ==
  ASSUME NEW rw \in RewardsType, NEW u, NEW onTime \in BOOLEAN, NEW v \in Users
  PROVE  /\ Earns(rw[v], RewardRequest(rw, u)[v])
         /\ Earns(rw[v], RewardApproval(rw, u)[v])
         /\ Earns(rw[v], RewardFullRepayment(rw, u)[v])
         /\ Earns(rw[v], RewardPayment(rw, u, onTime)[v])
<1>1. /\ Policy.requestPoints \in Nat /\ Policy.approvalPoints \in Nat
      /\ Policy.onTimePoints \in Nat /\ Policy.latePoints \in Nat
      /\ Policy.fullRepaymentPoints \in Nat
  BY PolicyFacts
<1>2. \A points \in Nat : \A streak : Earns(rw[v], GrantPoints(rw, u, points, streak)[v])
  BY EarnsFromGrant
<1>3. Earns(rw[v], RewardRequest(rw, u)[v])
  BY <1>1, <1>2 DEF RewardRequest
<1>4. Earns(rw[v], RewardApproval(rw, u)[v])
  BY <1>1, <1>2 DEF RewardApproval
<1>5. Earns(rw[v], RewardFullRepayment(rw, u)[v])
  BY <1>1, <1>2 DEF RewardFullRepayment
<1>6. Earns(rw[v], RewardPayment(rw, u, onTime)[v])
  BY <1>1, <1>2 DEF RewardPayment
<1> QED
  BY <1>3, <1>4, <1>5, <1>6

LEMMA ReferralEarns ==
  ASSUME NEW rw \in RewardsType, NEW u \in Users, NEW firstLoan \in BOOLEAN, NEW v \in Users
  PROVE  Earns(rw[v], RewardedWithReferral(rw, u, firstLoan)[v])
<1>1. ReferrerPoints(firstLoan) \in Nat /\ rw[v] \in RewardAccountType
  BY DEF ReferrerPoints, FirstLoanPoints, InstallmentPoints, RewardsType
<1>2. \A r, streak : Earns(rw[v], GrantPoints(rw, r, ReferrerPoints(firstLoan), streak)[v])
  BY <1>1, EarnsFromGrant
<1> QED
  BY <1>1, <1>2, EarnsNothing DEF RewardedWithReferral, RewardReferral

LEMMA PenaltyFines ==
  ASSUME NEW rw \in RewardsType, NEW u \in Users, NEW v \in Users
  PROVE  IF v = u THEN Fined(rw[v], PenalizeDefault(rw, u)[v])
                  ELSE PenalizeDefault(rw, u)[v] = rw[v]
<1>1. rw[v] \in RewardAccountType /\ DOMAIN rw = Users
  BY DEF RewardsType
<1>2. Fined(rw[v], Penalized(rw[v]))
  <2> DEFINE e == rw[v]
             penalty == IF e.points > Policy.defaultPenalty
                        THEN Policy.defaultPenalty ELSE e.points
             f == [e EXCEPT !.points = @ - penalty, !.streak = 0]
  <2>1. penalty \in Nat /\ e.points \in Nat
    BY <1>1, AccountParts, PolicyFacts
  <2>2. Penalized(e) = f
    BY DEF Penalized
  <2> HIDE DEF penalty
  <2>3. /\ f.spent = e.spent /\ f.claimed = e.claimed /\ f.lifetime = e.lifetime
        /\ f.claimable = e.claimable /\ f.points = e.points - penalty
    BY <1>1, Zenon DEF RewardAccountType
  <2> HIDE DEF f
  <2>4. f.points <= e.points
    BY <2>1, <2>3
  <2> QED
    BY <2>2, <2>3, <2>4 DEF Fined
<1> QED
  BY <1>1, <1>2 DEF PenalizeDefault

\* What a step of LoanBook does to the account of v.
AccountStep(v) ==
  \/ /\ Earns(rewards[v], rewards'[v])
     /\ reputation'[v].defaulted = reputation[v].defaulted
  \/ /\ Fined(rewards[v], rewards'[v])
     /\ reputation'[v].defaulted > 0

LEMMA DefaultsKept ==
  ASSUME NEW rep \in ReputationType, NEW u \in Users, NEW v \in Users
  PROVE  /\ RecordRequest(rep, u)[v].defaulted = rep[v].defaulted
         /\ RecordApproval(rep, u)[v].defaulted = rep[v].defaulted
         /\ v # u => RecordDefault(rep, u)[v] = rep[v]
         /\ v = u => RecordDefault(rep, u)[v].defaulted > 0
<1>1. /\ RecordRequest(rep, u)[v].defaulted = rep[v].defaulted
      /\ RecordApproval(rep, u)[v].defaulted = rep[v].defaulted
      /\ v # u => RecordDefault(rep, u)[v] = rep[v]
  BY Zenon DEF ReputationType, HistoryType, RecordRequest, RecordApproval, RecordDefault
<1>2. ASSUME v = u
      PROVE  RecordDefault(rep, u)[v].defaulted > 0
  <2>1. RecordDefault(rep, u)[v].defaulted = rep[v].defaulted + 1
    BY <1>2, Zenon DEF ReputationType, HistoryType, RecordDefault
  <2>2. rep[v].defaulted \in Nat
    BY DEF ReputationType, HistoryType
  <2> QED
    BY <2>1, <2>2
<1> QED
  BY <1>1, <1>2

LEMMA PaymentEarns ==
  ASSUME TypeOK, NEW rw \in RewardsType, NEW u \in Users,
         NEW onTime \in BOOLEAN, NEW final \in BOOLEAN, NEW v \in Users
  PROVE  Earns(rw[v], PaymentRewarded(rw, u, onTime, final)[v])
<1> DEFINE paid == RewardPayment(rw, u, onTime)
           earned == IF onTime THEN RewardedWithReferral(paid, u, FALSE) ELSE paid
           all == IF final THEN RewardFullRepayment(earned, u) ELSE earned
<1>1. paid \in RewardsType /\ Earns(rw[v], paid[v])
  BY RewardsStep, HooksEarn
<1> HIDE DEF paid
<1>2. RewardedWithReferral(paid, u, FALSE) \in RewardsType
  BY <1>1, ReferralRewardType
<1>3. Earns(paid[v], RewardedWithReferral(paid, u, FALSE)[v])
  BY <1>1, ReferralEarns
<1>4. paid[v] \in RewardAccountType
  BY <1>1 DEF RewardsType
<1>5. earned \in RewardsType /\ Earns(paid[v], earned[v])
  BY <1>1, <1>2, <1>3, <1>4, EarnsNothing
<1> HIDE DEF earned
<1>6. earned[v] \in RewardAccountType
  BY <1>5 DEF RewardsType
<1>7. RewardFullRepayment(earned, u) \in RewardsType
  BY <1>5, RewardsStep
<1>8. Earns(earned[v], RewardFullRepayment(earned, u)[v])
  BY <1>5, HooksEarn
<1>9. all \in RewardsType /\ Earns(earned[v], all[v])
  BY <1>5, <1>6, <1>7, <1>8, EarnsNothing
<1>10. all = PaymentRewarded(rw, u, onTime, final)
  BY DEF PaymentRewarded, all, earned, paid
<1> HIDE DEF all
<1>11. all[v] \in RewardAccountType /\ rw[v] \in RewardAccountType
  BY <1>9 DEF RewardsType
<1>12. Earns(rw[v], earned[v])
  BY <1>1, <1>4, <1>5, <1>6, <1>11, EarnsMore
<1>13. Earns(rw[v], all[v])
  BY <1>6, <1>9, <1>11, <1>12, EarnsMore
<1> QED
  BY <1>10, <1>13

LEMMA AccountsStep ==
  ASSUME TypeOK, [Next]_vars, NEW v \in Users
  PROVE  AccountStep(v)
<1>0. /\ rewards \in RewardsType /\ reputation \in ReputationType
      /\ rewards[v] \in RewardAccountType
  BY DEF TypeOK, RewardsType
<1>1. rewards' = rewards /\ reputation' = reputation => AccountStep(v)
  BY <1>0, EarnsNothing DEF AccountStep
<1>2. ASSUME NEW u \in Users, Borrow(u)
      PROVE  AccountStep(v)
  <2>1. /\ rewards' = RewardRequest(rewards, u)
        /\ reputation' = RecordRequest(reputation, u)
    BY <1>2, OpenHistory
  <2>2. Earns(rewards[v], rewards'[v])
    BY <1>0, <2>1, HooksEarn
  <2>3. reputation'[v].defaulted = reputation[v].defaulted
    BY <1>0, <2>1, DefaultsKept
  <2> QED
    BY <2>2, <2>3 DEF AccountStep
<1>3. ASSUME NEW i \in DOMAIN requests, NEW apr, NEW installment, NEW grace,
             ApproveRequest(i, apr, installment, grace)
      PROVE  AccountStep(v)
  <2>0. PICK u \in Users : u = requests[i].borrower
    BY Entries DEF RequestType
  <2> DEFINE approved == RewardApproval(rewards, u)
  <2>1. /\ rewards' = RewardedWithReferral(approved, u, TRUE)
        /\ reputation' = RecordApproval(reputation, u)
    BY <1>3, <2>0 DEF ApproveRequest
  <2>2. approved \in RewardsType /\ Earns(rewards[v], approved[v])
    BY <1>0, RewardsStep, HooksEarn
  <2> HIDE DEF approved
  <2>3. Earns(approved[v], rewards'[v])
    BY <2>1, <2>2, ReferralEarns
  <2>4. rewards' \in RewardsType
    BY <2>1, <2>2, ReferralRewardType
  <2>5. approved[v] \in RewardAccountType /\ rewards'[v] \in RewardAccountType
    BY <2>2, <2>4 DEF RewardsType
  <2>6. Earns(rewards[v], rewards'[v])
    BY <1>0, <2>2, <2>3, <2>5, EarnsMore
  <2>7. reputation'[v].defaulted = reputation[v].defaulted
    BY <1>0, <2>1, DefaultsKept
  <2> QED
    BY <2>6, <2>7 DEF AccountStep
<1>4. ASSUME NEW i \in DOMAIN loans, RepayInstallment(i)
      PROVE  AccountStep(v)
  <2>u. PICK u \in Users : u = loans[i].borrower
    BY Entries DEF LoanType
  <2>o. PICK onTime \in BOOLEAN : onTime = (now <= loans[i].due + loans[i].grace)
    <3>1. now \in Int /\ loans[i].due + loans[i].grace \in Int
      BY SMTT(30), Entries DEF TypeOK, LoanType
    <3>2. (now <= loans[i].due + loans[i].grace) \in BOOLEAN
      BY <3>1
    <3> QED
      BY <3>2, Zenon
  <2>f. PICK final \in BOOLEAN : final = (loans[i].paid + 1 = loans[i].total)
    OBVIOUS
  <2>1. /\ rewards' = PaymentRewarded(rewards, u, onTime, final)
        /\ reputation' = PaymentRecorded(reputation, u, onTime, final)
    BY <1>4, <2>u, <2>o, <2>f DEF RepayInstallment, PaymentRecorded, PaymentRewarded
  <2>2. Earns(rewards[v], rewards'[v])
    BY <1>0, <2>1, PaymentEarns
  <2>3. reputation'[v].defaulted = reputation[v].defaulted
    <3>1. /\ \A w \in Users : w # u => reputation'[w] = reputation[w]
          /\ reputation'[u].defaulted = reputation[u].defaulted + 0
      BY <1>0, <2>1, PaymentFacts DEF Adds
    <3>2. reputation[u].defaulted \in Nat
      BY <1>0 DEF ReputationType, HistoryType
    <3> QED
      BY <3>1, <3>2
  <2> QED
    BY <2>2, <2>3 DEF AccountStep
<1>5. ASSUME NEW i \in DOMAIN loans, MarkDefault(i)
      PROVE  AccountStep(v)
  <2>u. PICK u \in Users : u = loans[i].borrower
    BY Entries DEF LoanType
  <2>1. /\ rewards' = PenalizeDefault(rewards, u)
        /\ reputation' = RecordDefault(reputation, u)
    BY <1>5, <2>u DEF MarkDefault
  <2>2. CASE v = u
    BY <1>0, <2>1, <2>2, PenaltyFines, DefaultsKept DEF AccountStep
  <2>3. CASE v # u
    BY <1>0, <2>1, <2>3, PenaltyFines, DefaultsKept, EarnsNothing DEF AccountStep
  <2> QED
    BY <2>2, <2>3
<1>6. ASSUME NEW u \in Users, NEW firstLoan \in BOOLEAN, RewardReferrer(u, firstLoan)
      PROVE  AccountStep(v)
  BY <1>0, <1>6, ReferralEarns DEF RewardReferrer, AccountStep
<1>7. CASE \/ \E u \in Users : GenerateCode(u) \/ \E r \in Users : ApplyCode(u, r)
           \/ \E i \in DOMAIN requests : RejectRequest(i) \/ CancelRequest(i)
           \/ Administer \/ Tick \/ UNCHANGED vars
  BY <1>1, <1>7
  DEF GenerateCode, ApplyCode, RejectRequest, CancelRequest, CloseRequest, Administer,
      DepositLiquidity, WithdrawSeizedCollateral, SetPause, Tick, vars, standing
<1> QED
  BY <1>2, <1>3, <1>4, <1>5, <1>6, <1>7 DEF Next, Decide, Service, Refer

\* Spending p points, for c units of claimable LEND.
Spends(e, f, p, c) ==
  /\ f \in RewardAccountType
  /\ f.points = e.points - p /\ f.spent = e.spent + p
  /\ f.lifetime = e.lifetime /\ f.claimed = e.claimed
  /\ f.claimable = e.claimable + c

LEMMA SpentFacts ==
  ASSUME NEW e \in RewardAccountType, NEW p \in Nat, CanSpend(e, p)
  PROVE  Spends(e, Spent(e, p), p, 0)
<1> DEFINE left == e.points - p
           out == e.spent + p
           f == [e EXCEPT !.points = left, !.spent = out]
<1>1. left \in Nat /\ out \in Nat /\ e.claimable \in Nat
  BY AccountParts DEF CanSpend
<1>2. Spent(e, p) = f
  BY DEF Spent
<1>3. left = e.points - p /\ out = e.spent + p
  OBVIOUS
<1> HIDE DEF left, out
<1>4. /\ f \in RewardAccountType /\ f.points = left /\ f.spent = out
      /\ f.lifetime = e.lifetime /\ f.claimed = e.claimed /\ f.claimable = e.claimable
  BY <1>1, Zenon DEF RewardAccountType
<1> HIDE DEF f
<1>5. f.claimable = e.claimable + 0
  BY <1>1, <1>4
<1> QED
  BY <1>2, <1>3, <1>4, <1>5 DEF Spends

LEMMA PerkFacts ==
  /\ Policy.limitBoostCost \in Nat /\ Policy.limitBoostBps \in Nat
  /\ Policy.interestCostPerPercent \in Nat
  /\ Policy.premiumCheckCost \in Nat /\ Policy.badgeCost \in Nat
<1>1. /\ Policy.limitBoostCost \in Nat /\ Policy.limitBoostBps \in 1..MaxLimitBoost
      /\ Policy.interestCostPerPercent \in Nat \ {0}
      /\ Policy.premiumCheckCost \in Nat /\ Policy.badgeCost \in Nat
  BY PolicyAssumption DEF PolicyType
<1>2. Policy.limitBoostBps \in Nat
  <2>1. \A rate \in 1..MaxLimitBoost : rate \in Nat
    OBVIOUS
  <2> QED
    BY <1>1, <2>1, Zenon
<1>3. Policy.interestCostPerPercent \in Nat
  BY <1>1, Zenon
<1> QED
  BY <1>1, <1>2, <1>3

\* A purchase raises one of the counters of perks, nothing else.
LEMMA PerkRecorded ==
  ASSUME NEW e, NEW g, NEW p, NEW c, Spends(e, g, p, c), NEW k, k \in Nat
  PROVE  /\ Spends(e, [g EXCEPT !.limitBoostBps = k], p, c)
         /\ Spends(e, [g EXCEPT !.interestDiscountBps = k], p, c)
         /\ Spends(e, [g EXCEPT !.premiumChecks = k], p, c)
         /\ Spends(e, [g EXCEPT !.badges = k], p, c)
BY Zenon DEF Spends, RewardAccountType

\* The ways of RewardStep that spend points.
Purchase(u) ==
  \/ \E points \in Redemptions : RedeemPoints(u, points)
  \/ SpendForLimitBoost(u)
  \/ \E percent \in Percents : SpendForInterestDiscount(u, percent)
  \/ UnlockPremiumCheck(u)
  \/ RedeemBadge(u)

Bought(u) ==
  /\ \E p \in Nat, f \in RewardAccountType :
       /\ rewards[u].points >= p /\ rewards' = [rewards EXCEPT ![u] = f]
       /\ Spends(rewards[u], f, p, 0) \/ Spends(rewards[u], f, p, PointsToLend(p))
  /\ UNCHANGED <<now, paused, book, money, reputation, referral, fees, economyVars>>

LEMMA PurchaseFacts ==
  ASSUME TypeOK, NEW u \in Users, Purchase(u)
  PROVE  Bought(u)
<1> DEFINE e == rewards[u]
<1>1. e \in RewardAccountType
  BY DEF TypeOK, RewardsType
<1>2. ASSUME NEW points \in Redemptions, RedeemPoints(u, points)
      PROVE  Bought(u)
  <2> DEFINE g == Spent(e, points)
             k == e.claimable + PointsToLend(points)
             f == [g EXCEPT !.claimable = k]
  <2>1. points \in Nat /\ CanSpend(e, points)
    BY <1>2, EconomyAssumption DEF RedeemPoints, SpendPoints, MayRedeem, MaySpend
  <2>2. Spends(e, g, points, 0)
    BY <1>1, <2>1, SpentFacts
  <2>3. k \in Nat /\ g \in RewardAccountType /\ g.claimable = e.claimable
    BY <1>1, <2>1, <2>2, PointsToLendType, AccountParts DEF Spends
  <2>4. Redeemed(e, points) = f
    BY <2>3 DEF Redeemed
  <2>5. k = e.claimable + PointsToLend(points)
    OBVIOUS
  <2> HIDE DEF g, k
  <2>6. /\ f \in RewardAccountType /\ f.points = g.points /\ f.spent = g.spent
        /\ f.lifetime = g.lifetime /\ f.claimed = g.claimed /\ f.claimable = k
    BY <2>3, Zenon DEF RewardAccountType
  <2> HIDE DEF f
  <2>7. Spends(e, f, points, PointsToLend(points))
    BY <2>2, <2>5, <2>6 DEF Spends
  <2>8. /\ rewards' = [rewards EXCEPT ![u] = f] /\ e.points >= points
        /\ UNCHANGED <<now, paused, book, money, reputation, referral, fees, economyVars>>
    BY <1>2, <2>1, <2>4 DEF RedeemPoints, SpendPoints, CanSpend, MaySpend
  <2> QED
    BY <2>1, <2>6, <2>7, <2>8 DEF Bought
<1>3. ASSUME NEW p \in Nat, NEW f, SpendPoints(u, p, f), Spends(e, f, p, 0)
      PROVE  Bought(u)
  BY <1>3 DEF SpendPoints, CanSpend, Bought, Spends, MaySpend
<1>4. ASSUME NEW p \in Nat, CanSpend(e, p)
      PROVE  /\ Spends(e, Spent(e, p), p, 0) /\ Spent(e, p) \in RewardAccountType
             /\ Spent(e, p).limitBoostBps \in Nat
             /\ Spent(e, p).interestDiscountBps \in Nat
             /\ Spent(e, p).premiumChecks \in Nat /\ Spent(e, p).badges \in Nat
  BY <1>1, <1>4, SpentFacts DEF Spends, RewardAccountType
<1>5. CASE SpendForLimitBoost(u)
  <2> DEFINE p == Policy.limitBoostCost
  <2>1. p \in Nat /\ CanSpend(e, p) /\ Policy.limitBoostBps \in Nat
    BY <1>5, PerkFacts DEF SpendForLimitBoost, SpendPoints, MaySpend
  <2>2. PICK k \in Nat : k = Spent(e, p).limitBoostBps + Policy.limitBoostBps
    BY <1>4, <2>1
  <2>3. Boosted(e) = [Spent(e, p) EXCEPT !.limitBoostBps = k]
    BY <2>2 DEF Boosted
  <2>4. Spends(e, Boosted(e), p, 0)
    <3>1. Spends(e, Spent(e, p), p, 0)
      BY <1>4, <2>1
    <3> HIDE DEF p, e
    <3> QED
      <4>1. Spends(e, [Spent(e, p) EXCEPT !.limitBoostBps = k], p, 0)
        BY <2>2, <3>1, PerkRecorded
      <4> QED
        BY <2>3, <4>1
  <2> QED
    BY <1>3, <1>5, <2>1, <2>4 DEF SpendForLimitBoost
<1>6. ASSUME NEW percent \in Percents, SpendForInterestDiscount(u, percent)
      PROVE  Bought(u)
  <2>0. percent \in Nat /\ Policy.interestCostPerPercent \in Nat
    BY EconomyAssumption, PerkFacts
  <2> DEFINE p == percent * Policy.interestCostPerPercent
  <2>1. p \in Nat /\ CanSpend(e, p)
    BY <1>6, <2>0 DEF SpendForInterestDiscount, SpendPoints, MayDiscount, MaySpend
  <2>2. SpendPoints(u, p, Discounted(e, percent))
    BY <1>6 DEF SpendForInterestDiscount
  <2>3. Discounted(e, percent) = [Spent(e, p) EXCEPT !.interestDiscountBps = @ + percent * 100]
    BY DEF Discounted
  <2> HIDE DEF p
  <2>4. PICK k \in Nat : k = Spent(e, p).interestDiscountBps + percent * 100
    BY <1>4, <2>0, <2>1
  <2>5. Discounted(e, percent) = [Spent(e, p) EXCEPT !.interestDiscountBps = k]
    BY <2>3, <2>4
  <2>6. Spends(e, Discounted(e, percent), p, 0)
    <3>1. Spends(e, Spent(e, p), p, 0)
      BY <1>4, <2>1
    <3> HIDE DEF e
    <3> QED
      <4>1. Spends(e, [Spent(e, p) EXCEPT !.interestDiscountBps = k], p, 0)
        BY <2>4, <3>1, PerkRecorded
      <4> QED
        BY <2>5, <4>1
  <2> QED
    BY <1>3, <2>1, <2>2, <2>6
<1>7. CASE UnlockPremiumCheck(u)
  <2> DEFINE p == Policy.premiumCheckCost
  <2>1. p \in Nat /\ CanSpend(e, p)
    BY <1>7, PerkFacts DEF UnlockPremiumCheck, SpendPoints, MaySpend
  <2>2. PICK k \in Nat : k = Spent(e, p).premiumChecks + 1
    BY <1>4, <2>1
  <2>3. PremiumUnlocked(e) = [Spent(e, p) EXCEPT !.premiumChecks = k]
    BY <2>2 DEF PremiumUnlocked
  <2>4. Spends(e, PremiumUnlocked(e), p, 0)
    <3>1. Spends(e, Spent(e, p), p, 0)
      BY <1>4, <2>1
    <3> HIDE DEF p, e
    <3> QED
      <4>1. Spends(e, [Spent(e, p) EXCEPT !.premiumChecks = k], p, 0)
        BY <2>2, <3>1, PerkRecorded
      <4> QED
        BY <2>3, <4>1
  <2> QED
    BY <1>3, <1>7, <2>1, <2>4 DEF UnlockPremiumCheck
<1>8. CASE RedeemBadge(u)
  <2> DEFINE p == Policy.badgeCost
  <2>1. p \in Nat /\ CanSpend(e, p)
    BY <1>8, PerkFacts DEF RedeemBadge, SpendPoints, MaySpend
  <2>2. PICK k \in Nat : k = Spent(e, p).badges + 1
    BY <1>4, <2>1
  <2>3. Badged(e) = [Spent(e, p) EXCEPT !.badges = k]
    BY <2>2 DEF Badged
  <2>4. Spends(e, Badged(e), p, 0)
    <3>1. Spends(e, Spent(e, p), p, 0)
      BY <1>4, <2>1
    <3> HIDE DEF p, e
    <3> QED
      <4>1. Spends(e, [Spent(e, p) EXCEPT !.badges = k], p, 0)
        BY <2>2, <3>1, PerkRecorded
      <4> QED
        BY <2>3, <4>1
  <2> QED
    BY <1>3, <1>8, <2>1, <2>4 DEF RedeemBadge
<1> QED
  BY <1>2, <1>5, <1>6, <1>7, <1>8 DEF Purchase

LEMMA ClaimedFacts ==
  ASSUME NEW e \in RewardAccountType
  PROVE  /\ Claimed(e) \in RewardAccountType
         /\ Claimed(e).claimed = e.claimed + e.claimable /\ Claimed(e).claimable = 0
         /\ Claimed(e).points = e.points /\ Claimed(e).spent = e.spent
         /\ Claimed(e).lifetime = e.lifetime
<1>1. PICK k \in Nat : k = e.claimed + e.claimable
  BY AccountParts
<1>2. Claimed(e) = [e EXCEPT !.claimed = k, !.claimable = 0]
  BY <1>1 DEF Claimed
<1>3. /\ [e EXCEPT !.claimed = k, !.claimable = 0] \in RewardAccountType
      /\ [e EXCEPT !.claimed = k, !.claimable = 0].claimed = k
      /\ [e EXCEPT !.claimed = k, !.claimable = 0].claimable = 0
      /\ [e EXCEPT !.claimed = k, !.claimable = 0].points = e.points
      /\ [e EXCEPT !.claimed = k, !.claimable = 0].spent = e.spent
      /\ [e EXCEPT !.claimed = k, !.claimable = 0].lifetime = e.lifetime
  BY Zenon DEF RewardAccountType
<1> QED
  BY <1>1, <1>2, <1>3

-----------------------------------------------------------------------------
(* The inductive invariant: types need the agreement of the three books (an   *)
(* unstake subtracts from each of them), and the index keeps growing because *)
(* no fee waits while somebody stakes.                                      *)

EconomySound == EconomyTypeOK /\ StakeBooksAgree /\ FeesReachStakers

LEMMA RegistryParts ==
  ASSUME NEW s \in RegistryType
  PROVE  /\ s.total \in Nat /\ s.index \in Nat /\ s.undistributed \in Nat /\ s.claimed \in Nat
         /\ \A u \in Users : /\ s.positions[u].staked \in Nat
                             /\ s.positions[u].pending \in Nat
                             /\ s.positions[u].claimed \in Nat
BY DEF RegistryType, PositionType

\* A step of the economy beside the life cycle keeps its types.
LEMMA TypesAside ==
  ASSUME EconomyTypeOK, UNCHANGED <<now, paused, book, reputation, referral>>,
         lend' \in LendType, treasury' \in TreasuryType, rewards' \in RewardsType,
         fees' \in FeesType, staking' \in RegistryType, feeTotals' \in FeeTotalsType
  PROVE  EconomyTypeOK'
BY DEF EconomyTypeOK, TypeOK, book

\* Steps that neither stake nor touch the registry.
LEMMA SoundAside ==
  ASSUME EconomySound, EconomyTypeOK', SameStakes(lend, lend'), staking' = staking
  PROVE  EconomySound' /\ EarningsGrow
<1>1. EarningsGrow
  BY RegistryParts DEF EconomySound, EconomyTypeOK, EarningsGrow
<1>2. StakeBooksAgree' /\ FeesReachStakers'
  BY DEF EconomySound, StakeBooksAgree, FeesReachStakers, SameStakes
<1> QED
  BY <1>1, <1>2 DEF EconomySound

LEMMA AdvancesEarn ==
  ASSUME Advances(staking, staking')
  PROVE  EarningsGrow /\ FeesReachStakers'
BY DEF Advances, EarningsGrow, FeesReachStakers

\* The registry advances without a change of anybody's stake.
LEMMA SoundAdvance ==
  ASSUME EconomySound, EconomyTypeOK', SameStakes(lend, lend'), Advances(staking, staking'),
         staking'.total = staking.total,
         \A u \in Users : staking'.positions[u].staked = staking.positions[u].staked
  PROVE  EconomySound' /\ EarningsGrow
<1>1. EarningsGrow /\ FeesReachStakers'
  BY AdvancesEarn
<1>2. StakeBooksAgree'
  BY DEF EconomySound, StakeBooksAgree, SameStakes
<1> QED
  BY <1>1, <1>2 DEF EconomySound

\* The three books move together.
LEMMA SoundMove ==
  ASSUME EconomySound, NEW u \in Users, NEW delta \in Int,
         staking.positions[u].staked + delta \in Nat,
         UNCHANGED <<now, paused, book, treasury, standing, fees, feeTotals>>,
         staking' = ChangeStake(staking, u, delta), StakeMoves(lend, lend', u, delta)
  PROVE  EconomySound' /\ EarningsGrow
<1>1. /\ staking \in RegistryType /\ lend \in LendType /\ lend' \in LendType
      /\ lend.staked \in [Users -> Nat] /\ lend.staked[u] \in Nat
      /\ staking.total \in Nat /\ lend.stakingVault \in Nat
  BY RegistryParts, LendParts DEF EconomySound, EconomyTypeOK, TypeOK, StakeMoves
<1>2. /\ staking.positions[u].staked = lend.staked[u]
      /\ staking.total = SumFunction(lend.staked) /\ staking.total = lend.stakingVault
  BY DEF EconomySound, StakeBooksAgree
<1>3. PICK w \in Nat : w = lend.staked[u] + delta
  BY <1>2
<1>4. /\ lend'.staked = [lend.staked EXCEPT ![u] = w]
      /\ lend'.stakingVault = lend.stakingVault + delta
  BY <1>3 DEF StakeMoves
<1>5. /\ SumFunction(lend'.staked) = SumFunction(lend.staked) - lend.staked[u] + w
      /\ SumFunction(lend'.staked) \in Nat
  BY <1>1, <1>3, <1>4, BalanceSum
<1>6. staking.total + delta = SumFunction(lend'.staked) /\ staking.total + delta \in Nat
  <2>1. PICK n \in Nat : n = SumFunction(lend'.staked)
    BY <1>5
  <2>2. n = staking.total - lend.staked[u] + w
    BY <1>2, <1>5, <2>1
  <2>3. n = staking.total + delta
    BY <1>1, <1>3, <2>2
  <2> QED
    BY <2>1, <2>3
<1>7. /\ Advances(staking, staking') /\ staking'.total = staking.total + delta
      /\ staking'.positions[u].staked = staking.positions[u].staked + delta
      /\ \A v \in Users : v # u => staking'.positions[v] = staking.positions[v]
  BY <1>1, <1>6, ChangeStakeFacts
<1>8. EarningsGrow /\ FeesReachStakers'
  BY <1>7, AdvancesEarn
<1>9. StakeBooksAgree'
  <2>1. ASSUME NEW v \in Users
        PROVE  staking'.positions[v].staked = lend'.staked[v]
    <3>1. CASE v = u
      BY <1>1, <1>2, <1>3, <1>4, <1>7, <3>1
    <3>2. CASE v # u
      <4>1. lend'.staked[v] = lend.staked[v]
        BY <1>1, <1>4, <3>2
      <4>2. staking.positions[v].staked = lend.staked[v]
        BY DEF EconomySound, StakeBooksAgree
      <4> QED
        BY <1>7, <3>2, <4>1, <4>2
    <3> QED
      BY <3>1, <3>2
  <2>2. staking'.total = SumFunction(lend'.staked) /\ staking'.total = lend'.stakingVault
    BY <1>2, <1>4, <1>6, <1>7
  <2> QED
    BY <2>1, <2>2 DEF StakeBooksAgree
<1>10. EconomyTypeOK'
  <2>1. staking' \in RegistryType
    BY <1>7 DEF Advances
  <2> QED
    BY <1>1, <2>1, TypesAside DEF EconomySound, EconomyTypeOK, TypeOK, standing
<1> QED
  BY <1>8, <1>9, <1>10 DEF EconomySound

-----------------------------------------------------------------------------
(* What every step beside the life cycle keeps.                             *)

AsideStep ==
  /\ EconomySound' /\ EarningsGrow
  /\ LedgerKept(lend, lend') /\ SameVaults(treasury', treasury)
  /\ VaultsMatchCounters => VaultsMatchCounters'
  /\ UNCHANGED book

LEMMA SoundParts ==
  ASSUME EconomySound
  PROVE  /\ TypeOK /\ lend \in LendType /\ treasury \in TreasuryType
         /\ rewards \in RewardsType /\ fees \in FeesType
         /\ staking \in RegistryType /\ feeTotals \in FeeTotalsType
         /\ lend.reserve \in Nat
BY DEF EconomySound, EconomyTypeOK, TypeOK, LendType

LEMMA ClearedFacts ==
  ASSUME NEW state \in FeeStateType
  PROVE  /\ Cleared(state) \in FeeStateType
         /\ Cleared(state).paid = state.paid + DueInLend(state)
<1> DEFINE paid == state.paid + DueInLend(state)
<1>1. paid \in Nat
  BY SharesFacts DEF FeeStateType
<1>2. Cleared(state) = [state EXCEPT !.paid = paid, !.originationDue = 0, !.lateDue = 0]
  BY DEF Cleared
<1> HIDE DEF paid
<1>3. 0 \in Nat
  OBVIOUS
<1>4. /\ [state EXCEPT !.paid = paid, !.originationDue = 0, !.lateDue = 0] \in FeeStateType
      /\ [state EXCEPT !.paid = paid, !.originationDue = 0, !.lateDue = 0].paid = paid
  BY <1>1, <1>3, Zenon DEF FeeStateType
<1> QED
  BY <1>2, <1>4 DEF paid

LEMMA PaymentAside ==
  ASSUME EconomySound, NEW i \in DOMAIN fees, PayOutstandingFees(i)
  PROVE  AsideStep
<1> DEFINE state == fees[i]
           u == state.borrower
           shares == SharesOf(state)
           credit == shares.treasury + shares.staking
<1>1. /\ lend \in LendType /\ treasury \in TreasuryType /\ fees \in FeesType
      /\ staking \in RegistryType /\ feeTotals \in FeeTotalsType /\ lend.reserve \in Nat
  BY SoundParts
<1>2. state \in FeeStateType /\ u \in Users
  <2>1. state \in FeeStateType
    BY <1>1 DEF FeesType
  <2> QED
    BY <2>1 DEF FeeStateType
<1>3. /\ shares.treasury \in Nat /\ shares.staking \in Nat /\ shares.burn \in Nat
      /\ DueInLend(state) \in Nat
  BY <1>2, SharesFacts
<1>4. /\ CanPay(lend, u, credit + shares.burn)
      /\ lend' = CollectFee(lend, u, credit, shares.burn)
      /\ treasury' = AbsorbProtocolLend(treasury, credit)
      /\ staking' = FundFromFee(staking, shares.staking)
      /\ fees' = [fees EXCEPT ![i] = Cleared(@)]
      /\ feeTotals' = [treasury |-> feeTotals.treasury + shares.treasury,
                       staking |-> feeTotals.staking + shares.staking,
                       burn |-> feeTotals.burn + shares.burn,
                       paid |-> feeTotals.paid + DueInLend(state)]
      /\ UNCHANGED <<now, paused, book, standing>>
  BY DEF PayOutstandingFees, MayPayFees
<1>5. credit \in Nat
  BY <1>3
<1> HIDE DEF state, u, shares, credit
<1>6. /\ lend' \in LendType /\ LedgerKept(lend, lend') /\ SameStakes(lend, lend')
      /\ lend'.reserve = lend.reserve + credit
  BY <1>1, <1>2, <1>3, <1>4, <1>5, CollectFeeFacts
<1>7. /\ treasury' \in TreasuryType /\ SameVaults(treasury', treasury)
      /\ Balanced(treasury, lend.reserve) => Balanced(treasury', lend.reserve + credit)
  BY <1>1, <1>4, <1>5, ReserveSteps
<1>8. /\ Advances(staking, staking') /\ staking'.total = staking.total
      /\ staking'.positions = staking.positions
  BY <1>1, <1>3, <1>4, FundFacts DEF EconomySound, FeesReachStakers
<1>9. fees' \in FeesType
  <2>1. Cleared(fees[i]) \in FeeStateType
    BY <1>2, ClearedFacts DEF state
  <2> QED
    BY <1>1, <1>4, <2>1 DEF FeesType
<1>10. feeTotals' \in FeeTotalsType
  BY <1>1, <1>3, <1>4 DEF FeeTotalsType
<1>11. EconomyTypeOK'
  <2>1. rewards' \in RewardsType /\ UNCHANGED <<now, paused, book, reputation, referral>>
    BY <1>4, SoundParts DEF standing
  <2>2. staking' \in RegistryType
    BY <1>8 DEF Advances
  <2>3. EconomyTypeOK
    BY DEF EconomySound
  <2> QED
    BY <1>6, <1>7, <1>9, <1>10, <2>1, <2>2, <2>3, TypesAside
<1>12. EconomySound' /\ EarningsGrow
  BY <1>6, <1>8, <1>11, SoundAdvance
<1>13. VaultsMatchCounters => VaultsMatchCounters'
  BY <1>6, <1>7 DEF VaultsMatchCounters
<1> QED
  BY <1>4, <1>6, <1>7, <1>12, <1>13 DEF AsideStep

LEMMA MoveAside ==
  ASSUME EconomySound, NEW u \in Users, NEW delta \in Int,
         staking.positions[u].staked + delta \in Nat,
         UNCHANGED <<now, paused, book, treasury, standing, fees, feeTotals>>,
         staking' = ChangeStake(staking, u, delta), StakeMoves(lend, lend', u, delta)
  PROVE  AsideStep
<1>1. EconomySound' /\ EarningsGrow
  BY SoundMove
<1>2. LedgerKept(lend, lend') /\ lend'.reserve = lend.reserve /\ treasury' = treasury
  BY DEF StakeMoves
<1> QED
  BY <1>1, <1>2 DEF AsideStep, SameVaults, VaultsMatchCounters

LEMMA StakeAside ==
  ASSUME EconomySound, NEW u \in Users, NEW amount \in Nat, Stake(u, amount)
  PROVE  AsideStep
<1>1. /\ CanPay(lend, u, amount) /\ staking' = ChangeStake(staking, u, amount)
      /\ lend' = MoveToStaked(lend, u, amount)
      /\ UNCHANGED <<now, paused, book, treasury, standing, fees, feeTotals>>
  BY DEF Stake, MayStake
<1>2. amount \in Int /\ staking.positions[u].staked + amount \in Nat
  BY RegistryParts, SoundParts
<1>3. StakeMoves(lend, lend', u, amount)
  BY <1>1, SoundParts, MoveToStakedFacts
<1> QED
  BY <1>1, <1>2, <1>3, MoveAside

LEMMA UnstakeAside ==
  ASSUME EconomySound, NEW u \in Users, NEW amount \in Nat, Unstake(u, amount)
  PROVE  AsideStep
<1>1. /\ staking.positions[u].staked >= amount /\ lend.staked[u] >= amount
      /\ staking' = ChangeStake(staking, u, -amount)
      /\ lend' = ReleaseFromStaked(lend, u, amount)
      /\ UNCHANGED <<now, paused, book, treasury, standing, fees, feeTotals>>
  BY DEF Unstake, MayUnstake
<1>2. /\ staking \in RegistryType /\ lend \in LendType
      /\ staking.positions[u].staked \in Nat
      /\ lend.staked \in [Users -> Nat] /\ lend.staked[u] \in Nat /\ lend.stakingVault \in Nat
  BY RegistryParts, SoundParts, LendParts
<1>3. -amount \in Int /\ staking.positions[u].staked + (-amount) \in Nat
  BY <1>1, <1>2
<1>4. lend.staked[u] <= SumFunction(lend.staked)
  BY <1>2, LoanBookAssumption, SumFunctionAtLeast
<1>5. SumFunction(lend.staked) = lend.stakingVault
  BY DEF EconomySound, StakeBooksAgree
<1>6. lend.stakingVault >= amount
  BY <1>1, <1>2, <1>4, <1>5
<1>7. StakeMoves(lend, lend', u, -amount)
  BY <1>1, <1>2, <1>6, ReleaseFromStakedFacts
<1> QED
  BY <1>1, <1>3, <1>7, MoveAside

LEMMA PayOutFacts ==
  ASSUME EconomySound, NEW u \in Users, NEW amount \in Nat, PayOut(u, amount)
  PROVE  /\ lend' \in LendType /\ LedgerKept(lend, lend') /\ SameStakes(lend, lend')
         /\ treasury' \in TreasuryType /\ SameVaults(treasury', treasury)
         /\ treasury'.lendClaimed = treasury.lendClaimed + amount
         /\ VaultsMatchCounters => VaultsMatchCounters'
<1>1. /\ CanDistribute(lend, amount) /\ CanSpendReserve(treasury, amount)
      /\ lend' = Distribute(lend, u, amount)
      /\ treasury' = ReleaseReward(treasury, amount)
  BY DEF PayOut, MayPayOut
<1>2. lend \in LendType /\ treasury \in TreasuryType /\ lend.reserve \in Nat
  BY SoundParts
<1>3. /\ lend' \in LendType /\ LedgerKept(lend, lend') /\ SameStakes(lend, lend')
      /\ lend'.reserve = lend.reserve - amount
  BY <1>1, <1>2, DistributeFacts
<1>4. /\ treasury' \in TreasuryType /\ SameVaults(treasury', treasury)
      /\ treasury'.lendClaimed = treasury.lendClaimed + amount
      /\ Balanced(treasury, lend.reserve) => Balanced(treasury', lend.reserve - amount)
  BY <1>1, <1>2, ReserveSteps
<1> QED
  BY <1>3, <1>4 DEF VaultsMatchCounters

LEMMA HarvestAside ==
  ASSUME EconomySound, NEW u \in Users, ClaimStakingRewards(u)
  PROVE  AsideStep
<1>1. /\ PayOut(u, Harvest(staking, u)) /\ staking' = Harvested(staking, u)
      /\ UNCHANGED <<now, paused, book, standing, fees, feeTotals>>
  BY DEF ClaimStakingRewards
<1>2. staking \in RegistryType
  BY SoundParts
<1>3. /\ Harvest(staking, u) \in Nat /\ Advances(staking, staking')
      /\ staking'.total = staking.total
      /\ \A v \in Users : staking'.positions[v].staked = staking.positions[v].staked
  BY <1>1, <1>2, HarvestedFacts
<1>4. /\ lend' \in LendType /\ LedgerKept(lend, lend') /\ SameStakes(lend, lend')
      /\ treasury' \in TreasuryType /\ SameVaults(treasury', treasury)
      /\ VaultsMatchCounters => VaultsMatchCounters'
  BY <1>1, <1>3, PayOutFacts
<1>5. EconomyTypeOK'
  <2>1. /\ rewards' \in RewardsType /\ fees' \in FeesType /\ feeTotals' \in FeeTotalsType
        /\ UNCHANGED <<now, paused, book, reputation, referral>>
    BY <1>1, SoundParts DEF standing
  <2>2. staking' \in RegistryType
    BY <1>3 DEF Advances
  <2>3. EconomyTypeOK
    BY DEF EconomySound
  <2> QED
    BY <1>4, <2>1, <2>2, <2>3, TypesAside
<1>6. EconomySound' /\ EarningsGrow
  BY <1>3, <1>4, <1>5, SoundAdvance
<1> QED
  BY <1>1, <1>4, <1>6 DEF AsideStep

\* The steps that leave the registry and the stakes alone.
LEMMA QuietAside ==
  ASSUME EconomySound, UNCHANGED <<now, paused, book, reputation, referral, fees, economyVars>>,
         lend' \in LendType, LedgerKept(lend, lend'), SameStakes(lend, lend'),
         treasury' \in TreasuryType, SameVaults(treasury', treasury),
         VaultsMatchCounters => VaultsMatchCounters', rewards' \in RewardsType
  PROVE  AsideStep
<1>1. staking' = staking /\ feeTotals' = feeTotals /\ book' = book
  BY DEF economyVars
<1>2. EconomyTypeOK'
  BY <1>1, SoundParts, TypesAside DEF EconomySound
<1>3. EconomySound' /\ EarningsGrow
  BY <1>1, <1>2, SoundAside
<1> QED
  BY <1>1, <1>3 DEF AsideStep

LEMMA ClaimAside ==
  ASSUME EconomySound, NEW u \in Users, ClaimLend(u)
  PROVE  AsideStep
<1>1. /\ PayOut(u, rewards[u].claimable) /\ rewards' = [rewards EXCEPT ![u] = Claimed(@)]
      /\ UNCHANGED <<now, paused, book, reputation, referral, fees, economyVars>>
  BY DEF ClaimLend
<1>2. rewards \in RewardsType /\ rewards[u] \in RewardAccountType
  BY SoundParts DEF RewardsType
<1>3. rewards[u].claimable \in Nat
  BY <1>2, AccountParts
<1>4. /\ lend' \in LendType /\ LedgerKept(lend, lend') /\ SameStakes(lend, lend')
      /\ treasury' \in TreasuryType /\ SameVaults(treasury', treasury)
      /\ VaultsMatchCounters => VaultsMatchCounters'
  BY <1>1, <1>3, PayOutFacts
<1>5. rewards' \in RewardsType
  BY <1>1, <1>2, ClaimedFacts DEF RewardsType
<1> QED
  BY <1>1, <1>4, <1>5, QuietAside

LEMMA SameBalances ==
  ASSUME EconomySound, UNCHANGED money
  PROVE  /\ lend' \in LendType /\ LedgerKept(lend, lend') /\ SameStakes(lend, lend')
         /\ treasury' \in TreasuryType /\ SameVaults(treasury', treasury)
         /\ VaultsMatchCounters => VaultsMatchCounters'
BY SoundParts DEF money, LedgerKept, SameStakes, SameVaults, VaultsMatchCounters

LEMMA PurchaseAside ==
  ASSUME EconomySound, NEW u \in Users, Purchase(u)
  PROVE  AsideStep
<1>1. TypeOK /\ rewards \in RewardsType
  BY SoundParts
<1>2. /\ \E f \in RewardAccountType : rewards' = [rewards EXCEPT ![u] = f]
      /\ UNCHANGED <<now, paused, book, money, reputation, referral, fees, economyVars>>
  BY <1>1, PurchaseFacts DEF Bought
<1>3. rewards' \in RewardsType
  BY <1>1, <1>2 DEF RewardsType
<1> QED
  BY <1>2, <1>3, SameBalances, QuietAside

LEMMA TransferAside ==
  ASSUME EconomySound, NEW u \in Users, NEW v \in Users, NEW amount \in Nat,
         Transfer(u, v, amount)
  PROVE  AsideStep
<1>1. /\ CanPay(lend, u, amount) /\ lend' = Credit(Debit(lend, u, amount), v, amount)
      /\ UNCHANGED <<now, paused, book, treasury, standing, fees, economyVars>>
  BY DEF Transfer
<1>2. /\ lend' \in LendType /\ LedgerKept(lend, lend') /\ SameStakes(lend, lend')
      /\ lend'.reserve = lend.reserve
  BY <1>1, SoundParts, TransferFacts
<1>3. /\ treasury' \in TreasuryType /\ SameVaults(treasury', treasury)
      /\ rewards' \in RewardsType /\ UNCHANGED <<reputation, referral>>
  BY <1>1, SoundParts DEF SameVaults, standing
<1>4. VaultsMatchCounters => VaultsMatchCounters'
  BY <1>1, <1>2 DEF VaultsMatchCounters
<1> QED
  BY <1>1, <1>2, <1>3, <1>4, QuietAside

\* LEND that reaches the reserve is absorbed by the treasury.
LEMMA AbsorbedAside ==
  ASSUME EconomySound, NEW amount \in Nat,
         lend' \in LendType, LedgerKept(lend, lend'), SameStakes(lend, lend'),
         lend'.reserve = lend.reserve + amount,
         treasury' = AbsorbProtocolLend(treasury, amount),
         UNCHANGED <<now, paused, book, standing, fees, economyVars>>
  PROVE  AsideStep
<1>1. treasury \in TreasuryType /\ lend.reserve \in Nat
  BY SoundParts
<1>2. /\ treasury' \in TreasuryType /\ SameVaults(treasury', treasury)
      /\ Balanced(treasury, lend.reserve) => Balanced(treasury', lend.reserve + amount)
  BY <1>1, ReserveSteps
<1>3. VaultsMatchCounters => VaultsMatchCounters'
  BY <1>2 DEF VaultsMatchCounters
<1>4. rewards' \in RewardsType /\ UNCHANGED <<reputation, referral>>
  BY SoundParts DEF standing
<1> QED
  BY <1>2, <1>3, <1>4, QuietAside

LEMMA DepositAside ==
  ASSUME EconomySound, NEW u \in Users, NEW amount \in Nat,
         DepositToProtocolReserve(u, amount)
  PROVE  AsideStep
<1>1. /\ CanPay(lend, u, amount) /\ lend' = DepositFrom(lend, u, amount)
      /\ treasury' = AbsorbProtocolLend(treasury, amount)
      /\ UNCHANGED <<now, paused, book, standing, fees, economyVars>>
  BY DEF DepositToProtocolReserve
<1> QED
  BY <1>1, SoundParts, DepositFacts, AbsorbedAside

LEMMA MintAside ==
  ASSUME EconomySound, NEW amount \in Nat, MintToProtocolReserve(amount)
  PROVE  AsideStep
<1>1. /\ lend' = MintToReserve(lend, amount)
      /\ treasury' = AbsorbProtocolLend(treasury, amount)
      /\ UNCHANGED <<now, paused, book, standing, fees, economyVars>>
  BY DEF MintToProtocolReserve
<1> QED
  BY <1>1, SoundParts, MintFacts, AbsorbedAside

\* A step of the economy is a step of the life cycle, or leaves the book alone.
LEMMA EconomySteps ==
  ASSUME EconomySound, [EconomyNext]_allVars
  PROVE  ([Next]_vars /\ UNCHANGED economyVars) \/ AsideStep
<1>1. CASE UNCHANGED allVars \/ (Next /\ UNCHANGED economyVars)
  BY <1>1 DEF allVars
<1>2. ASSUME NEW u \in Users, StakeStep(u) \/ RewardStep(u) \/ TokenStep(u)
      PROVE  AsideStep
  <2>1. Stakes \subseteq Nat /\ Transfers \subseteq Nat
    BY EconomyAssumption
  <2>2. CASE StakeStep(u)
    BY <2>1, <2>2, StakeAside, UnstakeAside, HarvestAside DEF StakeStep
  <2>3. CASE RewardStep(u)
    BY <2>3, ClaimAside, PurchaseAside DEF RewardStep, Purchase
  <2>4. CASE TokenStep(u)
    BY <2>1, <2>4, TransferAside, DepositAside DEF TokenStep
  <2> QED
    BY <1>2, <2>2, <2>3, <2>4
<1>3. ASSUME NEW amount \in Mints, MintToProtocolReserve(amount)
      PROVE  AsideStep
  BY <1>3, EconomyAssumption, MintAside
<1> QED
  BY <1>1, <1>2, <1>3, PaymentAside DEF EconomyNext

-----------------------------------------------------------------------------
(* The stakes.                                                              *)

LEMMA SoundInit == EconomyInit => EconomySound
<1> SUFFICES ASSUME EconomyInit PROVE EconomySound
  OBVIOUS
<1>1. Init /\ staking = NoStakes
      /\ feeTotals = [treasury |-> 0, staking |-> 0, burn |-> 0, paid |-> 0]
  BY DEF EconomyInit
<1>2. TypeOK
  BY <1>1, TypeInit
<1>3. staking \in RegistryType
  BY <1>1 DEF NoStakes, RegistryType, PositionType
<1>4. feeTotals \in FeeTotalsType
  BY <1>1 DEF FeeTotalsType
<1>5. lend.staked = [u \in Users |-> 0] /\ lend.stakingVault = 0
  BY <1>1 DEF Init
<1>6. SumFunction(lend.staked) = 0
  <2>1. lend.staked \in [Users -> Nat] /\ \A u \in Users : lend.staked[u] = 0
    BY <1>5
  <2> QED
    BY <2>1, LoanBookAssumption, SumFunctionZero
<1>7. /\ staking.total = 0
      /\ \A u \in Users : staking.positions[u].staked = 0
  BY <1>1 DEF NoStakes
<1>8. StakeBooksAgree
  BY <1>5, <1>6, <1>7 DEF StakeBooksAgree
<1> QED
  BY <1>2, <1>3, <1>4, <1>7, <1>8 DEF EconomySound, EconomyTypeOK, FeesReachStakers

LEMMA SoundNext ==
  ASSUME EconomySound, [EconomyNext]_allVars
  PROVE  EconomySound' /\ EarningsGrow
<1>1. CASE AsideStep
  BY <1>1 DEF AsideStep
<1>2. CASE [Next]_vars /\ UNCHANGED economyVars
  <2>1. TypeOK /\ TypeOK' /\ SameStakes(lend, lend')
    BY <1>2, SoundParts, TypeNext, LoanStepsAside DEF StakesAside
  <2>2. EconomyTypeOK' /\ staking' = staking
    BY <1>2, <2>1, SoundParts DEF EconomyTypeOK, economyVars
  <2> QED
    BY <2>1, <2>2, SoundAside
<1> QED
  BY <1>1, <1>2, EconomySteps

\* The inductive invariant behind the stakes.
LEMMA SoundAlways == EconomySpec => []EconomySound
BY SoundInit, SoundNext, PTL DEF EconomySpec

\* Every variable of the economy keeps its type: no balance, vault, stake or fee
\* ever goes below zero, whatever the users do.
THEOREM EconomyTypeCorrect == EconomySpec => []EconomyTypeOK
BY SoundAlways, PTL DEF EconomySound

\* The registry, the ledger and the vault always agree on what is staked.
THEOREM StakeBooksAgreeAlways == EconomySpec => []StakeBooksAgree
BY SoundAlways, PTL DEF EconomySound

\* As soon as somebody is staked, no fee is left waiting outside the index.
THEOREM FeesReachStakersAlways == EconomySpec => []FeesReachStakers
BY SoundAlways, PTL DEF EconomySound

\* What a staker has earned, claimed or not, is never taken back.
THEOREM EarningsKeptHolds == EconomySpec => EarningsKept
<1>1. EconomySound /\ [EconomyNext]_allVars => [EarningsGrow]_allVars
  BY SoundNext
<1> QED
  BY <1>1, SoundAlways, PTL DEF EconomySpec, EarningsKept

-----------------------------------------------------------------------------
(* The money of the life cycle, with the economy at work around it.  Known   *)
(* is what LoanBookMoney_proofs uses of a state.                            *)

LEMMA EconomyKnown == EconomySpec => [](EconomySound /\ Known)
<1>1. EconomyInit => OneOpenCredit
  BY DEF EconomyInit, Init, OneOpenCredit, HasPending, HasActive
<1>2. EconomySound /\ OneOpenCredit /\ [EconomyNext]_allVars => OneOpenCredit'
  <2> SUFFICES ASSUME EconomySound, OneOpenCredit, [EconomyNext]_allVars
               PROVE  OneOpenCredit'
    OBVIOUS
  <2>1. TypeOK
    BY SoundParts
  <2>2. CASE AsideStep
    BY <2>2 DEF AsideStep, book, OneOpenCredit, HasPending, HasActive, PendingOf, ActiveOf
  <2>3. CASE [Next]_vars
    BY <2>1, <2>3, BookSteps, OneOpenStep
  <2> QED
    BY <2>2, <2>3, EconomySteps
<1>3. EconomySound /\ OneOpenCredit => Known
  BY SoundParts, LineFactsHold DEF Known
<1> QED
  BY <1>1, <1>2, <1>3, SoundAlways, PTL DEF EconomySpec

\* No vault and no counter of the treasury drifts, also when fees, claims, mints
\* and deposits move LEND through the one reserve.
THEOREM EconomyVaultsMatch == EconomySpec => []VaultsMatchCounters
<1>1. EconomyInit => VaultsMatchCounters
  BY LoanBookAssumption DEF EconomyInit, Init, FundedTreasury, VaultsMatchCounters, Balanced
<1>2. EconomySound /\ VaultsMatchCounters /\ [EconomyNext]_allVars => VaultsMatchCounters'
  BY SoundParts, EconomySteps, BalancedNext DEF AsideStep
<1> QED
  BY <1>1, <1>2, SoundAlways, PTL DEF EconomySpec

\* The pool of LEND when a step of the life cycle or one beside it is taken.
LEMMA LendStays ==
  ASSUME Known, Known', LendConserved, [Next]_vars \/ AsideStep
  PROVE  LendConserved'
<1>1. CASE AsideStep
  <2>1. /\ lend \in LendType /\ lend' \in LendType
        /\ treasury \in TreasuryType /\ treasury' \in TreasuryType
    BY DEF Known, TypeOK
  <2>2. /\ lend.minted \in Nat /\ lend.burned \in Nat /\ lend.reserve \in Nat
        /\ lend.stakingVault \in Nat /\ SumFunction(lend.wallet) \in Nat
        /\ treasury.collateralVault \in Nat /\ treasury.seizedVault \in Nat
    BY <2>1, BalanceParts
  <2>3. /\ lend'.minted \in Nat /\ lend'.burned \in Nat /\ lend'.reserve \in Nat
        /\ lend'.stakingVault \in Nat /\ SumFunction(lend'.wallet) \in Nat
        /\ treasury'.collateralVault \in Nat /\ treasury'.seizedVault \in Nat
    BY <2>1, BalanceParts
  <2>4. /\ LedgerKept(lend, lend')
        /\ treasury'.collateralVault = treasury.collateralVault
        /\ treasury'.seizedVault = treasury.seizedVault
    BY <1>1 DEF AsideStep, SameVaults
  <2>5. lend.minted - lend.burned
          = SumFunction(lend.wallet) + lend.stakingVault + lend.reserve
            + treasury.collateralVault + treasury.seizedVault
    BY DEF LendConserved
  <2>6. lend'.minted - lend'.burned
          = SumFunction(lend'.wallet) + lend'.stakingVault + lend'.reserve
            + treasury'.collateralVault + treasury'.seizedVault
    BY <2>2, <2>3, <2>4, <2>5 DEF LedgerKept
  <2> QED
    BY <2>6 DEF LendConserved
<1>2. CASE [Next]_vars
  BY <1>2, ConservedStep
<1> QED
  BY <1>1, <1>2

\* No LEND appears or vanishes, whatever is lent, staked, paid, claimed, minted
\* or sent from one user to another.
THEOREM EconomyLendConserved == EconomySpec => []LendConserved
<1>1. EconomyInit => LendConserved
  BY ConservedInit DEF EconomyInit
<1>2. ASSUME EconomySound, Known, Known', LendConserved, [EconomyNext]_allVars
      PROVE  LendConserved'
  BY <1>2, EconomySteps, LendStays
<1> QED
  BY <1>1, <1>2, EconomyKnown, PTL DEF EconomySpec

LEMMA CollateralStays ==
  ASSUME Known, Known', CollateralBacked, [Next]_vars \/ AsideStep
  PROVE  CollateralBacked'
<1>1. CASE AsideStep
  <2>1. Escrow' = Escrow /\ treasury'.collateralVault = treasury.collateralVault
    BY <1>1, UntouchedLines DEF AsideStep, SameVaults
  <2> QED
    BY <2>1 DEF CollateralBacked
<1>2. CASE [Next]_vars
  BY <1>2, CollateralStep
<1> QED
  BY <1>1, <1>2

\* The pool of collateral is never paid out for anything else, although the
\* LEND that stands behind it is also staked, paid as fees and sent around.
THEOREM EconomyCollateralBacked == EconomySpec => []CollateralBacked
<1>1. EconomyInit => CollateralBacked
  BY CollateralInit DEF EconomyInit
<1>2. ASSUME EconomySound, Known, Known', CollateralBacked, [EconomyNext]_allVars
      PROVE  CollateralBacked'
  BY <1>2, EconomySteps, CollateralStays
<1> QED
  BY <1>1, <1>2, EconomyKnown, PTL DEF EconomySpec

-----------------------------------------------------------------------------
(* Fees.                                                                    *)

PaidIn(fs) == SumFunction([i \in DOMAIN fs |-> fs[i].paid])

LEMMA PaidType ==
  ASSUME NEW fs \in FeesType
  PROVE  /\ DOMAIN fs = 1..Len(fs) /\ Len(fs) \in Nat /\ IsFiniteSet(DOMAIN fs)
         /\ \A i \in DOMAIN fs : fs[i] \in FeeStateType /\ fs[i].paid \in Nat
         /\ [i \in DOMAIN fs |-> fs[i].paid] \in [DOMAIN fs -> Nat]
<1>1. DOMAIN fs = 1..Len(fs) /\ Len(fs) \in Nat
  BY DEF FeesType
<1>2. IsFiniteSet(DOMAIN fs)
  BY <1>1, FS_Interval
<1>3. \A i \in DOMAIN fs : fs[i] \in FeeStateType
  BY DEF FeesType
<1>4. \A i \in DOMAIN fs : fs[i].paid \in Nat
  BY <1>3 DEF FeeStateType
<1> QED
  BY <1>1, <1>2, <1>3, <1>4

LEMMA SamePaid ==
  ASSUME NEW fs, NEW gs, DOMAIN gs = DOMAIN fs,
         \A i \in DOMAIN fs : gs[i].paid = fs[i].paid
  PROVE  PaidIn(gs) = PaidIn(fs)
<1>1. [i \in DOMAIN gs |-> gs[i].paid] = [i \in DOMAIN fs |-> fs[i].paid]
  OBVIOUS
<1> QED
  BY <1>1 DEF PaidIn

\* A new state has paid nothing yet.
LEMMA NewStatePaid ==
  ASSUME NEW fs \in FeesType, NEW loan, NEW u \in Users
  PROVE  StateFor(fs, loan, u) \in FeesType /\ PaidIn(StateFor(fs, loan, u)) = PaidIn(fs)
<1> DEFINE e == [borrower |-> u, originationDue |-> 0, lateDue |-> 0, paid |-> 0]
           os == Append(fs, e)
           b == Len(fs) + 1
           S == DOMAIN fs
           f == [i \in S |-> fs[i].paid]
           g == [i \in S \cup {b} |-> os[i].paid]
<1>1. e \in FeeStateType /\ e.paid = 0 /\ fs \in Seq(FeeStateType)
  BY DEF FeeStateType, FeesType
<1> HIDE DEF e
<1>2. /\ os \in Seq(FeeStateType) /\ DOMAIN os = 1..b /\ os[b] = e
      /\ \A i \in S : os[i] = fs[i]
  BY <1>1, SeqAppend
<1>3. S = 1..Len(fs) /\ Len(fs) \in Nat /\ IsFiniteSet(S) /\ f \in [S -> Nat]
  BY PaidType
<1> HIDE DEF os
<1>4. b \notin S /\ DOMAIN os = S \cup {b}
  BY <1>2, <1>3
<1>5. /\ g \in [S \cup {b} -> Nat] /\ \A i \in S : g[i] = f[i]
      /\ g[b] = 0
  BY <1>1, <1>2, <1>3
<1> HIDE DEF b, S
<1>6. SumFunction(g) = SumFunction(f) + 0 /\ SumFunction(f) \in Nat
  <2> DEFINE T == S \cup {b}
  <2>1. /\ IsFiniteSet(S) /\ b \notin S /\ T = S \cup {b}
        /\ f \in [S -> Nat] /\ g \in [T -> Nat]
        /\ \A i \in S : g[i] = f[i]
    BY <1>3, <1>4, <1>5
  <2> HIDE DEF f, g, T
  <2>2. SumFunction(g) = SumFunction(f) + g[b]
    BY <2>1, SumFunctionExtends
  <2>3. SumFunction(f) \in Nat
    BY <2>1, SumFunctionType
  <2> QED
    BY <1>5, <2>2, <2>3
<1>7. PaidIn(os) = PaidIn(fs)
  BY <1>4, <1>6 DEF PaidIn, S
<1> QED
  BY <1>2, <1>7 DEF StateFor, os, e, FeesType

LEMMA OwingPaid ==
  ASSUME NEW fs \in FeesType, NEW loan, NEW fee
  PROVE  /\ PaidIn([fs EXCEPT ![loan] = OwingOrigination(@, fee)]) = PaidIn(fs)
         /\ PaidIn([fs EXCEPT ![loan] = OwingLate(@, fee)]) = PaidIn(fs)
<1> DEFINE gs == [fs EXCEPT ![loan] = OwingOrigination(@, fee)]
           hs == [fs EXCEPT ![loan] = OwingLate(@, fee)]
<1>1. \A state \in FeeStateType : /\ OwingOrigination(state, fee).paid = state.paid
                                  /\ OwingLate(state, fee).paid = state.paid
  BY Zenon DEF FeeStateType, OwingOrigination, OwingLate
<1>2. \A i \in DOMAIN fs : fs[i] \in FeeStateType
  BY PaidType
<1>3. DOMAIN gs = DOMAIN fs /\ \A i \in DOMAIN fs : gs[i].paid = fs[i].paid
  BY <1>1, <1>2
<1>4. DOMAIN hs = DOMAIN fs /\ \A i \in DOMAIN fs : hs[i].paid = fs[i].paid
  BY <1>1, <1>2
<1> HIDE DEF gs, hs
<1>5. PaidIn(gs) = PaidIn(fs)
  BY <1>3, SamePaid
<1>6. PaidIn(hs) = PaidIn(fs)
  BY <1>4, SamePaid
<1> QED
  BY <1>5, <1>6 DEF gs, hs

LEMMA AssessmentsPaid ==
  ASSUME NEW fs \in FeesType, NEW loan, NEW u \in Users, NEW amount, NEW balance
  PROVE  /\ PaidIn(AssessOriginationFee(fs, loan, u, amount, balance)) = PaidIn(fs)
         /\ PaidIn(AssessLateFee(fs, loan, u, amount, balance)) = PaidIn(fs)
<1>1. PICK os \in FeesType : os = StateFor(fs, loan, u) /\ PaidIn(os) = PaidIn(fs)
  BY NewStatePaid
<1>2. \A fee : /\ PaidIn([os EXCEPT ![loan] = OwingOrigination(@, fee)]) = PaidIn(os)
               /\ PaidIn([os EXCEPT ![loan] = OwingLate(@, fee)]) = PaidIn(os)
  BY OwingPaid
<1> QED
  BY <1>1, <1>2 DEF AssessOriginationFee, AssessLateFee

\* No step of the life cycle pays a fee.
LEMMA LoanStepsPayNothing ==
  ASSUME TypeOK, [Next]_vars
  PROVE  PaidIn(fees') = PaidIn(fees)
<1>1. fees \in FeesType
  BY DEF TypeOK
<1>2. ASSUME NEW u \in Users, Borrow(u)
      PROVE  fees' = fees
  BY <1>2, OpenHistory
<1>3. ASSUME NEW i \in DOMAIN requests, Decide(i)
      PROVE  PaidIn(fees') = PaidIn(fees)
  <2>1. PICK u \in Users : u = requests[i].borrower
    BY Entries DEF RequestType
  <2>2. \/ fees' = fees
        \/ \E amount, balance :
             fees' = AssessOriginationFee(fees, Len(loans) + 1, u, amount, balance)
    BY <1>3, <2>1
    DEF Decide, RejectRequest, CancelRequest, CloseRequest, ApproveRequest
  <2> QED
    BY <1>1, <2>2, AssessmentsPaid
<1>4. ASSUME NEW i \in DOMAIN loans, Service(i)
      PROVE  PaidIn(fees') = PaidIn(fees)
  <2>1. PICK u \in Users : u = loans[i].borrower
    BY Entries DEF LoanType
  <2>2. \/ fees' = fees
        \/ \E amount, balance : fees' = AssessLateFee(fees, i, u, amount, balance)
    BY <1>4, <2>1 DEF Service, RepayInstallment, MarkDefault
  <2> QED
    BY <1>1, <2>2, AssessmentsPaid
<1>5. CASE Administer \/ Tick \/ UNCHANGED vars \/ \E u \in Users : Refer(u)
  BY <1>5 DEF Administer, DepositLiquidity, WithdrawSeizedCollateral, SetPause, Tick, vars,
              Refer, GenerateCode, ApplyCode, RewardReferrer
<1> QED
  BY <1>2, <1>3, <1>4, <1>5 DEF Next

\* The steps that neither pay nor claim nor spend.
Ordinary ==
  /\ UNCHANGED <<fees, feeTotals, rewards, reputation>>
  /\ SameClaims(treasury, treasury') /\ staking'.claimed = staking.claimed
  /\ \A v \in Users : staking'.positions[v].claimed = staking.positions[v].claimed

LEMMA RestakingIsOrdinary ==
  ASSUME EconomySound, NEW u \in Users, NEW amount \in Nat,
         Stake(u, amount) \/ Unstake(u, amount)
  PROVE  Ordinary
<1>1. PICK delta \in Int :
        /\ staking' = ChangeStake(staking, u, delta)
        /\ staking.positions[u].staked + delta \in Nat /\ staking.total + delta \in Nat
        /\ UNCHANGED <<treasury, standing, fees, feeTotals>>
  <2>1. staking \in RegistryType /\ lend \in LendType
    BY SoundParts
  <2>2. staking.positions[u].staked \in Nat /\ staking.total \in Nat
    BY <2>1, RegistryParts
  <2>3. CASE Stake(u, amount)
    <3>1. /\ staking.positions[u].staked + amount \in Nat
          /\ staking.total + amount \in Nat /\ amount \in Int
      BY <2>2
    <3> QED
      BY <2>3, <3>1 DEF Stake, MayStake
  <2>4. CASE Unstake(u, amount)
    <3>1. staking.positions[u].staked >= amount /\ lend.staked[u] >= amount
      BY <2>4 DEF Unstake, MayUnstake
    <3>2. /\ lend.staked \in [Users -> Nat] /\ lend.staked[u] \in Nat
          /\ staking.total = SumFunction(lend.staked)
      BY <2>1, LendParts DEF EconomySound, StakeBooksAgree
    <3>3. lend.staked[u] <= staking.total
      BY <3>2, LoanBookAssumption, SumFunctionAtLeast
    <3>4. /\ staking.positions[u].staked + (-amount) \in Nat
          /\ staking.total + (-amount) \in Nat /\ -amount \in Int
      BY <2>2, <3>1, <3>2, <3>3
    <3> QED
      BY <2>4, <3>4 DEF Unstake, MayUnstake
  <2> QED
    BY <2>3, <2>4
<1>2. /\ staking'.claimed = staking.claimed
      /\ \A v \in Users : staking'.positions[v].claimed = staking.positions[v].claimed
  BY <1>1, SoundParts, ChangeStakeFacts
<1> QED
  BY <1>1, <1>2 DEF Ordinary, SameClaims, standing

LEMMA AbsorbingIsOrdinary ==
  ASSUME EconomySound, NEW amount \in Nat, treasury' = AbsorbProtocolLend(treasury, amount),
         UNCHANGED <<now, paused, book, standing, fees, economyVars>>
  PROVE  Ordinary
<1>1. SameClaims(treasury, treasury')
  BY SoundParts, ReserveSteps DEF SameClaims
<1> QED
  BY <1>1 DEF Ordinary, standing, economyVars

LEMMA KindsOfSteps ==
  ASSUME EconomySound, [EconomyNext]_allVars
  PROVE  \/ [Next]_vars /\ UNCHANGED economyVars
         \/ \E i \in DOMAIN fees : PayOutstandingFees(i)
         \/ \E u \in Users : ClaimStakingRewards(u) \/ ClaimLend(u) \/ Purchase(u)
         \/ Ordinary
<1>1. CASE UNCHANGED allVars \/ (Next /\ UNCHANGED economyVars)
  BY <1>1 DEF allVars
<1>2. ASSUME NEW u \in Users, StakeStep(u)
      PROVE  ClaimStakingRewards(u) \/ Ordinary
  BY <1>2, EconomyAssumption, RestakingIsOrdinary DEF StakeStep
<1>3. ASSUME NEW u \in Users, RewardStep(u)
      PROVE  ClaimLend(u) \/ Purchase(u)
  BY <1>3 DEF RewardStep, Purchase
<1>4. ASSUME NEW u \in Users, NEW v \in Users, NEW amount, Transfer(u, v, amount)
      PROVE  Ordinary
  BY <1>4 DEF Transfer, Ordinary, SameClaims, standing, economyVars
<1>5. ASSUME NEW u \in Users, NEW amount \in Transfers, DepositToProtocolReserve(u, amount)
      PROVE  Ordinary
  <2>1. amount \in Nat
    BY EconomyAssumption
  <2> QED
    BY <1>5, <2>1, AbsorbingIsOrdinary DEF DepositToProtocolReserve
<1>6. ASSUME NEW amount \in Mints, MintToProtocolReserve(amount)
      PROVE  Ordinary
  <2>1. amount \in Nat
    BY EconomyAssumption
  <2> QED
    BY <1>6, <2>1, AbsorbingIsOrdinary DEF MintToProtocolReserve
<1> QED
  BY <1>1, <1>2, <1>3, <1>4, <1>5, <1>6 DEF EconomyNext, TokenStep

LEMMA FeesPaid ==
  ASSUME EconomySound, FeesAccounted, NEW i \in DOMAIN fees, PayOutstandingFees(i)
  PROVE  FeesAccounted'
<1> DEFINE shares == SharesOf(fees[i])
           due == DueInLend(fees[i])
<1>1. fees \in FeesType /\ feeTotals \in FeeTotalsType
  BY SoundParts
<1>2. fees[i] \in FeeStateType /\ fees[i].paid \in Nat
  BY <1>1, PaidType
<1>3. /\ shares.treasury \in Nat /\ shares.staking \in Nat /\ shares.burn \in Nat
      /\ due \in Nat /\ shares.treasury + shares.staking + shares.burn = due
  BY <1>2, SharesFacts
<1>4. /\ feeTotals.treasury \in Nat /\ feeTotals.staking \in Nat /\ feeTotals.burn \in Nat
      /\ feeTotals.paid \in Nat
  BY <1>1 DEF FeeTotalsType
<1>5. /\ fees' = [fees EXCEPT ![i] = Cleared(@)]
      /\ feeTotals' = [treasury |-> feeTotals.treasury + shares.treasury,
                       staking |-> feeTotals.staking + shares.staking,
                       burn |-> feeTotals.burn + shares.burn,
                       paid |-> feeTotals.paid + due]
  BY DEF PayOutstandingFees
<1> HIDE DEF shares, due
<1>6. /\ feeTotals'.treasury = feeTotals.treasury + shares.treasury
      /\ feeTotals'.staking = feeTotals.staking + shares.staking
      /\ feeTotals'.burn = feeTotals.burn + shares.burn
      /\ feeTotals'.paid = feeTotals.paid + due
  BY <1>5
<1>7. PaidIn(fees') = PaidIn(fees) + due
  <2> DEFINE S == DOMAIN fees
             f == [j \in S |-> fees[j].paid]
             g == [j \in S |-> fees'[j].paid]
  <2>1. IsFiniteSet(S) /\ f \in [S -> Nat] /\ \A j \in S : fees[j].paid \in Nat
    BY <1>1, PaidType
  <2>2. Cleared(fees[i]).paid = fees[i].paid + due
    BY <1>2, ClearedFacts DEF due
  <2>3. /\ DOMAIN fees' = S /\ fees'[i] = Cleared(fees[i])
        /\ \A j \in S : j # i => fees'[j] = fees[j]
    BY <1>5
  <2>4. /\ g \in [S -> Nat] /\ \A j \in S : j # i => g[j] = f[j]
        /\ g[i] = f[i] + due /\ f[i] \in Nat
    BY <1>2, <1>3, <2>1, <2>2, <2>3
  <2>5. PaidIn(fees) = SumFunction(f) /\ PaidIn(fees') = SumFunction(g)
    BY <2>3 DEF PaidIn
  <2>6. i \in S
    OBVIOUS
  <2> HIDE DEF S, f, g
  <2>7. SumFunction(g) = SumFunction(f) - f[i] + g[i] /\ SumFunction(f) \in Nat
    BY <2>1, <2>4, <2>6, SumFunctionChanges, SumFunctionType
  <2> QED
    BY <1>3, <2>4, <2>5, <2>7
<1>8. /\ feeTotals.paid = feeTotals.treasury + feeTotals.staking + feeTotals.burn
      /\ feeTotals.paid = PaidIn(fees)
  BY DEF FeesAccounted, PaidIn
<1>9. feeTotals'.paid = feeTotals'.treasury + feeTotals'.staking + feeTotals'.burn
  BY <1>3, <1>4, <1>6, <1>8
<1>10. feeTotals'.paid = PaidIn(fees')
  BY <1>6, <1>7, <1>8
<1> QED
  BY <1>9, <1>10 DEF FeesAccounted, PaidIn

LEMMA FeesAccountedStart == EconomyInit => FeesAccounted
<1> SUFFICES ASSUME EconomyInit PROVE FeesAccounted
  OBVIOUS
<1>1. /\ feeTotals = [treasury |-> 0, staking |-> 0, burn |-> 0, paid |-> 0]
      /\ DOMAIN fees = {}
  BY DEF EconomyInit, Init
<1>2. SumFunction([i \in DOMAIN fees |-> fees[i].paid]) = 0
  BY <1>1, SumFunctionEmpty
<1> QED
  BY <1>1, <1>2 DEF FeesAccounted

LEMMA FeesAccountedStay ==
  ASSUME EconomySound, FeesAccounted, [EconomyNext]_allVars
  PROVE  FeesAccounted'
<1>1. CASE [Next]_vars /\ UNCHANGED economyVars
  <2>1. PaidIn(fees') = PaidIn(fees) /\ feeTotals' = feeTotals
    BY <1>1, SoundParts, LoanStepsPayNothing DEF economyVars
  <2> QED
    BY <2>1 DEF FeesAccounted, PaidIn
<1>2. CASE UNCHANGED <<fees, feeTotals>>
  BY <1>2 DEF FeesAccounted
<1>3. ASSUME NEW u \in Users, ClaimStakingRewards(u) \/ ClaimLend(u) \/ Purchase(u)
      PROVE  UNCHANGED <<fees, feeTotals>>
  BY <1>3, SoundParts, PurchaseFacts
  DEF ClaimStakingRewards, ClaimLend, Bought, economyVars
<1> QED
  BY <1>1, <1>2, <1>3, KindsOfSteps, FeesPaid DEF Ordinary

\* Every unit of a fee paid is in exactly one of the three shares, and what the
\* loans say was paid is what the registry took in.
THEOREM FeesAccountedAlways == EconomySpec => []FeesAccounted
<1>1. EconomyInit => FeesAccounted
  BY FeesAccountedStart
<1>2. ASSUME EconomySound, FeesAccounted, [EconomyNext]_allVars
      PROVE  FeesAccounted'
  BY <1>2, FeesAccountedStay
<1> QED
  BY <1>1, <1>2, SoundAlways, PTL DEF EconomySpec

-----------------------------------------------------------------------------
(* Payouts.                                                                 *)

\* The claims each user has on record, as a staker and for points.
HarvestsOf(s) == [u \in Users |-> s.positions[u].claimed]
ClaimsOf(rw) == [u \in Users |-> rw[u].claimed]

SamePayouts ==
  /\ SameClaims(treasury, treasury') /\ staking'.claimed = staking.claimed
  /\ \A v \in Users : /\ staking'.positions[v].claimed = staking.positions[v].claimed
                      /\ rewards'[v].claimed = rewards[v].claimed

LEMMA PayoutsKept ==
  ASSUME PayoutsAccounted, SamePayouts
  PROVE  PayoutsAccounted'
<1>1. HarvestsOf(staking') = HarvestsOf(staking) /\ ClaimsOf(rewards') = ClaimsOf(rewards)
  BY DEF SamePayouts, HarvestsOf, ClaimsOf
<1> QED
  BY <1>1 DEF PayoutsAccounted, SamePayouts, SameClaims, HarvestsOf, ClaimsOf

\* The recorded claims, and what they become when u claims more.
LEMMA ClaimRecorded ==
  ASSUME NEW f \in [Users -> Nat], NEW g \in [Users -> Nat], NEW u \in Users,
         NEW amount \in Nat, g[u] = f[u] + amount,
         \A v \in Users : v # u => g[v] = f[v]
  PROVE  /\ SumFunction(g) = SumFunction(f) + amount
         /\ SumFunction(f) \in Nat
<1>1. SumFunction(g) = SumFunction(f) - f[u] + g[u] /\ SumFunction(f) \in Nat
  BY LoanBookAssumption, SumFunctionChanges, SumFunctionType
<1>2. f[u] \in Nat
  OBVIOUS
<1> QED
  BY <1>1, <1>2

LEMMA RecordsType ==
  ASSUME NEW s \in RegistryType, NEW rw \in RewardsType, NEW t \in TreasuryType
  PROVE  /\ HarvestsOf(s) \in [Users -> Nat] /\ ClaimsOf(rw) \in [Users -> Nat]
         /\ SumFunction(HarvestsOf(s)) \in Nat /\ SumFunction(ClaimsOf(rw)) \in Nat
         /\ t.lendClaimed \in Nat /\ s.claimed \in Nat
<1>1. \A u \in Users : s.positions[u].claimed \in Nat /\ rw[u].claimed \in Nat
  BY RegistryParts, AccountParts DEF RewardsType
<1>2. HarvestsOf(s) \in [Users -> Nat] /\ ClaimsOf(rw) \in [Users -> Nat]
  BY <1>1 DEF HarvestsOf, ClaimsOf
<1>3. t.lendClaimed \in Nat /\ s.claimed \in Nat
  BY RegistryParts DEF TreasuryType
<1> QED
  BY <1>2, <1>3, LoanBookAssumption, SumFunctionType

LEMMA RecordsNow ==
  ASSUME EconomySound, EconomySound'
  PROVE  /\ HarvestsOf(staking) \in [Users -> Nat] /\ ClaimsOf(rewards) \in [Users -> Nat]
         /\ HarvestsOf(staking') \in [Users -> Nat] /\ ClaimsOf(rewards') \in [Users -> Nat]
         /\ SumFunction(HarvestsOf(staking)) \in Nat /\ SumFunction(ClaimsOf(rewards)) \in Nat
         /\ treasury.lendClaimed \in Nat /\ staking.claimed \in Nat
<1>1. staking \in RegistryType /\ rewards \in RewardsType /\ treasury \in TreasuryType
  BY DEF EconomySound, EconomyTypeOK, TypeOK
<1>2. staking' \in RegistryType /\ rewards' \in RewardsType /\ treasury' \in TreasuryType
  BY DEF EconomySound, EconomyTypeOK, TypeOK
<1>3. /\ HarvestsOf(staking) \in [Users -> Nat] /\ ClaimsOf(rewards) \in [Users -> Nat]
      /\ SumFunction(HarvestsOf(staking)) \in Nat /\ SumFunction(ClaimsOf(rewards)) \in Nat
      /\ treasury.lendClaimed \in Nat /\ staking.claimed \in Nat
  BY <1>1, RecordsType
<1> QED
  BY <1>2, <1>3, RecordsType

LEMMA HarvestAccounted ==
  ASSUME EconomySound, EconomySound', PayoutsAccounted, NEW u \in Users,
         ClaimStakingRewards(u)
  PROVE  PayoutsAccounted'
<1>1. PICK h \in Nat :
        /\ PayOut(u, h) /\ staking'.claimed = staking.claimed + h
        /\ staking'.positions[u].claimed = staking.positions[u].claimed + h
        /\ \A v \in Users : v # u => staking'.positions[v] = staking.positions[v]
        /\ rewards' = rewards
  BY SoundParts, HarvestedFacts DEF ClaimStakingRewards, standing
<1>2. treasury'.lendClaimed = treasury.lendClaimed + h
  BY <1>1, PayOutFacts
<1>3. /\ HarvestsOf(staking) \in [Users -> Nat] /\ SumFunction(ClaimsOf(rewards)) \in Nat
      /\ treasury.lendClaimed \in Nat /\ staking.claimed \in Nat
  BY RecordsNow
<1>4. HarvestsOf(staking') \in [Users -> Nat]
  BY RecordsNow
<1>5. /\ HarvestsOf(staking')[u] = HarvestsOf(staking)[u] + h
      /\ \A v \in Users : v # u => HarvestsOf(staking')[v] = HarvestsOf(staking)[v]
  BY <1>1 DEF HarvestsOf
<1>6. ClaimsOf(rewards') = ClaimsOf(rewards)
  BY <1>1 DEF ClaimsOf
<1>7. SumFunction(HarvestsOf(staking')) = SumFunction(HarvestsOf(staking)) + h /\ SumFunction(HarvestsOf(staking)) \in Nat
  BY <1>3, <1>4, <1>5, ClaimRecorded
<1>8. /\ staking.claimed = SumFunction(HarvestsOf(staking))
      /\ treasury.lendClaimed
           = InitialDistributed + staking.claimed + SumFunction(ClaimsOf(rewards))
  BY DEF PayoutsAccounted, HarvestsOf, ClaimsOf
<1>9. InitialDistributed \in Nat
  BY LoanBookAssumption
<1>10. staking'.claimed = SumFunction(HarvestsOf(staking'))
  BY <1>1, <1>7, <1>8
<1>11. treasury'.lendClaimed
         = InitialDistributed + staking'.claimed + SumFunction(ClaimsOf(rewards'))
  BY <1>1, <1>2, <1>3, <1>6, <1>8, <1>9
<1> QED
  BY <1>10, <1>11 DEF PayoutsAccounted, HarvestsOf, ClaimsOf

LEMMA ClaimAccounted ==
  ASSUME EconomySound, EconomySound', PayoutsAccounted, NEW u \in Users, ClaimLend(u)
  PROVE  PayoutsAccounted'
<1>0. rewards \in RewardsType /\ rewards[u] \in RewardAccountType
  BY SoundParts DEF RewardsType
<1>1. PICK h \in Nat : h = rewards[u].claimable
  BY <1>0, AccountParts
<1>2. /\ PayOut(u, h) /\ rewards' = [rewards EXCEPT ![u] = Claimed(@)] /\ staking' = staking
  BY <1>1 DEF ClaimLend, economyVars
<1>3. /\ rewards'[u].claimed = rewards[u].claimed + h
      /\ \A v \in Users : v # u => rewards'[v] = rewards[v]
  BY <1>0, <1>1, <1>2, ClaimedFacts DEF RewardsType
<1>4. treasury'.lendClaimed = treasury.lendClaimed + h
  BY <1>2, PayOutFacts
<1>5. /\ ClaimsOf(rewards) \in [Users -> Nat] /\ SumFunction(HarvestsOf(staking)) \in Nat
      /\ treasury.lendClaimed \in Nat /\ staking.claimed \in Nat
  BY RecordsNow
<1>6. ClaimsOf(rewards') \in [Users -> Nat]
  BY RecordsNow
<1>7. /\ ClaimsOf(rewards')[u] = ClaimsOf(rewards)[u] + h
      /\ \A v \in Users : v # u => ClaimsOf(rewards')[v] = ClaimsOf(rewards)[v]
  BY <1>3 DEF ClaimsOf
<1>8. HarvestsOf(staking') = HarvestsOf(staking)
  BY <1>2 DEF HarvestsOf
<1>9. SumFunction(ClaimsOf(rewards')) = SumFunction(ClaimsOf(rewards)) + h /\ SumFunction(ClaimsOf(rewards)) \in Nat
  BY <1>5, <1>6, <1>7, ClaimRecorded
<1>10. /\ staking.claimed = SumFunction(HarvestsOf(staking))
       /\ treasury.lendClaimed
            = InitialDistributed + staking.claimed + SumFunction(ClaimsOf(rewards))
  BY DEF PayoutsAccounted, HarvestsOf, ClaimsOf
<1>11. InitialDistributed \in Nat
  BY LoanBookAssumption
<1>12. treasury'.lendClaimed
         = InitialDistributed + staking.claimed + SumFunction(ClaimsOf(rewards'))
  BY <1>4, <1>5, <1>9, <1>10, <1>11
<1> QED
  BY <1>2, <1>8, <1>10, <1>12 DEF PayoutsAccounted, HarvestsOf, ClaimsOf

LEMMA OthersPayNothing ==
  ASSUME EconomySound,
         \/ [Next]_vars /\ UNCHANGED economyVars
         \/ \E i \in DOMAIN fees : PayOutstandingFees(i)
         \/ \E u \in Users : Purchase(u)
         \/ Ordinary
  PROVE  SamePayouts
<1>1. CASE [Next]_vars /\ UNCHANGED economyVars
  <2>1. SameClaims(treasury, treasury') /\ staking' = staking
    BY <1>1, SoundParts, LoanStepsAside DEF StakesAside, economyVars
  <2>2. \A v \in Users : rewards'[v].claimed = rewards[v].claimed
    BY <1>1, SoundParts, AccountsStep DEF AccountStep, Earns, Fined
  <2> QED
    BY <2>1, <2>2 DEF SamePayouts
<1>2. ASSUME NEW i \in DOMAIN fees, PayOutstandingFees(i)
      PROVE  SamePayouts
  <2>1. PICK credit \in Nat, share \in Nat :
          /\ treasury' = AbsorbProtocolLend(treasury, credit)
          /\ staking' = FundFromFee(staking, share)
          /\ rewards' = rewards
    <3>1. fees[i] \in FeeStateType
      BY SoundParts, PaidType
    <3>2. SharesOf(fees[i]).treasury \in Nat /\ SharesOf(fees[i]).staking \in Nat
      BY <3>1, SharesFacts
    <3>3. SharesOf(fees[i]).treasury + SharesOf(fees[i]).staking \in Nat
      BY <3>2
    <3> QED
      BY <1>2, <3>2, <3>3 DEF PayOutstandingFees, standing
  <2>2. SameClaims(treasury, treasury')
    BY <2>1, SoundParts, ReserveSteps DEF SameClaims
  <2>3. staking'.claimed = staking.claimed /\ staking'.positions = staking.positions
    BY <2>1, SoundParts, FundFacts DEF EconomySound, FeesReachStakers
  <2> QED
    BY <2>1, <2>2, <2>3 DEF SamePayouts
<1>3. ASSUME NEW u \in Users, Purchase(u)
      PROVE  SamePayouts
  <2>1. PICK f \in RewardAccountType :
          f.claimed = rewards[u].claimed /\ rewards' = [rewards EXCEPT ![u] = f]
    BY <1>3, SoundParts, PurchaseFacts DEF Bought, Spends
  <2>2. \A v \in Users : rewards'[v].claimed = rewards[v].claimed
    BY <2>1, SoundParts DEF RewardsType
  <2>3. UNCHANGED <<money, economyVars>>
    BY <1>3, SoundParts, PurchaseFacts DEF Bought
  <2> QED
    BY <2>2, <2>3 DEF SamePayouts, SameClaims, money, economyVars
<1>4. CASE Ordinary
  BY <1>4 DEF Ordinary, SamePayouts
<1> QED
  BY <1>1, <1>2, <1>3, <1>4

\* All LEND the reserve ever paid out was a rewards or a staking claim, each
\* recorded with its user.
THEOREM PayoutsAccountedAlways == EconomySpec => []PayoutsAccounted
<1>1. EconomyInit => PayoutsAccounted
  <2> SUFFICES ASSUME EconomyInit PROVE PayoutsAccounted
    OBVIOUS
  <2>1. staking = NoStakes /\ treasury.lendClaimed = InitialDistributed /\ rewards = NoRewards
    BY DEF EconomyInit, Init, FundedTreasury
  <2>2. \A u \in Users : HarvestsOf(staking)[u] = 0 /\ ClaimsOf(rewards)[u] = 0
    BY <2>1 DEF HarvestsOf, ClaimsOf, NoStakes, NoRewards
  <2>3. HarvestsOf(staking) \in [Users -> Nat] /\ ClaimsOf(rewards) \in [Users -> Nat]
    BY SoundInit, SoundParts, RecordsType
  <2>4. SumFunction(HarvestsOf(staking)) = 0 /\ SumFunction(ClaimsOf(rewards)) = 0
    BY <2>2, <2>3, LoanBookAssumption, SumFunctionZero
  <2>5. staking.claimed = 0
    BY <2>1 DEF NoStakes
  <2> QED
    BY <2>1, <2>4, <2>5, LoanBookAssumption DEF PayoutsAccounted, HarvestsOf, ClaimsOf
<1>2. ASSUME EconomySound, EconomySound', PayoutsAccounted, [EconomyNext]_allVars
      PROVE  PayoutsAccounted'
  BY <1>2, KindsOfSteps, OthersPayNothing, PayoutsKept, HarvestAccounted, ClaimAccounted
<1> QED
  BY <1>1, <1>2, SoundAlways, PTL DEF EconomySpec

-----------------------------------------------------------------------------
(* Points.                                                                  *)

\* What a step may make of the account of v: it earns, is fined, spends or
\* claims, or nothing.
AccountMoves(v) ==
  \/ AccountStep(v)
  \/ /\ \E p \in Nat : \/ Spends(rewards[v], rewards'[v], p, 0)
                       \/ Spends(rewards[v], rewards'[v], p, PointsToLend(p))
     /\ reputation'[v].defaulted = reputation[v].defaulted
  \/ /\ rewards'[v] = Claimed(rewards[v])
     /\ reputation'[v].defaulted = reputation[v].defaulted

LEMMA AccountsMove ==
  ASSUME EconomySound, [EconomyNext]_allVars, NEW v \in Users
  PROVE  AccountMoves(v)
<1>1. TypeOK /\ rewards \in RewardsType /\ rewards[v] \in RewardAccountType
  BY SoundParts DEF RewardsType
<1>2. CASE [Next]_vars /\ UNCHANGED economyVars
  BY <1>1, <1>2, AccountsStep DEF AccountMoves
<1>3. ASSUME rewards'[v] = rewards[v], reputation' = reputation
      PROVE  AccountMoves(v)
  BY <1>1, <1>3, EarnsNothing DEF AccountMoves, AccountStep
<1>4. ASSUME NEW i \in DOMAIN fees, PayOutstandingFees(i)
      PROVE  AccountMoves(v)
  BY <1>3, <1>4 DEF PayOutstandingFees, standing
<1>5. ASSUME NEW u \in Users, ClaimStakingRewards(u)
      PROVE  AccountMoves(v)
  BY <1>3, <1>5 DEF ClaimStakingRewards, standing
<1>6. ASSUME NEW u \in Users, ClaimLend(u)
      PROVE  AccountMoves(v)
  <2>1. rewards' = [rewards EXCEPT ![u] = Claimed(@)] /\ reputation' = reputation
    BY <1>6 DEF ClaimLend
  <2>2. CASE v = u
    BY <1>1, <2>1, <2>2 DEF AccountMoves, RewardsType
  <2>3. CASE v # u
    BY <1>1, <1>3, <2>1, <2>3 DEF RewardsType
  <2> QED
    BY <2>2, <2>3
<1>7. ASSUME NEW u \in Users, Purchase(u)
      PROVE  AccountMoves(v)
  <2>1. /\ reputation' = reputation
        /\ \E p \in Nat, f \in RewardAccountType :
             /\ rewards' = [rewards EXCEPT ![u] = f]
             /\ Spends(rewards[u], f, p, 0) \/ Spends(rewards[u], f, p, PointsToLend(p))
    BY <1>1, <1>7, PurchaseFacts DEF Bought
  <2>2. PICK p \in Nat, f \in RewardAccountType :
          /\ rewards' = [rewards EXCEPT ![u] = f]
          /\ Spends(rewards[u], f, p, 0) \/ Spends(rewards[u], f, p, PointsToLend(p))
    BY <2>1
  <2>3. CASE v = u
    <3>1. rewards'[v] = f
      BY <1>1, <2>2, <2>3 DEF RewardsType
    <3> QED
      BY <2>1, <2>2, <2>3, <3>1 DEF AccountMoves
  <2>4. CASE v # u
    BY <1>1, <1>3, <2>1, <2>2, <2>4 DEF RewardsType
  <2> QED
    BY <2>3, <2>4
<1>8. CASE Ordinary
  BY <1>3, <1>8 DEF Ordinary
<1> QED
  BY <1>2, <1>4, <1>5, <1>6, <1>7, <1>8, KindsOfSteps

\* The two properties of one account.
SpentOnce(u) ==
  /\ rewards[u].points + rewards[u].spent <= rewards[u].lifetime
  /\ reputation[u].defaulted = 0
       => rewards[u].points + rewards[u].spent = rewards[u].lifetime

Bounded(u) ==
  rewards[u].claimable + rewards[u].claimed
    <= PointsToLend(rewards[u].lifetime) + PointsToLend(rewards[u].spent)

LEMMA AccountType ==
  ASSUME EconomySound, NEW u \in Users
  PROVE  /\ rewards[u] \in RewardAccountType
         /\ rewards[u].points \in Nat /\ rewards[u].spent \in Nat
         /\ rewards[u].lifetime \in Nat /\ rewards[u].claimable \in Nat
         /\ rewards[u].claimed \in Nat /\ PointsToLend(rewards[u].lifetime) \in Nat
         /\ PointsToLend(rewards[u].spent) \in Nat
<1>1. rewards[u] \in RewardAccountType
  BY SoundParts DEF RewardsType
<1> QED
  BY <1>1, AccountParts

LEMMA AccountStaysSound ==
  ASSUME EconomySound, EconomySound', NEW u \in Users, AccountMoves(u),
         SpentOnce(u), Bounded(u)
  PROVE  SpentOnce(u)' /\ Bounded(u)'
<1>1. /\ rewards[u] \in RewardAccountType
      /\ rewards[u].points \in Nat /\ rewards[u].spent \in Nat
      /\ rewards[u].lifetime \in Nat /\ rewards[u].claimable \in Nat
      /\ rewards[u].claimed \in Nat /\ PointsToLend(rewards[u].lifetime) \in Nat
      /\ PointsToLend(rewards[u].spent) \in Nat
  BY AccountType
<1>2. /\ rewards'[u].points \in Nat /\ rewards'[u].spent \in Nat
      /\ rewards'[u].lifetime \in Nat /\ rewards'[u].claimable \in Nat
      /\ rewards'[u].claimed \in Nat /\ PointsToLend(rewards'[u].lifetime) \in Nat
      /\ PointsToLend(rewards'[u].spent) \in Nat
  <2>1. rewards'[u] \in RewardAccountType
    <3>1. rewards' \in RewardsType
      BY DEF EconomySound, EconomyTypeOK, TypeOK
    <3> QED
      BY <3>1 DEF RewardsType
  <2> QED
    BY <2>1, AccountParts
<1>3. CASE AccountStep(u)
  BY <1>1, <1>2, <1>3 DEF AccountStep, Earns, Fined, SpentOnce, Bounded
<1>4. ASSUME NEW p \in Nat,
             \/ Spends(rewards[u], rewards'[u], p, 0)
             \/ Spends(rewards[u], rewards'[u], p, PointsToLend(p)),
             reputation'[u].defaulted = reputation[u].defaulted
      PROVE  SpentOnce(u)' /\ Bounded(u)'
  <2>1. PICK c \in Nat : c <= PointsToLend(p) /\ Spends(rewards[u], rewards'[u], p, c)
    <3>1. PointsToLend(p) \in Nat
      BY PointsToLendType
    <3>2. 0 \in Nat /\ 0 <= PointsToLend(p) /\ PointsToLend(p) <= PointsToLend(p)
      BY <3>1
    <3> QED
      BY <1>4, <3>1, <3>2
  <2>2. /\ rewards'[u].points = rewards[u].points - p
        /\ rewards'[u].spent = rewards[u].spent + p
        /\ rewards'[u].lifetime = rewards[u].lifetime
        /\ rewards'[u].claimed = rewards[u].claimed
        /\ rewards'[u].claimable = rewards[u].claimable + c
    BY <2>1 DEF Spends
  <2>3. PointsToLend(rewards[u].spent) + PointsToLend(p)
          <= PointsToLend(rewards[u].spent + p)
    BY <1>1, LendOfSum
  <2>4. PointsToLend(p) \in Nat
    BY PointsToLendType
  <2>5. SpentOnce(u)'
    BY <1>1, <1>4, <2>2 DEF SpentOnce
  <2>6. Bounded(u)'
    BY <1>1, <1>2, <2>1, <2>2, <2>3, <2>4 DEF Bounded
  <2> QED
    BY <2>5, <2>6
<1>5. ASSUME rewards'[u] = Claimed(rewards[u]),
             reputation'[u].defaulted = reputation[u].defaulted
      PROVE  SpentOnce(u)' /\ Bounded(u)'
  BY <1>1, <1>5, ClaimedFacts DEF SpentOnce, Bounded
<1> QED
  BY <1>3, <1>4, <1>5 DEF AccountMoves

AccountsSound == \A u \in Users : SpentOnce(u) /\ Bounded(u)

LEMMA AccountsStart == EconomyInit => AccountsSound
<1> SUFFICES ASSUME EconomyInit, NEW u \in Users PROVE SpentOnce(u) /\ Bounded(u)
  BY DEF AccountsSound
<1>1. /\ rewards[u].points = 0 /\ rewards[u].spent = 0 /\ rewards[u].lifetime = 0
      /\ rewards[u].claimable = 0 /\ rewards[u].claimed = 0
  BY DEF EconomyInit, Init, NoRewards
<1>2. PointsToLend(rewards[u].lifetime) \in Nat /\ PointsToLend(rewards[u].spent) \in Nat
  BY SoundInit, AccountType
<1> QED
  BY <1>1, <1>2 DEF SpentOnce, Bounded

LEMMA AccountsStay ==
  EconomySound /\ EconomySound' /\ AccountsSound /\ [EconomyNext]_allVars => AccountsSound'
<1> SUFFICES ASSUME EconomySound, EconomySound', AccountsSound, [EconomyNext]_allVars,
                    NEW u \in Users
             PROVE  SpentOnce(u)' /\ Bounded(u)'
  BY DEF AccountsSound
<1>1. AccountMoves(u)
  BY AccountsMove
<1> QED
  BY <1>1, AccountStaysSound DEF AccountsSound

LEMMA AccountsSoundAlways == EconomySpec => []AccountsSound
<1>1. EconomyInit => AccountsSound
  BY AccountsStart
<1>2. EconomySound /\ EconomySound' /\ AccountsSound /\ [EconomyNext]_allVars
        => AccountsSound'
  BY AccountsStay
<1> QED
  BY <1>1, <1>2, SoundAlways, PTL DEF EconomySpec

\* No point is spent twice: what is left and what was spent never exceeds what
\* was granted, and falls short of it only after a default.
THEOREM PointsSpentOnceAlways == EconomySpec => []PointsSpentOnce
<1>1. AccountsSound => PointsSpentOnce
  BY DEF AccountsSound, SpentOnce, PointsSpentOnce
<1> QED
  BY <1>1, AccountsSoundAlways, PTL

\* A point yields LEND at most twice, once granted and once redeemed.
THEOREM LendPerPointBoundedAlways == EconomySpec => []LendPerPointBounded
<1>1. AccountsSound => LendPerPointBounded
  BY DEF AccountsSound, Bounded, LendPerPointBounded
<1> QED
  BY <1>1, AccountsSoundAlways, PTL

-----------------------------------------------------------------------------
(* The life cycle, with the economy at work around it.  What LoanBook_proofs, *)
(* LoanBookMoney_proofs and LoanBookStanding_proofs show of the life cycle    *)
(* alone still holds, because a step of the economy is a step of the life     *)
(* cycle or stays beside it.                                                *)

Beside ==
  /\ UNCHANGED <<book, reputation, referral>>
  /\ fees' = fees \/ \E i \in DOMAIN fees : fees' = [fees EXCEPT ![i] = Cleared(@)]
  /\ treasury'.disbursed = treasury.disbursed /\ treasury'.repaid = treasury.repaid
  /\ \A v \in Users : rewards'[v].lifetime = rewards[v].lifetime

LEMMA ReserveBeside ==
  ASSUME NEW t \in TreasuryType, NEW amount
  PROVE  /\ AbsorbProtocolLend(t, amount).disbursed = t.disbursed
         /\ AbsorbProtocolLend(t, amount).repaid = t.repaid
         /\ ReleaseReward(t, amount).disbursed = t.disbursed
         /\ ReleaseReward(t, amount).repaid = t.repaid
BY DEF TreasuryType, AbsorbProtocolLend, ReleaseReward

LEMMA EconomyBeside ==
  ASSUME EconomySound, [EconomyNext]_allVars
  PROVE  [Next]_vars \/ Beside
<1>0. /\ TypeOK /\ treasury \in TreasuryType /\ rewards \in RewardsType
      /\ \A v \in Users : rewards[v] \in RewardAccountType
  BY SoundParts DEF RewardsType
<1>1. CASE UNCHANGED allVars \/ (Next /\ UNCHANGED economyVars)
  BY <1>1 DEF allVars
<1>2. ASSUME NEW i \in DOMAIN fees, PayOutstandingFees(i)
      PROVE  Beside
  <2>1. PICK credit : treasury' = AbsorbProtocolLend(treasury, credit)
    BY <1>2 DEF PayOutstandingFees
  <2>2. treasury'.disbursed = treasury.disbursed /\ treasury'.repaid = treasury.repaid
    BY <1>0, <2>1, ReserveBeside
  <2>3. /\ fees' = [fees EXCEPT ![i] = Cleared(@)]
        /\ UNCHANGED <<book, reputation, rewards, referral>>
    BY <1>2, Zenon DEF PayOutstandingFees, standing
  <2> QED
    BY <2>2, <2>3 DEF Beside
<1>3. ASSUME NEW u \in Users, NEW amount, Stake(u, amount) \/ Unstake(u, amount)
      PROVE  Beside
  BY <1>3 DEF Stake, Unstake, Beside, standing
<1>4. ASSUME NEW u \in Users, ClaimStakingRewards(u)
      PROVE  Beside
  BY <1>0, <1>4, ReserveBeside DEF ClaimStakingRewards, PayOut, Beside, standing
<1>5. ASSUME NEW u \in Users, ClaimLend(u)
      PROVE  Beside
  <2>1. /\ treasury' = ReleaseReward(treasury, rewards[u].claimable)
        /\ rewards' = [rewards EXCEPT ![u] = Claimed(@)]
        /\ UNCHANGED <<book, reputation, referral, fees>>
    BY <1>5 DEF ClaimLend, PayOut
  <2>2. \A v \in Users : rewards'[v].lifetime = rewards[v].lifetime
    <3> TAKE v \in Users
    <3>1. CASE v = u
      BY <1>0, <2>1, <3>1, ClaimedFacts DEF RewardsType
    <3>2. CASE v # u
      BY <1>0, <2>1, <3>2 DEF RewardsType
    <3> QED
      BY <3>1, <3>2
  <2> QED
    BY <1>0, <2>1, <2>2, ReserveBeside DEF Beside
<1>6. ASSUME NEW u \in Users, Purchase(u)
      PROVE  Beside
  <2>1. Bought(u)
    BY <1>0, <1>6, PurchaseFacts
  <2>2. PICK f \in RewardAccountType :
          rewards' = [rewards EXCEPT ![u] = f] /\ f.lifetime = rewards[u].lifetime
    BY <2>1 DEF Bought, Spends
  <2>3. \A v \in Users : rewards'[v].lifetime = rewards[v].lifetime
    BY <1>0, <2>2 DEF RewardsType
  <2> QED
    BY <2>1, <2>3 DEF Bought, Beside, money
<1>7. ASSUME NEW u \in Users, NEW v \in Users, NEW amount,
             Transfer(u, v, amount) \/ DepositToProtocolReserve(u, amount)
      PROVE  Beside
  BY <1>0, <1>7, ReserveBeside DEF Transfer, DepositToProtocolReserve, Beside, standing
<1>8. ASSUME NEW amount, MintToProtocolReserve(amount)
      PROVE  Beside
  BY <1>0, <1>8, ReserveBeside DEF MintToProtocolReserve, Beside, standing
<1>9. ASSUME NEW u \in Users, StakeStep(u) \/ RewardStep(u) \/ TokenStep(u)
      PROVE  Beside
  <2>1. CASE StakeStep(u)
    BY <1>3, <1>4, <2>1 DEF StakeStep
  <2>2. CASE RewardStep(u)
    BY <1>5, <1>6, <2>2 DEF RewardStep, Purchase
  <2>3. CASE TokenStep(u)
    BY <1>7, <2>3 DEF TokenStep
  <2> QED
    BY <1>9, <2>1, <2>2, <2>3
<1> QED
  BY <1>1, <1>2, <1>8, <1>9 DEF EconomyNext

LEMMA BesideKeepsBook ==
  ASSUME TypeOK, [Next]_vars \/ Beside
  PROVE  BookStep
BY BookSteps DEF Beside, BookStep

BookSound == OneOpenCredit /\ ApprovedOnce /\ LoanConsistent

LEMMA BookStarts == Init => BookSound
BY DEF Init, BookSound, OneOpenCredit, HasPending, HasActive, ApprovedOnce, LoanConsistent

LEMMA BookStays ==
  ASSUME TypeOK, BookSound, [Next]_vars \/ Beside
  PROVE  BookSound' /\ [SettledStep]_vars
<1>1. BookStep
  BY BesideKeepsBook
<1>2. OneOpenCredit' /\ ApprovedOnce' /\ LoanConsistent'
  BY <1>1, OneOpenStep, ApprovedOnceStep, LoanConsistentStep DEF BookSound
<1> QED
  BY <1>1, <1>2, Settled DEF BookSound

\* Whatever the economy does in between, no borrower has two credits open, every
\* approved request is one loan, and what a loan says of itself agrees.
THEOREM EconomyKeepsBook == EconomySpec => [](OneOpenCredit /\ ApprovedOnce /\ LoanConsistent)
<1>1. EconomyInit => BookSound
  BY BookStarts DEF EconomyInit
<1>2. EconomySound /\ BookSound /\ [EconomyNext]_allVars => BookSound'
  BY SoundParts, EconomyBeside, BookStays
<1>3. BookSound => OneOpenCredit /\ ApprovedOnce /\ LoanConsistent
  BY DEF BookSound
<1> QED
  BY <1>1, <1>2, <1>3, SoundAlways, PTL DEF EconomySpec

\* Nothing the economy does reopens a decided request or a settled loan.
THEOREM EconomySettledForever == EconomySpec => SettledForever
<1>1. EconomySound /\ [EconomyNext]_allVars => [SettledStep]_vars
  BY SoundParts, EconomyBeside, BesideKeepsBook, Settled
<1> QED
  BY <1>1, SoundAlways, PTL DEF EconomySpec, SettledForever

LEMMA FeesMatchBeside ==
  ASSUME EconomySound, FeesMatchLoans, Beside
  PROVE  FeesMatchLoans'
<1>1. CASE fees' = fees
  BY <1>1 DEF Beside, book, FeesMatchLoans
<1>2. ASSUME NEW i \in DOMAIN fees, fees' = [fees EXCEPT ![i] = Cleared(@)]
      PROVE  FeesMatchLoans'
  <2>1. fees \in Seq(FeeStateType) /\ fees[i] \in FeeStateType
    BY SoundParts, PaidType DEF FeesType
  <2>2. Cleared(fees[i]).borrower = fees[i].borrower /\ Cleared(fees[i]).lateDue = 0
    BY <2>1 DEF FeeStateType, Cleared
  <2>3. /\ DOMAIN fees' = DOMAIN fees /\ Len(fees') = Len(fees)
        /\ \A j \in DOMAIN fees : fees'[j] = IF j = i THEN Cleared(fees[i]) ELSE fees[j]
    BY <1>2, <2>1
  <2>4. \A j \in DOMAIN fees : /\ fees'[j].borrower = fees[j].borrower
                               /\ fees'[j] = fees[j] \/ fees'[j].lateDue = 0
    BY <2>2, <2>3
  <2>5. loans' = loans /\ reputation' = reputation
    BY DEF Beside, book
  <2> QED
    BY <2>3, <2>4, <2>5 DEF FeesMatchLoans
<1> QED
  BY <1>1, <1>2 DEF Beside

LEMMA FeesMatchStay ==
  ASSUME EconomySound, EconomySound', FeesMatchLoans, [Next]_vars \/ Beside
  PROVE  FeesMatchLoans'
<1>1. TypeOK /\ TypeOK'
  BY DEF EconomySound, EconomyTypeOK
<1> QED
  BY <1>1, FeesMatchStep, FeesMatchBeside

\* The fee states stay those of the loans when fees are paid in LEND.
THEOREM EconomyFeesMatch == EconomySpec => []FeesMatchLoans
<1>1. EconomyInit => FeesMatchLoans
  BY DEF EconomyInit, Init, FeesMatchLoans
<1>2. ASSUME EconomySound, EconomySound', FeesMatchLoans, [EconomyNext]_allVars
      PROVE  FeesMatchLoans'
  BY <1>2, EconomyBeside, FeesMatchStay
<1> QED
  BY <1>1, <1>2, SoundAlways, PTL DEF EconomySpec

StandingSound ==
  ReputationMatchesBook /\ ReferralsSound(referral) /\ PointsExplained /\ TotalsMatchBook

LEMMA StandingStarts == Init => StandingSound
BY HistoryStarts, ReferralsStart, PointsStart, TotalsStart DEF StandingSound

LEMMA StandingStays ==
  ASSUME EconomySound, StandingSound, [Next]_vars \/ Beside
  PROVE  StandingSound'
<1>1. /\ TypeOK /\ ReputationMatchesBook /\ ReferralsSound(referral)
      /\ PointsExplained /\ TotalsMatchBook
  BY SoundParts DEF StandingSound
<1>2. CASE [Next]_vars
  <2>1. ReferralsSound(referral')
    BY <1>1, <1>2, ReferralsStep
  <2>2. ReputationMatchesBook' /\ PointsExplained' /\ TotalsMatchBook'
    BY <1>1, <1>2, HistoryStep, PointsStep, TotalsStep
  <2> QED
    BY <2>1, <2>2 DEF StandingSound
<1>3. CASE Beside
  <2>1. UNCHANGED <<requests, loans, reputation, referral>>
    BY <1>3 DEF Beside, book
  <2>2. ReferralsSound(referral')
    BY <1>1, <2>1
  <2>3. ReputationMatchesBook'
    <3> DEFINE asked(rq, u) == {i \in DOMAIN rq : rq[i].borrower = u}
               held(ln, u) == {j \in DOMAIN ln : ln[j].borrower = u}
               ended(ln, u, s) == {j \in held(ln, u) : ln[j].status = s}
               paid(ln, u) == [j \in held(ln, u) |-> ln[j].paid]
               told(rq, ln, rp) ==
                 \A u \in Users :
                   /\ rp[u].requested = Cardinality(asked(rq, u))
                   /\ rp[u].approved = Cardinality(held(ln, u))
                   /\ rp[u].repaid = Cardinality(ended(ln, u, "repaid"))
                   /\ rp[u].defaulted = Cardinality(ended(ln, u, "defaulted"))
                   /\ rp[u].onTime + rp[u].late = SumFunction(paid(ln, u))
    <3>1. told(requests, loans, reputation)
      BY Zenon, <1>1 DEF ReputationMatchesBook
    <3>2. requests' = requests /\ loans' = loans /\ reputation' = reputation
      BY <2>1
    <3>3. told(requests', loans', reputation')
      <4> HIDE DEF told
      <4> QED
        BY <3>1, <3>2
    <3> QED
      BY Zenon, <3>3 DEF ReputationMatchesBook
  <2>4. PointsExplained'
    BY <1>1, <1>3, <2>1 DEF Beside, PointsExplained
  <2>5. TotalsMatchBook'
    BY <1>1, <1>3, <2>1 DEF Beside, TotalsMatchBook
  <2> QED
    BY <2>2, <2>3, <2>4, <2>5 DEF StandingSound
<1> QED
  BY <1>2, <1>3

LEMMA StandingExplains ==
  StandingSound => /\ ReputationMatchesBook /\ ReferralBooksAgree
                   /\ PointsExplained /\ TotalsMatchBook
BY DEF StandingSound, ReferralsSound, RecordAgrees, Referees, Live, Points,
       ReferralBooksAgree

\* The history, the referral records, the points granted and the treasury's totals
\* are still what the tables explain when points are spent and LEND is staked.
THEOREM EconomyKeepsStanding ==
  EconomySpec => [](ReputationMatchesBook /\ ReferralBooksAgree /\ PointsExplained
                    /\ TotalsMatchBook)
<1>1. EconomyInit => StandingSound
  BY StandingStarts DEF EconomyInit
<1>2. EconomySound /\ StandingSound /\ [EconomyNext]_allVars => StandingSound'
  BY EconomyBeside, StandingStays
<1> QED
  BY <1>1, <1>2, StandingExplains, SoundAlways, PTL DEF EconomySpec

-----------------------------------------------------------------------------
(* What the pages offer.  Each handler checks one record of an amount; that   *)
(* the contract's own checks then hold too rests on the invariants above.     *)

LEMMA ClaimsStand ==
  ASSUME EconomySound, VaultsMatchCounters, ~paused, NEW u \in Users
  PROVE  ClaimsAccepted(u)
<1> DEFINE claimable == rewards[u].claimable
           earned == Harvest(staking, u)
<1>1. /\ claimable \in Nat /\ earned \in Nat /\ lend.reserve \in Nat
      /\ treasury.rewardReserve = lend.reserve
  <2>1. rewards[u] \in RewardAccountType
    BY SoundParts DEF RewardsType
  <2> QED
    BY <2>1, SoundParts, AccountParts, HarvestedFacts DEF VaultsMatchCounters, Balanced
<1>2. Page(u).claimable = claimable /\ Page(u).stakingRewards = earned
  BY DEF Page
<1>3. /\ Accepts(u, ClaimMessage("claim_lend")) = MayClaimLend(u)
      /\ Accepts(u, ClaimMessage("claim_rewards")) = MayClaimStakingRewards(u)
  BY DEF Accepts, ClaimMessage
<1>4. claimable # 0 /\ claimable <= lend.reserve => MayClaimLend(u)
  BY <1>1 DEF MayClaimLend, MayPayOut, CanDistribute, CanSpendReserve
<1>5. earned # 0 /\ earned <= lend.reserve
        => MayClaimStakingRewards(u) \/ HarvestOverflows(u)
  BY <1>1 DEF MayClaimStakingRewards, MayPayOut, CanDistribute, CanSpendReserve,
              HarvestOverflows
<1>6. /\ ReserveShort(claimable) \/ claimable <= lend.reserve
      /\ ReserveShort(earned) \/ earned <= lend.reserve
      /\ lend.reserve - claimable < earned \/ earned <= lend.reserve
  BY <1>1 DEF ReserveShort
<1> HIDE DEF claimable, earned
<1> QED
  BY <1>2, <1>3, <1>4, <1>5, <1>6
  DEF ClaimsAccepted, OfferClaimLend, OfferClaimStakingRewards, LeftForSecond

LEMMA StakesStand ==
  ASSUME EconomySound, ~paused, NEW u \in Users
  PROVE  StakesAccepted(u)
<1>1. /\ lend.wallet[u] \in Nat /\ lend.staked[u] \in Nat
      /\ staking.positions[u].staked = lend.staked[u]
  BY SoundParts, LendParts DEF EconomySound, StakeBooksAgree
<1>2. Page(u).liquid = lend.wallet[u] /\ Page(u).staked = lend.staked[u]
  BY DEF Page
<1> SUFFICES ASSUME NEW amount \in 0..(Page(u).liquid + Page(u).staked)
             PROVE  /\ OfferStake(Page(u), amount) =>
                         \/ Accepts(u, StakeMessage("stake", amount))
                         \/ StakeOverflows(u, amount)
                    /\ OfferUnstake(Page(u), amount) =>
                         \/ Accepts(u, StakeMessage("unstake", amount))
                         \/ StakeOverflows(u, -amount)
  BY DEF StakesAccepted
<1>3. /\ Accepts(u, StakeMessage("stake", amount)) = MayStake(u, amount)
      /\ Accepts(u, StakeMessage("unstake", amount)) = MayUnstake(u, amount)
  BY DEF Accepts, StakeMessage
<1>4. amount \in Nat
  BY <1>1, <1>2
<1>5. OfferStake(Page(u), amount) => MayStake(u, amount) \/ StakeOverflows(u, amount)
  BY <1>1, <1>2, <1>4 DEF OfferStake, MayStake, StakeOverflows, CanPay
<1>6. OfferUnstake(Page(u), amount) => MayUnstake(u, amount) \/ StakeOverflows(u, -amount)
  BY <1>1, <1>2, <1>4 DEF OfferUnstake, MayUnstake, StakeOverflows
<1> QED
  BY <1>3, <1>5, <1>6

LEMMA FeesStand ==
  ASSUME EconomySound, FeesMatchLoans, ~paused, NEW u \in Users
  PROVE  FeesAccepted(u)
<1> SUFFICES ASSUME NEW i \in DOMAIN loans, OfferPayFees(u, i)
             PROVE  \/ Accepts(u, LoanMessage("pay_outstanding_fees_in_lend", i))
                    \/ NoLendForFees(u, i) \/ FeesDiscountedAway(i) \/ FundingOverflows(i)
  BY DEF FeesAccepted
<1>1. i \in ActiveOf(u)
  BY DEF OfferPayFees, FeeCard, Enabled
<1>2. i \in DOMAIN fees /\ fees[i].borrower = u
  <2>1. DOMAIN loans = 1..Len(loans) /\ DOMAIN fees = 1..Len(fees)
    BY SoundParts DEF TypeOK, FeesType
  <2> QED
    BY <1>1, <2>1 DEF FeesMatchLoans, ActiveOf
<1>3. fees[i] \in FeeStateType
  BY <1>2, SoundParts, PaidType
<1> DEFINE shares == SharesOf(fees[i])
           due == DueInLend(fees[i])
<1>4. shares.treasury + shares.staking + shares.burn = due /\ due \in Nat
  BY <1>3, SharesFacts
<1>5. lend.wallet[u] \in Nat
  BY SoundParts, LendParts
<1>6. Accepts(u, LoanMessage("pay_outstanding_fees_in_lend", i))
        = (MayPayFees(i) /\ fees[i].borrower = u)
  BY DEF Accepts, LoanMessage
<1>7. MayPayFees(i) = /\ ~paused /\ due > 0
                      /\ CanPay(lend, u, shares.treasury + shares.staking + shares.burn)
                      /\ CanFund(staking, shares.staking)
  BY <1>2 DEF MayPayFees
<1>8. /\ NoLendForFees(u, i) = (lend.wallet[u] < due)
      /\ FeesDiscountedAway(i) = (due = 0)
      /\ FundingOverflows(i) = ~CanFund(staking, shares.staking)
  BY DEF NoLendForFees, FeesDiscountedAway, FundingOverflows
<1>9. CanPay(lend, u, shares.treasury + shares.staking + shares.burn)
        <=> lend.wallet[u] >= due
  BY <1>4 DEF CanPay
<1> HIDE DEF shares, due
<1>10. \/ MayPayFees(i) \/ due = 0 \/ lend.wallet[u] < due
       \/ ~CanFund(staking, shares.staking)
  BY <1>4, <1>5, <1>7, <1>9
<1> QED
  BY <1>2, <1>6, <1>8, <1>10

LEMMA PurchasesStand ==
  ASSUME EconomySound, ~paused, NEW u \in Users
  PROVE  PurchasesAccepted(u)
<1> DEFINE held == rewards[u].points
<1>1. /\ held \in Nat /\ rewards[u].limitBoostBps \in Nat
      /\ rewards[u].interestDiscountBps \in Nat
  BY SoundParts DEF RewardsType, RewardAccountType
<1>2. Page(u).points = held
  BY DEF Page
<1>3. /\ PagePrices.limitBoost \in Nat /\ PagePrices.interestPercent \in Nat
      /\ PagePrices.premiumCheck \in Nat /\ PagePrices.badge \in Nat
  BY OffersAssumption
<1>4. \A points \in Nat : points <= held => MaySpend(u, points)
  BY <1>1 DEF MaySpend, CanSpend
<1>5. ASSUME NEW points \in 0..Page(u).points, OfferRedeem(Page(u), points)
      PROVE  Accepts(u, SpendPointsMessage("redeem_points_to_claimable_lend", points))
  <2>1. points \in Nat /\ points > 0 /\ points <= held
    BY <1>1, <1>2, <1>5 DEF OfferRedeem
  <2>2. MayRedeem(u, points)
    BY <1>4, <2>1 DEF MayRedeem
  <2> QED
    BY <2>2 DEF Accepts, SpendPointsMessage
<1>6. ASSUME OfferLimitBoost(Page(u)), ~BoostsExhausted(u),
             ~PriceRaised(PagePrices.limitBoost, Policy.limitBoostCost)
      PROVE  Accepts(u, ClaimMessage("spend_points_for_limit_boost"))
  <2>1. Policy.limitBoostCost <= held
    BY <1>1, <1>2, <1>3, <1>6, PerkFacts DEF OfferLimitBoost, PriceRaised
  <2>2. rewards[u].limitBoostBps <= MaxLimitBoost - Policy.limitBoostBps
    BY <1>1, <1>6, PerkFacts DEF BoostsExhausted, MaxLimitBoost
  <2>3. MayBoost(u)
    BY <1>4, <2>1, <2>2, PerkFacts DEF MayBoost
  <2> QED
    BY <2>3 DEF Accepts, ClaimMessage
<1>7. ASSUME NEW percent \in Percents, OfferInterestDiscount(Page(u), percent),
             ~DiscountsExhausted(u, percent),
             ~PriceRaised(PagePrices.interestPercent, Policy.interestCostPerPercent)
      PROVE  Accepts(u, SpendPointsMessage("spend_points_for_interest_discount", percent))
  <2>1. percent \in Nat
    BY EconomyAssumption
  <2>2. PICK price \in Nat, cost \in Nat :
          price = PagePrices.interestPercent /\ cost = Policy.interestCostPerPercent
    BY <1>3, PerkFacts
  <2>3. cost <= price
    BY <1>7, <2>2 DEF PriceRaised
  <2>4. percent * cost <= percent * price /\ percent * cost \in Nat /\ percent * price \in Nat
    BY <2>1, <2>2, <2>3
  <2>5. percent > 0 /\ percent * price <= held
    BY <1>1, <1>2, <1>7, <2>1, <2>2, <2>4 DEF OfferInterestDiscount
  <2>6. percent * Policy.interestCostPerPercent = percent * cost
    BY <2>2
  <2>7. MaySpend(u, percent * Policy.interestCostPerPercent)
    <3>1. percent * cost <= held
      BY <1>1, <2>4, <2>5
    <3> QED
      BY <1>4, <2>4, <2>6, <3>1
  <2>8. /\ percent <= MaxInterestPurchase
        /\ rewards[u].interestDiscountBps <= MaxInterestDiscount - percent * 100
    BY <1>1, <1>7, <2>1 DEF DiscountsExhausted, MaxInterestPurchase, MaxInterestDiscount
  <2>9. MayDiscount(u, percent)
    BY <2>5, <2>7, <2>8 DEF MayDiscount
  <2> QED
    BY <2>9 DEF Accepts, SpendPointsMessage
<1>8. ASSUME OfferPremiumCheck(Page(u)),
             ~PriceRaised(PagePrices.premiumCheck, Policy.premiumCheckCost)
      PROVE  Accepts(u, ClaimMessage("unlock_premium_credit_check"))
  <2>1. MaySpend(u, Policy.premiumCheckCost)
    BY <1>1, <1>2, <1>3, <1>4, <1>8, PerkFacts DEF OfferPremiumCheck, PriceRaised
  <2> QED
    BY <2>1 DEF Accepts, ClaimMessage
<1>9. ASSUME OfferBadge(Page(u)), ~PriceRaised(PagePrices.badge, Policy.badgeCost)
      PROVE  Accepts(u, ClaimMessage("redeem_exclusive_badge"))
  <2>1. MaySpend(u, Policy.badgeCost)
    BY <1>1, <1>2, <1>3, <1>4, <1>9, PerkFacts DEF OfferBadge, PriceRaised
  <2> QED
    BY <2>1 DEF Accepts, ClaimMessage
<1> QED
  BY <1>5, <1>6, <1>7, <1>8, <1>9 DEF PurchasesAccepted

LEMMA OffersStand == EconomySound /\ VaultsMatchCounters /\ FeesMatchLoans => OffersAccepted
BY ClaimsStand, StakesStand, FeesStand, PurchasesStand DEF OffersAccepted

\* What a page offers after it synchronised, the contract accepts, for every
\* amount, balance, price and policy, but for the causes the property names.
\* The claims rest on the reserve being what its vault holds, an unstake on the
\* registry agreeing with the ledger, a fee payment on the fee states being those
\* of the loans.
THEOREM OffersAcceptedAlways == EconomySpec => []OffersAccepted
BY OffersStand, SoundAlways, EconomyVaultsMatch, EconomyFeesMatch, PTL

=============================================================================
