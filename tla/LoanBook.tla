------------------------------ MODULE LoanBook ------------------------------
(***************************************************************************)
(* The credit life cycle of the LendPay package (credit/loan_book.move):     *)
(* requests, approval, installments, default and the collateral behind them. *)
(* Each entry function is one transaction, hence one action, and carries     *)
(* every call it makes: treasury, LEND ledger, reputation, rewards,          *)
(* referral and fees.  A transaction that aborts leaves no trace, so an      *)
(* assert! is a conjunct of the guard.                                      *)
(*                                                                         *)
(* Requests and loans are only appended and get consecutive ids, so an id    *)
(* is a position: next_request_id is Len(requests) + 1.  The borrower's      *)
(* balance of the loan asset is outside the model: a repayment the borrower  *)
(* cannot cover is a repayment that does not happen.                         *)
(***************************************************************************)
EXTENDS Treasury, LendToken, Reputation, Rewards, Referral, FeeEngine, Profiles,
        FiniteSets, FiniteSetsExt

CONSTANTS
  Month,              \* SECONDS_PER_MONTH, in ticks of the clock
  Amounts, Tenors,    \* what a borrower may ask for
  Collaterals,        \* what a borrower may offer, an admin may withdraw
  Aprs, Installments, Graces,   \* the terms an admin may approve
  Deposits,           \* what the treasury admin may add
  Referrers,          \* the users that ask for a referral code
  InitialWallet, InitialLiquidity,   \* the funded deployment: all LEND was
  InitialReserve, InitialDistributed,   \* minted to the reserve, part distributed
  MaxTime, MaxRequests, MaxDeposited, MaxReferralPoints   \* bounds of the model

ASSUME LoanBookAssumption ==
  /\ Month \in Nat \ {0}
  /\ Amounts \subseteq Nat /\ Tenors \subseteq Nat /\ Collaterals \subseteq Nat
  /\ Aprs \subseteq Nat /\ Installments \subseteq Nat /\ Graces \subseteq Nat
  /\ Deposits \subseteq Nat /\ Referrers \subseteq Users
  /\ InitialWallet \in [Users -> Nat]
  /\ InitialLiquidity \in Nat /\ InitialReserve \in Nat
  /\ InitialDistributed \in Nat
  /\ InitialDistributed = SumFunction(InitialWallet)
  /\ MaxTime \in Nat /\ MaxRequests \in Nat
  /\ MaxDeposited \in Nat /\ MaxReferralPoints \in Nat
  /\ IsFiniteSet(Users)
  /\ 0 \notin DOMAIN Profiles

VARIABLES
  now,          \* timestamp::now_seconds()
  paused,       \* Config.package_paused
  requests, loans,                  \* LoanBook
  treasury, lend,                   \* Treasury, LendLedger
  reputation, rewards, referral,    \* the three per-user registries
  fees                              \* FeeRegistry.states

book == <<requests, loans>>
money == <<treasury, lend>>
standing == <<reputation, rewards, referral>>
vars == <<now, paused, requests, loans, treasury, lend,
          reputation, rewards, referral, fees>>

Unspecified == 0   \* PROFILE_UNSPECIFIED

RequestType ==
  [borrower : Users, profile : DOMAIN Profiles \cup {Unspecified},
   amount : Nat, collateral : Nat, tenor : Nat,
   status : {"pending", "approved", "rejected", "cancelled"}]

LoanType ==
  [request : Nat, borrower : Users, amount : Nat, collateral : Nat,
   collateralState : {"none", "locked", "returned", "liquidated"},
   apr : Nat, installment : Nat, total : Nat, paid : Nat,
   issued : Nat, due : Nat, grace : Nat, repaid : Nat,
   status : {"active", "repaid", "defaulted"}]

Init ==
  /\ now = 0 /\ paused = FALSE
  /\ requests = <<>> /\ loans = <<>> /\ fees = <<>>
  /\ treasury = FundedTreasury(InitialLiquidity, InitialReserve, InitialDistributed)
  /\ lend = [wallet |-> InitialWallet, staked |-> [u \in Users |-> 0],
             reserve |-> InitialReserve, stakingVault |-> 0,
             minted |-> InitialReserve + InitialDistributed, burned |-> 0]
  /\ reputation = NoHistory /\ rewards = NoRewards /\ referral = NoReferrals

-----------------------------------------------------------------------------
(* The views the entry functions consult.                                   *)

PendingOf(u) == {i \in DOMAIN requests :
                   requests[i].borrower = u /\ requests[i].status = "pending"}
ActiveOf(u) == {i \in DOMAIN loans :
                  loans[i].borrower = u /\ loans[i].status = "active"}

\* Fault: only the newest request is looked at.
HasPendingNewest(u) ==
  /\ requests # <<>>
  /\ requests[Len(requests)].borrower = u /\ requests[Len(requests)].status = "pending"

HasPending(u) == \E i \in DOMAIN requests :
                   requests[i].borrower = u /\ requests[i].status = "pending"
HasActive(u) == \E i \in DOMAIN loans :
                  loans[i].borrower = u /\ loans[i].status = "active"

\* locked_collateral_of
LockedCollateralOf(u) ==
  SumFunction([i \in PendingOf(u) |-> requests[i].collateral])
  + SumFunction([i \in {j \in ActiveOf(u) : loans[j].collateralState = "locked"} |->
                   loans[i].collateral])

-----------------------------------------------------------------------------
(* Opening a request.                                                       *)

\* request_loan_internal; amount and tenor pass assert_request_terms.
OpenRequest(u, profile, amount, collateral, tenor) ==
  /\ ~paused /\ amount > 0 /\ tenor > 0 /\ tenor <= Policy.maxTenor
  /\ ~HasPending(u) /\ ~HasActive(u)
  /\ Len(requests) < MaxRequests
  /\ requests' = Append(requests,
       [borrower |-> u, profile |-> profile, amount |-> amount,
        collateral |-> collateral, tenor |-> tenor, status |-> "pending"])
  /\ reputation' = RecordRequest(reputation, u)
  /\ rewards' = RewardRequest(rewards, u)
  /\ UNCHANGED <<now, paused, loans, referral, fees>>

RequestLoan(u, amount, tenor) ==
  OpenRequest(u, Unspecified, amount, 0, tenor) /\ UNCHANGED money

RequestProfiledLoan(u, p, amount, tenor) ==
  /\ PlainRequestAllowed(p, amount, tenor, TotalBalance(lend, u),
                         rewards[u].limitBoostBps)
  /\ OpenRequest(u, p, amount, 0, tenor)
  /\ UNCHANGED money

RequestCollateralizedLoan(u, p, amount, collateral, tenor) ==
  /\ CollateralRequestAllowed(p, amount, tenor, TotalBalance(lend, u),
                              rewards[u].limitBoostBps, collateral)
  /\ collateral > 0 /\ CanPay(lend, u, collateral)
  /\ lend' = Debit(lend, u, collateral)
  /\ treasury' = LockCollateral(treasury, collateral)
  /\ OpenRequest(u, p, amount, collateral, tenor)

-----------------------------------------------------------------------------
(* Deciding a request.                                                      *)

\* The APR after the holder and points discounts, never under the minimum.
EffectiveApr(u, apr) ==
  LET discount == TierAprDiscount(TotalBalance(lend, u)) + rewards[u].interestDiscountBps
      discounted == IF apr > discount THEN apr - discount ELSE 0
  IN IF discounted < MinEffectiveApr THEN MinEffectiveApr ELSE discounted

\* Fault: an approval leaves the request as it was.
DecidedButApproved(request, outcome) ==
  IF outcome = "approved" THEN request ELSE [request EXCEPT !.status = outcome]

Decided(request, outcome) == [request EXCEPT !.status = outcome]

NewLoan(i, apr, installment, grace) ==
  LET r == requests[i]
  IN [request |-> i, borrower |-> r.borrower, amount |-> r.amount,
      collateral |-> r.collateral,
      collateralState |-> IF r.collateral > 0 THEN "locked" ELSE "none",
      apr |-> EffectiveApr(r.borrower, apr),
      installment |-> installment, total |-> r.tenor, paid |-> 0,
      issued |-> now, due |-> now + Month, grace |-> grace, repaid |-> 0,
      status |-> "active"]

\* Fault: the referee gets the points of its referrer.
RewardedReferee(rw, u, firstLoan) ==
  IF PaysReferrer(referral, u, firstLoan)
  THEN RewardReferral(rw, u, ReferrerPoints(firstLoan)) ELSE rw

\* The referrer, if the referral engine pays one, receives the points.
RewardedWithReferral(rw, u, firstLoan) ==
  IF PaysReferrer(referral, u, firstLoan)
  THEN RewardReferral(rw, referral[u].referrer, ReferrerPoints(firstLoan))
  ELSE rw

\* installments_total is an argument, but must equal the requested tenor.
ApproveRequest(i, apr, installment, grace) ==
  LET r == requests[i]
      u == r.borrower
      balance == TotalBalance(lend, u)
  IN /\ ~paused /\ installment > 0 /\ r.tenor > 0
     /\ r.status = "pending" /\ ~HasActive(u)
     /\ CanDisburse(treasury, r.amount)
     /\ CanDiscount(OriginationBase(r.amount), TierFeeDiscount(balance))
     /\ requests' = [requests EXCEPT ![i] = Decided(@, "approved")]
     /\ loans' = Append(loans, NewLoan(i, apr, installment, grace))
     /\ treasury' = Disburse(treasury, r.amount)
     /\ reputation' = RecordApproval(reputation, u)
     /\ rewards' = RewardedWithReferral(RewardApproval(rewards, u), u, TRUE)
     /\ referral' = CreditReferrer(referral, u, TRUE)
     /\ fees' = AssessOriginationFee(fees, Len(loans) + 1, u, r.amount, balance)
     /\ UNCHANGED <<now, paused, lend>>

\* Fault: the collateral stays in the vault.
CloseAndKeep(i, outcome) ==
  /\ requests[i].status = "pending"
  /\ requests' = [requests EXCEPT ![i] = Decided(@, outcome)]
  /\ UNCHANGED <<now, paused, loans, treasury, lend, standing, fees>>

\* Fault: a request that was approved can still be closed.
CloseUnlessClosed(i, outcome) ==
  LET r == requests[i]
  IN /\ r.status \in {"pending", "approved"}
     /\ CanUnlock(treasury, r.collateral)
     /\ requests' = [requests EXCEPT ![i] = Decided(@, outcome)]
     /\ treasury' = ReleaseCollateral(treasury, r.collateral)
     /\ lend' = Credit(lend, r.borrower, r.collateral)
     /\ UNCHANGED <<now, paused, loans, standing, fees>>

\* Shared by reject_request and cancel_request: close it, return the collateral.
CloseRequest(i, outcome) ==
  LET r == requests[i]
  IN /\ r.status = "pending"
     /\ CanUnlock(treasury, r.collateral)
     /\ requests' = [requests EXCEPT ![i] = Decided(@, outcome)]
     /\ treasury' = ReleaseCollateral(treasury, r.collateral)
     /\ lend' = Credit(lend, r.borrower, r.collateral)
     /\ UNCHANGED <<now, paused, loans, standing, fees>>

RejectRequest(i) == CloseRequest(i, "rejected")
CancelRequest(i) == CloseRequest(i, "cancelled")

-----------------------------------------------------------------------------
(* Servicing a loan.                                                        *)

\* Fault: the next due date is counted from the payment.
AfterInstallmentFromNow(loan) ==
  LET final == loan.paid + 1 = loan.total
  IN [loan EXCEPT
        !.paid = @ + 1, !.repaid = @ + loan.installment,
        !.status = IF final THEN "repaid" ELSE @,
        !.due = IF final THEN 0 ELSE now + Month,
        !.collateralState = IF final /\ @ = "locked" THEN "returned" ELSE @]

\* Fault: the last installment does not reach the amount repaid.
AfterInstallmentUnrecorded(loan) ==
  LET final == loan.paid + 1 = loan.total
  IN [loan EXCEPT
        !.paid = @ + 1, !.repaid = IF final THEN @ ELSE @ + loan.installment,
        !.status = IF final THEN "repaid" ELSE @,
        !.due = IF final THEN 0 ELSE @ + Month,
        !.collateralState = IF final /\ @ = "locked" THEN "returned" ELSE @]

AfterInstallment(loan) ==
  LET final == loan.paid + 1 = loan.total
  IN [loan EXCEPT
        !.paid = @ + 1, !.repaid = @ + loan.installment,
        !.status = IF final THEN "repaid" ELSE @,
        !.due = IF final THEN 0 ELSE @ + Month,
        !.collateralState = IF final /\ @ = "locked" THEN "returned" ELSE @]

AfterDefault(loan) ==
  [loan EXCEPT
     !.status = "defaulted",
     !.collateralState = IF @ = "locked" THEN "liquidated" ELSE @]

\* The collateral a payment (final) or a default sets free.
Freed(loan, settles) ==
  IF settles /\ loan.collateralState = "locked" THEN loan.collateral ELSE 0

RepayInstallment(i) ==
  LET loan == loans[i]
      u == loan.borrower
      onTime == now <= loan.due + loan.grace
      final == loan.paid + 1 = loan.total
      refund == Freed(loan, final)
      burn == IF final THEN Burnable(lend, BurnForFullRepayment(loan.amount)) ELSE 0
      balance == TotalBalance(lend, u)
      paidRewards == RewardPayment(rewards, u, onTime)
      earned == IF onTime THEN RewardedWithReferral(paidRewards, u, FALSE)
                ELSE paidRewards
      recorded == RecordPayment(reputation, u, onTime)
  IN /\ ~paused /\ loan.status = "active" /\ loan.paid < loan.total
     /\ loan.installment > 0
     /\ CanUnlock(treasury, refund) /\ CanSpendReserve(treasury, burn)
     /\ onTime \/ CanDiscount(LateBase(loan.installment), TierFeeDiscount(balance))
     /\ loans' = [loans EXCEPT ![i] = AfterInstallment(@)]
     /\ treasury' = BurnProtocolLend(
                      ReleaseCollateral(RecordRepayment(treasury, loan.installment),
                                        refund), burn)
     /\ lend' = BurnReserve(Credit(lend, u, refund), burn)
     /\ reputation' = IF final THEN RecordFullRepayment(recorded, u) ELSE recorded
     /\ rewards' = IF final THEN RewardFullRepayment(earned, u) ELSE earned
     /\ referral' = IF onTime THEN CreditReferrer(referral, u, FALSE) ELSE referral
     /\ fees' = IF onTime THEN fees
                ELSE AssessLateFee(fees, i, u, loan.installment, balance)
     /\ UNCHANGED <<now, paused, requests>>

\* An admin may do this while the package is paused, when nobody can repay.
MarkDefault(i) ==
  LET loan == loans[i]
      seized == Freed(loan, TRUE)
  IN /\ loan.status = "active" /\ now >= loan.due + loan.grace
     /\ CanUnlock(treasury, seized)
     /\ loans' = [loans EXCEPT ![i] = AfterDefault(@)]
     /\ treasury' = LiquidateCollateral(treasury, seized)
     /\ reputation' = RecordDefault(reputation, loan.borrower)
     /\ rewards' = PenalizeDefault(rewards, loan.borrower)
     /\ referral' = MarkReferralDefault(referral, loan.borrower)
     /\ UNCHANGED <<now, paused, requests, lend, fees>>

-----------------------------------------------------------------------------
(* The other entry points that touch this state.                            *)

\* referral::apply_code is open until the first request of the referee.
GenerateCode(u) ==
  /\ ~paused /\ ~referral[u].known
  /\ referral' = CreateRecord(referral, u)
  /\ UNCHANGED <<now, paused, book, money, reputation, rewards, fees>>

ApplyCode(u, r) ==
  /\ ~paused
  /\ reputation[u].requested = 0 /\ reputation[u].approved = 0
  /\ referral[u].referrer = NoUser /\ referral[r].known /\ r # u
  /\ referral' = Link(referral, u, r)
  /\ UNCHANGED <<now, paused, book, money, reputation, rewards, fees>>

\* referral::reward_referrer, by hand and with no regard to any loan.
RewardReferrer(u, firstLoan) ==
  /\ PaysReferrer(referral, u, firstLoan)
  /\ referral[u].generated < MaxReferralPoints
  /\ referral' = CreditReferrer(referral, u, firstLoan)
  /\ rewards' = RewardedWithReferral(rewards, u, firstLoan)
  /\ UNCHANGED <<now, paused, book, money, reputation, fees>>

DepositLiquidity(amount) ==
  /\ amount > 0 /\ treasury.deposited + amount <= MaxDeposited
  /\ treasury' = DepositLiquidityTo(treasury, amount)
  /\ UNCHANGED <<now, paused, book, lend, standing, fees>>

WithdrawSeizedCollateral(recipient, amount) ==
  /\ amount > 0 /\ CanWithdrawSeized(treasury, amount)
  /\ treasury' = WithdrawFromSeized(treasury, amount)
  /\ lend' = Credit(lend, recipient, amount)
  /\ UNCHANGED <<now, paused, book, standing, fees>>

SetPause(value) ==
  /\ paused # value /\ paused' = value
  /\ UNCHANGED <<now, book, money, standing, fees>>

Tick ==
  /\ now < MaxTime /\ now' = now + 1
  /\ UNCHANGED <<paused, book, money, standing, fees>>

-----------------------------------------------------------------------------
Borrow(u) ==
  \E amount \in Amounts, tenor \in Tenors :
    \/ RequestLoan(u, amount, tenor)
    \/ \E p \in DOMAIN Profiles : RequestProfiledLoan(u, p, amount, tenor)
    \/ \E p \in DOMAIN Profiles, collateral \in Collaterals :
         RequestCollateralizedLoan(u, p, amount, collateral, tenor)

Decide(i) ==
  \/ \E apr \in Aprs, installment \in Installments, grace \in Graces :
       ApproveRequest(i, apr, installment, grace)
  \/ RejectRequest(i)
  \/ CancelRequest(i)

Service(i) == RepayInstallment(i) \/ MarkDefault(i)

Refer(u) ==
  \/ u \in Referrers /\ GenerateCode(u)
  \/ \E r \in Users : ApplyCode(u, r)
  \/ \E firstLoan \in BOOLEAN : RewardReferrer(u, firstLoan)

Administer ==
  \/ \E amount \in Deposits : DepositLiquidity(amount)
  \/ \E u \in Users, amount \in Collaterals : WithdrawSeizedCollateral(u, amount)
  \/ \E value \in BOOLEAN : SetPause(value)

Next ==
  \/ \E u \in Users : Borrow(u) \/ Refer(u)
  \/ \E i \in DOMAIN requests : Decide(i)
  \/ \E i \in DOMAIN loans : Service(i)
  \/ Administer
  \/ Tick

Spec == Init /\ [][Next]_vars

-----------------------------------------------------------------------------
(* Properties.                                                              *)

\* Every variable keeps its type; balances never go below zero.
TypeOK ==
  /\ now \in Nat /\ paused \in BOOLEAN
  /\ requests \in Seq(RequestType) /\ loans \in Seq(LoanType)
  /\ treasury \in TreasuryType /\ lend \in LendType
  /\ reputation \in ReputationType /\ rewards \in RewardsType
  /\ referral \in ReferralType /\ fees \in FeesType

\* The collateral of each user that the book says is locked.
Escrow == [u \in Users |-> LockedCollateralOf(u)]

\* The one LEND pool that holds everybody's collateral covers exactly what the
\* book says is locked: no path (reject, cancel, payoff, default) pays a
\* collateral twice, forgets one or pays it out of another borrower's.
CollateralBacked == treasury.collateralVault = SumFunction(Escrow)

\* A borrower never has two lines of credit open: the check is made when a
\* request is opened and again when it is approved, on two different tables.
OneOpenCredit ==
  /\ \A i, j \in DOMAIN requests :
       /\ requests[i].status = "pending" /\ requests[j].status = "pending"
       /\ requests[i].borrower = requests[j].borrower
       => i = j
  /\ \A i, j \in DOMAIN loans :
       /\ loans[i].status = "active" /\ loans[j].status = "active"
       /\ loans[i].borrower = loans[j].borrower
       => i = j
  /\ \A u \in Users : ~(HasPending(u) /\ HasActive(u))

\* A request is turned into a loan exactly once, and the loan carries the
\* borrower, principal and collateral that were asked for.
ApprovedOnce ==
  /\ \A i \in DOMAIN requests :
       (requests[i].status = "approved") <=> \E j \in DOMAIN loans : loans[j].request = i
  /\ \A j \in DOMAIN loans :
       LET r == requests[loans[j].request]
       IN /\ loans[j].request \in DOMAIN requests
          /\ loans[j].borrower = r.borrower /\ loans[j].amount = r.amount
          /\ loans[j].collateral = r.collateral /\ loans[j].total = r.tenor
  /\ \A j, k \in DOMAIN loans : loans[j].request = loans[k].request => j = k

Consistent(l) ==
  /\ l.repaid = l.paid * l.installment
  /\ l.status = "repaid" <=> l.paid = l.total
  /\ l.status = "repaid" <=> l.due = 0
  /\ l.status # "repaid" => l.due = l.issued + (l.paid + 1) * Month
  /\ l.collateralState =
       IF l.collateral = 0 THEN "none"
       ELSE CASE l.status = "active" -> "locked"
              [] l.status = "repaid" -> "returned"
              [] l.status = "defaulted" -> "liquidated"

\* Status, installments, schedule and collateral of a loan tell one story: the
\* schedule stays anchored at the issue date however late the payments come.
LoanConsistent == \A j \in DOMAIN loans : Consistent(loans[j])

\* Reputation, kept in another module by six separate hooks, is what the book
\* says: the numbers a credit decision reads are never off.
ReputationMatchesBook ==
  \A u \in Users :
    LET mine == {j \in DOMAIN loans : loans[j].borrower = u}
    IN /\ reputation[u].requested =
            Cardinality({i \in DOMAIN requests : requests[i].borrower = u})
       /\ reputation[u].approved = Cardinality(mine)
       /\ reputation[u].repaid =
            Cardinality({j \in mine : loans[j].status = "repaid"})
       /\ reputation[u].defaulted =
            Cardinality({j \in mine : loans[j].status = "defaulted"})
       /\ reputation[u].onTime + reputation[u].late =
            SumFunction([j \in mine |-> loans[j].paid])

\* The points a user ever got are exactly those the history and the referrals
\* explain: no hook is skipped, doubled or paid to the wrong account.
PointsExplained ==
  \A u \in Users :
    rewards[u].lifetime =
      Policy.requestPoints * reputation[u].requested
      + Policy.approvalPoints * reputation[u].approved
      + Policy.onTimePoints * reputation[u].onTime
      + Policy.latePoints * reputation[u].late
      + Policy.fullRepaymentPoints * reputation[u].repaid
      + referral[u].earned

\* The record of a referrer agrees with the links of the referees, whose
\* status three different transactions move: `active` counts the live ones.
ReferralBooksAgree ==
  \A r \in Users :
    LET referees == {u \in Users : referral[u].referrer = r}
    IN /\ referral[r].total = Cardinality(referees)
       /\ referral[r].active =
            Cardinality({u \in referees : referral[u].status = "active"})
       /\ referral[r].earned = SumFunction([u \in referees |-> referral[u].generated])

\* A treasury t whose vaults hold what its running totals say, next to a
\* reserve vault with that balance.
Balanced(t, reserve) ==
  /\ t.loanVault = t.deposited + t.repaid - t.disbursed
  /\ t.collateralVault = t.locked - t.released - t.liquidated
  /\ t.rewardReserve = t.rewardFunded - t.lendClaimed - t.lendBurned
  /\ reserve = t.rewardReserve

\* The balances of the vaults are what the treasury's running totals say, and
\* the reward reserve, kept by number in one module, is the balance of the
\* reserve vault, kept in another.
VaultsMatchCounters == Balanced(treasury, lend.reserve)

\* Those totals are what the loans themselves add up to: nothing was lent or
\* repaid outside the book.
TotalsMatchBook ==
  /\ treasury.disbursed = SumFunction([j \in DOMAIN loans |-> loans[j].amount])
  /\ treasury.repaid = SumFunction([j \in DOMAIN loans |-> loans[j].repaid])

\* LEND is neither made nor lost between wallets and vaults.
LendConserved ==
  lend.minted - lend.burned =
    SumFunction(lend.wallet) + lend.stakingVault
    + lend.reserve + treasury.collateralVault + treasury.seizedVault

\* Fee states and loans stay aligned, and a late fee is only ever owed on a loan
\* of a borrower with a late payment.
FeesMatchLoans ==
  /\ Len(fees) = Len(loans)
  /\ \A j \in DOMAIN fees :
       /\ fees[j].borrower = loans[j].borrower
       /\ fees[j].lateDue > 0 => reputation[loans[j].borrower].late > 0

SameTerms(l, m) ==
  /\ l.request = m.request /\ l.borrower = m.borrower /\ l.amount = m.amount
  /\ l.collateral = m.collateral /\ l.apr = m.apr /\ l.total = m.total
  /\ l.installment = m.installment /\ l.grace = m.grace /\ l.issued = m.issued

SettledStep ==
  /\ Len(requests') >= Len(requests) /\ Len(loans') >= Len(loans)
  /\ \A i \in DOMAIN requests :
       requests[i].status # "pending" => requests'[i] = requests[i]
  /\ \A j \in DOMAIN loans :
       /\ loans[j].status # "active" => loans'[j] = loans[j]
       /\ SameTerms(loans'[j], loans[j])

\* What is closed stays closed: a decided request and a settled loan never
\* change again, nothing is deleted, and the terms of a loan are final.
SettledForever == [][SettledStep]_vars

\* The documentation has mark_default act on an overdue loan, one whose payment
\* misses the grace window: a loan that is defaulted could no longer be paid on
\* time at that moment.
DefaultOnlyOverdue ==
  [][\A j \in DOMAIN loans :
       (loans[j].status = "active" /\ loans'[j].status = "defaulted")
         => now > loans[j].due + loans[j].grace]_vars

-----------------------------------------------------------------------------
(* The life cycle implements CreditLine, borrower by borrower.              *)

LineCredit ==
  [u \in Users |-> IF HasActive(u) THEN "active"
                   ELSE IF HasPending(u) THEN "pending" ELSE "idle"]

Line == INSTANCE CreditLine WITH
  credit <- LineCredit, escrow <- Escrow,
  holdings <- lend.wallet, seized <- treasury.seizedVault

\* What the contracts promise a borrower: over the shared collateral pool and
\* two tables scanned by borrower, each user sees one line of credit of their
\* own whose escrow comes back whole unless that very line defaults.
CreditLineSpec == Line!LineSpec
=============================================================================
