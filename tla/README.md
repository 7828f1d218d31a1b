# LendPay in TLA+

Specifications, model-checking runs and proofs for LendPay: a lending protocol of
Move contracts (`smarcontract/sources`), a Go backend that mirrors and operates it
(`backend-go`), and a React frontend through which borrowers act (`frontend`). Modelled
are the contracts, which hold the money and every rule about it, and the frontend's own
logic: the session, the way of an action to the chain, the checkout, and what the pages
offer. The backend is the environment of the frontend's models (see *Not modelled*).

## Inventory

### Contracts

Every entry function is one transaction: it runs alone, and an `assert!` that fails
undoes all of it. What is hard here is therefore not interleaving inside a function
but *sequences*: many entry points of many modules, called by borrowers, stakers and
admins in any order, each moving a part of the same money and the same history.

| component | state | operations | what makes it correct |
| --- | --- | --- | --- |
| `credit/loan_book.move` | requests, loans | request (plain, profiled, collateralized), approve, reject, cancel, repay an installment, mark default | one open credit per borrower; a request becomes at most one loan with its own terms; status, schedule and collateral agree; settled means settled |
| `credit/treasury.move` | three vaults, running totals, the reward reserve as a number | deposit, disburse, take a repayment, lock / release / liquidate collateral, absorb / release / burn LEND | vault balances equal the totals; the shared collateral pool covers each borrower |
| `tokenomics/lend_token.move` | wallets, staked balances, reserve and staking vaults, supply | mint, deposit, transfer, distribute, burn, collect a fee, stake, unstake | LEND is conserved; the reserve equals the number the treasury keeps |
| `credit/reputation.move` | six counters per user | hooks called by the loan book | the counters are what the book says |
| `rewards/rewards.move` | points, claimable LEND, perks | grants, default penalty, claim, five ways to spend | every point explained, none spent twice, LEND per point bounded |
| `rewards/referral.move` | codes, links with a status, referrer totals | generate, apply, reward (hooks and by an admin), default | referrer totals equal the referees' links |
| `tokenomics/fee_engine.move` | dues per loan, four totals | assess origination and late fees, pay in LEND | dues follow loans; the three shares of a payment add up |
| `tokenomics/staking.move` | reward index, positions | stake, unstake, claim, receive fees | stakes agree with the ledger; fees reach stakers; earnings are kept and backed |
| `tokenomics/tokenomics.move`, `credit/profiles.move`, `credit/config.move` | policy | tiers, limits, splits, pause | read by all of the above |
| `tokenomics/governance.move` | proposals, receipts | propose, vote, finalize | a tally is its receipts, one per voter; an outcome is final |
| `rewards/campaigns.move` | campaigns, allocations | create, allocate, claim, close | claims within the allocation, payable from the reserve |
| `credit/merchant_registry.move`, `credit/viral_drop.move`, mock apps | merchants, purchases, deliveries | buy, claim a collectible | a collectible is delivered once, secured or repaid |
| `credit/bridge.move` | routes, intents | open, cancel, resolve | an intent ends once |

They interact by direct calls. `approve_request` alone calls the treasury, the
reputation, the rewards, the referral engine (which calls the rewards again) and the
fee engine (which reads the ledger). Three modules keep the same stake
(`staking`, `lend_token`, a vault) and two the same reserve. Time enters through due
dates, the grace window and the pause, which stops repayments but not defaults.

### Frontend

One page, `App.tsx`, with hooks for its session, its preview and its auto-sign
permission. JavaScript runs one piece at a time, so what interleaves is what lies
between two `await`s: handlers, effects, timers and answers. Each of them keeps the
values of the React render it was made in, while references (`...Ref`) and the storage
of the browser are read when they are reached; the two disagree whenever the account,
the draft or the data changed in between.

| component | state | operations | what is hard | what makes it correct |
| --- | --- | --- | --- | --- |
| session and loads (`useBackendSession.ts`, `loadBorrowerState`, `syncBorrowerState`) | connected wallet, token in memory and per wallet in storage, the login under way, loads with their abort signals, flags | bootstrap, retry, refresh, handlers that ensure a session, sign, commit, log out, switch | a login is shared by all who ask; aborts reach some of those who wait; loads commit after their account left | a stored token is its wallet's; the page is not stranded by the account's own work; syncing ends |
| wallet transactions (`requestWalletTx`, `executeProtocolAction`, `useTxPreview.ts`, `useAutoSignPermission.ts`) | one preview, one pending flag, one auto-sign request, per handler its stage | press, confirm, cancel, enable, drawer, direct submission, sync, automatic claim | handlers run beside each other over shared slots; a drawer may be approved after the page gave it up | one confirmation is one transaction; nothing is sent after a rejection; flags are cleared |
| checkout (`RequestPage.tsx`, `handleRequestLoan` and the effects of the draft) | the draft, what the page knows, the request under way | pick, type, retry, send, recheck, sign, record, cancel, review | effects write what others read; checks precede two awaits and rest on data that the backend may have kept, made up or not updated | the form comes to rest; a refusal by the contract has a cause outside of the page's checks |
| rewards, staking, fees (`LoyaltyHubPage.tsx`, `RepayPage.tsx`, `BridgePage.tsx` and their handlers) | none of its own: the account last read | claim, stake, unstake, spend points, pay fees | each check is a copy of the contract's, with compiled-in prices and one of several records | what is offered is accepted |

### Backend

`server.go` and its clients keep users, request and loan rows, points and activity in
PostgreSQL; `auth.go` one-time challenges; `rate_limit.go` windows per client. Handlers
run concurrently, mostly read a row, decide and write it back in separate statements, and
broadcast, wait with a time-out and mirror in separate steps.

The hazards, each at its line and with the properties that cover it, are in
`PROJECT.json`.

## Modules

| module | models | form |
| --- | --- | --- |
| `Config`, `Tokenomics`, `Profiles` | policy, tiers, splits, product rules | constants and pure operators |
| `Treasury`, `LendToken`, `Reputation`, `Rewards`, `Referral`, `FeeEngine`, `Staking` | one contract module each | a type, the initial value, one operator per function, from old record to new; `Can...` is what its `assert!` demands |
| `LoanBook` | the credit life cycle | the state machine: one action per entry point, composed of the operators above |
| `Economy` | fees, staking, points and LEND around it | extends `LoanBook` with `staking` and the fee totals; every `LoanBook` step is an `Economy` step |
| `Governance`, `Campaigns` | one contract module each | as above |
| `Community` | votes and campaigns on top of the economy | extends `Economy` with `governance`, `campaigns` and `verified`; every `Economy` step is a `Community` step |
| `CreditLine` | what a borrower is promised | abstract specification, implemented by `LoanBook` |
| `Offers` | the pages of rewards, staking and fees over the contracts | extends `Economy` with no state of its own: what the page reads, the buttons it enables, the conditions of each handler, and the contract's answer to its message |
| `BorrowerSession` | session, logins and loads of the frontend | a state machine of its own |
| `WalletTx` | handlers on their way to the chain | a state machine of its own |
| `CheckoutForm` | form, effects and request | a state machine of its own, with the contract's rules of a request |
| `MCLoanBook`, `MCEconomy` (with `Offers`), `MCCommunity`, `MCBorrowerSession`, `MCWalletTx`, `MCCheckoutForm` | | small instances for TLC |
| `LoanBook_proofs`, `LoanBookMoney_proofs`, `LoanBookStanding_proofs`, `Economy_proofs`, `Community_proofs` (each extends the one before), `BorrowerSession_proofs`, `WalletTx_proofs`, `CheckoutForm_proofs` | | theorems |

**State of the contracts.** The variables are the Move resources: `requests` and `loans` (LoanBook),
`treasury`, `lend` (LendLedger), `reputation`, `rewards`, `referral`, `fees`
(FeeRegistry.states), `paused` (Config), `now`; `Economy` adds `staking` and
`feeTotals`, `Community` adds `governance`, `campaigns` (their registries) and `verified`
(the flag `username_verified` of a reputation entry). Vectors that are appended to and searched by id become sequences whose
positions are the ids; vectors of per-user entries, created on demand with zeros,
become functions on `Users`.

**Actions of the contracts.** A transaction is an action. Its guard is the conjunction of all asserts on
its path, those of the callees included (`CanDisburse`, `CanUnlock`, `CanPay`,
`CanDiscount`, `CanSync`...), because a failing callee aborts the whole (in `Economy` this guard has a name of its own,
`MayStake`, `MayRedeem`..., because `Offers` asks for it without the effects); its primed
variables collect the effects of all calls. Underflow is a guard (`CanDiscount`), and so
is the u64 overflow of the staking products (`MaxU64`), whose scale 1e12 makes it reachable; the other
products (amounts by basis points) are far from 2^64 and are left unbounded.
Checks of the caller (borrower of the loan, admin) are not modelled: the actor is
implied by the action, and no property is about who may call.

**Left out of these modules.** Events, views and time stamps nobody reads; the
borrower's balance of the loan asset (a repayment it cannot cover is one that does not
happen); per-user statistics of the ledger; changes of the policy and of the admins
during a behaviour (the policy is a constant restricted only by what the setters accept,
so each behaviour has one, and the theorems hold for all).

**The frontend's state and actions.** Everything between two awaits is one action, with
what waits on the same promise. `BorrowerSession` keeps `initiaAddress`, the offline signer,
`sessionTokenRef`, `localStorage`, `sessionPromiseRef`, `hasLoadedBorrowerState`,
`isBackendSyncing` and `loadError`, and one record per login and per load with the wallet
and signal of its closure; a token is the login that obtained it, so whose it is can be
asked. `WalletTx` keeps `txPreviewResolverRef`, `pendingProtocolAction`,
`autoSignEnablePromiseRef` and `autoClaimedPurchaseIdsRef`, and one record per handler with
the stage it has reached; of the chain it knows one loan and the collectible due once it
is repaid. `CheckoutForm` keeps the draft, the message under way and the account twice: `chain` is
what the contract will judge by (its own quotes, the liquid LEND, the tenor cap, the pause,
the open credit) and `page` what the last sync brought. A sync brings one of `Answers`: the
products of the chain, those compiled into the backend for when a view fails (`Preview`),
those the page keeps for a minute, or none, and the LEND and the credit of the chain or of the
backend's rows, which lag behind it as far as they like. One step `RunEffects` is one render
with all the effects of it, which all read the same draft. Fields called *history* in the comments
(`old`, `gaveUp`, `refused`, `by`, `shown`, `stale`...) are not in the code: they record what
happened for the properties to refer to, and no action of the code reads them.

Services and servers are nondeterministic within what the code waits for: a request
is answered, fails, or times out; a session may be forgotten at any moment; a wallet
prompt may be accepted, rejected or left open; a drawer may be approved late or fail
after it has broadcast. `Offers` looks at the page right after a sync, since what it asks
is whether the page's checks are the contract's; old data is the matter of
`CheckoutForm`, and races of handlers of `WalletTx`.

A few definitions marked *Fault* stand before the definition they corrupt: each is a
plausible bug of that function, and is substituted for it to show that a property
notices. Nothing in the specifications uses them.

## Runs

| run | question | bounds |
| --- | --- | --- |
| `LoanBookLifecycle` | do the book, the vaults, the ledger, the reputation and the fees agree through every outcome of a loan? | two users, two requests, two installments, paid on time, late and after the grace period; plain, profiled and collateralized; seized collateral withdrawn; pause at any time |
| `LoanBookRounds` | does it stay so over several credits, and is each borrower's line independent? | three requests by two users, one month each, so closed lines are opened again and two borrowers share the collateral pool |
| `LoanBookReferral` | do referrals add up? | three users, chains of referrals included, manual rewards up to `MaxReferralPoints` |
| `LoanBookGrace` | can a loan be defaulted while it can still be paid on time? | **violated**, see below |
| `EconomyStaking` | are stakes, fees and payouts accounted while two stakers come and go? | one loan with an origination fee and late fees, paid in one or two parts; stakes of 40 from wallets of 100; precision 100 and `MaxU64` 3000, so that overflows do abort; earnings of a user that still changes its stake up to `MaxEarned` |
| `EconomyPoints` | can points be spent or paid out twice, and does the page offer what the contracts refuse? | one borrower, one loan; perks that cost 10 points of the 45 a loan earns, so that all combinations are affordable and the caps on boosts and discounts are reached; a wallet of 10 and stakes of 4, so that every amount a page accepts is tried; a reserve of 2, too small for the claims until LEND is minted or given back to it |
| `CommunityVotes` | does a vote count what it should while LEND moves? | one proposal over three seconds, period one; wallets of 200 and 100 that are staked, moved and given back in units of 100, so that either voter can fail or reach the quorum of 50% and moved LEND votes again; `MaxU64` makes the overflow of the quorum reachable |
| `CommunityCampaigns` | are campaigns paid within their budgets, next to the other claimants? | two campaigns of 50, three allocations of 20 or 30, one loan whose points become LEND, a reserve of 60 that cannot pay them all |
| `BorrowerSession` | whose token is stored, what leaves the page without data, who will clear the syncing flag, does syncing end? | two wallets, two logins, two loads beside each other, five moves of user, account and expiry: enough for a load that outlives its account while the next joins its login |
| `WalletTx` | is a message sent twice, or after a rejection; do claims overlap; who holds the shared flag, and is it cleared? | two handlers beside each other and any number in turn, one expiry or reconnection; races over one slot need two |
| `CheckoutForm` | do the effects come nearer to rest with each render, on a form that fits, and do they settle; what can the contract still refuse of a request the page let through? | four products, the default one a micro loan and one with collateral: as the chain quotes them under three terms (the collateralized one with part of the LEND liquid and a short tenor cap; the standard one while the protocol is paused; none that qualifies), as the backend has them built in, or none; two apps, one item; four moves of the user, the chain or a sync, enough for a filled-in request with a change of the chain or a sync around it |
| `EconomyBacking` | are staking rewards backed by fees? | **violated**, see below |

`MaxTime`, `MaxRequests`, `MaxDeposited`, `MaxMinted`, `MaxReferralPoints`, `MaxEarned`,
`MaxProposals`, `MaxCampaigns` and `MaxAllocations` bound what grows without limit; they are guards that only stop further
steps. A month is one or two ticks, a grace period zero or one, which gives every order
of due date, end of grace and payment. Users are interchangeable and enter no
arithmetic, so their permutations are a symmetry, except in `CommunityVotes`, whose two
voters hold different amounts. Deadlock is checked on the contracts: an admin can always
toggle the pause. It is not on the three models of the frontend, where `MaxMoves` and
`MaxSurprises` end what users and the world do, and a page at rest is no fault.

That a unit of LEND votes at most once is *not* checked, because it does not hold and no
document claims it: a receipt stops a second vote of an account, while the LEND it
weighed can move to another account that has not voted. `CommunityVotes` explores those
moves, and its properties are what remains true in their presence.

The two violated runs show disagreements between code and documentation:

* **Grace.** `mark_default` accepts `now >= due + grace`, `repay_installment` counts
  `now <= due + grace` as on time. At that second both succeed on the same loan.
* **Backing.** `stake` and `unstake` write a staker's `reward_debt_e12` in another unit
  than `accrue_position` reads, so every change of stake credits all past rewards
  again. Two stakes after one fee suffice: claims exceed the fees paid in, and the
  difference comes from the reserve behind everybody's claimable LEND.

**What the properties of the frontend leave room for.** Each names the exceptions the code
has, and what remains is what holds. They are worth knowing:

* *Two transactions of one confirmation.* After 45 seconds `requestWalletTx` submits the
  same messages directly, and nothing withdraws the drawer (`App.tsx:2162`). `SentOnce`
  holds only up to that.
* *Two claims of one collectible.* The tail of a repayment does not ask what the effect or
  the user already claims, and reads the purchases of its own sync (3243). The second
  claim aborts on the chain. `ClaimsOverlapExplained` says that the effect alone never
  does it.
* *The shared flag.* The `finally` of any handler clears `pendingProtocolAction` (2041),
  also when another one set it since: its button is enabled while it runs.
* *The superseded preview.* A handler whose session comes late replaces the resolver of the
  preview on the screen (`useTxPreview.ts:39`); the first handler never resumes, and what it
  set stays set. `PendingClears` excepts it by the name `Lost`.
* *Auto-sign.* `docs-site/docs/app/frontend.md` says that the app falls back to normal wallet
  approval when auto-sign is rejected, unavailable or expired; `requestWalletTx` throws
  (2139, 2158). `EnableFails` and `DirectFails` end the handler accordingly.
* *The stranded page.* The bootstrap of the second account can join the login that the
  first one's effect started and then aborted. It takes the `AbortError` for its own and
  returns: the page says "Live borrower data is syncing from the API." (5221) while nothing is
  under way. The same follows a load that commits after a logout cleared the page.
  `StrandedByOutlived` says that nothing else leads there.
* *The other account's data.* A direct change from one account to another resets neither
  the token in memory nor `hasLoadedBorrowerState`. Without a token stored for the second
  account its page is loaded with the first one's token, and shows the first one's data.
  `StoredTokenOwn` holds all the same: what is *stored* is right.
* *Requests that are refused.* The contract asks its policy, its pause and its own quote. The
  page reads neither the pause nor the policy's tenor cap. It sends a request unchecked when
  no product was loaded, and with a tenor that no effect has fitted yet when the button is
  faster. It checks against the product and the LEND it shows, which the backend may
  have built in (limits by its own score, products as they were before any
  `upsert_profile`), which the page itself may have kept for a minute, or which may have changed since. And before the
  wallet opens it looks again at nothing but the open credit (2682), and
  that in the backend's rows, which may lag behind. `RefusalsExplained` names these causes and leaves
  no other; TLC refutes it as soon as any of them is taken out. The
  slider ignores the limit of the score, "Retry this amount" is not clamped and collateral is
  not raised with the amount; the handler's own checks catch all three.
* *Offers that are refused.* The page reads neither the reserve nor the caps of boosts and
  discounts, nor the LEND needed for fees, and shows the fees before a discount that can
  leave nothing to pay; its prices are compiled in and may have been raised since; and a
  product of the staking registry can overflow. `OffersAccepted` names these causes for each
  offer and leaves no other. TLC's instance has equal prices and a large enough `MaxU64`, so
  it checks the rest without them; the theorem covers all. The
  second message of claim-all is sent for what was read before the first (3865).

**Fairness and liveness.** On the chain nothing schedules a transaction: borrowers may never
repay and admins may never decide, so the contracts' specifications assume no fairness and
claim no liveness. The frontend's do, as far as its code sets time limits:

* `BorrowerSession`: a request ends, answered or not, within 15 seconds and three attempts
  (`api.ts:58`), so every login at the backend and every load is weakly fair. A wallet prompt
  is not: the user may leave it open, and `SyncingEnds` allows for it.
* `WalletTx`: the health checks end in 2.5 seconds, the drawer in 45, and a sync with its
  requests; these steps are weakly fair. A signature, a direct submission that waits
  for one, and the provider's auto-sign setup are not; `PendingClears` allows for a handler that waits for them.
* `CheckoutForm`: React runs the effects of a render, so `RunEffects` is weakly fair and
  nothing else is. `FormSettles` can then be asked because `MaxMoves` bounds what the user,
  the chain and the syncs do: it says that effects alone never keep the form moving.

## Proofs

Proved with TLAPS for any finite set of users, any policy the setters accept, any products,
schedules and bounds: every invariant and every action property that a passing run checks;
only liveness is left to TLC. The assumptions are those named `...Assumption` in
the modules, which TLC evaluates on each run.

### The life cycle (`LoanBook_proofs`)

* `TypeCorrect`: `Spec => []TypeOK`. `TypeOK` is inductive by itself. Its content is that
  no balance becomes negative, so each action's case shows that its guard covers
  what it takes; lemmas per operator (`RewardsTyped`, `LedgerTyped`...) keep the
  eighteen cases short.
* `OneOpenCreditAlways`, `ApprovedOnceAlways`, `SettledForeverHolds`,
  `LoanConsistentAlways`: lemma `BookSteps` shows that each of the actions does one of a few
  things to the two tables (append a request, decide one and perhaps append a loan,
  pay, default, nothing); each property is then proved over these few steps instead
  of all actions. `OneOpenCredit` is not inductive one table at a time: an approval
  moves a borrower from one table to the other, so both halves and their
  exclusion go together. `ApprovedOnce` needs that a loan names an existing request.

### Its money (`LoanBookMoney_proofs`)

* *Sums.* The contracts keep totals beside the entries they add up, and the properties state
  those totals with `SumFunction`, which folds by recursion. The provers cannot instantiate
  the library's induction theorems, whose property is an operator; but a property of the
  subsets of one finite set is itself a *set* of subsets, and inclusion is well founded
  there (`SubsetInduction`). With it the recursion is solved once, and the proofs cite
  only what a sum does when a summand appears or changes (`SumFunctionGrows`,
  `SumFunctionChanges`...).
* `VaultsMatchCountersAlways`: each operator of `Treasury` preserves `Balanced`, the relation
  between vaults and totals, for every amount; the life cycle composes them. The
  reserve needs the equality of the number in `Treasury` and the balance in `LendToken`
  as part of the induction: the burn of a payoff is cut by one and subtracted from both.
* `ImplementsCreditLine`: `Spec => CreditLineSpec`, the refinement. The line of a borrower is
  read off the tables; `LineFacts` says that it can be, since with one open credit
  (`OneOpenCredit`) a borrower's escrow is at most one summand. Each action moves
  one line as `CreditLine` allows (`OpenMoves`, ...) or none.
* `CollateralBackedAlways`, `LendConservedAlways`, `TotalsMatchBookAlways`: the collateral vault
  follows the one line a step moves, so its balance stays the sum of the escrows; minting,
  burning and every transfer change wallets, vaults and supply together; what the treasury
  counts as lent and repaid grows with exactly one summand.

### Its standing (`LoanBookStanding_proofs`)

* `ReputationMatchesBookAlways`: the six counters are cardinalities and one sum over the
  requests and loans of a borrower; each step of the book moves one entry from one of these
  sets to another.
* `FeesMatchLoansAlways`: an approval appends a loan and its fee record together; a late fee is
  assessed in the step that counts the borrower's late payment, and that count never falls.
* `ReferralBooksAgreeAlways`: the agreement of totals and links is not inductive. `ReferralsSound`
  adds that a link without a referrer has no status and no points to bring along, and that
  nobody refers itself, or one reward would be written to both ends of a record.
* `PointsExplainedAlways`: lifetime points are a linear function of the reputation's counters and the
  referral earnings; each hook is shown to add the same on both sides.

### Economy (`Economy_proofs`)

* `EconomyTypeCorrect`, `StakeBooksAgreeAlways`, `FeesReachStakersAlways` are one induction,
  `EconomySound`: `unstake` subtracts from the registry, from the ledger and from the vault
  under one guard, that of the registry, so no balance is safe unless the three books agree.
* `EarningsKeptHolds` follows step by step.
* *The life cycle within the economy.* `Spec` is not implied by `EconomySpec`: stakes and
  claims change what `LoanBook` calls its own variables, so no theorem about `Spec` carries
  over by itself. `Beside` is what every other step leaves of the life cycle: book, reputation
  and referrals as they are, accounts that earned nothing, fee states whose dues only fall.
  Lemma `EconomyBeside` says a step is one of the life cycle or stays beside it, and each
  invariant needs only that it survives the latter: `EconomyKeepsBook`,
  `EconomySettledForever`, `EconomyFeesMatch`, `EconomyKeepsStanding`. Of the money more is
  touched; `EconomyVaultsMatch`, `EconomyLendConserved` and `EconomyCollateralBacked` go over
  the steps that move it (`AsideStep`).
* `FeesAccountedAlways`, `PayoutsAccountedAlways`: lemma `KindsOfSteps` classifies the steps into
  those of the life cycle, payments, claims, purchases and `Ordinary` ones; the first
  changes one summand of the dues, a claim one of the payouts.
* `PointsSpentOnceAlways`, `LendPerPointBoundedAlways`: `AccountMoves` says what one step may do to one
  account (earn, be fined, spend, claim). The bound on LEND needs that converting
  two amounts of points one by one yields no more than converting their sum.
* `OffersAcceptedAlways`: not an induction but a consequence of three of them. The page checks one record of
  an amount, the contract the others: a claim is paid if the reserve suffices because the
  treasury's number and vault agree with the ledger (`EconomyVaultsMatch`); LEND shown as
  staked can be unstaked because registry and ledger agree on it (`EconomySound`); the fees
  offered are those of the borrower's own loan because each loan has its one fee state
  (`EconomyFeesMatch`). For purchases it is the arithmetic of caps and prices. It is stated for all
  amounts up to the balance and all users, with the contracts' guards rather than `ENABLED`,
  which the prover does not take.

### Community (`Community_proofs`)

* `CommunityTypeCorrect`, `TallyIsReceiptsAlways`, `VoteOrFinalizeAlways`, `OutcomeIsFinalHolds`,
  `CampaignBudgetsAlways`, `ClosedCampaignsRestHolds`: the invariant `CommunitySound` adds to
  `EconomySound` that the receipts are finitely many and none names a proposal yet to be made,
  and the same of allocations and campaigns; otherwise the next proposal would not start at
  zero. Every economy step leaves both registries alone, and a campaign's payout is an
  `AsideStep`, so `CommunityVaultsMatch` holds as well. The types and the rest of closed campaigns
  are proved only and in no run.
* `ReservePayoutsExplainedAlways` replaces `PayoutsAccounted`, which is false once campaigns pay from
  the same reserve.
* *All contracts together.* `CommunityKeepsBook`, `CommunityKeepsStanding`, `CommunityKeepsLend`,
  `CommunityKeepsEconomy` and `CommunityKeepsPast`: every other invariant and action property of
  the contracts holds in the composition of all of them. No run checks these, the
  composed state space being far too large. The
  refinement `ImplementsCreditLine` alone is about the life cycle by itself: `CreditLine`
  counts wallets among the holdings it constrains, and the economy moves wallets.

### Frontend

* `SessionTypeHolds`, `StoredTokenOwnHolds`: one induction for both. That a stored token is its
  wallet's own is not inductive alone: a login that has not begun must belong to nobody, so
  that no token can be its; logins and loads under way must belong to somebody; and the token
  in memory, from which loads fetch, must be a login's that was signed. It need *not*
  be the connected wallet's, and after a direct change of account is not. That no login
  that has ended is left in `sessionPromiseRef` holds because each ending resumes all that
  waits for it in the same step.
* `StrandedByOutlivedHolds`: the invariant `OwnWork`. Only work that was outlived carries
  an aborted signal; a load that is not a full one and was not outlived began on a loaded
  page, which still is; and every login under way is waited for. So a login or load that
  ends for its own account leaves data, an error or further work.
* `SyncingOwnedAlways`: the safety half of `SyncingEnds`. While `isBackendSyncing` is set there is a full
  load under way that was not aborted and whose `finally` clears the flag; it needs the invariant
  above, by which a load that waits for a login waits for one that will end.
* `SentOnceAlways`: the invariant adds, for a handler whose drawer was not given up, that
  a drawer which may still be approved is the one it waits for, and that nothing is sent
  before it reaches the broadcast; and that the open preview belongs to a handler that waits
  for one, so that a cancelled preview ends nothing else. The type of the state
  (`WalletTypeOK`) is proved on the way and not checked by a run.
* `ClaimsOverlapExplainedAlways`: the property alone is not inductive, since it says nothing of a
  claim that has not reached the wallet. `OneEffectClaim` says that while a claim which the
  effect started is under way the purchase is remembered as tried, and that there is one:
  only a reconnection forgets it, and makes the running claim an old one.
* `PendingHeldAlways`: the safety half of `PendingClears`. The handler that set the flag last is past its
  press and has not ended (`FlagHeld`): every way out of a handler, also that of a claim that
  follows a repayment or of one that joins another's auto-sign request, passes the `finally`.
* `RestFitsAlways`, `EffectsProgressHolds`: the safety half of `FormSettles`. The five effects are composed
  in their order and shown to be idempotent field by field: the profile and the
  app depend on no other field that an effect writes, the others only on these two, so `RendersLeft` falls from
  two to zero, and a form at rest fits the products, apps and items at hand.
* `RefusalsExplainedHolds`: from the button to the signature the message stands before the
  product it was made of (`Stands`): it is one the page showed as qualified, with an amount
  and a collateral that fit it. This is about the message and its history alone, so no
  later change of chain or page disturbs it. If the chain's quote is still that product, the contract's
  checks follow but for the pause, the cap and the tenor; the limit of the score, which the
  page applies to built-in products, only lowers theirs. After the second look the chain has no credit
  (`CreditFree`) unless it was told otherwise or one came later.

Each strengthening was checked by TLC on the instances above before it was proved.

### Left to TLC

* Liveness under fairness (`SyncingEnds`, `PendingClears`, `FormSettles`): out of the
  prover's reach. What is proved of each is the safety half above (`SyncingOwned`,
  `PendingHeld`, `RestFits` with `EffectsProgress`); what is left to TLC is that under the
  fairness stated the load, the handler or the render in question does take its next step.
* The two violated claims have counterexamples, not proofs.

## Not modelled

* **The backend's mirror** (`server.go` and its clients). It is a cache of the chain with
  races of its own, listed as hazards (the faucet, points, preview repayments, syncs,
  confirmations). Its guarantee towards the contracts is none, since they check everything
  again, and towards the frontend no more than the models of it assume: `CheckoutForm` takes
  its answers from the chain, from rows that may be as old as they like, and from the products
  compiled in; the other models take an answer that the chain's state allowed at some moment,
  late, or none.
* **The backend's challenges and rate limits.** A client sees a challenge, a token and a
  refusal; the arithmetic of signatures is out of reach.
* **Shops and merchants** (`viral_drop`, `merchant_registry`, mock apps). They read loans and
  write none; that a collectible is due once its loan is repaid is part of `WalletTx`.
* **Bridge intents.** No asset moves on this chain when an intent is opened, cancelled or
  resolved; the transfer is done off-chain.
* **Of the frontend**: automatic repayment, disabled by a constant
  (`AGENT_AUTONOMY_AVAILABLE`); the handlers for single claims and the one that revokes
  auto-sign, which no button calls (so the preference for auto-sign stays on); voting,
  proposing and finalizing, which answer with a message; the forms of merchants, campaigns
  and bridge beyond their common way to the chain; section caches other than that of the products, toasts, navigation,
  proofs, formatting and the encoding of arguments.
* **Bootstrap, deployment, scripts, documentation.**
