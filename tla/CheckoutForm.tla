----------------------------- MODULE CheckoutForm -----------------------------
(***************************************************************************)
(* The checkout form and the request that leaves it: the draft the borrower  *)
(* fills in, the effects that fit it to the credit products on the page, the *)
(* checks of handleRequestLoan, its second look at the account, and what the *)
(* contract makes of the message (App.tsx, RequestPage.tsx).                 *)
(*                                                                          *)
(* Three hold the account: the chain; the backend, whose rows mirror it and  *)
(* may lag behind or stand in for it; and the page, which shows what the last *)
(* sync brought from the backend.  A handler works with the values of the    *)
(* render in which its button was pressed.                                  *)
(***************************************************************************)
EXTENDS Naturals, Sequences, FiniteSets

CONSTANTS
  Terms,          \* what the chain may grant an account, one after the other
  Rows,           \* what the backend's own rows may say of the account
  DefaultProfile, \* appEnv.requestProfileId
  Apps,           \* merchants
  Catalogue,      \* items of theirs: each has an app and a price
  Routes,         \* what may be live: apps, and items
  Amounts,        \* bound: amounts and collaterals that are typed in
  Collaterals,
  DemoApproval,   \* appEnv.enableDemoApproval
  MaxMoves,       \* bound: what the user, an operator and other devices do, and refreshes
  None            \* no app, no item

Tenors == {1, 3, 6}
BPS == 10000

\* A credit product as quote_profile and profileQuotes list it; rollup says that the
\* chain quoted it.
QuoteType ==
  [id : Nat, qualified : BOOLEAN, max : Nat, tenor : Nat, secured : BOOLEAN,
   ratio : Nat, rollup : BOOLEAN]

\* The chain's own: quote_profile of each product, the liquid LEND, and what of the
\* configuration decides on requests, which the page does not read.
TermsType ==
  [quotes : Seq(QuoteType), liquid : Nat, cap : Nat, paused : BOOLEAN]

ASSUME CheckoutAssumption ==
  /\ Terms # {} /\ Terms \subseteq TermsType
  /\ \A t \in Terms : \A i \in DOMAIN t.quotes :
       t.quotes[i].rollup /\ (t.quotes[i].secured => t.quotes[i].ratio >= BPS)
  /\ Rows # {} /\ Rows \subseteq [score : Nat, held : Nat, liquid : Nat]
  /\ Amounts \cup Collaterals \subseteq Nat
  /\ Catalogue \in [DOMAIN Catalogue -> [app : Apps, price : Nat]]
  /\ Routes # {} /\ Routes \subseteq [apps : SUBSET Apps, items : SUBSET DOMAIN Catalogue]
  /\ None \notin Apps \cup DOMAIN Catalogue
  /\ DemoApproval \in BOOLEAN /\ MaxMoves \in Nat

VARIABLES
  chain,   \* the chain: its terms, and the borrower's credit
  page,    \* what the page shows of it, with the score and the live routes
  draft,   \* the form
  picked,  \* hasUserSelectedProfileRef
  request, \* handleRequestLoan under way, and its message
  desk,    \* handleCancelPendingRequest and handleReviewPendingRequest under way
  moves    \* of MaxMoves

vars == <<chain, page, draft, picked, request, desk, moves>>

Credits == {"none", "pending", "active"}

\* defaultDraft; item is selectedDropItemId, which is kept beside the draft.
Default ==
  [amount |-> 0, collateral |-> 0, app |-> None, profile |-> DefaultProfile, tenor |-> 3,
   item |-> None]

Smaller(a, b) == IF a < b THEN a ELSE b
Larger(a, b) == IF a < b THEN b ELSE a

\* The products the backend has built in, for when a view of the chain fails: limits
\* by the score, holdings by its own row.
BuiltIn(id, ok, max, tenor, ratio) ==
  [id |-> id, qualified |-> ok, max |-> max, tenor |-> tenor, secured |-> ratio > 0,
   ratio |-> ratio, rollup |-> FALSE]

Preview(row) ==
  <<BuiltIn(1, TRUE, Smaller(row.score, 500), 3, 0),
    BuiltIn(2, row.held >= 100, Smaller(row.score + 250, 2500), 6, 0),
    BuiltIn(3, row.held >= 500, Larger(500, Smaller(row.score + 500, 5000)), 12, 0),
    BuiltIn(4, TRUE, Larger(300, Larger(row.score, 1500)), 18, 15000)>>

\* What a sync may bring: the products of the chain, those built in, none when their
\* endpoint fails, or those it keeps for a minute; liquid LEND and credit from the chain
\* or, when a view of it fails, from rows that are as old as may be.
Answers(kept) ==
  [quotes : {chain.terms.quotes, <<>>} \cup kept \cup {Preview(row) : row \in Rows},
   score : {row.score : row \in Rows},
   liquid : {chain.terms.liquid} \cup {row.liquid : row \in Rows},
   route : Routes, credit : Credits]

Kept == {page.quotes}

\* History: shown, the product on the page when the button was pressed, as a sequence
\* of none or one; liquid, the LEND it showed; stale, the second look was told of another
\* credit than the chain's; credit, the chain's changed after it.
NoRequest ==
  [at |-> "idle", amount |-> 0, profile |-> 0, secured |-> FALSE, tenor |-> 0,
   collateral |-> 0, shown |-> <<>>, liquid |-> 0, stale |-> FALSE, credit |-> FALSE]

Init ==
  /\ chain \in [terms : Terms, credit : {"none"}]
  /\ page \in Answers({}) /\ page.credit = "none"
  /\ draft = Default /\ picked = FALSE
  /\ request = NoRequest /\ desk = {}
  /\ moves = 0

-----------------------------------------------------------------------------
(* What the page derives from its data and the draft.                       *)

Quotes == page.quotes
Indices == DOMAIN Quotes
Qualified == {i \in Indices : Quotes[i].qualified}

\* getEffectiveProfileLimit
EffectiveLimit(q) ==
  IF q.rollup \/ q.secured THEN q.max ELSE Smaller(page.score, q.max)

\* The order of bestQualifiedProfile: the higher limit, no collateral, the longer
\* tenor, and the place in the list.
Better(i, j) ==
  LET a == Quotes[i]  b == Quotes[j] IN
  \/ EffectiveLimit(a) > EffectiveLimit(b)
  \/ /\ EffectiveLimit(a) = EffectiveLimit(b)
     /\ \/ ~a.secured /\ b.secured
        \/ a.secured = b.secured /\ (a.tenor > b.tenor \/ (a.tenor = b.tenor /\ i < j))

Best ==
  LET candidates == IF Qualified # {} THEN Qualified ELSE Indices IN
  CHOOSE i \in candidates : \A j \in candidates \ {i} : Better(i, j)

\* selectedMerchant, and selectedMerchantDropItems: without an app, those of all.
Ready == draft.app \in page.route.apps
ItemsShown == {i \in page.route.items : Ready => Catalogue[i].app = draft.app}

First(S) == CHOOSE i \in S : \A j \in S : i <= j
Drafted == {i \in Indices : Quotes[i].id = draft.profile}

\* selectedProfile, as a sequence of none or one.
Selected ==
  CASE Drafted \cap Qualified # {} -> <<Quotes[First(Drafted)]>>
    [] Drafted \cap Qualified = {} /\ Qualified # {} -> <<Quotes[First(Qualified)]>>
    [] Qualified = {} /\ Drafted # {} -> <<Quotes[First(Drafted)]>>
    [] Qualified = {} /\ Drafted = {} /\ Indices # {} -> <<Quotes[1]>>
    [] OTHER -> <<>>

Secured(q) == q # <<>> /\ q[1].secured

\* requiredCollateralAmount
Required(q, amount) ==
  IF Secured(q) THEN (amount * q[1].ratio + BPS - 1) \div BPS ELSE 0

\* effectiveAvailableLimit and checkoutSliderMax, which is not the same.
AvailableLimit == IF Selected = <<>> THEN page.score ELSE EffectiveLimit(Selected[1])
SliderMax == IF Selected = <<>> THEN page.score ELSE Selected[1].max

-----------------------------------------------------------------------------
(* The effects.  Those of one render all see its draft.                     *)

\* Fault: the default is preferred again, whether or not it qualifies.
DefaultProfileAgain ==
  IF Indices = {} THEN draft.profile
  ELSE IF Drafted \cap Qualified # {} /\ ~picked /\ draft.profile # DefaultProfile
         THEN DefaultProfile
  ELSE IF Drafted \cap Qualified # {} THEN draft.profile ELSE Quotes[Best].id

\* The product: the user's own choice while it qualifies, else one that is not the
\* default, else the best.
FittedProfile ==
  IF Indices = {} THEN draft.profile
  ELSE IF /\ Drafted \cap Qualified # {}
          /\ picked \/ draft.profile # DefaultProfile
         THEN draft.profile ELSE Quotes[Best].id

FittedApp == IF Ready THEN draft.app ELSE None

FittedItem == IF draft.item \in ItemsShown THEN draft.item ELSE None

\* Fault: the longest tenor that is shorter than the product allows.
ShorterTenor ==
  LET allowed == {t \in Tenors : Selected # <<>> /\ t < Selected[1].tenor} IN
  IF Selected # <<>> /\ draft.tenor > Selected[1].tenor /\ allowed # {}
    THEN CHOOSE t \in allowed : \A u \in allowed : u <= t
    ELSE draft.tenor

FittedTenor ==
  LET allowed == {t \in Tenors : Selected # <<>> /\ t <= Selected[1].tenor} IN
  IF Selected # <<>> /\ draft.tenor > Selected[1].tenor /\ allowed # {}
    THEN CHOOSE t \in allowed : \A u \in allowed : u <= t
    ELSE draft.tenor

\* Filled in once; a larger amount later does not raise it.
FittedCollateral ==
  CASE Selected = <<>> -> draft.collateral
    [] Selected # <<>> /\ ~Secured(Selected) -> 0
    [] OTHER -> IF draft.collateral = 0 THEN Required(Selected, draft.amount)
                ELSE draft.collateral

Fitted ==
  [amount |-> draft.amount, collateral |-> FittedCollateral, app |-> FittedApp,
   profile |-> FittedProfile, tenor |-> FittedTenor, item |-> FittedItem]

RunEffects ==
  /\ UNCHANGED <<chain, page, picked, request, desk, moves>>
  /\ draft' = Fitted /\ draft' # draft

-----------------------------------------------------------------------------
(* The borrower fills in the form.  Below the apps it opens once one is     *)
(* chosen.                                                                  *)

Submitting == request.at \in {"session", "wallet", "record"}

\* handleSelectMerchant: no item is chosen any more.
WithApp(m) == [draft EXCEPT !.app = m, !.item = None]

\* A card of an app, or the list of all, with its empty first line.
PickApp(m) ==
  /\ m \in page.route.apps \cup {None}
  /\ draft' = WithApp(m) /\ draft' # draft
  /\ UNCHANGED <<chain, page, picked, request, desk>>

\* updateDraftAmount
Clamped(a) == Smaller(SliderMax, a)

\* The chips beside it: fixed amounts the slider reaches, and all of it.
QuickPicks == {a \in Amounts \cup {SliderMax} : a > 0 /\ a <= SliderMax}

EnterAmount(a) ==
  /\ Ready
  /\ draft' = [draft EXCEPT !.amount = Clamped(a)]
  /\ UNCHANGED <<chain, page, picked, request, desk>>

\* A live item, and its price: no more of it than the slider reaches, and what is
\* typed in later leaves the item chosen.
PickItem(i) ==
  /\ Ready /\ i \in ItemsShown
  /\ draft' = [draft EXCEPT !.item = i, !.amount = Clamped(Catalogue[i].price)]
  /\ UNCHANGED <<chain, page, picked, request, desk>>

\* An app without live items shows examples: their price only.
PickExample(a) == ItemsShown = {} /\ EnterAmount(a)

\* handleSelectProfile
PickProfile(i) ==
  /\ Ready /\ i \in Qualified
  /\ picked' = TRUE
  /\ draft' = [draft EXCEPT !.profile = Quotes[i].id]
  /\ UNCHANGED <<chain, page, request, desk>>

PickTenor(t) ==
  /\ Ready /\ (Selected # <<>> => t <= Selected[1].tenor)
  /\ draft' = [draft EXCEPT !.tenor = t]
  /\ UNCHANGED <<chain, page, picked, request, desk>>

EnterCollateral(c) ==
  /\ Ready /\ Secured(Selected)
  /\ draft' = [draft EXCEPT !.collateral = c]
  /\ UNCHANGED <<chain, page, picked, request, desk>>

\* "Retry this amount" of a rejected request: any amount, whatever the product.
RetryAmount(a) ==
  /\ draft' = [draft EXCEPT !.amount = a]
  /\ UNCHANGED <<chain, page, picked, request, desk>>

-----------------------------------------------------------------------------
(* handleRequestLoan                                                        *)

\* Fault: collateral is there, but not as much as the amount calls for.
SomeCollateral ==
  Secured(Selected) =>
    /\ draft.collateral > 0
    /\ draft.collateral <= page.liquid

CollateralEnough ==
  Secured(Selected) =>
    /\ draft.collateral >= Required(Selected, draft.amount)
    /\ draft.collateral <= page.liquid

\* requestBlockingMessage
Blocked == page.credit # "none"

\* Where the request is sent from.  The guide suggests it beside an open credit too.
SendOffered(place) == Ready /\ ~Submitting /\ (place # "guide" => ~Blocked)

\* The early returns of the handler.
MaySend ==
  /\ \E place \in {"button", "panel", "guide"} : SendOffered(place)
  /\ ~Blocked
  /\ draft.amount > 0
  /\ Selected # <<>> => Selected[1].qualified
  /\ draft.amount <= AvailableLimit
  /\ CollateralEnough

\* createRequestLoanMessage, createRequestCollateralizedLoanMessage: of product q.
Payload(q) ==
  [NoRequest EXCEPT !.amount = draft.amount, !.tenor = draft.tenor, !.secured = Secured(q),
                    !.profile = IF q = <<>> THEN draft.profile ELSE q[1].id,
                    !.collateral = IF Secured(q) THEN draft.collateral ELSE 0]

\* The message is made of this render's values.
Message ==
  [Payload(Selected) EXCEPT !.at = "session", !.shown = Selected, !.liquid = page.liquid]

Send ==
  /\ MaySend
  /\ request' = Message
  /\ UNCHANGED <<chain, page, draft, picked, desk>>

\* Session, then a sync: with an open credit in the backend's rows it ends here, else
\* the wallet opens.
Recheck ==
  /\ request.at = "session"
  /\ page' \in Answers(Kept)
  /\ request' = IF page'.credit = "none"
                  THEN [request EXCEPT !.at = "wallet", !.stale = (chain.credit # "none")]
                  ELSE NoRequest
  /\ UNCHANGED <<chain, draft, picked, desk, moves>>

\* No session, no sync, a rejected preview or prompt, a timeout: a message at most.
RequestEnds ==
  /\ request.at \in {"session", "wallet"}
  /\ request' = NoRequest
  /\ UNCHANGED <<chain, page, draft, picked, desk, moves>>

\* What the contract checks, on its own: the policy, one credit per borrower, and its
\* own quote of the product in the message.
ChainAllows ==
  /\ ~chain.terms.paused
  /\ chain.credit = "none"
  /\ request.amount > 0
  /\ request.tenor > 0 /\ request.tenor <= chain.terms.cap
  /\ \E i \in DOMAIN chain.terms.quotes :
       LET q == chain.terms.quotes[i] IN
       /\ q.id = request.profile /\ q.secured = request.secured /\ q.qualified
       /\ request.tenor <= q.tenor /\ request.amount <= q.max
       /\ request.collateral >= Required(<<q>>, request.amount)
  /\ request.secured => request.collateral > 0 /\ request.collateral <= chain.terms.liquid

\* The borrower signs.  A refusal for an open credit is followed by a sync.
Sign ==
  /\ request.at = "wallet"
  /\ \/ /\ ChainAllows
        /\ chain' = [chain EXCEPT !.credit = "pending"]
        /\ request' = [request EXCEPT !.at = "record"]
        /\ UNCHANGED page
     \/ /\ ~ChainAllows
        /\ request' = [NoRequest EXCEPT !.at = "refused"]
        /\ page' \in {page} \cup IF chain.credit = "none" THEN {} ELSE Answers(Kept)
        /\ UNCHANGED chain
  /\ UNCHANGED <<draft, picked, desk, moves>>

\* An operator approves what is pending, unless the protocol is paused; in preview mode
\* the backend approves it in its own rows alone.
Approved == IF chain.credit = "pending" /\ ~chain.terms.paused
              THEN {chain, [chain EXCEPT !.credit = "active"]} ELSE {chain}

\* createLoanRequest, the demo's approval where it is enabled, and the sync, which
\* keeps no products: the form starts again.
Record ==
  /\ request.at = "record"
  /\ chain' \in IF DemoApproval THEN Approved ELSE {chain}
  /\ page' \in Answers({})' /\ draft' = Default
  /\ request' = NoRequest
  /\ UNCHANGED <<picked, desk, moves>>

\* The backend does not take it yet, or does not answer: the draft stays, and with a
\* conflict the page is synced.
RecordFails ==
  /\ request.at = "record"
  /\ \/ UNCHANGED <<page, draft>>
     \/ /\ page' \in Answers(Kept)
        /\ draft' \in {draft} \cup IF page'.credit = "none" THEN {} ELSE {Default}
  /\ request' = NoRequest
  /\ UNCHANGED <<chain, picked, desk, moves>>

-----------------------------------------------------------------------------
(* The pending request.                                                     *)

\* The buttons of the card that shows it.
CancelOffered == page.credit = "pending" /\ "cancel" \notin desk
ReviewOffered == DemoApproval /\ page.credit = "pending" /\ desk = {}

\* handleCancelPendingRequest
PressCancel ==
  /\ CancelOffered
  /\ desk' = desk \cup {"cancel"}
  /\ UNCHANGED <<chain, page, draft, picked, request>>

\* handleReviewPendingRequest, by the button or by the effect that runs it once.
PressReview ==
  /\ ReviewOffered /\ ~Submitting
  /\ desk' = {"review"}
  /\ UNCHANGED <<chain, page, draft, picked, request>>

\* The chain cancels or the operator approves what is still pending; then a sync.
DeskDone(work) ==
  /\ work \in desk
  /\ chain' \in IF work = "review" THEN Approved
                ELSE {[chain EXCEPT !.credit = IF @ = "pending" THEN "none" ELSE @]}
  /\ page' \in {page} \cup Answers({})'
  /\ desk' = desk \ {work}
  /\ UNCHANGED <<draft, picked, request, moves>>

DeskFails(work) ==
  /\ work \in desk
  /\ desk' = desk \ {work}
  /\ UNCHANGED <<chain, page, draft, picked, request, moves>>

-----------------------------------------------------------------------------
(* The chain moves on, and the page may follow.                              *)

\* Holdings, limits, products or the policy change, or the protocol is paused.
TermsChange ==
  /\ \E t \in Terms \ {chain.terms} : chain' = [chain EXCEPT !.terms = t]
  /\ UNCHANGED <<page, draft, picked, request, desk>>

\* An operator decides, a loan is repaid, or another device asks for credit.
CreditChanges ==
  /\ \E c \in Credits \ {chain.credit} : chain' = [chain EXCEPT !.credit = c]
  /\ request' = [request EXCEPT !.credit = @ \/ request.at = "wallet"]
  /\ UNCHANGED <<page, draft, picked, desk>>

\* The background refresh, or any other sync.
Refresh ==
  /\ page' \in Answers(Kept) /\ page' # page
  /\ UNCHANGED <<chain, draft, picked, request, desk>>

\* The session is reset, or the account left and entered again, and loaded.
Reload ==
  /\ page' \in Answers({}) /\ draft' = Default
  /\ picked' \in {FALSE, picked}
  /\ UNCHANGED <<chain, request, desk>>

-----------------------------------------------------------------------------
Fill ==
  \/ \E m \in Apps \cup {None} : PickApp(m)
  \/ \E i \in DOMAIN Catalogue : PickItem(i)
  \/ \E a \in Amounts : EnterAmount(a) \/ PickExample(a) \/ RetryAmount(a)
  \/ \E a \in QuickPicks : EnterAmount(a)
  \/ \E i \in Indices : PickProfile(i)
  \/ \E t \in Tenors : PickTenor(t)
  \/ \E c \in Collaterals : EnterCollateral(c)

Move ==
  /\ moves < MaxMoves /\ moves' = moves + 1
  /\ \/ Fill \/ Send \/ PressCancel \/ PressReview
     \/ TermsChange \/ CreditChanges \/ Refresh \/ Reload

Handle == Recheck \/ RequestEnds \/ Sign \/ Record \/ RecordFails

Next ==
  \/ Move \/ RunEffects \/ Handle
  \/ \E work \in {"cancel", "review"} : DeskDone(work) \/ DeskFails(work)

\* React runs the effects of a render.  Nothing else is assumed.
Spec == Init /\ [][Next]_vars /\ WF_vars(RunEffects)

-----------------------------------------------------------------------------
(* Properties.                                                              *)

\* The form fits what the page knows, as far as the effects decide: a product that
\* qualifies if any does, a tenor of it if it has one, an app that is
\* still active, an item of it that is still live, no collateral where none is asked for.
DraftFits ==
  /\ Qualified # {} => Drafted \cap Qualified # {}
  /\ Selected # <<>> =>
       \/ draft.tenor <= Selected[1].tenor
       \/ \A t \in Tenors : t > Selected[1].tenor
  /\ draft.app \in page.route.apps \cup {None}
  /\ draft.item # None =>
       draft.item \in page.route.items /\ draft.app \in {Catalogue[draft.item].app, None}
  /\ Selected # <<>> /\ ~Secured(Selected) => draft.collateral = 0

\* A form at which no effect writes any more is one that fits.
RestFits == Fitted = draft => DraftFits

\* How many renders the form is from rest, at most: the product and the app come
\* first, and what depends on them after.
RendersLeft ==
  IF Fitted = draft THEN 0
  ELSE IF FittedProfile = draft.profile /\ FittedApp = draft.app THEN 1 ELSE 2

\* Each render brings the form nearer to rest, whatever the data and the user did
\* before: two effects never undo each other's writing, and after any input two
\* renders are enough.
EffectsProgress == [][RunEffects => RendersLeft' < RendersLeft]_vars

\* The five effects that write into the form, each reading what another writes,
\* come to rest whatever the data and the user did before (no render loop), and the
\* draft they rest on fits.
FormSettles == <>[](Fitted = draft /\ DraftFits)

\* What the page showed of the product in the message is what the chain quotes now.
AsQuoted ==
  \E i \in DOMAIN chain.terms.quotes :
    chain.terms.quotes[i] = [request.shown[1] EXCEPT !.rollup = TRUE]

\* The page's checks and its second look leave the contract (profiles.move,
\* loan_book.move) nothing to refuse but what lies outside of them.  The page reads
\* neither the pause nor the policy's tenor cap; it sends what it checked against no
\* product, or a tenor that no effect has fitted yet; the product or the LEND it showed
\* was built in, kept or old, or has changed since; or there is a credit that the rows
\* of the second look lacked or that came after it.
RefusalsExplained ==
  [][(request.at = "wallet" /\ request'.at = "refused") =>
       \/ chain.terms.paused \/ request.tenor > chain.terms.cap
       \/ request.shown = <<>> \/ request.tenor > request.shown[1].tenor
       \/ ~AsQuoted
       \/ request.secured /\ request.liquid > chain.terms.liquid
       \/ chain.credit # "none" /\ (request.stale \/ request.credit)]_vars
=============================================================================
