-------------------------- MODULE CheckoutForm_proofs --------------------------
(***************************************************************************)
(* Machine-checked facts about CheckoutForm, for any terms the chain may     *)
(* grant, any rows of the backend, any catalogue and any amounts: that the    *)
(* form comes to rest, and what the page's checks leave the contract to       *)
(* refuse.                                                                  *)
(***************************************************************************)
EXTENDS CheckoutForm, WellFoundedInduction, TLAPS

-----------------------------------------------------------------------------
(* The product a request is for.                                            *)

\* The first of some places in a list is one of them.
LEMMA FirstIsIn ==
  ASSUME NEW S \in SUBSET Nat, S # {}
  PROVE  First(S) \in S
<1>1. PICK i \in S : \A j \in S : ~(<<j, i>> \in OpToRel(<, Nat))
  BY NatLessThanWellFounded, WFMin
<1>2. ASSUME NEW j \in S, j < i PROVE <<j, i>> \in OpToRel(<, Nat)
  BY <1>2, SMT DEF OpToRel
<1>3. ASSUME NEW j \in S PROVE i <= j
  <2>1. ~(j < i)
    BY <1>1, <1>2, Zenon
  <2> QED
    BY <2>1
<1> QED
  BY <1>3 DEF First

-----------------------------------------------------------------------------
(* The types of the state, and the invariant: between the button and the      *)
(* signature, the message is one that the page could check against what it    *)
(* showed.  Which product it names is nobody's matter here.                  *)

ChainType == [terms : Terms, credit : Credits]

PageType ==
  [quotes : Seq(QuoteType), score : Nat, liquid : Nat, route : Routes, credit : Credits]

DraftType(product) ==
  [amount : Nat, collateral : Nat, app : Apps \cup {None}, profile : {product},
   tenor : Tenors, item : DOMAIN Catalogue \cup {None}]

RequestType(product, shown) ==
  [at : {"idle", "session", "wallet", "record", "refused"}, amount : Nat,
   profile : {product}, secured : BOOLEAN, tenor : Nat, collateral : Nat,
   shown : {shown}, liquid : Nat, stale : BOOLEAN, credit : BOOLEAN]

CheckoutTypeOK ==
  /\ chain \in ChainType /\ page \in PageType
  /\ draft \in DraftType(draft.profile)
  /\ request \in RequestType(request.profile, request.shown)

\* Message r keeps to product q as the page showed it.
KeepsTo(r, q) ==
  /\ q.id = r.profile /\ q.secured = r.secured /\ q.qualified
  /\ r.amount <= q.max
  /\ r.collateral >= Required(<<q>>, r.amount)
  /\ r.secured => r.collateral <= r.liquid

Stands(r) ==
  /\ r.amount > 0 /\ r.tenor > 0
  /\ r.shown = <<>> \/ \E q \in QuoteType : r.shown = <<q>> /\ KeepsTo(r, q)

RequestStands == request.at \in {"session", "wallet"} => Stands(request)

\* The second look at the account, where the backend's rows had the chain's credit.
CreditFree ==
  request.at = "wallet" /\ ~request.stale /\ ~request.credit => chain.credit = "none"

CheckoutInv == CheckoutTypeOK /\ RequestStands /\ CreditFree

-----------------------------------------------------------------------------
(* What a sync brings, and what the page derives from it.                    *)

\* The terms of an account.
LEMMA TermsFields ==
  ASSUME NEW t \in Terms
  PROVE  t.quotes \in Seq(QuoteType) /\ t.liquid \in Nat /\ t.cap \in Nat
BY CheckoutAssumption DEF TermsType

\* The places and the products of a list.
LEMMA QuotesFields ==
  ASSUME NEW qs \in Seq(QuoteType)
  PROVE  /\ DOMAIN qs \subseteq Nat
         /\ \A i \in DOMAIN qs : qs[i] \in QuoteType
         /\ DOMAIN qs # {} => 1 \in DOMAIN qs
<1>1. DOMAIN qs = 1..Len(qs) /\ Len(qs) \in Nat
  OBVIOUS
<1> QED
  BY <1>1

\* The built-in products are products.
LEMMA BuiltInType ==
  ASSUME NEW id \in Nat, NEW ok \in BOOLEAN, NEW max \in Nat, NEW tenor \in Nat, NEW ratio \in Nat
  PROVE  BuiltIn(id, ok, max, tenor, ratio) \in QuoteType
BY DEF QuoteType, BuiltIn

LEMMA PreviewType ==
  ASSUME NEW row \in Rows
  PROVE  Preview(row) \in Seq(QuoteType)
<1>1. row.score \in Nat /\ row.held \in Nat
  BY CheckoutAssumption
<1> DEFINE m1 == Smaller(row.score, 500)
           m2 == Smaller(row.score + 250, 2500)
           m3 == Larger(500, Smaller(row.score + 500, 5000))
           m4 == Larger(300, Larger(row.score, 1500))
           standard == row.held >= 100
           line == row.held >= 500
           ratio == 15000
<1>2. m1 \in Nat /\ m2 \in Nat /\ m3 \in Nat /\ m4 \in Nat
  BY <1>1 DEF Smaller, Larger
<1>3. standard \in BOOLEAN /\ line \in BOOLEAN /\ ratio \in Nat
  OBVIOUS
<1>4. Preview(row) = <<BuiltIn(1, TRUE, m1, 3, 0), BuiltIn(2, standard, m2, 6, 0),
                       BuiltIn(3, line, m3, 12, 0), BuiltIn(4, TRUE, m4, 18, ratio)>>
  BY DEF Preview
<1> HIDE DEF m1, m2, m3, m4, standard, line, ratio
<1>5. PICK p1 \in QuoteType : p1 = BuiltIn(1, TRUE, m1, 3, 0)
  BY <1>2, BuiltInType
<1>6. PICK p2 \in QuoteType : p2 = BuiltIn(2, standard, m2, 6, 0)
  BY <1>2, <1>3, BuiltInType
<1>7. PICK p3 \in QuoteType : p3 = BuiltIn(3, line, m3, 12, 0)
  BY <1>2, <1>3, BuiltInType
<1>8. PICK p4 \in QuoteType : p4 = BuiltIn(4, TRUE, m4, 18, ratio)
  BY <1>2, <1>3, BuiltInType
<1>9. Preview(row) = <<p1, p2, p3, p4>>
  BY <1>4, <1>5, <1>6, <1>7, <1>8, Zenon
<1>10. <<p1, p2, p3, p4>> \in Seq(QuoteType)
  OBVIOUS
<1> QED
  BY <1>9, <1>10, Zenon

\* What a sync brings is a page, whatever the chain holds.
LEMMA AnswerType ==
  ASSUME NEW c \in ChainType, NEW kept \in SUBSET Seq(QuoteType)
  PROVE  [quotes : {c.terms.quotes, <<>>} \cup kept \cup {Preview(row) : row \in Rows},
          score : {row.score : row \in Rows},
          liquid : {c.terms.liquid} \cup {row.liquid : row \in Rows},
          route : Routes, credit : Credits] \subseteq PageType
<1>1. c.terms.quotes \in Seq(QuoteType) /\ c.terms.liquid \in Nat
  BY TermsFields DEF ChainType
<1>2. {c.terms.quotes, <<>>} \cup kept \cup {Preview(row) : row \in Rows} \subseteq Seq(QuoteType)
  <2>1. <<>> \in Seq(QuoteType)
    OBVIOUS
  <2>2. \A row \in Rows : Preview(row) \in Seq(QuoteType)
    BY PreviewType
  <2> QED
    BY <1>1, <2>1, <2>2, Zenon
<1>3. \A row \in Rows : row.score \in Nat /\ row.liquid \in Nat
  BY CheckoutAssumption
<1> QED
  BY <1>1, <1>2, <1>3 DEF PageType

LEMMA AnswersType ==
  ASSUME chain \in ChainType, page \in PageType
  PROVE  Answers({}) \subseteq PageType /\ Answers(Kept) \subseteq PageType
<1>1. {page.quotes} \in SUBSET Seq(QuoteType) /\ {} \in SUBSET Seq(QuoteType)
  BY DEF PageType
<1> QED
  BY <1>1, AnswerType DEF Answers, Kept

\* After the chain has moved.
LEMMA AnswersPrimeType ==
  ASSUME chain' \in ChainType
  PROVE  Answers({})' \subseteq PageType
<1>1. {} \in SUBSET Seq(QuoteType)
  OBVIOUS
<1> QED
  BY <1>1, AnswerType DEF Answers

\* The product of the form is one that the page shows, or there is none.
LEMMA SelectedIs ==
  ASSUME page \in PageType
  PROVE  \/ Selected = <<>>
         \/ \E i \in Indices : Selected = <<Quotes[i]>>
<1>1. /\ Indices \subseteq Nat /\ Drafted \subseteq Indices /\ Qualified \subseteq Indices
      /\ Indices # {} => 1 \in Indices
  BY QuotesFields DEF PageType, Indices, Quotes, Drafted, Qualified
<1>2. Drafted # {} => First(Drafted) \in Indices
  BY <1>1, FirstIsIn
<1>3. Qualified # {} => First(Qualified) \in Indices
  BY <1>1, FirstIsIn
<1>4. CASE Drafted \cap Qualified # {}
  <2>1. Selected = <<Quotes[First(Drafted)]>>
    BY <1>4 DEF Selected
  <2> QED
    BY <1>2, <1>4, <2>1
<1>5. CASE Drafted \cap Qualified = {} /\ Qualified # {}
  <2>1. Selected = <<Quotes[First(Qualified)]>>
    BY <1>5 DEF Selected
  <2> QED
    BY <1>3, <1>5, <2>1
<1>6. CASE Qualified = {} /\ Drafted # {}
  <2>1. Selected = <<Quotes[First(Drafted)]>>
    BY <1>6 DEF Selected
  <2> QED
    BY <1>2, <1>6, <2>1
<1>7. CASE Qualified = {} /\ Drafted = {} /\ Indices # {}
  <2>1. Selected = <<Quotes[1]>>
    BY <1>7 DEF Selected
  <2> QED
    BY <1>1, <1>7, <2>1
<1>8. CASE Qualified = {} /\ Drafted = {} /\ Indices = {}
  BY <1>8 DEF Selected
<1> QED
  BY <1>4, <1>5, <1>6, <1>7, <1>8

\* The collateral it calls for is an amount.
LEMMA RequiredNat ==
  ASSUME NEW q \in QuoteType, NEW amount \in Nat
  PROVE  Required(<<q>>, amount) \in Nat
<1>1. q.ratio \in Nat
  BY DEF QuoteType
<1>2. PICK x \in Nat : x = amount * q.ratio
  BY <1>1
<1>3. (x + 10000 - 1) \div 10000 \in Nat
  OBVIOUS
<1>4. <<q>>[1] = q
  OBVIOUS
<1> QED
  BY <1>2, <1>3, <1>4 DEF Required, BPS

\* The limits of the form; what is available is never above the product's own.
LEMMA LimitsNat ==
  ASSUME page \in PageType
  PROVE  AvailableLimit \in Nat /\ SliderMax \in Nat
<1>1. page.score \in Nat
  BY DEF PageType
<1>2. CASE Selected = <<>>
  BY <1>1, <1>2 DEF AvailableLimit, SliderMax
<1>3. CASE Selected # <<>>
  <2> PICK i \in Indices : Selected = <<Quotes[i]>>
    BY <1>3, SelectedIs
  <2>1. Quotes[i] \in QuoteType
    BY QuotesFields DEF PageType, Indices, Quotes
  <2>2. Quotes[i].max \in Nat /\ Selected[1] = Quotes[i]
    BY <2>1 DEF QuoteType
  <2>3. EffectiveLimit(Quotes[i]) \in Nat
    BY <1>1, <2>2 DEF EffectiveLimit, Smaller
  <2> QED
    BY <1>3, <2>2, <2>3 DEF AvailableLimit, SliderMax
<1> QED
  BY <1>2, <1>3

-----------------------------------------------------------------------------
(* The form.  It reads the page and changes nothing that a request under way  *)
(* has taken with it.                                                       *)

LEMMA DefaultType == Default \in DraftType(Default.profile)
BY DEF Default, DraftType, Tenors

\* The draft with some of its fields written.
LEMMA DraftWritten ==
  ASSUME NEW d, NEW amount \in Nat, NEW collateral \in Nat, NEW app \in Apps \cup {None},
         NEW profile, NEW tenor \in Tenors, NEW item \in DOMAIN Catalogue \cup {None},
         d = [amount |-> amount, collateral |-> collateral, app |-> app,
              profile |-> profile, tenor |-> tenor, item |-> item]
  PROVE  d \in DraftType(d.profile)
BY DEF DraftType

\* Of the tenors a product allows, one is the longest.
LEMMA LongestAllowed ==
  ASSUME NEW allowed \in SUBSET Tenors, allowed # {}
  PROVE  (CHOOSE t \in allowed : \A u \in allowed : u <= t) \in allowed
<1>1. allowed \subseteq {1, 3, 6}
  BY DEF Tenors
<1>2. \E t \in allowed : \A u \in allowed : u <= t
  <2>1. CASE 6 \in allowed
    BY <1>1, <2>1
  <2>2. CASE 6 \notin allowed /\ 3 \in allowed
    BY <1>1, <2>2
  <2>3. CASE 6 \notin allowed /\ 3 \notin allowed
    <3>1. \A u \in allowed : u = 1
      BY <1>1, <2>3
    <3>2. \A t, u \in allowed : u <= t
      BY <3>1
    <3> QED
      BY <3>2
  <2> QED
    BY <2>1, <2>2, <2>3
<1> QED
  BY <1>2

\* What the effects write.
LEMMA FittedType ==
  ASSUME CheckoutTypeOK
  PROVE  Fitted \in DraftType(Fitted.profile)
<1>1. /\ draft.amount \in Nat /\ draft.collateral \in Nat /\ draft.app \in Apps \cup {None}
      /\ draft.tenor \in Tenors /\ draft.item \in DOMAIN Catalogue \cup {None}
  BY DEF CheckoutTypeOK, DraftType
<1>2. FittedCollateral \in Nat
  <2>1. CASE Selected = <<>>
    BY <1>1, <2>1 DEF FittedCollateral
  <2>2. CASE Selected # <<>> /\ ~Secured(Selected)
    BY <2>2 DEF FittedCollateral
  <2>3. CASE Selected # <<>> /\ Secured(Selected)
    <3> PICK i \in Indices : Selected = <<Quotes[i]>>
      BY <2>3, SelectedIs DEF CheckoutTypeOK
    <3>1. Quotes[i] \in QuoteType
      BY QuotesFields DEF CheckoutTypeOK, PageType, Indices, Quotes
    <3>2. Required(Selected, draft.amount) \in Nat
      BY <1>1, <3>1, RequiredNat
    <3> QED
      BY <1>1, <2>3, <3>2 DEF FittedCollateral
  <2> QED
    BY <2>1, <2>2, <2>3
<1>3. FittedApp \in Apps \cup {None}
  BY <1>1 DEF FittedApp
<1>4. FittedTenor \in Tenors
  <2> DEFINE allowed == {t \in Tenors : Selected # <<>> /\ t <= Selected[1].tenor}
             longest == CHOOSE t \in allowed : \A u \in allowed : u <= t
  <2>1. allowed # {} => longest \in allowed
    BY LongestAllowed
  <2>2. (allowed # {} /\ FittedTenor = longest) \/ FittedTenor = draft.tenor
    BY DEF FittedTenor
  <2> QED
    BY <1>1, <2>1, <2>2
<1>5. FittedItem \in DOMAIN Catalogue \cup {None}
  BY <1>1 DEF FittedItem
<1> QED
  BY <1>2, <1>3, <1>4, <1>5, <1>1, DraftWritten DEF Fitted

\* What the borrower writes.
LEMMA FillType ==
  ASSUME CheckoutTypeOK, Fill
  PROVE  draft' \in DraftType(draft'.profile) /\ UNCHANGED <<chain, page, request>>
<1>0. draft \in DraftType(draft.profile) /\ SliderMax \in Nat
  BY LimitsNat DEF CheckoutTypeOK
<1>1. \A a \in Nat : Clamped(a) \in Nat
  BY <1>0 DEF Clamped, Smaller
<1>2. ASSUME NEW m \in Apps \cup {None}, PickApp(m)
      PROVE  draft' \in DraftType(draft'.profile) /\ UNCHANGED <<chain, page, request>>
  BY <1>0, <1>2 DEF PickApp, WithApp, DraftType
<1>3. ASSUME NEW i \in DOMAIN Catalogue, PickItem(i)
      PROVE  draft' \in DraftType(draft'.profile) /\ UNCHANGED <<chain, page, request>>
  <2>1. Catalogue[i].price \in Nat
    BY CheckoutAssumption
  <2>2. PICK n \in Nat : n = Clamped(Catalogue[i].price)
    BY <1>1, <2>1
  <2>3. draft' = [draft EXCEPT !.item = i, !.amount = n]
    BY <1>3, <2>2 DEF PickItem
  <2> QED
    BY <1>0, <1>3, <2>3 DEF PickItem, DraftType
<1>4. ASSUME NEW a \in Nat, EnterAmount(a) \/ PickExample(a)
      PROVE  draft' \in DraftType(draft'.profile) /\ UNCHANGED <<chain, page, request>>
  <2>1. PICK n \in Nat : n = Clamped(a)
    BY <1>1
  <2>2. draft' = [draft EXCEPT !.amount = n] /\ UNCHANGED <<chain, page, request>>
    BY <1>4, <2>1 DEF EnterAmount, PickExample
  <2> QED
    BY <1>0, <2>2 DEF DraftType
<1>5. ASSUME NEW a \in Nat, RetryAmount(a)
      PROVE  draft' \in DraftType(draft'.profile) /\ UNCHANGED <<chain, page, request>>
  BY <1>0, <1>5 DEF RetryAmount, DraftType
<1>6. ASSUME NEW i \in Indices, PickProfile(i)
      PROVE  draft' \in DraftType(draft'.profile) /\ UNCHANGED <<chain, page, request>>
  <2>1. PICK p : draft' = [draft EXCEPT !.profile = p]
    BY <1>6 DEF PickProfile
  <2> QED
    BY <1>0, <1>6, <2>1 DEF PickProfile, DraftType
<1>7. ASSUME NEW t \in Tenors, PickTenor(t)
      PROVE  draft' \in DraftType(draft'.profile) /\ UNCHANGED <<chain, page, request>>
  BY <1>0, <1>7 DEF PickTenor, DraftType
<1>8. ASSUME NEW c \in Nat, EnterCollateral(c)
      PROVE  draft' \in DraftType(draft'.profile) /\ UNCHANGED <<chain, page, request>>
  BY <1>0, <1>8 DEF EnterCollateral, DraftType
<1>9. Amounts \cup Collaterals \cup QuickPicks \subseteq Nat
  BY <1>0, CheckoutAssumption DEF QuickPicks
<1> QED
  BY <1>2, <1>3, <1>4, <1>5, <1>6, <1>7, <1>8, <1>9 DEF Fill

-----------------------------------------------------------------------------
(* The request.                                                             *)

LEMMA NoRequestType ==
  NoRequest \in RequestType(NoRequest.profile, NoRequest.shown) /\ NoRequest.at = "idle"
BY DEF NoRequest, RequestType

\* A request whose message is not under way owes nothing.
LEMMA AtRest ==
  ASSUME CheckoutTypeOK', request'.at \notin {"session", "wallet"}
  PROVE  CheckoutInv'
BY DEF CheckoutInv, RequestStands, CreditFree

\* The same message, further on.
LEMMA StillStands ==
  ASSUME NEW r, NEW s, Stands(r),
         s.profile = r.profile, s.secured = r.secured, s.tenor = r.tenor,
         s.amount = r.amount, s.collateral = r.collateral, s.shown = r.shown,
         s.liquid = r.liquid
  PROVE  Stands(s)
BY DEF Stands, KeepsTo

\* The button: what the page checked, it checked against the product it showed.
LEMMA SendInv ==
  ASSUME CheckoutInv, Send
  PROVE  CheckoutInv'
<1>1. /\ MaySend /\ request' = Message /\ UNCHANGED <<chain, page, draft>>
      /\ chain \in ChainType /\ page \in PageType /\ draft \in DraftType(draft.profile)
  BY DEF Send, CheckoutInv, CheckoutTypeOK
<1>2. /\ draft.amount \in Nat /\ draft.collateral \in Nat
      /\ draft.tenor \in Nat /\ draft.tenor > 0
      /\ page.score \in Nat /\ page.liquid \in Nat
  BY <1>1 DEF DraftType, Tenors, PageType
<1>3. Selected = <<>> \/ \E q \in QuoteType : Selected = <<q>>
  BY <1>1, SelectedIs, QuotesFields DEF PageType, Indices, Quotes
<1>4. Secured(Selected) \in BOOLEAN
  BY <1>3 DEF Secured, QuoteType
<1> DEFINE p == IF Selected = <<>> THEN draft.profile ELSE Selected[1].id
           s == Secured(Selected)
           c == IF Secured(Selected) THEN draft.collateral ELSE 0
           shown == Selected
<1>5. s \in BOOLEAN /\ c \in Nat
  BY <1>2, <1>4
<1>6. request' = [at |-> "session", amount |-> draft.amount, profile |-> p, secured |-> s,
                  tenor |-> draft.tenor, collateral |-> c, shown |-> shown,
                  liquid |-> page.liquid, stale |-> FALSE, credit |-> FALSE]
  BY <1>1 DEF Message, Payload, NoRequest
<1> HIDE DEF p, s, c, shown
<1>7. CheckoutTypeOK'
  <2>1. request' \in RequestType(request'.profile, request'.shown)
    BY <1>2, <1>5, <1>6 DEF RequestType
  <2> QED
    BY <1>1, <2>1 DEF CheckoutTypeOK
<1>8. /\ request'.at = "session" /\ request'.amount = draft.amount
      /\ request'.tenor = draft.tenor /\ request'.profile = p /\ request'.secured = s
      /\ request'.collateral = c /\ request'.shown = shown /\ request'.liquid = page.liquid
  BY <1>6
<1>9. ASSUME NEW q \in QuoteType, Selected = <<q>>
      PROVE  KeepsTo(request', q)
  <2>1. Selected # <<>> /\ Selected[1] = q
    BY <1>9
  <2>2. s = q.secured /\ p = q.id
    BY <2>1 DEF s, p, Secured, QuoteType
  <2>3. q.qualified
    BY <1>1, <2>1 DEF MaySend
  <2>4. draft.amount <= q.max
    <3>1. draft.amount <= EffectiveLimit(q)
      BY <1>1, <2>1 DEF MaySend, AvailableLimit
    <3>2. q.max \in Nat
      BY DEF QuoteType
    <3>3. EffectiveLimit(q) \in Nat /\ EffectiveLimit(q) <= q.max
      BY <1>2, <3>2 DEF EffectiveLimit, Smaller
    <3> QED
      BY <1>2, <3>1, <3>2, <3>3
  <2>5. c >= Required(<<q>>, draft.amount) /\ (s => c <= page.liquid)
    <3>1. CASE s
      BY <1>1, <1>9, <3>1 DEF MaySend, CollateralEnough, s, c
    <3>2. CASE ~s
      <4>1. Required(<<q>>, draft.amount) = 0 /\ c = 0
        BY <1>9, <3>2 DEF Required, s, c
      <4> QED
        BY <3>2, <4>1
    <3> QED
      BY <3>1, <3>2
  <2> QED
    BY <1>8, <2>2, <2>3, <2>4, <2>5 DEF KeepsTo
<1>10. Stands(request')
  <2>1. draft.amount > 0
    BY <1>1 DEF MaySend
  <2> QED
    BY <1>2, <1>3, <1>8, <1>9, <2>1 DEF Stands, shown
<1> QED
  BY <1>7, <1>8, <1>10 DEF CheckoutInv, RequestStands, CreditFree

\* The second look lets it pass only without an open credit in the rows.
LEMMA RecheckInv ==
  ASSUME CheckoutInv, Recheck
  PROVE  CheckoutInv'
<1>1. /\ request \in RequestType(request.profile, request.shown) /\ request.at = "session"
      /\ chain \in ChainType /\ page \in PageType /\ draft \in DraftType(draft.profile)
      /\ chain' = chain /\ page' \in Answers(Kept) /\ draft' = draft
  BY DEF Recheck, CheckoutInv, CheckoutTypeOK
<1>2. page' \in PageType
  BY <1>1, AnswersType
<1>3. CASE request' = NoRequest
  <2>1. CheckoutTypeOK'
    BY <1>1, <1>2, <1>3, NoRequestType DEF CheckoutTypeOK
  <2> QED
    BY <1>3, <2>1, NoRequestType, AtRest
<1>4. CASE request' # NoRequest
  <2>0. PICK old \in BOOLEAN :
          /\ old = (chain.credit # "none")
          /\ request' = [request EXCEPT !.at = "wallet", !.stale = old]
    BY <1>4 DEF Recheck
  <2>1. /\ request' \in RequestType(request'.profile, request'.shown)
        /\ request'.profile = request.profile /\ request'.secured = request.secured
        /\ request'.tenor = request.tenor /\ request'.amount = request.amount
        /\ request'.collateral = request.collateral /\ request'.shown = request.shown
        /\ request'.liquid = request.liquid /\ request'.stale = old
    BY <1>1, <2>0 DEF RequestType
  <2>2. CheckoutTypeOK'
    BY <1>1, <1>2, <2>1 DEF CheckoutTypeOK
  <2>3. Stands(request')
    <3>1. Stands(request)
      BY <1>1 DEF CheckoutInv, RequestStands
    <3> QED
      BY <2>1, <3>1, StillStands, Zenon
  <2>4. CreditFree'
    BY <1>1, <2>0, <2>1 DEF CreditFree
  <2> QED
    BY <2>2, <2>3, <2>4 DEF CheckoutInv, RequestStands
<1> QED
  BY <1>3, <1>4

\* What is signed meets the contract.
LEMMA SignInv ==
  ASSUME CheckoutInv, Sign
  PROVE  CheckoutInv'
<1>1. /\ chain \in ChainType /\ page \in PageType /\ draft \in DraftType(draft.profile)
      /\ request \in RequestType(request.profile, request.shown)
      /\ draft' = draft
  BY DEF Sign, CheckoutInv, CheckoutTypeOK
<1>2. CASE ChainAllows
  <2>1. /\ chain' = [chain EXCEPT !.credit = "pending"] /\ page' = page
        /\ request' = [request EXCEPT !.at = "record"]
    BY <1>2 DEF Sign
  <2>2. chain' \in ChainType
    BY <1>1, <2>1 DEF ChainType, Credits
  <2>3. request' \in RequestType(request'.profile, request'.shown) /\ request'.at = "record"
    BY <1>1, <2>1 DEF RequestType
  <2> QED
    BY <1>1, <2>1, <2>2, <2>3, AtRest DEF CheckoutTypeOK
<1>3. CASE ~ChainAllows
  <2>1. /\ request' = [NoRequest EXCEPT !.at = "refused"] /\ chain' = chain
        /\ page' \in {page} \cup Answers(Kept)
    BY <1>3 DEF Sign
  <2>2. request' \in RequestType(request'.profile, request'.shown) /\ request'.at = "refused"
    BY <2>1, NoRequestType DEF RequestType
  <2>3. page' \in PageType
    BY <1>1, <2>1, AnswersType
  <2> QED
    BY <1>1, <2>1, <2>2, <2>3, AtRest DEF CheckoutTypeOK
<1> QED
  BY <1>2, <1>3

\* An operator's approval moves a pending credit only.
LEMMA ApprovedType ==
  ASSUME chain \in ChainType, NEW c \in Approved
  PROVE  c \in ChainType /\ (chain.credit = "none" => c.credit = "none")
<1>1. c = chain \/ (chain.credit = "pending" /\ c = [chain EXCEPT !.credit = "active"])
  BY DEF Approved
<1> QED
  BY <1>1 DEF ChainType, Credits

\* The handler ends.
LEMMA HandlerEndsInv ==
  ASSUME CheckoutInv, RequestEnds \/ Record \/ RecordFails
  PROVE  CheckoutInv'
<1>1. /\ chain \in ChainType /\ page \in PageType /\ draft \in DraftType(draft.profile)
      /\ request' = NoRequest
  BY DEF RequestEnds, Record, RecordFails, CheckoutInv, CheckoutTypeOK
<1>2. chain' \in ChainType
  <2>1. chain' \in Approved \cup {chain}
    BY DEF RequestEnds, Record, RecordFails
  <2> QED
    BY <1>1, <2>1, ApprovedType
<1>3. page' \in PageType
  <2>1. page' \in {page} \cup Answers(Kept) \cup Answers({})'
    BY DEF RequestEnds, Record, RecordFails
  <2> QED
    BY <1>1, <1>2, <2>1, AnswersType, AnswersPrimeType
<1>4. draft' \in {draft, Default}
  BY DEF RequestEnds, Record, RecordFails
<1>5. CheckoutTypeOK'
  BY <1>1, <1>2, <1>3, <1>4, DefaultType, NoRequestType DEF CheckoutTypeOK
<1> QED
  BY <1>1, <1>5, NoRequestType, AtRest

\* Neither the chain nor the request moves.
LEMMA ChainAndRequestStay ==
  ASSUME CheckoutInv, UNCHANGED <<chain, request>>, page' \in PageType,
         draft' \in DraftType(draft'.profile)
  PROVE  CheckoutInv'
BY DEF CheckoutInv, CheckoutTypeOK, RequestStands, CreditFree

-----------------------------------------------------------------------------
(* The chain.                                                               *)

\* New terms leave the message and the credit.
LEMMA TermsChangeInv ==
  ASSUME CheckoutInv, TermsChange
  PROVE  CheckoutInv'
<1>1. /\ chain \in ChainType /\ UNCHANGED <<page, draft, request>>
  BY DEF TermsChange, CheckoutInv, CheckoutTypeOK
<1>2. PICK t \in Terms : chain' = [chain EXCEPT !.terms = t]
  BY DEF TermsChange
<1>3. chain' \in ChainType /\ chain'.credit = chain.credit
  BY <1>1, <1>2 DEF ChainType
<1> QED
  BY <1>1, <1>3 DEF CheckoutInv, CheckoutTypeOK, RequestStands, CreditFree

\* A credit of elsewhere is marked on a request in the wallet.
LEMMA CreditChangesInv ==
  ASSUME CheckoutInv, CreditChanges
  PROVE  CheckoutInv'
<1>1. /\ chain \in ChainType /\ request \in RequestType(request.profile, request.shown)
      /\ page' = page /\ draft' = draft
  BY DEF CreditChanges, CheckoutInv, CheckoutTypeOK
<1>2. PICK c \in Credits : chain' = [chain EXCEPT !.credit = c]
  BY DEF CreditChanges
<1>3. chain' \in ChainType
  BY <1>1, <1>2 DEF ChainType
<1>4. PICK mark \in BOOLEAN : /\ mark = (request.credit \/ request.at = "wallet")
                              /\ request' = [request EXCEPT !.credit = mark]
  BY <1>1 DEF CreditChanges, RequestType
<1>5. /\ request' \in RequestType(request'.profile, request'.shown)
      /\ request'.at = request.at /\ request'.profile = request.profile
      /\ request'.secured = request.secured /\ request'.tenor = request.tenor
      /\ request'.amount = request.amount /\ request'.collateral = request.collateral
      /\ request'.shown = request.shown /\ request'.liquid = request.liquid
      /\ request'.credit = mark
  BY <1>1, <1>4 DEF RequestType
<1>6. CheckoutTypeOK'
  BY <1>1, <1>3, <1>5 DEF CheckoutInv, CheckoutTypeOK
<1>7. RequestStands'
  BY <1>5, StillStands DEF CheckoutInv, RequestStands
<1>8. CreditFree'
  BY <1>4, <1>5 DEF CreditFree
<1> QED
  BY <1>6, <1>7, <1>8 DEF CheckoutInv

\* The desk moves only a credit that is pending, which is none to a request in the
\* wallet that passed the second look.
LEMMA DeskInv ==
  ASSUME CheckoutInv, NEW work \in {"cancel", "review"}, DeskDone(work)
  PROVE  CheckoutInv'
<1>1. /\ chain \in ChainType /\ page \in PageType
      /\ UNCHANGED <<draft, request>> /\ page' \in {page} \cup Answers({})'
  BY DEF DeskDone, CheckoutInv, CheckoutTypeOK
<1>2. chain' \in ChainType /\ (chain.credit = "none" => chain'.credit = "none")
  <2>1. CASE work = "review"
    <3>1. chain' \in Approved
      BY <2>1 DEF DeskDone
    <3> QED
      BY <1>1, <3>1, ApprovedType
  <2>2. CASE work = "cancel"
    <3>1. PICK c \in Credits :
            /\ chain' = [chain EXCEPT !.credit = c]
            /\ chain.credit = "none" => c = "none"
      BY <1>1, <2>2 DEF DeskDone, ChainType, Credits
    <3> QED
      BY <1>1, <3>1 DEF ChainType
  <2> QED
    BY <2>1, <2>2
<1>3. page' \in PageType
  BY <1>1, <1>2, AnswersPrimeType
<1> QED
  BY <1>1, <1>2, <1>3 DEF CheckoutInv, CheckoutTypeOK, RequestStands, CreditFree

-----------------------------------------------------------------------------
(* The theorem.                                                             *)

LEMMA InitCheckoutInv == Init => CheckoutInv
<1> SUFFICES ASSUME Init PROVE CheckoutInv
  OBVIOUS
<1>1. chain \in ChainType
  BY DEF Init, ChainType, Credits
<1>2. page \in PageType
  <2>1. {} \in SUBSET Seq(QuoteType)
    OBVIOUS
  <2> QED
    BY <1>1, <2>1, AnswerType DEF Init, Answers
<1>3. CheckoutTypeOK /\ request.at = "idle"
  BY <1>1, <1>2, DefaultType, NoRequestType DEF Init, CheckoutTypeOK
<1> QED
  BY <1>3 DEF CheckoutInv, RequestStands, CreditFree

LEMMA NextCheckoutInv == CheckoutInv /\ [Next]_vars => CheckoutInv'
<1> SUFFICES ASSUME CheckoutInv, [Next]_vars
             PROVE  CheckoutInv'
  OBVIOUS
<1>0. /\ CheckoutTypeOK /\ draft \in DraftType(draft.profile) /\ page \in PageType
      /\ Answers({}) \subseteq PageType /\ Answers(Kept) \subseteq PageType
  BY AnswersType DEF CheckoutInv, CheckoutTypeOK
<1>1. CASE Fill
  BY <1>0, <1>1, FillType, ChainAndRequestStay
<1>2. CASE Send
  BY <1>2, SendInv
<1>3. CASE PressCancel \/ PressReview \/ UNCHANGED vars
  BY <1>0, <1>3, ChainAndRequestStay DEF PressCancel, PressReview, vars
<1>4. CASE TermsChange \/ CreditChanges
  BY <1>4, TermsChangeInv, CreditChangesInv
<1>5. CASE Reload \/ Refresh
  BY <1>0, <1>5, DefaultType, ChainAndRequestStay DEF Reload, Refresh
<1>6. CASE RunEffects
  BY <1>0, <1>6, FittedType, ChainAndRequestStay DEF RunEffects
<1>7. CASE Handle
  BY <1>7, RecheckInv, SignInv, HandlerEndsInv DEF Handle
<1>8. ASSUME NEW work \in {"cancel", "review"}, DeskDone(work) \/ DeskFails(work)
      PROVE  CheckoutInv'
  BY <1>0, <1>8, DeskInv, ChainAndRequestStay DEF DeskFails
<1> QED
  BY <1>1, <1>2, <1>3, <1>4, <1>5, <1>6, <1>7, <1>8 DEF Next, Move

\* Only a signature is refused.
LEMMA RefusedBySign ==
  ASSUME CheckoutTypeOK, [Next]_vars, request.at = "wallet", request'.at = "refused"
  PROVE  ~ChainAllows
<1>1. request \in RequestType(request.profile, request.shown)
  BY DEF CheckoutTypeOK
<1>2. CASE Sign
  BY <1>1, <1>2 DEF Sign, RequestType
<1>3. CASE ~Sign
  <2>1. request' # NoRequest /\ request' # request
    BY NoRequestType
  <2>2. CreditChanges => request'.at = request.at
    BY <1>1 DEF CreditChanges, RequestType
  <2>3. Send => request'.at = "session"
    BY DEF Send, Message, Payload, NoRequest
  <2>4. Fill => request' = request
    BY FillType
  <2>5. ~Recheck
    BY DEF Recheck
  <2> QED
    BY <1>3, <2>1, <2>2, <2>3, <2>4, <2>5
       DEF Next, Move, Handle, RunEffects, RequestEnds, Record, RecordFails, PressCancel,
           PressReview, TermsChange, Reload, Refresh, DeskDone, DeskFails, vars
<1> QED
  BY <1>2, <1>3

\* What has to be locked for an amount is not nothing.
LEMMA RequiredPositive ==
  ASSUME NEW q \in QuoteType, q.secured, q.ratio >= BPS, NEW amount \in Nat, amount > 0
  PROVE  Required(<<q>>, amount) > 0
<1>1. PICK ratio \in Nat : ratio = q.ratio /\ ratio >= 10000
  BY DEF QuoteType, BPS
<1>2. amount * ratio >= ratio /\ amount * ratio \in Nat
  BY <1>1
<1>3. PICK x \in Nat : x = amount * ratio /\ x >= 10000
  BY <1>1, <1>2
<1>4. (x + 10000 - 1) \div 10000 > 0
  BY <1>3
<1>5. <<q>>[1] = q /\ <<q>> # <<>>
  OBVIOUS
<1> QED
  BY <1>1, <1>3, <1>4, <1>5 DEF Required, Secured, BPS

\* A message that keeps to a product which the chain quotes now, for LEND that is
\* there, under a policy that admits it, is allowed where there is no credit.
LEMMA AsQuotedAllowed ==
  ASSUME CheckoutTypeOK, Stands(request), request.shown # <<>>, AsQuoted,
         request.tenor <= request.shown[1].tenor,
         request.tenor <= chain.terms.cap, ~chain.terms.paused,
         request.secured => request.liquid <= chain.terms.liquid,
         chain.credit = "none"
  PROVE  ChainAllows
<1>1. /\ request \in RequestType(request.profile, request.shown)
      /\ chain.terms \in Terms /\ chain.terms.quotes \in Seq(QuoteType)
      /\ chain.terms.liquid \in Nat
  BY TermsFields DEF CheckoutTypeOK, ChainType
<1>2. /\ request.amount \in Nat /\ request.collateral \in Nat /\ request.tenor \in Nat
      /\ request.liquid \in Nat /\ request.amount > 0 /\ request.tenor > 0
  BY <1>1 DEF RequestType, Stands
<1>3. PICK q \in QuoteType : request.shown = <<q>> /\ KeepsTo(request, q)
  BY DEF Stands
<1>4. PICK i \in DOMAIN chain.terms.quotes : chain.terms.quotes[i] = [q EXCEPT !.rollup = TRUE]
  BY <1>3 DEF AsQuoted
<1>5. PICK z \in QuoteType : z = chain.terms.quotes[i]
  BY <1>1, <1>4, QuotesFields
<1>6. /\ z.id = q.id /\ z.secured = q.secured /\ z.qualified = q.qualified /\ z.max = q.max
      /\ z.tenor = q.tenor /\ z.ratio = q.ratio
  BY <1>4, <1>5 DEF QuoteType
<1>7. Required(<<z>>, request.amount) = Required(<<q>>, request.amount)
  BY <1>6 DEF Required, Secured
<1>8. request.collateral >= Required(<<z>>, request.amount)
  BY <1>3, <1>7 DEF KeepsTo
<1>9. request.tenor <= z.tenor
  BY <1>3, <1>6
<1>10. ASSUME request.secured
       PROVE  request.collateral > 0 /\ request.collateral <= chain.terms.liquid
  <2>1. z.secured /\ z.ratio >= BPS
    BY <1>1, <1>3, <1>4, <1>5, <1>6, <1>10, CheckoutAssumption DEF KeepsTo
  <2>2. Required(<<z>>, request.amount) > 0 /\ Required(<<z>>, request.amount) \in Nat
    BY <1>2, <2>1, RequiredPositive, RequiredNat
  <2>3. request.collateral <= request.liquid
    BY <1>3, <1>10 DEF KeepsTo
  <2> QED
    BY <1>1, <1>2, <1>8, <1>10, <2>2, <2>3
<1>11. z.id = request.profile /\ z.secured = request.secured /\ z.qualified /\ request.amount <= z.max
  BY <1>3, <1>6 DEF KeepsTo
<1> QED
  BY <1>2, <1>5, <1>8, <1>9, <1>10, <1>11 DEF ChainAllows

\* A refusal has one of the causes that lie outside of the page's checks.
LEMMA RefusalHasCause ==
  ASSUME CheckoutInv, [Next]_vars, request.at = "wallet", request'.at = "refused"
  PROVE  \/ chain.terms.paused \/ request.tenor > chain.terms.cap
         \/ request.shown = <<>> \/ request.tenor > request.shown[1].tenor
         \/ ~AsQuoted
         \/ request.secured /\ request.liquid > chain.terms.liquid
         \/ chain.credit # "none" /\ (request.stale \/ request.credit)
<1>1. CheckoutTypeOK /\ Stands(request) /\ ~ChainAllows
  BY RefusedBySign DEF CheckoutInv, RequestStands
<1>2. /\ request \in RequestType(request.profile, request.shown)
      /\ chain.terms.liquid \in Nat /\ chain.terms.cap \in Nat
  BY <1>1, TermsFields DEF CheckoutTypeOK, ChainType
<1>3. request.tenor \in Nat /\ request.liquid \in Nat
  BY <1>2 DEF RequestType
<1>4. request.shown # <<>> => request.shown[1].tenor \in Nat
  BY <1>1 DEF Stands, QuoteType
<1>5. ~(request.tenor > chain.terms.cap) => request.tenor <= chain.terms.cap
  BY <1>2, <1>3
<1>6. ~(request.liquid > chain.terms.liquid) => request.liquid <= chain.terms.liquid
  BY <1>2, <1>3
<1>7. request.shown # <<>> /\ ~(request.tenor > request.shown[1].tenor) =>
        request.tenor <= request.shown[1].tenor
  BY <1>3, <1>4
<1>8. chain.credit # "none" => request.stale \/ request.credit
  BY DEF CheckoutInv, CreditFree
<1> QED
  BY <1>1, <1>5, <1>6, <1>7, <1>8, AsQuotedAllowed

\* For any terms of the chain, rows, catalogue and amounts: when the contract refuses
\* what the borrower signed, the protocol is paused or caps the tenor; or there was no
\* product, or the tenor was not fitted; or the product or the LEND that the page showed
\* is not what the chain has; or there is a credit that the second look was not told of
\* or that came after it.
THEOREM RefusalsExplainedHolds == Spec => RefusalsExplained
<1>1. CheckoutInv /\ [Next]_vars =>
        [(request.at = "wallet" /\ request'.at = "refused") =>
           \/ chain.terms.paused \/ request.tenor > chain.terms.cap
           \/ request.shown = <<>> \/ request.tenor > request.shown[1].tenor
           \/ ~AsQuoted
           \/ request.secured /\ request.liquid > chain.terms.liquid
           \/ chain.credit # "none" /\ (request.stale \/ request.credit)]_vars
  BY RefusalHasCause
<1> QED
  BY <1>1, InitCheckoutInv, NextCheckoutInv, PTL DEF Spec, RefusalsExplained
-----------------------------------------------------------------------------
(* The effects.  That the product they fall back on is one of the candidates *)
(* takes that the order of bestQualifiedProfile is a total one: then each     *)
(* beginning of the list, and so the list, has a best.                      *)

\* What of a product decides its rank.
LEMMA RankFields ==
  ASSUME page \in PageType, NEW i \in Indices
  PROVE  /\ EffectiveLimit(Quotes[i]) \in Nat /\ Quotes[i].tenor \in Nat
         /\ Quotes[i].secured \in BOOLEAN /\ i \in Nat
<1>1. page.score \in Nat /\ Quotes[i] \in QuoteType /\ i \in Nat
  BY QuotesFields DEF PageType, Indices, Quotes
<1>2. Quotes[i].max \in Nat /\ Quotes[i].tenor \in Nat /\ Quotes[i].secured \in BOOLEAN
  BY <1>1 DEF QuoteType
<1>3. EffectiveLimit(Quotes[i]) \in Nat
  BY <1>1, <1>2 DEF EffectiveLimit, Smaller
<1> QED
  BY <1>1, <1>2, <1>3

LEMMA BetterTotal ==
  ASSUME page \in PageType, NEW i \in Indices, NEW j \in Indices, i # j
  PROVE  Better(i, j) \/ Better(j, i)
<1>1. /\ EffectiveLimit(Quotes[i]) \in Nat /\ Quotes[i].tenor \in Nat
      /\ Quotes[i].secured \in BOOLEAN /\ i \in Nat
      /\ EffectiveLimit(Quotes[j]) \in Nat /\ Quotes[j].tenor \in Nat
      /\ Quotes[j].secured \in BOOLEAN /\ j \in Nat
  BY RankFields
<1> QED
  BY <1>1 DEF Better

LEMMA BetterTransitive ==
  ASSUME page \in PageType, NEW i \in Indices, NEW j \in Indices, NEW k \in Indices,
         Better(i, j), Better(j, k)
  PROVE  Better(i, k)
<1>1. /\ EffectiveLimit(Quotes[i]) \in Nat /\ Quotes[i].tenor \in Nat
      /\ Quotes[i].secured \in BOOLEAN /\ i \in Nat
      /\ EffectiveLimit(Quotes[j]) \in Nat /\ Quotes[j].tenor \in Nat
      /\ Quotes[j].secured \in BOOLEAN /\ j \in Nat
      /\ EffectiveLimit(Quotes[k]) \in Nat /\ Quotes[k].tenor \in Nat
      /\ Quotes[k].secured \in BOOLEAN /\ k \in Nat
  BY RankFields
<1> QED
  BY <1>1 DEF Better

\* S has a best product.
HasBest(S) == \E i \in S : \A j \in S \ {i} : Better(i, j)

\* One more product beside those that have a best.
LEMMA BestOfMore ==
  ASSUME page \in PageType, NEW S \in SUBSET Indices, NEW n \in Indices,
         S = {} \/ HasBest(S), n \notin S
  PROVE  HasBest(S \cup {n})
<1>1. CASE S = {}
  BY <1>1 DEF HasBest
<1>2. CASE S # {}
  <2> PICK i \in S : \A j \in S \ {i} : Better(i, j)
    BY <1>2 DEF HasBest
  <2>1. CASE Better(i, n)
    BY <2>1 DEF HasBest
  <2>2. CASE Better(n, i)
    <3>1. \A j \in S : Better(n, j)
      BY <2>2, BetterTransitive
    <3> QED
      BY <3>1 DEF HasBest
  <2> QED
    BY <2>1, <2>2, BetterTotal
<1> QED
  BY <1>1, <1>2

LEMMA SomeBest ==
  ASSUME page \in PageType, NEW S \in SUBSET Indices, S # {}
  PROVE  HasBest(S)
<1> DEFINE upto(n) == {j \in S : j <= n}
           bad == {n \in Nat : upto(n) # {} /\ ~HasBest(upto(n))}
<1>0. \A j \in S : j \in Nat
  BY QuotesFields DEF PageType, Indices, Quotes
<1>1. bad = {}
  <2> SUFFICES ASSUME bad # {} PROVE FALSE
    OBVIOUS
  <2>1. PICK n \in bad : \A m \in bad : ~(<<m, n>> \in OpToRel(<, Nat))
    BY NatLessThanWellFounded, WFMin
  <2>2. \A m \in bad : ~(m < n)
    <3> SUFFICES ASSUME NEW m \in bad, m < n PROVE FALSE
      OBVIOUS
    <3>1. <<m, n>> \in OpToRel(<, Nat)
      BY SMT DEF OpToRel
    <3> QED
      BY <2>1, <3>1
  <2>3. n \in Nat /\ upto(n) # {} /\ ~HasBest(upto(n))
    OBVIOUS
  <2>4. CASE n = 0
    <3>1. upto(0) \subseteq {0}
      BY <1>0
    <3>2. HasBest(upto(0))
      BY <2>3, <2>4, <3>1 DEF HasBest
    <3> QED
      BY <2>3, <2>4, <3>2
  <2>5. CASE n # 0
    <3>1. n - 1 \in Nat /\ n - 1 < n
      BY <2>3, <2>5
    <3>2. upto(n - 1) = {} \/ HasBest(upto(n - 1))
      BY <2>2, <3>1
    <3>3. CASE n \in S
      <4>1. upto(n) = upto(n - 1) \cup {n} /\ n \notin upto(n - 1)
        <5> PICK k \in Nat : k = n
          BY <2>3
        <5>1. \A j \in S : j <= k <=> (j <= k - 1 \/ j = k)
          BY <1>0
        <5>2. k \in S /\ ~(k <= k - 1) /\ k <= k
          BY <3>3
        <5> QED
          BY <5>1, <5>2
      <4>2. upto(n - 1) \in SUBSET Indices /\ n \in Indices
        BY <3>3
      <4> HIDE DEF upto
      <4>3. HasBest(upto(n - 1) \cup {n})
        BY <3>2, <4>1, <4>2, BestOfMore
      <4> QED
        BY <2>3, <4>1, <4>3
    <3>4. CASE n \notin S
      <4>1. upto(n) = upto(n - 1)
        <5> PICK k \in Nat : k = n
          BY <2>3
        <5>1. \A j \in S : j # k => (j <= k <=> j <= k - 1)
          BY <1>0
        <5> QED
          BY <3>4, <5>1
      <4> HIDE DEF upto
      <4> QED
        BY <2>3, <3>2, <4>1
    <3> QED
      BY <3>3, <3>4
  <2> QED
    BY <2>4, <2>5
<1>2. PICK len \in Nat : Indices \subseteq 1..len
  <2>1. page.quotes \in Seq(QuoteType)
    BY DEF PageType
  <2>2. DOMAIN page.quotes = 1..Len(page.quotes) /\ Len(page.quotes) \in Nat
    BY <2>1
  <2> QED
    BY <2>2 DEF Indices, Quotes
<1>3. upto(len) = S
  <2>1. \A j \in S : j <= len
    BY <1>2
  <2> QED
    BY <2>1
<1> HIDE DEF upto
<1> QED
  BY <1>1, <1>3

\* The product that is fallen back on qualifies if any does.
LEMMA BestQualifies ==
  ASSUME page \in PageType, Qualified # {}
  PROVE  Best \in Qualified
<1>1. HasBest(Qualified)
  BY SomeBest DEF Qualified
<1>2. Best = CHOOSE i \in Qualified : \A j \in Qualified \ {i} : Better(i, j)
  BY DEF Best
<1> QED
  BY <1>1, <1>2 DEF HasBest

\* What becomes of the tenor: it stays where nothing shorter can be had or need be,
\* else the longest that the product allows takes its place.
LEMMA TenorFits ==
  \/ FittedTenor \in Tenors /\ Selected # <<>> /\ FittedTenor <= Selected[1].tenor
  \/ /\ FittedTenor = draft.tenor
     /\ \/ Selected = <<>>
        \/ ~(draft.tenor > Selected[1].tenor)
        \/ \A t \in Tenors : ~(t <= Selected[1].tenor)
<1> DEFINE allowed == {t \in Tenors : Selected # <<>> /\ t <= Selected[1].tenor}
           longest == CHOOSE t \in allowed : \A u \in allowed : u <= t
<1>1. CASE Selected # <<>> /\ draft.tenor > Selected[1].tenor /\ allowed # {}
  <2>1. FittedTenor = longest
    BY <1>1 DEF FittedTenor
  <2>2. longest \in allowed
    BY <1>1, LongestAllowed
  <2> QED
    BY <2>1, <2>2
<1>2. CASE ~(Selected # <<>> /\ draft.tenor > Selected[1].tenor /\ allowed # {})
  <2>1. FittedTenor = draft.tenor
    BY <1>2 DEF FittedTenor
  <2> QED
    BY <1>2, <2>1
<1> QED
  BY <1>1, <1>2

\* At rest each effect has what it asks for.
LEMMA RestIsFit == CheckoutInv => RestFits
<1> SUFFICES ASSUME CheckoutTypeOK, Fitted = draft
             PROVE  DraftFits
  BY DEF CheckoutInv, RestFits
<1>1. /\ FittedProfile = draft.profile /\ FittedApp = draft.app /\ FittedItem = draft.item
      /\ FittedTenor = draft.tenor /\ FittedCollateral = draft.collateral
  BY DEF Fitted
<1>2. Qualified # {} => Drafted \cap Qualified # {}
  <2> SUFFICES ASSUME Qualified # {}, Drafted \cap Qualified = {} PROVE FALSE
    OBVIOUS
  <2>1. Best \in Qualified /\ Qualified \subseteq Indices
    BY BestQualifies DEF CheckoutTypeOK, Qualified
  <2>2. Quotes[Best].id = draft.profile
    BY <1>1, <2>1 DEF FittedProfile
  <2> QED
    BY <2>1, <2>2 DEF Drafted
<1>3. Selected # <<>> =>
        \/ draft.tenor <= Selected[1].tenor
        \/ \A t \in Tenors : t > Selected[1].tenor
  <2> SUFFICES ASSUME Selected # <<>>
               PROVE  \/ draft.tenor <= Selected[1].tenor
                      \/ \A t \in Tenors : t > Selected[1].tenor
    OBVIOUS
  <2> PICK i \in Indices : Selected = <<Quotes[i]>>
    BY SelectedIs DEF CheckoutTypeOK
  <2>1. Selected[1].tenor \in Nat
    BY RankFields DEF CheckoutTypeOK
  <2>2. Tenors \subseteq Nat /\ draft.tenor \in Nat
    BY DEF Tenors, CheckoutTypeOK, DraftType
  <2> QED
    BY <1>1, <2>1, <2>2, TenorFits
<1>4. draft.app \in page.route.apps \cup {None}
  BY <1>1 DEF FittedApp, Ready
<1>5. draft.item # None =>
        draft.item \in page.route.items /\ draft.app \in {Catalogue[draft.item].app, None}
  BY <1>1 DEF FittedItem, ItemsShown, FittedApp
<1>6. Selected # <<>> /\ ~Secured(Selected) => draft.collateral = 0
  BY <1>1 DEF FittedCollateral
<1> QED
  BY <1>2, <1>3, <1>4, <1>5, <1>6 DEF DraftFits

-----------------------------------------------------------------------------
(* Each render is a step to rest.  The product and the app depend on the page *)
(* and on themselves alone, and what is put in their place stays; with them   *)
(* the other fields are written once.                                       *)

\* The products, and what the page says of them, are the page's.
LEMMA PageSame ==
  ASSUME page' = page
  PROVE  /\ Quotes' = Quotes /\ Indices' = Indices /\ Qualified' = Qualified /\ Best' = Best
BY DEF Quotes, Indices, Qualified, Best, Better, EffectiveLimit, Smaller

LEMMA ProductSettles ==
  ASSUME RunEffects
  PROVE  FittedProfile' = draft'.profile /\ FittedApp' = draft'.app
<1>1. page' = page /\ picked' = picked /\ draft' = Fitted
  BY DEF RunEffects
<1>2. draft'.profile = FittedProfile /\ draft'.app = FittedApp
  BY <1>1 DEF Fitted
<1>3. Quotes' = Quotes /\ Indices' = Indices /\ Qualified' = Qualified /\ Best' = Best
  BY <1>1, PageSame
<1>4. FittedProfile' = draft'.profile
  <2>1. FittedProfile' \in {draft'.profile, Quotes[Best].id}
    BY <1>3 DEF FittedProfile
  <2>2. CASE FittedProfile = Quotes[Best].id
    BY <1>2, <2>1, <2>2
  <2>3. CASE FittedProfile # Quotes[Best].id
    <3>1. /\ FittedProfile = draft.profile
          /\ \/ Indices = {}
             \/ Drafted \cap Qualified # {} /\ (picked \/ draft.profile # DefaultProfile)
      BY <2>3 DEF FittedProfile
    <3>2. draft'.profile = draft.profile /\ Drafted' = Drafted
      BY <1>2, <1>3, <3>1 DEF Drafted
    <3> QED
      BY <1>1, <1>3, <3>1, <3>2 DEF FittedProfile
  <2> QED
    BY <2>2, <2>3
<1>5. FittedApp' = draft'.app
  BY <1>1, <1>2 DEF FittedApp, Ready
<1> QED
  BY <1>4, <1>5

\* Once they stand, the fields that depend on them are written for good.
LEMMA FieldsSettle ==
  ASSUME CheckoutTypeOK, RunEffects, FittedProfile = draft.profile, FittedApp = draft.app
  PROVE  Fitted' = draft'
<1>1. page' = page /\ picked' = picked /\ draft' = Fitted
  BY DEF RunEffects
<1>2. /\ draft'.profile = draft.profile /\ draft'.app = draft.app /\ draft'.amount = draft.amount
      /\ draft'.collateral = FittedCollateral /\ draft'.tenor = FittedTenor
      /\ draft'.item = FittedItem
  BY <1>1 DEF Fitted
<1>3. Quotes' = Quotes /\ Indices' = Indices /\ Qualified' = Qualified /\ Best' = Best
  BY <1>1, PageSame
<1>4. Drafted' = Drafted
  BY <1>2, <1>3 DEF Drafted
<1>5. Selected' = Selected
  BY <1>3, <1>4 DEF Selected
<1>6. FittedCollateral' = draft'.collateral
  BY <1>2, <1>5 DEF FittedCollateral, Required, Secured
<1>7. FittedTenor' = draft'.tenor
  BY <1>2, <1>5, TenorFits DEF FittedTenor
<1>8. FittedItem' = draft'.item
  <2>1. ItemsShown' = ItemsShown
    BY <1>1, <1>2 DEF ItemsShown, Ready
  <2> QED
    BY <1>2, <2>1 DEF FittedItem
<1>9. FittedProfile' = draft'.profile /\ FittedApp' = draft'.app
  BY ProductSettles
<1>10. Fitted' = [amount |-> draft'.amount, collateral |-> FittedCollateral', app |-> FittedApp',
                  profile |-> FittedProfile', tenor |-> FittedTenor', item |-> FittedItem']
  BY DEF Fitted
<1>11. draft' = [amount |-> draft'.amount, collateral |-> draft'.collateral, app |-> draft'.app,
                 profile |-> draft'.profile, tenor |-> draft'.tenor, item |-> draft'.item]
  BY <1>1, <1>2 DEF Fitted
<1> QED
  BY <1>6, <1>7, <1>8, <1>9, <1>10, <1>11, Zenon

LEMMA RenderIsProgress ==
  ASSUME CheckoutInv, RunEffects
  PROVE  RendersLeft' < RendersLeft
<1>1. Fitted # draft /\ CheckoutTypeOK
  BY DEF RunEffects, CheckoutInv
<1>2. RendersLeft' \in {0, 1}
  BY ProductSettles DEF RendersLeft
<1>3. CASE FittedProfile = draft.profile /\ FittedApp = draft.app
  <2>1. RendersLeft = 1
    BY <1>1, <1>3 DEF RendersLeft
  <2>2. RendersLeft' = 0
    BY <1>1, <1>3, FieldsSettle DEF RendersLeft
  <2> QED
    BY <2>1, <2>2
<1>4. CASE ~(FittedProfile = draft.profile /\ FittedApp = draft.app)
  <2>1. RendersLeft = 2
    BY <1>1, <1>4 DEF RendersLeft
  <2> QED
    BY <1>2, <2>1
<1> QED
  BY <1>3, <1>4

\* For any products, apps and items, and whatever was typed in: a form at which none
\* of the effects writes any more is one that fits what the page knows.
THEOREM RestFitsAlways == Spec => []RestFits
BY InitCheckoutInv, NextCheckoutInv, RestIsFit, PTL DEF Spec

\* The same for all: the effects of a render bring the form nearer to rest, so that
\* no two of them undo each other's writing and two renders in a row are enough.
THEOREM EffectsProgressHolds == Spec => EffectsProgress
<1>1. CheckoutInv /\ [Next]_vars => [RunEffects => RendersLeft' < RendersLeft]_vars
  BY RenderIsProgress
<1> QED
  BY <1>1, InitCheckoutInv, NextCheckoutInv, PTL DEF Spec, EffectsProgress

=============================================================================
