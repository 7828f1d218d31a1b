--------------------------- MODULE Community_proofs ---------------------------
(***************************************************************************)
(* Votes and campaigns: proofs of the properties of Community.  What is said *)
(* of the two registries is said of a registry as a value, g or c, and shown *)
(* of every operation on it; a step of Community is a step of the economy    *)
(* beside unchanged registries, one operation on one of them, or a claim     *)
(* that moves both the registry of campaigns and the reserve.               *)
(***************************************************************************)
EXTENDS Community, Economy_proofs

-----------------------------------------------------------------------------
(* Governance.                                                              *)

LEMMA GovernanceParts ==
  ASSUME NEW g \in GovernanceType
  PROVE  /\ g.proposals \in Seq(ProposalType) /\ g.receipts \in SUBSET ReceiptType
         /\ DOMAIN g.proposals = 1..Len(g.proposals) /\ Len(g.proposals) \in Nat
         /\ \A i \in DOMAIN g.proposals : i \in Nat /\ g.proposals[i] \in ProposalType
<1>1. g.proposals \in Seq(ProposalType) /\ g.receipts \in SUBSET ReceiptType
  BY DEF GovernanceType
<1> QED
  BY <1>1

LEMMA ProposalParts ==
  ASSUME NEW p \in ProposalType
  PROVE  /\ p.yes \in Nat /\ p.no \in Nat /\ p.endsAt \in Nat /\ p.topic \in Topics
         /\ p.status \in {"open", "passed", "rejected"}
BY DEF ProposalType

Receipts(g, i, support) ==
  {r \in g.receipts : r.proposal = i /\ r.support = support}
CastOn(g, i, support) == SumFunction([r \in Receipts(g, i, support) |-> r.power])

TallyOf(g, i) ==
  g.proposals[i].yes = CastOn(g, i, TRUE) /\ g.proposals[i].no = CastOn(g, i, FALSE)

OneReceipt(g) ==
  \A r, s \in g.receipts : r.proposal = s.proposal /\ r.voter = s.voter => r = s

\* A registry whose tallies are its receipts.  That no receipt names a proposal
\* yet to be made is what lets the next one start at zero.
VotesSound(g) ==
  /\ g \in GovernanceType /\ IsFiniteSet(g.receipts)
  /\ \A r \in g.receipts : r.proposal \in DOMAIN g.proposals
  /\ \A i \in DOMAIN g.proposals : TallyOf(g, i)
  /\ OneReceipt(g)

\* What was decided in g is decided the same way in n.
Settles(g, n) ==
  \A i \in DOMAIN g.proposals :
    g.proposals[i].status # "open" => n.proposals[i] = g.proposals[i]

LEMMA NoVotes == VotesSound(NoProposals)
<1>1. NoProposals.proposals = <<>> /\ NoProposals.receipts = {}
  BY DEF NoProposals
<1>2. NoProposals \in GovernanceType
  BY DEF NoProposals, GovernanceType
<1>3. DOMAIN NoProposals.proposals = {}
  BY <1>1
<1> QED
  BY <1>1, <1>2, <1>3, FS_EmptySet DEF VotesSound, OneReceipt

\* An operation that leaves receipts and tallies alone; a new proposal has none.
LEMMA SameTallies ==
  ASSUME NEW g, VotesSound(g), NEW n \in GovernanceType, n.receipts = g.receipts,
         DOMAIN g.proposals \subseteq DOMAIN n.proposals,
         \A i \in DOMAIN g.proposals : /\ n.proposals[i].yes = g.proposals[i].yes
                                       /\ n.proposals[i].no = g.proposals[i].no,
         \A i \in DOMAIN n.proposals \ DOMAIN g.proposals :
           n.proposals[i].yes = 0 /\ n.proposals[i].no = 0
  PROVE  VotesSound(n)
<1>1. ASSUME NEW i \in DOMAIN n.proposals
      PROVE  TallyOf(n, i)
  <2>1. \A support \in BOOLEAN : CastOn(n, i, support) = CastOn(g, i, support)
    BY DEF CastOn, Receipts
  <2>2. CASE i \in DOMAIN g.proposals
    <3>1. TallyOf(g, i)
      BY <2>2 DEF VotesSound
    <3> QED
      BY <2>1, <2>2, <3>1 DEF TallyOf
  <2>3. CASE i \notin DOMAIN g.proposals
    <3>1. \A support \in BOOLEAN : Receipts(g, i, support) = {}
      BY <2>3 DEF VotesSound, Receipts
    <3>2. \A support \in BOOLEAN :
            DOMAIN [r \in Receipts(g, i, support) |-> r.power] = {}
      BY <3>1
    <3>3. \A support \in BOOLEAN : CastOn(g, i, support) = 0
      BY <3>2, SumFunctionEmpty DEF CastOn
    <3> QED
      BY <2>1, <2>3, <3>3 DEF TallyOf
  <2> QED
    BY <2>2, <2>3
<1> QED
  BY <1>1 DEF VotesSound, OneReceipt

LEMMA ProposedSound ==
  ASSUME NEW g, VotesSound(g), NEW topic \in Topics, NEW time \in Nat
  PROVE  VotesSound(Proposed(g, topic, time)) /\ Settles(g, Proposed(g, topic, time))
<1> DEFINE p == [topic |-> topic, endsAt |-> time + VotingRules.period,
                 yes |-> 0, no |-> 0, status |-> "open"]
           n == Proposed(g, topic, time)
<1>0. g \in GovernanceType
  BY DEF VotesSound
<1>1. VotingRules.period \in Nat
  BY VotingAssumption
<1>2. p \in ProposalType
  BY <1>1 DEF ProposalType
<1>3. n = [g EXCEPT !.proposals = Append(g.proposals, p)]
  BY DEF Proposed
<1>4. g.proposals \in Seq(ProposalType)
  BY <1>0, GovernanceParts
<1>5. /\ Append(g.proposals, p) \in Seq(ProposalType)
      /\ DOMAIN g.proposals = 1..Len(g.proposals) /\ Len(g.proposals) \in Nat
      /\ DOMAIN Append(g.proposals, p) = 1..(Len(g.proposals) + 1)
      /\ \A i \in DOMAIN g.proposals : Append(g.proposals, p)[i] = g.proposals[i]
      /\ Append(g.proposals, p)[Len(g.proposals) + 1] = p
  BY <1>2, <1>4, SeqAppend
<1>6. /\ n \in GovernanceType /\ n.receipts = g.receipts
      /\ n.proposals = Append(g.proposals, p)
  BY <1>0, <1>3, <1>5 DEF GovernanceType
<1>7. p.yes = 0 /\ p.no = 0
  OBVIOUS
<1> HIDE DEF p, n
<1>8. \A i \in DOMAIN n.proposals \ DOMAIN g.proposals : i = Len(g.proposals) + 1
  BY <1>5, <1>6
<1>9. VotesSound(n)
  <2>1. DOMAIN g.proposals \subseteq DOMAIN n.proposals
    BY <1>5, <1>6
  <2>2. \A i \in DOMAIN g.proposals : n.proposals[i] = g.proposals[i]
    BY <1>5, <1>6
  <2>3. \A i \in DOMAIN n.proposals \ DOMAIN g.proposals :
          n.proposals[i].yes = 0 /\ n.proposals[i].no = 0
    BY <1>5, <1>6, <1>7, <1>8
  <2> QED
    BY <1>6, <2>1, <2>2, <2>3, SameTallies
<1>10. Settles(g, n)
  BY <1>5, <1>6 DEF Settles
<1> QED
  BY <1>9, <1>10 DEF n

LEMMA FinalizedSound ==
  ASSUME NEW g, VotesSound(g), NEW i \in DOMAIN g.proposals, IsOpen(g, i), NEW supply
  PROVE  VotesSound(Finalized(g, i, supply)) /\ Settles(g, Finalized(g, i, supply))
<1> DEFINE n == Finalized(g, i, supply)
<1>0. g \in GovernanceType
  BY DEF VotesSound
<1>1. PICK outcome \in {"passed", "rejected"} :
        n = [g EXCEPT !.proposals[i].status = outcome]
  BY Zenon DEF Finalized
<1>2. g.proposals \in Seq(ProposalType) /\ g.proposals[i] \in ProposalType
  BY <1>0, GovernanceParts
<1>3. PICK p : p = [g.proposals[i] EXCEPT !.status = outcome]
  OBVIOUS
<1>4. p \in ProposalType /\ p.yes = g.proposals[i].yes /\ p.no = g.proposals[i].no
  BY <1>2, <1>3 DEF ProposalType
<1>5. PICK ps : ps = [g.proposals EXCEPT ![i] = p]
  OBVIOUS
<1>6. /\ ps \in Seq(ProposalType) /\ DOMAIN ps = DOMAIN g.proposals /\ ps[i] = p
      /\ \A j \in DOMAIN g.proposals : j # i => ps[j] = g.proposals[j]
  BY <1>2, <1>4, <1>5, SeqReplace
<1>7. n = [g EXCEPT !.proposals = ps]
  BY <1>0, <1>1, <1>3, <1>5 DEF GovernanceType
<1>8. n \in GovernanceType /\ n.receipts = g.receipts /\ n.proposals = ps
  BY <1>0, <1>6, <1>7 DEF GovernanceType
<1> HIDE DEF n
<1>9. VotesSound(n)
  BY <1>4, <1>6, <1>8, SameTallies
<1>10. Settles(g, n)
  BY <1>6, <1>8 DEF Settles, IsOpen
<1> QED
  BY <1>9, <1>10 DEF n

\* A vote adds one receipt and its power to one tally.
LEMMA VotedFacts ==
  ASSUME NEW g \in GovernanceType, NEW i \in DOMAIN g.proposals, NEW u \in Users,
         NEW support \in BOOLEAN, NEW power \in Nat
  PROVE  LET n == Voted(g, i, u, support, power)
             b == [proposal |-> i, voter |-> u, support |-> support, power |-> power]
         IN /\ n \in GovernanceType /\ b \in ReceiptType
            /\ n.receipts = g.receipts \cup {b}
            /\ DOMAIN n.proposals = DOMAIN g.proposals
            /\ \A j \in DOMAIN g.proposals : j # i => n.proposals[j] = g.proposals[j]
            /\ n.proposals[i].yes = g.proposals[i].yes + (IF support THEN power ELSE 0)
            /\ n.proposals[i].no = g.proposals[i].no + (IF support THEN 0 ELSE power)
<1> DEFINE n == Voted(g, i, u, support, power)
           b == [proposal |-> i, voter |-> u, support |-> support, power |-> power]
<1>1. g.proposals \in Seq(ProposalType) /\ g.proposals[i] \in ProposalType /\ i \in Nat
  BY GovernanceParts
<1>2. g.proposals[i].yes \in Nat /\ g.proposals[i].no \in Nat
  BY <1>1, ProposalParts
<1>3. PICK p : p = IF support THEN [g.proposals[i] EXCEPT !.yes = g.proposals[i].yes + power]
                              ELSE [g.proposals[i] EXCEPT !.no = g.proposals[i].no + power]
  OBVIOUS
<1>4. /\ p \in ProposalType
      /\ p.yes = g.proposals[i].yes + (IF support THEN power ELSE 0)
      /\ p.no = g.proposals[i].no + (IF support THEN 0 ELSE power)
  <2>1. PICK yes \in Nat : yes = g.proposals[i].yes + power
    BY <1>2
  <2>2. PICK no \in Nat : no = g.proposals[i].no + power
    BY <1>2
  <2>3. CASE support
    <3>1. p = [g.proposals[i] EXCEPT !.yes = yes]
      BY <1>3, <2>1, <2>3
    <3>2. p \in ProposalType /\ p.yes = yes /\ p.no = g.proposals[i].no
      BY <1>1, <3>1 DEF ProposalType
    <3> QED
      BY <1>2, <2>1, <2>3, <3>2
  <2>4. CASE ~support
    <3>1. p = [g.proposals[i] EXCEPT !.no = no]
      BY <1>3, <2>2, <2>4
    <3>2. p \in ProposalType /\ p.no = no /\ p.yes = g.proposals[i].yes
      BY <1>1, <3>1 DEF ProposalType
    <3> QED
      BY <1>2, <2>2, <2>4, <3>2
  <2> QED
    BY <2>3, <2>4
<1>5. PICK ps : ps = [g.proposals EXCEPT ![i] = p]
  OBVIOUS
<1>6. /\ ps \in Seq(ProposalType) /\ DOMAIN ps = DOMAIN g.proposals /\ ps[i] = p
      /\ \A j \in DOMAIN g.proposals : j # i => ps[j] = g.proposals[j]
  BY <1>1, <1>4, <1>5, SeqReplace
<1>7. Tallied(g, i, support, power) = [g EXCEPT !.proposals = ps]
  BY <1>3, <1>5 DEF Tallied, GovernanceType
<1>8. b \in ReceiptType
  BY <1>1 DEF ReceiptType
<1>9. n = [[g EXCEPT !.proposals = ps] EXCEPT !.receipts = g.receipts \cup {b}]
  BY <1>7 DEF Voted, GovernanceType
<1> HIDE DEF b
<1>10. n \in GovernanceType /\ n.receipts = g.receipts \cup {b} /\ n.proposals = ps
  BY ZenonT(40), <1>6, <1>8, <1>9 DEF GovernanceType
<1> QED
  BY <1>4, <1>6, <1>8, <1>10 DEF b

LEMMA CastGrows ==
  ASSUME NEW R, IsFiniteSet(R), NEW b, b \notin R, \A r \in R \cup {b} : r.power \in Nat
  PROVE  SumFunction([r \in R \cup {b} |-> r.power])
           = SumFunction([r \in R |-> r.power]) + b.power
<1>1. PICK T : T = R \cup {b}
  OBVIOUS
<1>2. PICK f : f = [r \in R |-> r.power]
  OBVIOUS
<1>3. PICK h : h = [r \in T |-> r.power]
  OBVIOUS
<1>4. f \in [R -> Nat] /\ h \in [T -> Nat] /\ \A r \in R : h[r] = f[r]
  BY <1>1, <1>2, <1>3
<1>5. h[b] = b.power
  BY <1>1, <1>3
<1>6. SumFunction(h) = SumFunction(f) + h[b]
  BY <1>1, <1>4, SumFunctionExtends
<1> QED
  BY <1>1, <1>2, <1>3, <1>5, <1>6

LEMMA VotedSound ==
  ASSUME NEW g, VotesSound(g), NEW i \in DOMAIN g.proposals, NEW u \in Users,
         NEW support \in BOOLEAN, NEW power \in Nat, NEW time, CanVote(g, i, u, power, time)
  PROVE  /\ VotesSound(Voted(g, i, u, support, power))
         /\ Settles(g, Voted(g, i, u, support, power))
<1>1. PICK n : n = Voted(g, i, u, support, power)
  OBVIOUS
<1>2. PICK b : b = [proposal |-> i, voter |-> u, support |-> support, power |-> power]
  OBVIOUS
<1>3. /\ g \in GovernanceType /\ IsFiniteSet(g.receipts)
      /\ \A r \in g.receipts : r.proposal \in DOMAIN g.proposals
      /\ OneReceipt(g)
  BY DEF VotesSound
<1>4. /\ n \in GovernanceType /\ b \in ReceiptType
      /\ n.receipts = g.receipts \cup {b}
      /\ DOMAIN n.proposals = DOMAIN g.proposals
      /\ \A j \in DOMAIN g.proposals : j # i => n.proposals[j] = g.proposals[j]
      /\ n.proposals[i].yes = g.proposals[i].yes + (IF support THEN power ELSE 0)
      /\ n.proposals[i].no = g.proposals[i].no + (IF support THEN 0 ELSE power)
  BY <1>1, <1>2, <1>3, VotedFacts
<1>5. b.proposal = i /\ b.voter = u /\ b.support = support /\ b.power = power
  BY <1>2
<1>6. \A r \in g.receipts : ~(r.proposal = i /\ r.voter = u)
  BY DEF CanVote, HasVoted
<1>7. IsFiniteSet(n.receipts)
  BY SMTT(30), <1>3, <1>4, FS_AddElement
<1>8. \A r \in n.receipts : r.proposal \in DOMAIN n.proposals
  BY <1>3, <1>4, <1>5
<1>9. OneReceipt(n)
  BY <1>3, <1>4, <1>5, <1>6 DEF OneReceipt
<1>10. \A j, s : (j # i \/ s # support) => CastOn(n, j, s) = CastOn(g, j, s)
  <2>1. \A j, s : (j # i \/ s # support) => Receipts(n, j, s) = Receipts(g, j, s)
    BY <1>4, <1>5 DEF Receipts
  <2> QED
    BY <2>1 DEF CastOn
<1>11. CastOn(n, i, support) = CastOn(g, i, support) + power
  <2>1. PICK R : R = Receipts(g, i, support)
    OBVIOUS
  <2>2. Receipts(n, i, support) = R \cup {b}
    BY <1>4, <1>5, <2>1 DEF Receipts
  <2>3. R \in SUBSET g.receipts /\ IsFiniteSet(R)
    BY <1>3, <2>1, FS_Subset DEF Receipts
  <2>4. b \notin R
    BY <1>5, <1>6, <2>3
  <2>5. \A r \in R \cup {b} : r.power \in Nat
    BY <1>3, <1>4, <2>3, GovernanceParts DEF ReceiptType
  <2>6. SumFunction([r \in R \cup {b} |-> r.power]) = SumFunction([r \in R |-> r.power]) + b.power
    BY <2>3, <2>4, <2>5, CastGrows
  <2> QED
    BY <1>5, <2>1, <2>2, <2>6 DEF CastOn
<1>12. ASSUME NEW j \in DOMAIN n.proposals
       PROVE  TallyOf(n, j)
  <2>1. TallyOf(g, j)
    BY <1>4 DEF VotesSound
  <2>2. CASE j # i
    BY <1>4, <1>10, <2>1, <2>2 DEF TallyOf
  <2>3. CASE j = i /\ support = TRUE
    <3>1. CastOn(n, j, FALSE) = CastOn(g, j, FALSE)
      BY <1>10, <2>3
    <3>2. g.proposals[i].no \in Nat
      BY <1>3, GovernanceParts, ProposalParts
    <3>3. /\ n.proposals[i].yes = g.proposals[i].yes + power
          /\ n.proposals[i].no = g.proposals[i].no
      BY <1>4, <2>3, <3>2
    <3>4. CastOn(n, i, TRUE) = CastOn(g, i, TRUE) + power
      BY <1>11, <2>3
    <3> QED
      BY <2>1, <2>3, <3>1, <3>3, <3>4 DEF TallyOf
  <2>4. CASE j = i /\ support = FALSE
    <3>1. CastOn(n, j, TRUE) = CastOn(g, j, TRUE)
      BY <1>10, <2>4
    <3>2. g.proposals[i].yes \in Nat
      BY <1>3, GovernanceParts, ProposalParts
    <3>3. /\ n.proposals[i].no = g.proposals[i].no + power
          /\ n.proposals[i].yes = g.proposals[i].yes
      BY <1>4, <2>4, <3>2
    <3>4. CastOn(n, i, FALSE) = CastOn(g, i, FALSE) + power
      BY <1>11, <2>4
    <3> QED
      BY <2>1, <2>4, <3>1, <3>3, <3>4 DEF TallyOf
  <2> QED
    BY <2>2, <2>3, <2>4
<1>13. VotesSound(n)
  BY <1>4, <1>7, <1>8, <1>9, <1>12 DEF VotesSound
<1>14. Settles(g, n)
  BY <1>4 DEF Settles, CanVote
<1> QED
  BY <1>1, <1>13, <1>14

-----------------------------------------------------------------------------
(* Campaigns.                                                               *)

LEMMA CampaignParts ==
  ASSUME NEW p \in CampaignType
  PROVE  /\ p.total \in Nat /\ p.claimed \in Nat /\ p.needsUsername \in BOOLEAN
         /\ p.minActions \in Nat /\ p.status \in {"open", "closed"}
BY DEF CampaignType

LEMMA AllocationParts ==
  ASSUME NEW a \in AllocationType
  PROVE  a.campaign \in Nat /\ a.user \in Users /\ a.amount \in Nat /\ a.claimed \in BOOLEAN
BY DEF AllocationType

LEMMA CampaignsParts ==
  ASSUME NEW c \in CampaignsType
  PROVE  /\ c.campaigns \in Seq(CampaignType) /\ c.allocations \in Seq(AllocationType)
         /\ DOMAIN c.campaigns = 1..Len(c.campaigns) /\ Len(c.campaigns) \in Nat
         /\ DOMAIN c.allocations = 1..Len(c.allocations) /\ Len(c.allocations) \in Nat
         /\ \A i \in DOMAIN c.campaigns : i \in Nat /\ c.campaigns[i] \in CampaignType
         /\ \A k \in DOMAIN c.allocations : c.allocations[k] \in AllocationType
         /\ IsFiniteSet(DOMAIN c.campaigns) /\ IsFiniteSet(DOMAIN c.allocations)
<1>1. c.campaigns \in Seq(CampaignType) /\ c.allocations \in Seq(AllocationType)
  BY DEF CampaignsType
<1>2. /\ DOMAIN c.campaigns = 1..Len(c.campaigns) /\ Len(c.campaigns) \in Nat
      /\ DOMAIN c.allocations = 1..Len(c.allocations) /\ Len(c.allocations) \in Nat
      /\ \A i \in DOMAIN c.campaigns : i \in Nat /\ c.campaigns[i] \in CampaignType
      /\ \A k \in DOMAIN c.allocations : c.allocations[k] \in AllocationType
  BY <1>1
<1>3. IsFiniteSet(1..Len(c.campaigns)) /\ IsFiniteSet(1..Len(c.allocations))
  BY SMTT(30), <1>2, FS_Interval
<1> QED
  BY <1>1, <1>2, <1>3

AmountOf(c, ks) == SumFunction([k \in ks |-> c.allocations[k].amount])
ClaimedOf(c, i) == {k \in AllocationsOf(c, i) : c.allocations[k].claimed}

OneWaiting(c, i) ==
  \A k, m \in AllocationsOf(c, i) :
    /\ c.allocations[k].user = c.allocations[m].user
    /\ ~c.allocations[k].claimed /\ ~c.allocations[m].claimed
    => k = m

Budgeted(c, i) ==
  /\ AmountOf(c, AllocationsOf(c, i)) <= c.campaigns[i].total
  /\ c.campaigns[i].claimed = AmountOf(c, ClaimedOf(c, i))
  /\ OneWaiting(c, i)

\* A registry within its budgets.  That no allocation names a campaign yet to
\* be made is what lets the next one start with nothing allocated.
GrantsSound(c) ==
  /\ c \in CampaignsType
  /\ \A k \in DOMAIN c.allocations : c.allocations[k].campaign \in DOMAIN c.campaigns
  /\ \A i \in DOMAIN c.campaigns : Budgeted(c, i)

\* What is closed in c is as it was in n.
Rests(c, n) ==
  \A i \in DOMAIN c.campaigns :
    c.campaigns[i].status = "closed"
      => n.campaigns[i] = c.campaigns[i] /\ AllocationsOf(n, i) = AllocationsOf(c, i)

\* All that the campaigns say was claimed.
GivenBy(c) == SumFunction([i \in DOMAIN c.campaigns |-> c.campaigns[i].claimed])

LEMMA NoGrants == GrantsSound(NoCampaigns) /\ GivenBy(NoCampaigns) = 0
<1>1. NoCampaigns.campaigns = <<>> /\ NoCampaigns.allocations = <<>>
  BY DEF NoCampaigns
<1>2. NoCampaigns \in CampaignsType
  BY DEF NoCampaigns, CampaignsType
<1>3. DOMAIN NoCampaigns.campaigns = {} /\ DOMAIN NoCampaigns.allocations = {}
  BY <1>1
<1>4. GivenBy(NoCampaigns) = 0
  <2>1. DOMAIN [i \in DOMAIN NoCampaigns.campaigns |-> NoCampaigns.campaigns[i].claimed] = {}
    BY <1>3
  <2> QED
    BY <2>1, SumFunctionEmpty DEF GivenBy
<1> QED
  BY <1>2, <1>3, <1>4 DEF GrantsSound

LEMMA AmountType ==
  ASSUME NEW c \in CampaignsType, NEW ks \in SUBSET DOMAIN c.allocations
  PROVE  /\ IsFiniteSet(ks) /\ AmountOf(c, ks) \in Nat
         /\ [k \in ks |-> c.allocations[k].amount] \in [ks -> Nat]
<1>1. IsFiniteSet(ks)
  BY CampaignsParts, FS_Subset
<1>2. PICK f : f = [k \in ks |-> c.allocations[k].amount]
  OBVIOUS
<1>3. f \in [ks -> Nat]
  BY <1>2, CampaignsParts, AllocationParts
<1> QED
  BY <1>1, <1>2, <1>3, SumFunctionType DEF AmountOf

\* One more allocation, k, whose amount the rest do not share.
LEMMA AmountGrows ==
  ASSUME NEW c \in CampaignsType, NEW ks \in SUBSET DOMAIN c.allocations,
         NEW k \in DOMAIN c.allocations, k \notin ks
  PROVE  AmountOf(c, ks \cup {k}) = AmountOf(c, ks) + c.allocations[k].amount
<1>1. PICK T : T = ks \cup {k}
  OBVIOUS
<1>2. PICK f : f = [j \in ks |-> c.allocations[j].amount]
  OBVIOUS
<1>3. PICK h : h = [j \in T |-> c.allocations[j].amount]
  OBVIOUS
<1>4. IsFiniteSet(ks) /\ f \in [ks -> Nat]
  BY <1>2, AmountType
<1>5. h \in [T -> Nat]
  <2>1. T \in SUBSET DOMAIN c.allocations
    BY <1>1
  <2> QED
    BY <1>3, <2>1, AmountType
<1>6. \A j \in ks : h[j] = f[j]
  BY <1>1, <1>2, <1>3
<1>7. h[k] = c.allocations[k].amount
  BY <1>1, <1>3
<1>8. SumFunction(h) = SumFunction(f) + h[k]
  BY <1>1, <1>4, <1>5, <1>6, SumFunctionExtends
<1> QED
  BY <1>1, <1>2, <1>3, <1>7, <1>8 DEF AmountOf

LEMMA SameAmounts ==
  ASSUME NEW c, NEW n, NEW ks,
         \A k \in ks : n.allocations[k].amount = c.allocations[k].amount
  PROVE  AmountOf(n, ks) = AmountOf(c, ks)
<1>1. [k \in ks |-> n.allocations[k].amount] = [k \in ks |-> c.allocations[k].amount]
  OBVIOUS
<1> QED
  BY <1>1 DEF AmountOf

\* Campaign i where it and its allocations stay as they are.
LEMMA BudgetKept ==
  ASSUME NEW c, NEW n, NEW i, Budgeted(c, i),
         AllocationsOf(n, i) = AllocationsOf(c, i),
         \A k \in AllocationsOf(c, i) : n.allocations[k] = c.allocations[k],
         n.campaigns[i].total = c.campaigns[i].total,
         n.campaigns[i].claimed = c.campaigns[i].claimed
  PROVE  Budgeted(n, i)
<1>1. ClaimedOf(n, i) = ClaimedOf(c, i) /\ ClaimedOf(c, i) \subseteq AllocationsOf(c, i)
  BY DEF ClaimedOf
<1>2. AmountOf(n, AllocationsOf(n, i)) = AmountOf(c, AllocationsOf(c, i))
  BY SameAmounts
<1>3. AmountOf(n, ClaimedOf(n, i)) = AmountOf(c, ClaimedOf(c, i))
  BY <1>1, SameAmounts
<1>4. OneWaiting(n, i)
  BY DEF Budgeted, OneWaiting
<1> QED
  BY <1>2, <1>3, <1>4 DEF Budgeted

LEMMA SameGiven ==
  ASSUME NEW c, NEW n, DOMAIN n.campaigns = DOMAIN c.campaigns,
         \A i \in DOMAIN c.campaigns : n.campaigns[i].claimed = c.campaigns[i].claimed
  PROVE  GivenBy(n) = GivenBy(c)
<1>1. [i \in DOMAIN n.campaigns |-> n.campaigns[i].claimed]
        = [i \in DOMAIN c.campaigns |-> c.campaigns[i].claimed]
  OBVIOUS
<1> QED
  BY <1>1 DEF GivenBy

LEMMA GivenType ==
  ASSUME NEW c \in CampaignsType
  PROVE  /\ [i \in DOMAIN c.campaigns |-> c.campaigns[i].claimed] \in [DOMAIN c.campaigns -> Nat]
         /\ GivenBy(c) \in Nat
<1>1. PICK f : f = [i \in DOMAIN c.campaigns |-> c.campaigns[i].claimed]
  OBVIOUS
<1>2. f \in [DOMAIN c.campaigns -> Nat]
  BY <1>1, CampaignsParts, CampaignParts
<1> QED
  BY <1>1, <1>2, CampaignsParts, SumFunctionType DEF GivenBy

LEMMA CreatedSound ==
  ASSUME NEW c, GrantsSound(c), NEW total \in Nat,
         NEW needsUsername \in BOOLEAN, NEW minActions \in Nat
  PROVE  LET n == Created(c, total, needsUsername, minActions)
         IN GrantsSound(n) /\ Rests(c, n) /\ GivenBy(n) = GivenBy(c)
<1>1. PICK n : n = Created(c, total, needsUsername, minActions)
  OBVIOUS
<1>2. PICK p : p = [total |-> total, claimed |-> 0, needsUsername |-> needsUsername,
                    minActions |-> minActions, status |-> "open"]
  OBVIOUS
<1>3. c \in CampaignsType /\ p \in CampaignType /\ p.claimed = 0 /\ p.total = total
  BY <1>2 DEF GrantsSound, CampaignType
<1>4. n = [c EXCEPT !.campaigns = Append(c.campaigns, p)]
  BY <1>1, <1>2 DEF Created
<1>5. /\ Append(c.campaigns, p) \in Seq(CampaignType)
      /\ DOMAIN c.campaigns = 1..Len(c.campaigns) /\ Len(c.campaigns) \in Nat
      /\ DOMAIN Append(c.campaigns, p) = 1..(Len(c.campaigns) + 1)
      /\ \A i \in DOMAIN c.campaigns : Append(c.campaigns, p)[i] = c.campaigns[i]
      /\ Append(c.campaigns, p)[Len(c.campaigns) + 1] = p
  BY <1>3, CampaignsParts, SeqAppend
<1>6. /\ n \in CampaignsType /\ n.allocations = c.allocations
      /\ n.campaigns = Append(c.campaigns, p)
  BY <1>3, <1>4, <1>5 DEF CampaignsType
<1>7. PICK last : last = Len(c.campaigns) + 1
  OBVIOUS
<1>8. /\ DOMAIN n.campaigns = DOMAIN c.campaigns \cup {last} /\ last \notin DOMAIN c.campaigns
      /\ n.campaigns[last] = p
      /\ \A i \in DOMAIN c.campaigns : n.campaigns[i] = c.campaigns[i]
  BY <1>5, <1>6, <1>7
<1>9. \A i : AllocationsOf(n, i) = AllocationsOf(c, i)
  BY <1>6 DEF AllocationsOf
<1>10. ASSUME NEW i \in DOMAIN c.campaigns
       PROVE  Budgeted(n, i)
  BY <1>6, <1>8, <1>9, BudgetKept DEF GrantsSound
<1>11. Budgeted(n, last)
  <2>1. AllocationsOf(n, last) = {} /\ ClaimedOf(n, last) = {}
    <3>1. \A k \in DOMAIN c.allocations : c.allocations[k].campaign # last
      BY <1>8 DEF GrantsSound
    <3>2. AllocationsOf(c, last) = {}
      BY <3>1 DEF AllocationsOf
    <3> QED
      BY <1>9, <3>2 DEF ClaimedOf
  <2>2. DOMAIN [k \in {} |-> n.allocations[k].amount] = {}
    OBVIOUS
  <2>3. AmountOf(n, {}) = 0
    BY <2>2, SumFunctionEmpty DEF AmountOf
  <2> QED
    BY <1>3, <1>8, <2>1, <2>3 DEF Budgeted, OneWaiting
<1>12. \A k \in DOMAIN n.allocations : n.allocations[k].campaign \in DOMAIN n.campaigns
  BY <1>6, <1>8 DEF GrantsSound
<1>13. GrantsSound(n)
  BY <1>6, <1>8, <1>10, <1>11, <1>12 DEF GrantsSound
<1>14. GivenBy(n) = GivenBy(c)
  <2>1. PICK f : f = [i \in DOMAIN c.campaigns |-> c.campaigns[i].claimed]
    OBVIOUS
  <2>2. PICK h : h = [i \in DOMAIN n.campaigns |-> n.campaigns[i].claimed]
    OBVIOUS
  <2>3. f \in [DOMAIN c.campaigns -> Nat] /\ IsFiniteSet(DOMAIN c.campaigns) /\ GivenBy(c) \in Nat
    BY <1>3, <2>1, GivenType, CampaignsParts
  <2>4. h \in [DOMAIN n.campaigns -> Nat]
    BY <1>6, <2>2, GivenType
  <2>5. h[last] = 0 /\ \A i \in DOMAIN c.campaigns : h[i] = f[i]
    BY <1>3, <1>8, <2>1, <2>2
  <2>6. SumFunction(h) = SumFunction(f) + h[last]
    BY <1>8, <2>3, <2>4, <2>5, SumFunctionExtends
  <2> QED
    BY <2>1, <2>2, <2>3, <2>5, <2>6 DEF GivenBy
<1>15. Rests(c, n)
  BY <1>8, <1>9 DEF Rests
<1> QED
  BY <1>1, <1>13, <1>14, <1>15

LEMMA ClosedSound ==
  ASSUME NEW c, GrantsSound(c), NEW i \in DOMAIN c.campaigns
  PROVE  LET n == Closed(c, i)
         IN GrantsSound(n) /\ Rests(c, n) /\ GivenBy(n) = GivenBy(c)
<1>1. PICK n : n = Closed(c, i)
  OBVIOUS
<1>2. c \in CampaignsType /\ c.campaigns \in Seq(CampaignType) /\ c.campaigns[i] \in CampaignType
  BY CampaignsParts DEF GrantsSound
<1>3. PICK p : p = [c.campaigns[i] EXCEPT !.status = "closed"]
  OBVIOUS
<1>4. /\ p \in CampaignType /\ p.total = c.campaigns[i].total
      /\ p.claimed = c.campaigns[i].claimed
      /\ c.campaigns[i].status = "closed" => p = c.campaigns[i]
  BY <1>2, <1>3 DEF CampaignType
<1>5. PICK ps : ps = [c.campaigns EXCEPT ![i] = p]
  OBVIOUS
<1>6. /\ ps \in Seq(CampaignType) /\ DOMAIN ps = DOMAIN c.campaigns /\ ps[i] = p
      /\ \A j \in DOMAIN c.campaigns : j # i => ps[j] = c.campaigns[j]
  BY <1>2, <1>4, <1>5, SeqReplace
<1>7. n = [c EXCEPT !.campaigns = ps]
  BY <1>1, <1>2, <1>3, <1>5 DEF Closed, CampaignsType
<1>8. n \in CampaignsType /\ n.allocations = c.allocations /\ n.campaigns = ps
  BY <1>2, <1>6, <1>7 DEF CampaignsType
<1>9. \A j : AllocationsOf(n, j) = AllocationsOf(c, j)
  BY <1>8 DEF AllocationsOf
<1>10. \A j \in DOMAIN c.campaigns : /\ n.campaigns[j].total = c.campaigns[j].total
                                     /\ n.campaigns[j].claimed = c.campaigns[j].claimed
  BY <1>4, <1>6, <1>8
<1>11. ASSUME NEW j \in DOMAIN c.campaigns
       PROVE  Budgeted(n, j)
  BY <1>8, <1>9, <1>10, BudgetKept DEF GrantsSound
<1>12. GrantsSound(n)
  BY <1>6, <1>8, <1>11 DEF GrantsSound
<1>13. GivenBy(n) = GivenBy(c)
  BY <1>6, <1>8, <1>10, SameGiven
<1>14. Rests(c, n)
  BY <1>4, <1>6, <1>8, <1>9 DEF Rests
<1> QED
  BY <1>1, <1>12, <1>13, <1>14

LEMMA AllocatedSound ==
  ASSUME NEW c, GrantsSound(c), NEW i \in DOMAIN c.campaigns, NEW u \in Users,
         NEW amount \in Nat, CanAllocate(c, i, u, amount)
  PROVE  LET n == Allocated(c, i, u, amount)
         IN GrantsSound(n) /\ Rests(c, n) /\ GivenBy(n) = GivenBy(c)
<1>1. PICK n : n = Allocated(c, i, u, amount)
  OBVIOUS
<1>2. PICK a : a = [campaign |-> i, user |-> u, amount |-> amount, claimed |-> FALSE]
  OBVIOUS
<1>3. c \in CampaignsType /\ i \in Nat
  BY CampaignsParts DEF GrantsSound
<1>4. /\ a \in AllocationType /\ a.campaign = i /\ a.user = u
      /\ a.amount = amount /\ a.claimed = FALSE
  BY <1>2, <1>3 DEF AllocationType
<1>5. n = [c EXCEPT !.allocations = Append(c.allocations, a)]
  BY <1>1, <1>2 DEF Allocated
<1>6. /\ Append(c.allocations, a) \in Seq(AllocationType)
      /\ DOMAIN c.allocations = 1..Len(c.allocations) /\ Len(c.allocations) \in Nat
      /\ DOMAIN Append(c.allocations, a) = 1..(Len(c.allocations) + 1)
      /\ \A k \in DOMAIN c.allocations : Append(c.allocations, a)[k] = c.allocations[k]
      /\ Append(c.allocations, a)[Len(c.allocations) + 1] = a
  BY <1>3, <1>4, CampaignsParts, SeqAppend
<1>7. /\ n \in CampaignsType /\ n.campaigns = c.campaigns
      /\ n.allocations = Append(c.allocations, a)
  BY <1>3, <1>5, <1>6 DEF CampaignsType
<1>8. PICK last : last = Len(c.allocations) + 1
  OBVIOUS
<1>9. /\ DOMAIN n.allocations = DOMAIN c.allocations \cup {last}
      /\ last \notin DOMAIN c.allocations /\ n.allocations[last] = a
      /\ \A k \in DOMAIN c.allocations : n.allocations[k] = c.allocations[k]
  BY <1>6, <1>7, <1>8
<1>10. /\ \A j : j # i => AllocationsOf(n, j) = AllocationsOf(c, j)
       /\ AllocationsOf(n, i) = AllocationsOf(c, i) \cup {last}
       /\ \A j : AllocationsOf(c, j) \subseteq DOMAIN c.allocations
  BY <1>4, <1>9 DEF AllocationsOf
<1>11. ASSUME NEW j \in DOMAIN c.campaigns, j # i
       PROVE  Budgeted(n, j)
  BY <1>7, <1>9, <1>10, <1>11, BudgetKept DEF GrantsSound
<1>12. Budgeted(n, i)
  <2>1. Budgeted(c, i)
    BY DEF GrantsSound
  <2>2. PICK mine : mine = AllocationsOf(c, i)
    OBVIOUS
  <2>3. mine \in SUBSET DOMAIN c.allocations /\ mine \in SUBSET DOMAIN n.allocations
        /\ last \in DOMAIN n.allocations /\ last \notin mine
    BY <1>9, <1>10, <2>2
  <2>4. AmountOf(n, mine) = AmountOf(c, mine)
    BY <1>9, <2>3, SameAmounts
  <2>5. AmountOf(n, mine \cup {last}) = AmountOf(n, mine) + amount
    BY <1>4, <1>7, <1>9, <2>3, AmountGrows
  <2>6. AmountOf(c, mine) + amount <= c.campaigns[i].total
    BY <2>2 DEF CanAllocate, AllocatedAmount, AmountOf
  <2>7. ClaimedOf(n, i) = ClaimedOf(c, i) /\ ClaimedOf(c, i) \subseteq DOMAIN c.allocations
    BY <1>4, <1>9, <1>10 DEF ClaimedOf
  <2>8. AmountOf(n, ClaimedOf(n, i)) = AmountOf(c, ClaimedOf(c, i))
    BY <1>9, <2>7, SameAmounts
  <2>9. OneWaiting(n, i)
    <3>1. \A k \in mine : ~(c.allocations[k].user = u /\ ~c.allocations[k].claimed)
      BY <2>2 DEF CanAllocate, UnclaimedOf
    <3> QED
      BY <1>4, <1>9, <1>10, <2>1, <2>2, <2>3, <3>1 DEF Budgeted, OneWaiting
  <2> QED
    BY <1>7, <1>10, <2>1, <2>2, <2>4, <2>5, <2>6, <2>8, <2>9 DEF Budgeted
<1>13. GrantsSound(n)
  BY <1>4, <1>7, <1>9, <1>11, <1>12 DEF GrantsSound
<1>14. GivenBy(n) = GivenBy(c)
  BY <1>7 DEF GivenBy
<1>15. Rests(c, n)
  BY <1>7, <1>10 DEF Rests, CanAllocate
<1> QED
  BY <1>1, <1>13, <1>14, <1>15

LEMMA ClaimedSound ==
  ASSUME NEW c, GrantsSound(c), NEW k \in DOMAIN c.allocations,
         NEW hasUsername, NEW actions, CanClaim(c, k, hasUsername, actions)
  PROVE  LET n == CampaignClaimed(c, k)
         IN GrantsSound(n) /\ Rests(c, n) /\ GivenBy(n) = GivenBy(c) + c.allocations[k].amount
<1>1. PICK n : n = CampaignClaimed(c, k)
  OBVIOUS
<1>2. PICK i : i = c.allocations[k].campaign
  OBVIOUS
<1>3. PICK amount : amount = c.allocations[k].amount
  OBVIOUS
<1>4. c \in CampaignsType /\ i \in DOMAIN c.campaigns
  BY <1>2 DEF GrantsSound
<1>5. /\ c.campaigns \in Seq(CampaignType) /\ c.campaigns[i] \in CampaignType
      /\ c.allocations \in Seq(AllocationType) /\ c.allocations[k] \in AllocationType
  BY <1>4, CampaignsParts
<1>6. amount \in Nat /\ c.campaigns[i].claimed \in Nat /\ c.campaigns[i].status = "open"
      /\ c.allocations[k].claimed = FALSE
  BY <1>2, <1>3, <1>5, CampaignParts, AllocationParts DEF CanClaim
<1>7. PICK p : p = [c.campaigns[i] EXCEPT !.claimed = c.campaigns[i].claimed + amount]
  OBVIOUS
<1>8. PICK a : a = [c.allocations[k] EXCEPT !.claimed = TRUE]
  OBVIOUS
<1>9. /\ p \in CampaignType /\ p.total = c.campaigns[i].total
      /\ p.claimed = c.campaigns[i].claimed + amount
  <2>1. PICK sum \in Nat : sum = c.campaigns[i].claimed + amount
    BY <1>6
  <2>2. p = [c.campaigns[i] EXCEPT !.claimed = sum]
    BY <1>7, <2>1
  <2>3. /\ p \in CampaignType /\ p.total = c.campaigns[i].total /\ p.claimed = sum
    BY <1>5, <2>2 DEF CampaignType
  <2> QED
    BY <2>1, <2>3
<1>10. /\ a \in AllocationType /\ a.campaign = i /\ a.user = c.allocations[k].user
       /\ a.amount = amount /\ a.claimed = TRUE
  BY <1>2, <1>3, <1>5, <1>8 DEF AllocationType
<1>11. PICK ps : ps = [c.campaigns EXCEPT ![i] = p]
  OBVIOUS
<1>12. PICK as : as = [c.allocations EXCEPT ![k] = a]
  OBVIOUS
<1>13. /\ ps \in Seq(CampaignType) /\ DOMAIN ps = DOMAIN c.campaigns /\ ps[i] = p
       /\ \A j \in DOMAIN c.campaigns : j # i => ps[j] = c.campaigns[j]
  BY <1>4, <1>5, <1>9, <1>11, SeqReplace
<1>14. /\ as \in Seq(AllocationType) /\ DOMAIN as = DOMAIN c.allocations /\ as[k] = a
       /\ \A m \in DOMAIN c.allocations : m # k => as[m] = c.allocations[m]
  BY SMTT(30), <1>5, <1>10, <1>12, SeqReplace
<1>15. n = [[c EXCEPT !.allocations = as] EXCEPT !.campaigns = ps]
  BY <1>1, <1>2, <1>3, <1>4, <1>7, <1>8, <1>11, <1>12 DEF CampaignClaimed, CampaignsType
<1>16. n \in CampaignsType /\ n.allocations = as /\ n.campaigns = ps
  BY <1>4, <1>13, <1>14, <1>15 DEF CampaignsType
<1>17. \A m \in DOMAIN c.allocations : /\ n.allocations[m].campaign = c.allocations[m].campaign
                                       /\ n.allocations[m].user = c.allocations[m].user
                                       /\ n.allocations[m].amount = c.allocations[m].amount
                                       /\ n.allocations[m].claimed <=> c.allocations[m].claimed \/ m = k
  BY <1>2, <1>3, <1>10, <1>14, <1>16
<1>18. /\ \A j : AllocationsOf(n, j) = AllocationsOf(c, j)
       /\ \A j : AllocationsOf(c, j) \subseteq DOMAIN c.allocations
  BY <1>14, <1>16, <1>17 DEF AllocationsOf
<1>19. ASSUME NEW j \in DOMAIN c.campaigns, j # i
       PROVE  Budgeted(n, j)
  <2>1. \A m \in AllocationsOf(c, j) : n.allocations[m] = c.allocations[m]
    BY <1>2, <1>14, <1>16, <1>19 DEF AllocationsOf
  <2> QED
    BY ZenonT(40), <1>13, <1>16, <1>18, <1>19, <2>1, BudgetKept DEF GrantsSound
<1>20. Budgeted(n, i)
  <2>1. Budgeted(c, i)
    BY <1>4 DEF GrantsSound
  <2>2. AmountOf(n, AllocationsOf(n, i)) = AmountOf(c, AllocationsOf(c, i))
    BY <1>17, <1>18, SameAmounts
  <2>3. PICK paid : paid = ClaimedOf(c, i)
    OBVIOUS
  <2>4. /\ ClaimedOf(n, i) = paid \cup {k} /\ k \notin paid
        /\ paid \in SUBSET DOMAIN c.allocations
        /\ paid \cup {k} \in SUBSET DOMAIN c.allocations
    <3>1. k \in AllocationsOf(c, i)
      BY <1>2 DEF AllocationsOf
    <3>2. k \notin paid
      BY <1>6, <2>3 DEF ClaimedOf
    <3>3. ClaimedOf(n, i) = {m \in AllocationsOf(c, i) : c.allocations[m].claimed \/ m = k}
      BY <1>17, <1>18 DEF ClaimedOf
    <3>4. ClaimedOf(n, i) = paid \cup {k}
      BY <2>3, <3>1, <3>3 DEF ClaimedOf
    <3>5. paid \subseteq AllocationsOf(c, i)
      BY <2>3 DEF ClaimedOf
    <3> QED
      BY <1>18, <3>1, <3>2, <3>4, <3>5
  <2>5. AmountOf(n, paid \cup {k}) = AmountOf(c, paid \cup {k})
    BY <1>17, <2>4, SameAmounts
  <2>6. AmountOf(c, paid \cup {k}) = AmountOf(c, paid) + amount
    BY <1>3, <1>4, <2>4, AmountGrows
  <2>7. OneWaiting(n, i)
    BY <1>17, <1>18, <2>1 DEF Budgeted, OneWaiting
  <2> QED
    BY <1>9, <1>13, <1>16, <2>1, <2>2, <2>3, <2>4, <2>5, <2>6, <2>7 DEF Budgeted
<1>21. \A m \in DOMAIN n.allocations : n.allocations[m].campaign \in DOMAIN n.campaigns
  BY <1>13, <1>14, <1>16, <1>17 DEF GrantsSound
<1>22. GrantsSound(n)
  BY <1>13, <1>16, <1>19, <1>20, <1>21 DEF GrantsSound
<1>23. GivenBy(n) = GivenBy(c) + amount
  <2>1. PICK f : f = [j \in DOMAIN c.campaigns |-> c.campaigns[j].claimed]
    OBVIOUS
  <2>2. PICK h : h = [j \in DOMAIN n.campaigns |-> n.campaigns[j].claimed]
    OBVIOUS
  <2>3. f \in [DOMAIN c.campaigns -> Nat] /\ IsFiniteSet(DOMAIN c.campaigns) /\ GivenBy(c) \in Nat
    BY <1>4, <2>1, GivenType, CampaignsParts
  <2>4. h \in [DOMAIN n.campaigns -> Nat]
    BY <1>16, <2>2, GivenType
  <2>5. DOMAIN n.campaigns = DOMAIN c.campaigns
    BY <1>13, <1>16
  <2>6. h[i] = f[i] + amount /\ \A j \in DOMAIN c.campaigns : j # i => h[j] = f[j]
    BY <1>4, <1>9, <1>13, <1>16, <2>1, <2>2, <2>5
  <2>7. SumFunction(h) = SumFunction(f) - f[i] + h[i]
    BY <1>4, <2>3, <2>4, <2>5, <2>6, SumFunctionChanges
  <2>8. f[i] \in Nat /\ SumFunction(f) \in Nat
    BY <1>4, <2>1, <2>3 DEF GivenBy
  <2>9. SumFunction(h) = SumFunction(f) + amount
    BY <1>6, <2>6, <2>7, <2>8
  <2> QED
    BY <2>1, <2>2, <2>9 DEF GivenBy
<1>24. Rests(c, n)
  BY <1>6, <1>13, <1>16, <1>18 DEF Rests
<1> QED
  BY <1>1, <1>3, <1>22, <1>23, <1>24

-----------------------------------------------------------------------------
(* Votes, campaigns and the economy together.                               *)

\* The inductive invariant.
CommunitySound ==
  /\ EconomySound /\ VotesSound(governance) /\ GrantsSound(campaigns)
  /\ verified \subseteq Users

\* A step that touches the registry of proposals only, and one that touches the
\* registry of campaigns or the attestations only.
VotingStep ==
  /\ UNCHANGED <<allVars, campaigns, verified>>
  /\ VotesSound(governance') /\ Settles(governance, governance')
GrantingStep ==
  /\ UNCHANGED <<allVars, governance>> /\ verified' \subseteq Users
  /\ GrantsSound(campaigns') /\ Rests(campaigns, campaigns')
  /\ GivenBy(campaigns') = GivenBy(campaigns)

LEMMA GovernanceStepVotes ==
  ASSUME CommunitySound, GovernanceStep
  PROVE  VotingStep
<1>1. /\ VotesSound(governance) /\ lend \in LendType /\ now \in Nat
      /\ \A u \in Users : VotingPower(u) \in Nat
  <2>1. lend \in LendType /\ now \in Nat
    BY SoundParts DEF CommunitySound, TypeOK
  <2>2. \A u \in Users : TotalBalance(lend, u) \in Nat
    BY <2>1, LendStep
  <2> QED
    BY <2>1, <2>2 DEF CommunitySound, VotingPower
<1>2. ASSUME NEW u \in Users, NEW topic \in Topics, Propose(u, topic)
      PROVE  VotingStep
  BY <1>1, <1>2, ProposedSound DEF Propose, VotingStep
<1>3. ASSUME NEW i \in DOMAIN governance.proposals, NEW u \in Users,
             NEW support \in BOOLEAN, Vote(u, i, support)
      PROVE  VotingStep
  <2>1. /\ CanVote(governance, i, u, VotingPower(u), now)
        /\ governance' = Voted(governance, i, u, support, VotingPower(u))
        /\ UNCHANGED <<allVars, campaigns, verified>>
    BY <1>3 DEF Vote
  <2> QED
    BY <1>1, <2>1, VotedSound DEF VotingStep
<1>4. ASSUME NEW i \in DOMAIN governance.proposals, Finalize(i)
      PROVE  VotingStep
  <2>1. /\ IsOpen(governance, i)
        /\ governance' = Finalized(governance, i, CirculatingSupply(lend))
        /\ UNCHANGED <<allVars, campaigns, verified>>
    BY <1>4 DEF Finalize, CanFinalize
  <2> QED
    BY <1>1, <2>1, FinalizedSound DEF VotingStep
<1> QED
  BY <1>2, <1>3, <1>4 DEF GovernanceStep

LEMMA CampaignStepGrants ==
  ASSUME CommunitySound, CampaignStep
  PROVE  \/ GrantingStep
         \/ \E k \in DOMAIN campaigns.allocations : ClaimCampaign(k)
<1>1. /\ GrantsSound(campaigns) /\ verified \subseteq Users
      /\ Budgets \subseteq Nat /\ Grants \subseteq Nat /\ Activity \subseteq Nat
  BY CommunityAssumption DEF CommunitySound
<1>2. ASSUME NEW total \in Budgets, NEW needsUsername \in BOOLEAN, NEW minActions \in Activity,
             CreateCampaign(total, needsUsername, minActions)
      PROVE  GrantingStep
  <2>1. /\ campaigns' = Created(campaigns, total, needsUsername, minActions)
        /\ UNCHANGED <<allVars, governance, verified>>
    BY <1>2 DEF CreateCampaign
  <2>2. total \in Nat /\ minActions \in Nat
    BY <1>1
  <2> QED
    BY <1>1, <2>1, <2>2, CreatedSound DEF GrantingStep
<1>3. ASSUME NEW i \in DOMAIN campaigns.campaigns, NEW u \in Users, NEW amount \in Grants,
             AllocateClaim(i, u, amount)
      PROVE  GrantingStep
  <2>1. /\ CanAllocate(campaigns, i, u, amount)
        /\ campaigns' = Allocated(campaigns, i, u, amount)
        /\ UNCHANGED <<allVars, governance, verified>>
    BY <1>3 DEF AllocateClaim
  <2>2. amount \in Nat
    BY <1>1
  <2> QED
    BY <1>1, <2>1, <2>2, AllocatedSound DEF GrantingStep
<1>4. ASSUME NEW i \in DOMAIN campaigns.campaigns, CloseCampaign(i)
      PROVE  GrantingStep
  <2>1. campaigns' = Closed(campaigns, i) /\ UNCHANGED <<allVars, governance, verified>>
    BY <1>4 DEF CloseCampaign
  <2> QED
    BY <1>1, <2>1, ClosedSound DEF GrantingStep
<1>5. ASSUME NEW u \in Users, AttestUsername(u)
      PROVE  GrantingStep
  BY <1>1, <1>5 DEF AttestUsername, GrantingStep, Rests
<1> QED
  BY <1>2, <1>3, <1>4, <1>5 DEF CampaignStep

\* A claim pays from the reserve what it books with the campaign.
LEMMA CampaignClaimPays ==
  ASSUME CommunitySound, NEW k \in DOMAIN campaigns.allocations, ClaimCampaign(k)
  PROVE  /\ AsideStep /\ UNCHANGED <<standing, fees, economyVars, governance, verified>>
         /\ GrantsSound(campaigns') /\ Rests(campaigns, campaigns')
         /\ \E amount \in Nat :
              /\ GivenBy(campaigns') = GivenBy(campaigns) + amount
              /\ treasury'.lendClaimed = treasury.lendClaimed + amount
<1>1. PICK amount : amount = campaigns.allocations[k].amount
  OBVIOUS
<1>2. PICK u : u = campaigns.allocations[k].user
  OBVIOUS
<1>3. EconomySound /\ GrantsSound(campaigns) /\ campaigns \in CampaignsType
  BY DEF CommunitySound, GrantsSound
<1>4. amount \in Nat /\ u \in Users
  BY <1>1, <1>2, <1>3, CampaignsParts, AllocationParts
<1>5. /\ CanClaim(campaigns, k, u \in verified, PlatformActions(u))
      /\ PayOut(u, amount) /\ campaigns' = CampaignClaimed(campaigns, k)
      /\ UNCHANGED <<now, paused, book, standing, fees, economyVars, governance, verified>>
  BY <1>1, <1>2 DEF ClaimCampaign
<1>6. /\ GrantsSound(campaigns') /\ Rests(campaigns, campaigns')
      /\ GivenBy(campaigns') = GivenBy(campaigns) + amount
  BY <1>1, <1>3, <1>5, ClaimedSound
<1>7. /\ lend' \in LendType /\ LedgerKept(lend, lend') /\ SameStakes(lend, lend')
      /\ treasury' \in TreasuryType /\ SameVaults(treasury', treasury)
      /\ treasury'.lendClaimed = treasury.lendClaimed + amount
      /\ VaultsMatchCounters => VaultsMatchCounters'
  BY <1>3, <1>4, <1>5, PayOutFacts
<1>8. /\ UNCHANGED <<now, paused, book, reputation, referral, fees, economyVars>>
      /\ rewards' = rewards
  BY <1>5 DEF standing
<1>9. rewards' \in RewardsType
  BY <1>3, <1>8, SoundParts
<1>10. AsideStep
  BY <1>3, <1>7, <1>8, <1>9, QuietAside
<1> QED
  BY <1>4, <1>5, <1>6, <1>7, <1>10

LEMMA CommunitySteps ==
  ASSUME CommunitySound, [CommunityNext]_everyVar
  PROVE  \/ [EconomyNext]_allVars /\ UNCHANGED communityVars
         \/ VotingStep \/ GrantingStep
         \/ \E k \in DOMAIN campaigns.allocations : ClaimCampaign(k)
<1>1. CASE UNCHANGED everyVar
  BY <1>1 DEF everyVar
<1>2. CASE GovernanceStep
  BY <1>2, GovernanceStepVotes
<1>3. CASE CampaignStep
  BY <1>3, CampaignStepGrants
<1> QED
  BY <1>1, <1>2, <1>3 DEF CommunityNext

\* What happens to the economy in each of these steps.
LEMMA EconomyBeneath ==
  ASSUME CommunitySound, [CommunityNext]_everyVar
  PROVE  [EconomyNext]_allVars \/ AsideStep
BY CommunitySteps, CampaignClaimPays DEF VotingStep, GrantingStep

LEMMA CommunityInitSound == CommunityInit => CommunitySound
BY SoundInit, NoVotes, NoGrants DEF CommunityInit, CommunitySound

LEMMA CommunityNextSound ==
  ASSUME CommunitySound, [CommunityNext]_everyVar
  PROVE  /\ CommunitySound'
         /\ Settles(governance, governance') /\ Rests(campaigns, campaigns')
<1>1. EconomySound'
  BY EconomyBeneath, SoundNext DEF CommunitySound, AsideStep
<1>2. Settles(governance, governance) /\ Rests(campaigns, campaigns)
  BY DEF Settles, Rests
<1>3. CASE UNCHANGED communityVars
  BY <1>1, <1>2, <1>3 DEF CommunitySound, communityVars
<1>4. CASE VotingStep
  BY <1>1, <1>2, <1>4 DEF CommunitySound, VotingStep
<1>5. CASE GrantingStep
  BY <1>1, <1>2, <1>5 DEF CommunitySound, GrantingStep
<1>6. CASE \E k \in DOMAIN campaigns.allocations : ClaimCampaign(k)
  BY <1>1, <1>2, <1>6, CampaignClaimPays DEF CommunitySound
<1> QED
  BY <1>3, <1>4, <1>5, <1>6, CommunitySteps

LEMMA CommunitySoundAlways == CommunitySpec => []CommunitySound
BY CommunityInitSound, CommunityNextSound, PTL DEF CommunitySpec

\* Every variable keeps its type with votes and campaigns on top of the economy.
THEOREM CommunityTypeCorrect == CommunitySpec => []CommunityTypeOK
<1>1. CommunitySound => CommunityTypeOK
  BY DEF CommunitySound, CommunityTypeOK, EconomySound, VotesSound, GrantsSound
<1> QED
  BY <1>1, CommunitySoundAlways, PTL

\* Every unit of a tally stands behind one receipt, and a voter has one receipt
\* per proposal, for any number of users, proposals and transfers in between.
THEOREM TallyIsReceiptsAlways == CommunitySpec => []TallyIsReceipts
<1>1. CommunitySound => TallyIsReceipts
  <2> SUFFICES ASSUME CommunitySound PROVE TallyIsReceipts
    OBVIOUS
  <2>1. \A i \in DOMAIN governance.proposals : TallyOf(governance, i)
    BY DEF CommunitySound, VotesSound
  <2>2. OneReceipt(governance)
    BY DEF CommunitySound, VotesSound
  <2>3. \A i, support :
          SumFunction([r \in ReceiptsFor(i, support) |-> r.power])
            = CastOn(governance, i, support)
    BY DEF ReceiptsFor, Receipts, CastOn
  <2> QED
    BY <2>1, <2>2, <2>3 DEF TallyIsReceipts, TallyOf, OneReceipt
<1> QED
  BY <1>1, CommunitySoundAlways, PTL

\* An outcome that was recorded is never changed again.
THEOREM OutcomeIsFinalHolds == CommunitySpec => OutcomeIsFinal
<1>1. CommunitySound /\ [CommunityNext]_everyVar
        => [\A i \in DOMAIN governance.proposals :
              governance.proposals[i].status # "open"
                => governance'.proposals[i] = governance.proposals[i]]_everyVar
  BY CommunityNextSound DEF Settles
<1> QED
  BY <1>1, CommunitySoundAlways, PTL DEF CommunitySpec, OutcomeIsFinal

\* No second belongs both to the vote and to the time after it.
THEOREM VoteOrFinalizeAlways == CommunitySpec => []VoteOrFinalize
<1>1. CommunitySound => VoteOrFinalize
  <2> SUFFICES ASSUME CommunitySound, NEW i \in DOMAIN governance.proposals,
                      CanFinalize(governance, i, now), NEW u \in Users
               PROVE  ~CanVote(governance, i, u, VotingPower(u), now)
    BY DEF VoteOrFinalize
  <2>1. now \in Nat /\ governance.proposals[i].endsAt \in Nat
    BY SoundParts, GovernanceParts, ProposalParts DEF CommunitySound, VotesSound, TypeOK
  <2> QED
    BY <2>1 DEF CanFinalize, Ended, CanVote
<1> QED
  BY <1>1, CommunitySoundAlways, PTL

\* No campaign allocates or pays more than its total, its counter is what was
\* claimed, and no user has two claims waiting in it.
THEOREM CampaignBudgetsAlways == CommunitySpec => []CampaignBudgets
<1>1. CommunitySound => CampaignBudgets
  <2> SUFFICES ASSUME CommunitySound, NEW i \in DOMAIN campaigns.campaigns
               PROVE  LET mine == {k \in DOMAIN campaigns.allocations :
                                     campaigns.allocations[k].campaign = i}
                          amount(ks) == SumFunction([k \in ks |->
                                          campaigns.allocations[k].amount])
                      IN /\ amount(mine) <= campaigns.campaigns[i].total
                         /\ campaigns.campaigns[i].claimed =
                              amount({k \in mine : campaigns.allocations[k].claimed})
                         /\ \A k, m \in mine :
                              /\ campaigns.allocations[k].user = campaigns.allocations[m].user
                              /\ ~campaigns.allocations[k].claimed
                              /\ ~campaigns.allocations[m].claimed
                              => k = m
    BY DEF CampaignBudgets
  <2>1. Budgeted(campaigns, i)
    BY DEF CommunitySound, GrantsSound
  <2> QED
    BY <2>1 DEF Budgeted, OneWaiting, AmountOf, AllocationsOf, ClaimedOf
<1> QED
  BY <1>1, CommunitySoundAlways, PTL

\* A closed campaign stays as it is and gets no more allocations.
THEOREM ClosedCampaignsRestHolds == CommunitySpec => ClosedCampaignsRest
<1>1. CommunitySound /\ [CommunityNext]_everyVar
        => [\A i \in DOMAIN campaigns.campaigns :
              campaigns.campaigns[i].status = "closed"
                => /\ campaigns'.campaigns[i] = campaigns.campaigns[i]
                   /\ AllocationsOf(campaigns', i) = AllocationsOf(campaigns, i)]_everyVar
  BY CommunityNextSound DEF Rests
<1> QED
  BY <1>1, CommunitySoundAlways, PTL DEF CommunitySpec, ClosedCampaignsRest

-----------------------------------------------------------------------------
(* The one reserve.                                                         *)

\* A step of the economy books what it pays, with a staker or with a user.
PaysOut(h) ==
  /\ treasury'.lendClaimed = treasury.lendClaimed + h
  /\ staking'.claimed + SumFunction(ClaimsOf(rewards'))
       = staking.claimed + SumFunction(ClaimsOf(rewards)) + h

LEMMA HarvestPays ==
  ASSUME EconomySound, EconomySound', NEW u \in Users, ClaimStakingRewards(u)
  PROVE  \E h \in Nat : PaysOut(h)
<1>1. PICK h \in Nat : /\ PayOut(u, h) /\ staking'.claimed = staking.claimed + h
                       /\ rewards' = rewards
  BY SoundParts, HarvestedFacts DEF ClaimStakingRewards, standing
<1>2. treasury'.lendClaimed = treasury.lendClaimed + h
  BY <1>1, PayOutFacts
<1>3. SumFunction(ClaimsOf(rewards)) \in Nat /\ staking.claimed \in Nat
  BY RecordsNow
<1> QED
  BY <1>1, <1>2, <1>3 DEF PaysOut

LEMMA ClaimPays ==
  ASSUME EconomySound, EconomySound', NEW u \in Users, ClaimLend(u)
  PROVE  \E h \in Nat : PaysOut(h)
<1>0. rewards \in RewardsType /\ rewards[u] \in RewardAccountType
  BY SoundParts DEF RewardsType
<1>1. PICK h \in Nat : h = rewards[u].claimable
  BY <1>0, AccountParts
<1>2. /\ PayOut(u, h) /\ rewards' = [rewards EXCEPT ![u] = Claimed(@)] /\ staking' = staking
  BY <1>1 DEF ClaimLend, economyVars
<1>3. /\ rewards'[u].claimed = rewards[u].claimed + h
      /\ \A v \in Users : v # u => rewards'[v] = rewards[v]
  BY <1>0, <1>1, <1>2, ClaimedFacts DEF RewardsType
<1>4. treasury'.lendClaimed = treasury.lendClaimed + h
  BY <1>2, PayOutFacts
<1>5. ClaimsOf(rewards) \in [Users -> Nat] /\ staking.claimed \in Nat
  BY RecordsNow
<1>6. ClaimsOf(rewards') \in [Users -> Nat]
  BY RecordsNow
<1>7. /\ ClaimsOf(rewards')[u] = ClaimsOf(rewards)[u] + h
      /\ \A v \in Users : v # u => ClaimsOf(rewards')[v] = ClaimsOf(rewards)[v]
  BY <1>3 DEF ClaimsOf
<1>8. /\ SumFunction(ClaimsOf(rewards')) = SumFunction(ClaimsOf(rewards)) + h
      /\ SumFunction(ClaimsOf(rewards)) \in Nat
  BY <1>5, <1>6, <1>7, ClaimRecorded
<1> QED
  BY <1>2, <1>4, <1>5, <1>8 DEF PaysOut

LEMMA EconomyPays ==
  ASSUME EconomySound, EconomySound', [EconomyNext]_allVars
  PROVE  \E h \in Nat : PaysOut(h)
<1>1. CASE SamePayouts
  <2>1. ClaimsOf(rewards') = ClaimsOf(rewards)
    BY <1>1 DEF SamePayouts, ClaimsOf
  <2>2. /\ treasury'.lendClaimed = treasury.lendClaimed
        /\ staking'.claimed = staking.claimed
    BY <1>1 DEF SamePayouts, SameClaims
  <2>3. /\ treasury.lendClaimed \in Nat /\ staking.claimed \in Nat
        /\ SumFunction(ClaimsOf(rewards)) \in Nat
    BY RecordsNow
  <2>4. PaysOut(0)
    BY <2>1, <2>2, <2>3 DEF PaysOut
  <2> QED
    BY <2>4
<1> QED
  BY <1>1, KindsOfSteps, OthersPayNothing, HarvestPays, ClaimPays

\* The four claimants of the reserve explain all that it ever paid out.
THEOREM ReservePayoutsExplainedAlways == CommunitySpec => []ReservePayoutsExplained
<1>1. CommunityInit => ReservePayoutsExplained
  <2> SUFFICES ASSUME CommunityInit PROVE ReservePayoutsExplained
    OBVIOUS
  <2>1. /\ EconomyInit /\ staking = NoStakes /\ treasury.lendClaimed = InitialDistributed
        /\ rewards = NoRewards /\ campaigns = NoCampaigns
    BY DEF CommunityInit, EconomyInit, Init, FundedTreasury
  <2>2. \A u \in Users : ClaimsOf(rewards)[u] = 0
    BY <2>1 DEF ClaimsOf, NoRewards
  <2>3. ClaimsOf(rewards) \in [Users -> Nat]
    BY <2>1, SoundInit, SoundParts, RecordsType
  <2>4. SumFunction(ClaimsOf(rewards)) = 0
    BY <2>2, <2>3, LoanBookAssumption, SumFunctionZero
  <2>5. staking.claimed = 0 /\ GivenBy(campaigns) = 0
    BY <2>1, NoGrants DEF NoStakes
  <2> QED
    BY <2>1, <2>4, <2>5, LoanBookAssumption
    DEF ReservePayoutsExplained, ClaimsOf, GivenBy
<1>2. ASSUME CommunitySound, CommunitySound', ReservePayoutsExplained,
             [CommunityNext]_everyVar
      PROVE  ReservePayoutsExplained'
  <2>1. EconomySound /\ EconomySound' /\ campaigns \in CampaignsType
    BY <1>2 DEF CommunitySound, GrantsSound
  <2>2. /\ treasury.lendClaimed \in Nat /\ staking.claimed \in Nat
        /\ SumFunction(ClaimsOf(rewards)) \in Nat /\ GivenBy(campaigns) \in Nat
        /\ InitialDistributed \in Nat
    BY <2>1, RecordsNow, GivenType, LoanBookAssumption
  <2>3. treasury.lendClaimed = InitialDistributed + staking.claimed
          + SumFunction(ClaimsOf(rewards)) + GivenBy(campaigns)
    BY <1>2 DEF ReservePayoutsExplained, ClaimsOf, GivenBy
  <2>4. SUFFICES treasury'.lendClaimed = InitialDistributed + staking'.claimed
                   + SumFunction(ClaimsOf(rewards')) + GivenBy(campaigns')
    BY DEF ReservePayoutsExplained, ClaimsOf, GivenBy
  <2>5. CASE [EconomyNext]_allVars /\ GivenBy(campaigns') = GivenBy(campaigns)
    <3>1. PICK h \in Nat : PaysOut(h)
      BY <2>1, <2>5, EconomyPays
    <3>2. /\ treasury'.lendClaimed = treasury.lendClaimed + h
          /\ staking'.claimed + SumFunction(ClaimsOf(rewards'))
               = staking.claimed + SumFunction(ClaimsOf(rewards)) + h
      BY <3>1 DEF PaysOut
    <3>3. staking'.claimed \in Nat /\ SumFunction(ClaimsOf(rewards')) \in Nat
      <4>1. /\ staking' \in RegistryType /\ rewards' \in RewardsType
            /\ treasury' \in TreasuryType
        BY <2>1 DEF EconomySound, EconomyTypeOK, TypeOK
      <4> QED
        BY <4>1, RecordsType
    <3> QED
      BY <2>2, <2>3, <2>5, <3>2, <3>3
  <2>6. ASSUME NEW k \in DOMAIN campaigns.allocations, ClaimCampaign(k)
        PROVE  treasury'.lendClaimed = InitialDistributed + staking'.claimed
                 + SumFunction(ClaimsOf(rewards')) + GivenBy(campaigns')
    <3>1. PICK amount \in Nat :
            /\ GivenBy(campaigns') = GivenBy(campaigns) + amount
            /\ treasury'.lendClaimed = treasury.lendClaimed + amount
      BY <1>2, <2>6, CampaignClaimPays
    <3>2. staking' = staking /\ rewards' = rewards
      BY <1>2, <2>6, CampaignClaimPays DEF standing, economyVars
    <3> QED
      BY <2>2, <2>3, <3>1, <3>2
  <2>7. CASE VotingStep
    <3>1. [EconomyNext]_allVars /\ campaigns' = campaigns
      BY <2>7 DEF VotingStep
    <3> QED
      BY <2>5, <3>1
  <2>8. CASE GrantingStep
    BY <2>5, <2>8 DEF GrantingStep
  <2>9. CASE [EconomyNext]_allVars /\ UNCHANGED communityVars
    BY <2>5, <2>9 DEF communityVars
  <2> QED
    BY <1>2, <2>6, <2>7, <2>8, <2>9, CommunitySteps
<1> QED
  BY <1>1, <1>2, CommunitySoundAlways, PTL DEF CommunitySpec

\* Campaigns are paid from the reserve without an amount set aside; the vaults
\* and the treasury's totals still agree.
THEOREM CommunityVaultsMatch == CommunitySpec => []VaultsMatchCounters
<1>1. CommunityInit => VaultsMatchCounters
  BY LoanBookAssumption
  DEF CommunityInit, EconomyInit, Init, FundedTreasury, VaultsMatchCounters, Balanced
<1>2. CommunitySound /\ VaultsMatchCounters /\ [CommunityNext]_everyVar
        => VaultsMatchCounters'
  BY EconomyBeneath, EconomySteps, SoundParts, BalancedNext DEF CommunitySound, AsideStep
<1> QED
  BY <1>1, <1>2, CommunitySoundAlways, PTL DEF CommunitySpec

-----------------------------------------------------------------------------
(* The whole of the contracts.  A campaign's claim is one more payout from the *)
(* reserve, beside the life cycle and the economy, so what was shown of them   *)
(* alone holds with votes and campaigns as well.                             *)

LEMMA CampaignClaimBeside ==
  ASSUME CommunitySound, NEW k \in DOMAIN campaigns.allocations, ClaimCampaign(k)
  PROVE  Beside
<1>1. PICK amount : treasury' = ReleaseReward(treasury, amount)
  BY DEF ClaimCampaign, PayOut
<1>2. treasury \in TreasuryType
  BY SoundParts DEF CommunitySound
<1>3. treasury'.disbursed = treasury.disbursed /\ treasury'.repaid = treasury.repaid
  BY <1>1, <1>2, ReserveBeside
<1>4. UNCHANGED <<book, reputation, rewards, referral, fees>>
  BY Zenon DEF ClaimCampaign, standing
<1> QED
  BY <1>3, <1>4 DEF Beside

LEMMA CommunityBeside ==
  ASSUME CommunitySound, [CommunityNext]_everyVar
  PROVE  [Next]_vars \/ Beside
<1>1. EconomySound
  BY DEF CommunitySound
<1>2. CASE [EconomyNext]_allVars
  BY <1>1, <1>2, EconomyBeside
<1>3. CASE \E k \in DOMAIN campaigns.allocations : ClaimCampaign(k)
  BY <1>3, CampaignClaimBeside
<1> QED
  BY <1>2, <1>3, CommunitySteps DEF VotingStep, GrantingStep

LEMMA CommunityAside ==
  ASSUME CommunitySound, [CommunityNext]_everyVar
  PROVE  [Next]_vars \/ AsideStep
BY EconomyBeneath, EconomySteps DEF CommunitySound

\* With everything else at work, no borrower has two credits open, every approved
\* request is one loan, a loan agrees with itself and its fees are its borrower's.
THEOREM CommunityKeepsBook ==
  CommunitySpec => [](OneOpenCredit /\ ApprovedOnce /\ LoanConsistent /\ FeesMatchLoans)
<1>1. CommunityInit => BookSound /\ FeesMatchLoans
  BY BookStarts DEF CommunityInit, EconomyInit, Init, FeesMatchLoans
<1>2. ASSUME CommunitySound, CommunitySound', BookSound, FeesMatchLoans,
             [CommunityNext]_everyVar
      PROVE  BookSound' /\ FeesMatchLoans'
  <2>1. EconomySound /\ EconomySound' /\ TypeOK
    BY <1>2, SoundParts DEF CommunitySound
  <2> QED
    BY <1>2, <2>1, CommunityBeside, BookStays, FeesMatchStay
<1>3. BookSound => OneOpenCredit /\ ApprovedOnce /\ LoanConsistent
  BY DEF BookSound
<1> QED
  BY <1>1, <1>2, <1>3, CommunitySoundAlways, PTL DEF CommunitySpec

\* With everything else at work, the tables explain every history, referral
\* record, point granted and total of the treasury.
THEOREM CommunityKeepsStanding ==
  CommunitySpec => [](ReputationMatchesBook /\ ReferralBooksAgree /\ PointsExplained
                      /\ TotalsMatchBook)
<1>1. CommunityInit => StandingSound
  BY StandingStarts DEF CommunityInit, EconomyInit
<1>2. CommunitySound /\ StandingSound /\ [CommunityNext]_everyVar => StandingSound'
  BY CommunityBeside, StandingStays DEF CommunitySound
<1> QED
  BY <1>1, <1>2, StandingExplains, CommunitySoundAlways, PTL DEF CommunitySpec

\* With everything else at work, no LEND appears or vanishes and the collateral
\* vault holds exactly what open credits locked, though campaigns pay out of a
\* reserve nobody sets aside for them.
THEOREM CommunityKeepsLend == CommunitySpec => [](LendConserved /\ CollateralBacked)
<1>1. CommunityInit => BookSound /\ LendConserved /\ CollateralBacked
  BY BookStarts, ConservedInit, CollateralInit DEF CommunityInit, EconomyInit
<1>2. CommunitySound /\ BookSound => Known
  BY SoundParts, LineFactsHold DEF CommunitySound, BookSound, Known
<1>3. CommunitySound /\ BookSound /\ [CommunityNext]_everyVar => BookSound'
  BY SoundParts, CommunityBeside, BookStays DEF CommunitySound
<1>4. Known /\ Known' /\ CommunitySound /\ LendConserved /\ [CommunityNext]_everyVar
        => LendConserved'
  BY CommunityAside, LendStays
<1>5. Known /\ Known' /\ CommunitySound /\ CollateralBacked /\ [CommunityNext]_everyVar
        => CollateralBacked'
  BY CommunityAside, CollateralStays
<1> QED
  BY <1>1, <1>2, <1>3, <1>4, <1>5, CommunitySoundAlways, PTL DEF CommunitySpec

\* With everything else at work, the stakes agree in all three books, fees reach
\* the stakers, fees and points are spent once, and the contracts accept what the
\* pages offer.
THEOREM CommunityKeepsEconomy ==
  CommunitySpec => [](StakeBooksAgree /\ FeesReachStakers /\ FeesAccounted
                      /\ PointsSpentOnce /\ LendPerPointBounded /\ OffersAccepted)
<1>1. CommunityInit => FeesAccounted /\ AccountsSound
  BY FeesAccountedStart, AccountsStart DEF CommunityInit
<1>2. ASSUME CommunitySound, CommunitySound', FeesAccounted, AccountsSound,
             [CommunityNext]_everyVar
      PROVE  FeesAccounted' /\ AccountsSound'
  <2>1. EconomySound /\ EconomySound'
    BY <1>2 DEF CommunitySound
  <2>2. CASE [EconomyNext]_allVars
    BY <1>2, <2>1, <2>2, FeesAccountedStay, AccountsStay
  <2>3. CASE \E k \in DOMAIN campaigns.allocations : ClaimCampaign(k)
    <3>1. UNCHANGED <<fees, feeTotals, rewards, reputation>>
      BY <1>2, <2>3, CampaignClaimPays DEF standing, economyVars
    <3>2. FeesAccounted'
      BY <1>2, <3>1 DEF FeesAccounted
    <3>3. AccountsSound'
      BY <1>2, <3>1 DEF AccountsSound, SpentOnce, Bounded
    <3> QED
      BY <3>2, <3>3
  <2> QED
    BY <1>2, <2>2, <2>3, CommunitySteps DEF VotingStep, GrantingStep
<1>3. AccountsSound => PointsSpentOnce /\ LendPerPointBounded
  BY DEF AccountsSound, SpentOnce, Bounded, PointsSpentOnce, LendPerPointBounded
<1>4. CommunitySound => EconomySound /\ StakeBooksAgree /\ FeesReachStakers
  BY DEF CommunitySound, EconomySound
<1> QED
  BY <1>1, <1>2, <1>3, <1>4, OffersStand, CommunitySoundAlways, CommunityVaultsMatch,
     CommunityKeepsBook, PTL DEF CommunitySpec

\* With everything else at work, no transaction reopens what is closed or takes
\* back what a staker has earned.
THEOREM CommunityKeepsPast == CommunitySpec => SettledForever /\ EarningsKept
<1>1. CommunitySound /\ [CommunityNext]_everyVar => [SettledStep]_vars
  BY SoundParts, CommunityBeside, BesideKeepsBook, Settled DEF CommunitySound
<1>2. CommunitySound /\ [CommunityNext]_everyVar => [EarningsGrow]_allVars
  BY EconomyBeneath, SoundNext DEF CommunitySound, AsideStep
<1> QED
  BY <1>1, <1>2, CommunitySoundAlways, PTL DEF CommunitySpec, SettledForever, EarningsKept

=============================================================================
