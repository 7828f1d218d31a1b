----------------------------- MODULE Governance -----------------------------
(***************************************************************************)
(* Proposals and token-weighted votes (tokenomics/governance.move).  A       *)
(* registry g holds the proposals, whose ids are their positions, and the    *)
(* vote receipts.  A vote weighs what its voter holds at that moment, the    *)
(* quorum is taken of the supply at the moment of finalisation: both are     *)
(* arguments here.                                                          *)
(***************************************************************************)
EXTENDS Config, Sequences

CONSTANTS
  VotingRules,   \* the governance fields of the Config resource
  Topics         \* what a proposal may be about

\* update_governance_policy bounds the quorum only.
ASSUME VotingAssumption ==
  VotingRules \in [threshold : Nat, quorumBps : 0..BPS, period : Nat]

ProposalType ==
  [topic : Topics, endsAt : Nat, yes : Nat, no : Nat,
   status : {"open", "passed", "rejected"}]
ReceiptType ==
  [proposal : Nat, voter : Users, support : BOOLEAN, power : Nat]
GovernanceType ==
  [proposals : Seq(ProposalType), receipts : SUBSET ReceiptType]

NoProposals == [proposals |-> <<>>, receipts |-> {}]

CanPropose(power) == power >= VotingRules.threshold

Proposed(g, topic, time) ==
  [g EXCEPT !.proposals = Append(@,
     [topic |-> topic, endsAt |-> time + VotingRules.period,
      yes |-> 0, no |-> 0, status |-> "open"])]

HasVoted(g, i, u) == \E r \in g.receipts : r.proposal = i /\ r.voter = u

CanVote(g, i, u, power, time) ==
  /\ power > 0 /\ ~HasVoted(g, i, u)
  /\ g.proposals[i].status = "open" /\ time <= g.proposals[i].endsAt

Tallied(g, i, support, power) ==
  IF support THEN [g EXCEPT !.proposals[i].yes = @ + power]
             ELSE [g EXCEPT !.proposals[i].no = @ + power]

\* Fault: the vote leaves no receipt.
VotedUnreceipted(g, i, u, support, power) == Tallied(g, i, support, power)

Voted(g, i, u, support, power) ==
  [Tallied(g, i, support, power) EXCEPT
     !.receipts = @ \cup {[proposal |-> i, voter |-> u, support |-> support,
                           power |-> power]}]

\* Fault: the last second of the vote already counts as after it.
EndedEarly(g, i, time) == time >= g.proposals[i].endsAt

Ended(g, i, time) == time > g.proposals[i].endsAt

\* Fault: what is decided is decided again, against the supply of that day.
IsOpenOrNot(g, i) == TRUE

IsOpen(g, i) == g.proposals[i].status = "open"

CanFinalize(g, i, time) == IsOpen(g, i) /\ Ended(g, i, time)

VotesCast(g, i) == g.proposals[i].yes + g.proposals[i].no

QuorumReached(g, i, supply) ==
  /\ supply > 0
  /\ (VotesCast(g, i) * BPS) \div supply >= VotingRules.quorumBps

Finalized(g, i, supply) ==
  [g EXCEPT !.proposals[i].status =
     IF QuorumReached(g, i, supply) /\ g.proposals[i].yes > g.proposals[i].no
     THEN "passed" ELSE "rejected"]
=============================================================================
