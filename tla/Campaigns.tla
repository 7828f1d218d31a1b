------------------------------ MODULE Campaigns ------------------------------
(***************************************************************************)
(* Campaigns that give LEND away (rewards/campaigns.move).  A registry c     *)
(* holds the campaigns, whose ids are their positions, and the allocations   *)
(* in the order they were made.  Nothing sets LEND aside for them: a claim   *)
(* is paid from the reserve that rewards and stakers draw on too.           *)
(***************************************************************************)
EXTENDS Config, Sequences, FiniteSets, FiniteSetsExt

CampaignType ==
  [total : Nat, claimed : Nat, needsUsername : BOOLEAN, minActions : Nat,
   status : {"open", "closed"}]
AllocationType == [campaign : Nat, user : Users, amount : Nat, claimed : BOOLEAN]
CampaignsType ==
  [campaigns : Seq(CampaignType), allocations : Seq(AllocationType)]

NoCampaigns == [campaigns |-> <<>>, allocations |-> <<>>]

Created(c, total, needsUsername, minActions) ==
  [c EXCEPT !.campaigns = Append(@,
     [total |-> total, claimed |-> 0, needsUsername |-> needsUsername,
      minActions |-> minActions, status |-> "open"])]

AllocationsOf(c, i) ==
  {k \in DOMAIN c.allocations : c.allocations[k].campaign = i}
UnclaimedOf(c, i, u) ==
  {k \in AllocationsOf(c, i) :
     c.allocations[k].user = u /\ ~c.allocations[k].claimed}

\* Fault: an allocation that was claimed makes room for another.
AllocatedUnclaimed(c, i) ==
  SumFunction([k \in {m \in AllocationsOf(c, i) : ~c.allocations[m].claimed} |->
                 c.allocations[k].amount])

\* allocated_amount_for_campaign
AllocatedAmount(c, i) ==
  SumFunction([k \in AllocationsOf(c, i) |-> c.allocations[k].amount])

CanAllocate(c, i, u, amount) ==
  /\ c.campaigns[i].status = "open" /\ UnclaimedOf(c, i, u) = {}
  /\ AllocatedAmount(c, i) + amount <= c.campaigns[i].total

Allocated(c, i, u, amount) ==
  [c EXCEPT !.allocations = Append(@,
     [campaign |-> i, user |-> u, amount |-> amount, claimed |-> FALSE])]

Closed(c, i) == [c EXCEPT !.campaigns[i].status = "closed"]

\* Allocation k of a user with that standing; find_unclaimed_allocation_index
\* has no choice, since a user has at most one unclaimed allocation.
CanClaim(c, k, hasUsername, actions) ==
  LET campaign == c.campaigns[c.allocations[k].campaign]
  IN /\ ~c.allocations[k].claimed
     /\ campaign.status = "open"
     /\ campaign.needsUsername => hasUsername
     /\ actions >= campaign.minActions

\* Fault: the claim is paid and the campaign's total forgets it.
ClaimedUncounted(c, k) == [c EXCEPT !.allocations[k].claimed = TRUE]

CampaignClaimed(c, k) ==
  [c EXCEPT !.allocations[k].claimed = TRUE,
            !.campaigns[c.allocations[k].campaign].claimed =
               @ + c.allocations[k].amount]
=============================================================================
