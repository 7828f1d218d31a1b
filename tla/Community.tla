------------------------------ MODULE Community ------------------------------
(***************************************************************************)
(* What LEND gives its holders beside credit: votes and campaigns, on top of *)
(* the whole economy that moves LEND while a vote is open and pays out of    *)
(* the reserve a campaign counts on.  It extends Economy with the entry      *)
(* points of governance.move and campaigns.move and with the username        *)
(* attestation of reputation.move that campaigns ask for.                   *)
(***************************************************************************)
EXTENDS Economy, Governance, Campaigns

CONSTANTS
  Budgets, Grants,   \* total of a campaign, amount of an allocation
  Activity,          \* the platform actions a campaign may ask for
  MaxProposals, MaxCampaigns, MaxAllocations   \* bounds of the model

ASSUME CommunityAssumption ==
  /\ Budgets \subseteq Nat \ {0} /\ Grants \subseteq Nat \ {0} /\ Activity \subseteq Nat
  /\ MaxProposals \in Nat /\ MaxCampaigns \in Nat /\ MaxAllocations \in Nat

VARIABLES
  governance,   \* GovernanceRegistry
  campaigns,    \* CampaignRegistry
  verified      \* the users whose ReputationEntry has username_verified

communityVars == <<governance, campaigns, verified>>
everyVar == <<allVars, communityVars>>

CommunityInit ==
  /\ EconomyInit
  /\ governance = NoProposals /\ campaigns = NoCampaigns /\ verified = {}

-----------------------------------------------------------------------------
(* Governance.                                                              *)

\* circulating_supply: what was minted and neither burned nor is in reserve.
CirculatingSupply(l) ==
  LET live == l.minted - l.burned
  IN IF live > l.reserve THEN live - l.reserve ELSE 0

VotingPower(u) == TotalBalance(lend, u)

Propose(u, topic) ==
  /\ ~paused /\ CanPropose(VotingPower(u))
  /\ Len(governance.proposals) < MaxProposals
  /\ governance' = Proposed(governance, topic, now)
  /\ UNCHANGED <<allVars, campaigns, verified>>

Vote(u, i, support) ==
  /\ ~paused /\ CanVote(governance, i, u, VotingPower(u), now)
  /\ governance' = Voted(governance, i, u, support, VotingPower(u))
  /\ UNCHANGED <<allVars, campaigns, verified>>

\* Anybody may finalize, paused or not; the votes times BPS must fit in u64.
Finalize(i) ==
  LET supply == CirculatingSupply(lend)
  IN /\ CanFinalize(governance, i, now)
     /\ supply = 0 \/ CanMultiply(VotesCast(governance, i), BPS)
     /\ governance' = Finalized(governance, i, supply)
     /\ UNCHANGED <<allVars, campaigns, verified>>

-----------------------------------------------------------------------------
(* Campaigns.                                                               *)

\* platform_actions_of; a default is not an action.
PlatformActions(u) ==
  reputation[u].requested + reputation[u].approved + reputation[u].repaid
  + reputation[u].onTime + reputation[u].late

AttestUsername(u) ==
  /\ verified' = verified \cup {u}
  /\ UNCHANGED <<allVars, governance, campaigns>>

CreateCampaign(total, needsUsername, minActions) ==
  /\ total > 0 /\ Len(campaigns.campaigns) < MaxCampaigns
  /\ campaigns' = Created(campaigns, total, needsUsername, minActions)
  /\ UNCHANGED <<allVars, governance, verified>>

AllocateClaim(i, u, amount) ==
  /\ amount > 0 /\ Len(campaigns.allocations) < MaxAllocations
  /\ CanAllocate(campaigns, i, u, amount)
  /\ campaigns' = Allocated(campaigns, i, u, amount)
  /\ UNCHANGED <<allVars, governance, verified>>

CloseCampaign(i) ==
  /\ campaigns' = Closed(campaigns, i)
  /\ UNCHANGED <<allVars, governance, verified>>

\* claim_campaign for allocation k, by its user.
ClaimCampaign(k) ==
  LET u == campaigns.allocations[k].user
  IN /\ ~paused
     /\ CanClaim(campaigns, k, u \in verified, PlatformActions(u))
     /\ PayOut(u, campaigns.allocations[k].amount)
     /\ campaigns' = CampaignClaimed(campaigns, k)
     /\ UNCHANGED <<now, paused, book, standing, fees, economyVars,
                    governance, verified>>

-----------------------------------------------------------------------------
GovernanceStep ==
  \/ \E u \in Users, topic \in Topics : Propose(u, topic)
  \/ \E i \in DOMAIN governance.proposals :
       \/ \E u \in Users, support \in BOOLEAN : Vote(u, i, support)
       \/ Finalize(i)

CampaignStep ==
  \/ \E total \in Budgets, needsUsername \in BOOLEAN, minActions \in Activity :
       CreateCampaign(total, needsUsername, minActions)
  \/ \E i \in DOMAIN campaigns.campaigns :
       \/ \E u \in Users, amount \in Grants : AllocateClaim(i, u, amount)
       \/ CloseCampaign(i)
  \/ \E k \in DOMAIN campaigns.allocations : ClaimCampaign(k)
  \/ \E u \in Users : AttestUsername(u)

CommunityNext ==
  \/ EconomyNext /\ UNCHANGED communityVars
  \/ GovernanceStep
  \/ CampaignStep

CommunitySpec == CommunityInit /\ [][CommunityNext]_everyVar

-----------------------------------------------------------------------------
(* Properties.                                                              *)

CommunityTypeOK ==
  /\ EconomyTypeOK
  /\ governance \in GovernanceType /\ campaigns \in CampaignsType
  /\ verified \subseteq Users

ReceiptsFor(i, support) ==
  {r \in governance.receipts : r.proposal = i /\ r.support = support}

\* Every unit of a tally stands behind the receipt of a voter, and a voter has
\* one receipt per proposal, however often its LEND changes hands meanwhile.
TallyIsReceipts ==
  /\ \A i \in DOMAIN governance.proposals :
       LET cast(support) == SumFunction([r \in ReceiptsFor(i, support) |-> r.power])
       IN /\ governance.proposals[i].yes = cast(TRUE)
          /\ governance.proposals[i].no = cast(FALSE)
  /\ \A r, s \in governance.receipts :
       r.proposal = s.proposal /\ r.voter = s.voter => r = s

\* The supply moves on after a vote is finalized, the outcome does not.
OutcomeIsFinal ==
  [][\A i \in DOMAIN governance.proposals :
       governance.proposals[i].status # "open"
         => governance'.proposals[i] = governance.proposals[i]]_everyVar

\* There is no second at which a proposal can still be voted on and already be
\* finalized, so the order of two transactions never decides an outcome.
VoteOrFinalize ==
  \A i \in DOMAIN governance.proposals :
    CanFinalize(governance, i, now)
      => \A u \in Users : ~CanVote(governance, i, u, VotingPower(u), now)

\* The allocations of a campaign, claimed or not, never exceed its total, its
\* counter is what was claimed, and no user has two claims waiting in it.
CampaignBudgets ==
  \A i \in DOMAIN campaigns.campaigns :
    LET mine == {k \in DOMAIN campaigns.allocations :
                   campaigns.allocations[k].campaign = i}
        amount(ks) == SumFunction([k \in ks |-> campaigns.allocations[k].amount])
    IN /\ amount(mine) <= campaigns.campaigns[i].total
       /\ campaigns.campaigns[i].claimed =
            amount({k \in mine : campaigns.allocations[k].claimed})
       /\ \A k, m \in mine :
            /\ campaigns.allocations[k].user = campaigns.allocations[m].user
            /\ ~campaigns.allocations[k].claimed /\ ~campaigns.allocations[m].claimed
            => k = m

\* A campaign that was closed stays closed and is not drawn on again, though
\* allocations may still wait in it.
ClosedCampaignsRest ==
  [][\A i \in DOMAIN campaigns.campaigns :
       campaigns.campaigns[i].status = "closed"
         => /\ campaigns'.campaigns[i] = campaigns.campaigns[i]
            /\ AllocationsOf(campaigns', i) = AllocationsOf(campaigns, i)]_everyVar

\* The four claimants of the one reserve, each with its own books, explain
\* everything it ever paid out.
ReservePayoutsExplained ==
  treasury.lendClaimed =
    InitialDistributed + staking.claimed
    + SumFunction([u \in Users |-> rewards[u].claimed])
    + SumFunction([i \in DOMAIN campaigns.campaigns |-> campaigns.campaigns[i].claimed])
=============================================================================
