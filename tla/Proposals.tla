------------------------------ MODULE Proposals ------------------------------
(***************************************************************************)
(* Collective government of a class: how a class changes to it, who may     *)
(* vote, and how a proposal is discussed, voted, closed and carried out     *)
(* (governance_handlers.go, governance_actions.go, governance/policy.go).   *)
(* Every request that writes holds the class's advisory lock from           *)
(* governanceGuard to its commit, so that each is one step.                 *)
(*                                                                          *)
(* Members are alike, so the module counts them: those who have joined,     *)
(* those who voted, and how.  One account may be disabled for a while.      *)
(***************************************************************************)
EXTENDS Integers, FiniteSetsExt

CONSTANTS
  Size,            \* accounts of the class
  MinReviewers,    \* members that collective review needs (Minimum of the profile)
  MaxProposals,    \* bound on proposals
  MaxMoves         \* bound on what happens beside a proposal: people who join, leave or
                   \* are disabled, changes of the facts

ASSUME ProposalsAssumption ==
  /\ Size \in Nat /\ MinReviewers \in Nat
  /\ MaxProposals \in Nat /\ MaxMoves \in Nat

VARIABLES
  gov,             \* class_governance and whether the assessment has begun
  joined,          \* governance_member: new for 24 hours, then in
  absent,          \* whether an account is disabled, and a member's
  prop,            \* the latest proposal
  ballot,          \* governance_voter of that proposal
  basis,           \* the facts its fingerprint is taken of
  proposals, moves

propVars == <<gov, joined, absent, prop, ballot, basis, proposals, moves>>

Kinds == {"ordinary", "bonus", "activate", "protected"}
BallotKinds == {"yes", "other", "yes_locked", "other_locked"}    \* other: no, or abstain
NoBallots == [k \in BallotKinds |-> 0]
NoProposal == [st |-> "none", kind |-> "ordinary", hash |-> 0, present |-> TRUE, roster |-> 0,
               voters |-> 0, required |-> 0, version |-> 0, phase |-> "discussion",
               cooled |-> FALSE]

ProposalTypeOK ==
  /\ gov \in [mode : {"centralized", "enrolling", "collective"}, version : Nat,
              noticed : BOOLEAN, started : BOOLEAN]
  /\ joined \in [new : 0 .. Size, in : 0 .. Size]
  /\ absent \in {"no", "member", "other"}
  /\ prop \in [st : {"none", "discussion", "voting", "passed", "rejected", "stale", "applied"},
               kind : Kinds, hash : 0 .. (MaxMoves + MaxProposals), present : BOOLEAN,
               roster : 0 .. Size, voters : 0 .. Size, required : Nat, version : Nat,
               phase : {"discussion", "open", "closed"}, cooled : BOOLEAN]
  /\ ballot \in [BallotKinds -> 0 .. Size]
  /\ basis \in 0 .. (MaxMoves + MaxProposals)
  /\ proposals \in 0 .. MaxProposals
  /\ moves \in 0 .. MaxMoves

\* A class that has not chosen, or one that enlists or governs itself with some members.
PropInit ==
  /\ \E m \in {"centralized", "enrolling", "collective"}, n \in 0 .. Size :
       /\ m = "centralized" => n = 0
       /\ m = "collective" => n >= MinReviewers
       /\ gov = [mode |-> m, noticed |-> FALSE, started |-> FALSE,
                 version |-> CASE m = "centralized" -> 0 [] m = "enrolling" -> 1 [] OTHER -> 2]
       /\ joined = [new |-> 0, in |-> n]
  /\ absent = "no"
  /\ prop = NoProposal
  /\ ballot = NoBallots
  /\ basis = 0 /\ proposals = 0 /\ moves = 0

-----------------------------------------------------------------------------
(* Mode and membership *)

Roster == IF absent = "no" THEN Size ELSE Size - 1
\* Eligible
EligibleVoters == IF absent = "member" THEN joined.in - 1 ELSE joined.in
\* Accounts that have not joined and are not the one that is disabled.
Outsiders == Size - joined.new - joined.in - (IF absent = "other" THEN 1 ELSE 0)
Pending == prop.st \in {"discussion", "voting", "passed"}

Move == moves < MaxMoves /\ moves' = moves + 1

\* configureGovernance: once, before the assessment begins; a recruitment that found too
\* few members may be called off.
ConfigureGovernance(m) ==
  /\ ~gov.started
  /\ \/ gov.version = 0
     \/ /\ m = "centralized" /\ gov.mode = "enrolling" /\ gov.noticed
        /\ joined.in < MinReviewers
        /\ ~(Pending /\ prop.kind = "activate")
  /\ gov' = [gov EXCEPT !.mode = m, !.version = @ + 1, !.noticed = FALSE]
  /\ UNCHANGED <<joined, absent, prop, ballot, basis, proposals, moves>>

\* The seven days of notice.
EnrollmentCloses ==
  /\ gov.mode = "enrolling" /\ ~gov.noticed
  /\ gov' = [gov EXCEPT !.noticed = TRUE]
  /\ UNCHANGED <<joined, absent, prop, ballot, basis, proposals, moves>>

\* The first formal material; governanceGuard refuses it while members are enlisted.
AssessmentBegins ==
  /\ ~gov.started /\ gov.mode # "enrolling"
  /\ gov' = [gov EXCEPT !.started = TRUE]
  /\ UNCHANGED <<joined, absent, prop, ballot, basis, proposals, moves>>

\* joinGovernance
JoinGovernance ==
  /\ gov.mode # "centralized"
  /\ Outsiders > 0 /\ Move
  /\ joined' = [joined EXCEPT !.new = @ + 1]
  /\ UNCHANGED <<gov, absent, prop, ballot, basis, proposals>>

LeaveGovernance ==
  /\ gov.mode # "centralized"
  /\ EligibleVoters > 0 /\ Move
  /\ joined' = [joined EXCEPT !.in = @ - 1]
  /\ UNCHANGED <<gov, absent, prop, ballot, basis, proposals>>

\* MembershipCooling is over.
MembershipCools ==
  /\ joined' = [new |-> 0, in |-> joined.in + joined.new]
  /\ UNCHANGED <<gov, absent, prop, ballot, basis, proposals, moves>>

\* updateUserStatus of one account.
DisableAccount(a) ==
  /\ absent = "no" /\ Move
  /\ a = "member" => joined.in > 0
  /\ a = "other" => Outsiders > 0
  /\ absent' = a
  /\ UNCHANGED <<gov, joined, prop, ballot, basis, proposals>>

EnableAccount ==
  /\ absent # "no"
  /\ absent' = "no"
  /\ UNCHANGED <<gov, joined, prop, ballot, basis, proposals, moves>>

\* Scheme, timeline or uploaded files change otherwise.
BasisChange ==
  /\ Move
  /\ basis' = basis + 1
  /\ UNCHANGED <<gov, joined, absent, prop, ballot, proposals>>

-----------------------------------------------------------------------------
(* Proposals *)

\* A slip: a protected matter needs a simple majority.
SimpleMajority(kind, e, r) == Max({3, e \div 2 + 1})

\* Threshold
Threshold(kind, e, r) ==
  CASE kind \in {"ordinary", "bonus"} -> Max({3, e \div 2 + 1})
    [] kind = "activate"              -> Max({3, (2 * e + 2) \div 3})
    [] kind = "protected"             -> Max({5, (2 * e + 2) \div 3, (r + 2) \div 3})

\* createGovernanceProposal.  Of the members, "gain" gain by a bonus or supply its source:
\* validateGovernanceAction excludes them; a bonus for everyone is a protected matter.
CreateProposal(kind, gain) ==
  /\ proposals < MaxProposals /\ ~Pending
  /\ EligibleVoters > 0
  /\ IF kind = "activate"
       THEN /\ gov.mode = "enrolling" /\ gov.noticed
            /\ EligibleVoters >= MinReviewers
       ELSE gov.mode = "collective"
  /\ gain <= EligibleVoters
  /\ kind \in {"activate", "protected"} => gain = 0
  /\ kind = "ordinary" => gain <= 1
  /\ LET voters == EligibleVoters - gain
         need == Threshold(kind, voters, Roster)
     IN /\ voters > 0 /\ need <= voters
        /\ prop' = [NoProposal EXCEPT !.st = "discussion", !.kind = kind, !.hash = basis,
                      !.present = (absent = "no"), !.roster = Roster, !.voters = voters,
                      !.required = need, !.version = gov.version]
  /\ ballot' = NoBallots
  /\ proposals' = proposals + 1
  /\ UNCHANGED <<gov, joined, absent, basis, moves>>

\* opens_at, then closes_at, pass.
VotingTime ==
  /\ Pending /\ prop.phase # "closed"
  /\ prop' = [prop EXCEPT !.phase = IF @ = "discussion" THEN "open" ELSE "closed"]
  /\ UNCHANGED <<gov, joined, absent, ballot, basis, proposals, moves>>

Cast == ballot["yes"] + ballot["other"] + ballot["yes_locked"] + ballot["other_locked"]
SameRoster == prop.present = (absent = "no")

\* voteGovernance: a first vote, or another in place of one that is not locked; who has
\* left since the proposal still votes.
VoteGovernance(from, to) ==
  /\ prop.st \in {"discussion", "voting"} /\ prop.phase = "open" /\ SameRoster
  /\ \/ /\ from = "nobody" /\ Cast < prop.voters
        /\ ballot' = [ballot EXCEPT ![to] = @ + 1]
     \/ /\ from \in {"yes", "other"} /\ ballot[from] > 0 /\ from # to
        /\ ballot' = [ballot EXCEPT ![from] = @ - 1, ![to] = @ + 1]
  /\ prop' = [prop EXCEPT !.st = "voting"]
  /\ UNCHANGED <<gov, joined, absent, basis, proposals, moves>>

YesVotes == ballot["yes"] + ballot["yes_locked"]
AllLocked == ballot["yes_locked"] + ballot["other_locked"] = prop.voters
Closable == Pending /\ (prop.phase = "closed" \/ (prop.phase = "open" /\ AllLocked))

\* closeGovernanceProposal: nobody has come or gone and the mode is the one voted under.
ElectorateStands == SameRoster /\ gov.version = prop.version

ClosedStatus == IF ElectorateStands THEN "rejected" ELSE "stale"

CloseProposal ==
  /\ Closable
  /\ YesVotes < prop.required \/ ~ElectorateStands
  /\ prop' = [prop EXCEPT !.st = ClosedStatus]
  /\ UNCHANGED <<gov, joined, absent, ballot, basis, proposals, moves>>

Carried == Closable /\ YesVotes >= prop.required /\ ElectorateStands
MustCool == prop.kind \in {"protected", "activate"}

\* A grave matter that is carried waits for 24 hours.
PassProposal ==
  /\ Carried /\ MustCool /\ prop.st # "passed"
  /\ prop' = [prop EXCEPT !.st = "passed"]
  /\ UNCHANGED <<gov, joined, absent, ballot, basis, proposals, moves>>

DecisionCools ==
  /\ prop.st = "passed" /\ ~prop.cooled
  /\ prop' = [prop EXCEPT !.cooled = TRUE]
  /\ UNCHANGED <<gov, joined, absent, ballot, basis, proposals, moves>>

\* A slip: a decision is carried out whatever happened since.
AnyBasis == TRUE

SameBasis == basis = prop.hash

\* executeGovernanceProposal when the facts have changed ...
ExecuteStale ==
  /\ Carried /\ (MustCool => prop.cooled) /\ ~SameBasis
  /\ prop' = [prop EXCEPT !.st = "stale"]
  /\ UNCHANGED <<gov, joined, absent, ballot, basis, proposals, moves>>

\* A slip: members who have left since are still counted on.
OldCapacity == TRUE

Capacity == EligibleVoters >= MinReviewers

\* ... when the class takes over: enough members are left and nothing has begun ...
ExecuteActivate ==
  /\ Carried /\ prop.cooled /\ SameBasis
  /\ prop.kind = "activate" /\ Capacity /\ ~gov.started
  /\ gov' = IF gov.mode = "enrolling"
              THEN [gov EXCEPT !.mode = "collective", !.version = @ + 1] ELSE gov
  /\ prop' = [prop EXCEPT !.st = "applied"]
  /\ UNCHANGED <<joined, absent, ballot, basis, proposals, moves>>

\* ... and when a handler carries it out (its refusal undoes the whole request).
ExecuteProposal ==
  /\ Carried /\ (MustCool => prop.cooled) /\ SameBasis
  /\ prop.kind # "activate"
  /\ prop' = [prop EXCEPT !.st = "applied"]
  /\ basis' \in {basis, basis + 1}
  /\ UNCHANGED <<gov, joined, absent, ballot, proposals, moves>>

PropNext ==
  \/ \E m \in {"centralized", "enrolling"} : ConfigureGovernance(m)
  \/ EnrollmentCloses \/ AssessmentBegins
  \/ JoinGovernance \/ LeaveGovernance \/ MembershipCools
  \/ \E a \in {"member", "other"} : DisableAccount(a)
  \/ EnableAccount \/ BasisChange
  \/ \E k \in Kinds, gain \in 0 .. Size : CreateProposal(k, gain)
  \/ \E from \in {"nobody", "yes", "other"}, to \in BallotKinds : VoteGovernance(from, to)
  \/ VotingTime \/ CloseProposal \/ PassProposal \/ DecisionCools
  \/ ExecuteStale \/ ExecuteActivate \/ ExecuteProposal

PropSpec == PropInit /\ [][PropNext]_propVars

-----------------------------------------------------------------------------
(* Properties *)

\* "Missing, unregistered and abstaining users never become affirmative votes": what is
\* carried out had the yes of a majority of those who were members when it was proposed,
\* and a grave matter of two thirds of them and of a third of the class (Threshold).
AppliedByMajority ==
  prop.st = "applied" =>
    /\ Cast <= prop.voters /\ YesVotes >= 3
    /\ 2 * YesVotes > prop.voters
    /\ MustCool => 3 * YesVotes >= 2 * prop.voters
    /\ prop.kind = "protected" => YesVotes >= 5 /\ 3 * YesVotes >= prop.roster

\* A decision takes effect only on the facts and the class that were voted on, however
\* long after the vote that is (executeGovernanceProposal).
AppliedAsVoted ==
  [][prop.st # "applied" /\ prop'.st = "applied" => basis = prop.hash /\ SameRoster]_propVars

\* A class comes under collective government only by its own vote, before the assessment
\* begins and with enough members to review, and nobody can take it back alone.
CollectiveByVote ==
  [][gov'.mode # gov.mode /\ "collective" \in {gov.mode, gov'.mode} =>
       /\ gov'.mode = "collective" /\ ~gov.started
       /\ prop'.st = "applied" /\ prop.kind = "activate"
       /\ EligibleVoters >= MinReviewers]_propVars

\* Votes, members who leave and returning members (governance_handlers.go, policy.go): what is
\* carried out had the votes that its kind asks for.
ProposalInv == ProposalTypeOK /\ AppliedByMajority

\* Execution and activation (governance_actions.go): only what was voted on, on the facts that
\* were voted on, and no class changes its government otherwise.
DecidedAsVoted == AppliedAsVoted /\ CollectiveByVote
=============================================================================
