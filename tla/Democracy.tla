------------------------------ MODULE Democracy ------------------------------
(***************************************************************************)
(* pallet-democracy: public and external proposals, the referenda they     *)
(* become, votes with conviction, delegations, and the lock on what was    *)
(* voted with.                                                             *)
(*                                                                         *)
(* The ledger is external: an account has its endowment, less what is      *)
(* reserved and what was slashed.  A proposal stands for its hash.  The    *)
(* vote that staking may want to keep locked is arbitrary.  Metadata and   *)
(* the origins of the calls are left out.                                  *)
(***************************************************************************)
EXTENDS Integers, Sequences, FiniteSetsExt, SequencesExt, Functions, Option

CONSTANTS
  Voters, Members,       \* the accounts, and the technical committee
  Proposals,
  Endowment, TotalIssuance,
  Ballots,               \* the votes cast
  Delegable,             \* the pairs of conviction and balance delegated
  Starts,                \* what the pallet may have seen before: referenda that go on, proposals that are through
  Deposits,              \* the deposits offered, at least MinimumDeposit
  FastTracks,            \* the voting periods asked for
  LaunchPeriod, VotingPeriod, EnactmentPeriod, VoteLockingPeriod, CooloffPeriod,
  MaxVotes, MaxProposals, MaxDeposits,
  MaxReferenda, MaxPublic, MaxBlock   \* bounds: the indices used, the last block

VARIABLES
  publicProps,           \* the queue: index, proposal and proposer
  depositOf, publicPropCount,
  referendumInfoOf, referendumCount, lowestUnbaked,
  votingOf,
  lastTabledWasExternal, nextExternal, blacklist, cancellations,
  agenda,                \* what was handed to the scheduler
  lock, held, slashed,   \* the voting lock, the reserve and what was slashed of each account
  block,
  left,                  \* bound: the calls that are left
  owed                   \* history: who must keep how much locked until when, and for which referendum

proposalVars == <<publicProps, depositOf, publicPropCount>>
externalVars == <<lastTabledWasExternal, nextExternal, blacklist, cancellations>>
referendumVars == <<referendumCount, lowestUnbaked, agenda>>
democracyVars == <<proposalVars, externalVars, referendumInfoOf, referendumVars, votingOf, lock, held, slashed, block, owed, left>>

Referenda == 0 .. MaxReferenda - 1
PublicIds == 0 .. MaxPublic - 1
Forever == -1
Free(who) == Endowment - held[who] - slashed[who]
Larger(x, y) == IF x > y THEN x ELSE y
Monus(x, y) == IF x > y THEN x - y ELSE 0

-----------------------------------------------------------------------------
(* Votes and tallies.                                                      *)

Nothing == [votes |-> 0, capital |-> 0]
NoTally == [ayes |-> 0, nays |-> 0, turnout |-> 0]

\* Conviction::votes and lock_periods; conviction 0 is None.
VotesOf(conviction, capital) ==
  [votes |-> IF conviction = 0 THEN capital \div 10 ELSE capital * conviction, capital |-> capital]
LockPeriods(conviction) == IF conviction = 0 THEN 0 ELSE 2 ^ (conviction - 1)

Standard(vote) == vote.type = "Standard"
BalanceOf(vote) == IF Standard(vote) THEN vote.balance ELSE vote.ayes + vote.nays

\* What delegations add on the side of a vote.
Sided(aye, d) == [ayes |-> IF aye THEN d.votes ELSE 0, nays |-> IF aye THEN 0 ELSE d.votes, turnout |-> d.capital]

\* The vote itself, as Tally::add and Tally::remove count it.
Counted(vote) ==
  IF Standard(vote) THEN Sided(vote.aye, VotesOf(vote.conviction, vote.balance))
  ELSE [ayes |-> vote.ayes \div 10, nays |-> vote.nays \div 10, turnout |-> vote.ayes + vote.nays]

\* The delegations of a voter go with a standard vote only.
Followers(vote, d) == IF Standard(vote) THEN Sided(vote.aye, d) ELSE NoTally

Plus(t, u) == [f \in DOMAIN t |-> t[f] + u[f]]
Less(t, u) == [f \in DOMAIN t |-> Monus(t[f], u[f])]
Covers(t, u) == \A f \in DOMAIN t : t[f] >= u[f]

Ongoing(info, r) == info[r] # None /\ info[r].state = "Ongoing"

(* Mutant: a new lock replaces the one before.                             *)
AccumulateLatest(prior, until, amount) == [until |-> until, amount |-> amount]

\* PriorLock::accumulate and rejig.
Accumulate(prior, until, amount) == [until |-> Larger(prior.until, until), amount |-> Larger(prior.amount, amount)]
NoPrior == [until |-> 0, amount |-> 0]
Rejig(prior) == IF block >= prior.until THEN NoPrior ELSE prior

\* A voter who delegates has a target and no votes.
Direct(delegations, prior) ==
  [target |-> None, balance |-> 0, conviction |-> 0, votes |-> <<>>, delegations |-> delegations, prior |-> prior]

LockedBalance(voting) ==
  Max({voting.prior.amount, voting.balance} \cup {BalanceOf(voting.votes[r]) : r \in DOMAIN voting.votes})

-----------------------------------------------------------------------------
NewReferendum(end, p, threshold, delay) ==
  [state |-> "Ongoing", end |-> end, proposal |-> p, threshold |-> threshold, delay |-> delay, tally |-> NoTally]

\* A start has referenda going on, and so many public proposals in the past.
DemocracyInit ==
  /\ publicProps = <<>>
  /\ depositOf = [i \in PublicIds |-> None]
  /\ \E start \in Starts :
       /\ referendumInfoOf = [r \in Referenda |-> IF r < Len(start.referenda) THEN start.referenda[r + 1] ELSE None]
       /\ referendumCount = Len(start.referenda)
       /\ publicPropCount = start.proposed
       /\ left = start.calls
  /\ lowestUnbaked = 0 /\ agenda = {}
  /\ votingOf = [a \in Voters |-> Direct(Nothing, NoPrior)]
  /\ lastTabledWasExternal = FALSE /\ nextExternal = None
  /\ blacklist = [p \in Proposals |-> None] /\ cancellations = {}
  /\ lock = [a \in Voters |-> 0]
  /\ held = [a \in Voters |-> 0] /\ slashed = [a \in Voters |-> 0]
  /\ block = 1 /\ owed = {}

-----------------------------------------------------------------------------
(* Voting.                                                                 *)

\* try_vote.
Vote(who, r, vote) ==
  LET mine == votingOf[who]
      again == r \in DOMAIN mine.votes
      tally == referendumInfoOf[r].tally
      without == IF again THEN Less(Less(tally, Counted(mine.votes[r])), Followers(mine.votes[r], mine.delegations))
                 ELSE tally IN
  /\ Ongoing(referendumInfoOf, r)
  /\ BalanceOf(vote) <= Free(who)
  /\ mine.target = None
  /\ IF again THEN Covers(tally, Counted(mine.votes[r])) ELSE Cardinality(DOMAIN mine.votes) < MaxVotes
  /\ votingOf' = [votingOf EXCEPT ![who].votes = (r :> vote) @@ @]
  /\ referendumInfoOf' = [referendumInfoOf EXCEPT ![r].tally =
       Plus(Plus(without, Counted(vote)), Followers(vote, mine.delegations))]
  /\ lock' = [lock EXCEPT ![who] = Larger(@, BalanceOf(vote))]
  /\ UNCHANGED <<proposalVars, externalVars, referendumVars, held, slashed, block, owed>>

\* What a vote on a finished referendum leaves locked, and until when: the winners', and what staking asks for.
KeptLocked(vote, info, wanted) ==
  IF ~Standard(vote) THEN None
  ELSE IF vote.aye = info.approved THEN [until |-> info.end + VoteLockingPeriod * LockPeriods(vote.conviction), amount |-> vote.balance]
  ELSE IF wanted # None THEN [until |-> info.end + VoteLockingPeriod * LockPeriods(vote.conviction), amount |-> wanted]
  ELSE None

\* try_remove_vote: one's own vote (Any), or another's once it holds no lock any more, unless forced.
RemoveVote(who, r, any, forced) ==
  LET mine == votingOf[who]
      vote == mine.votes[r]
      info == referendumInfoOf[r]
      without == [mine EXCEPT !.votes = RestrictDomain(@, LAMBDA i : i # r)] IN
  /\ mine.target = None /\ r \in DOMAIN mine.votes
  /\ \/ /\ Ongoing(referendumInfoOf, r) /\ any
        /\ Covers(info.tally, Counted(vote))
        /\ votingOf' = [votingOf EXCEPT ![who] = without]
        /\ referendumInfoOf' = [referendumInfoOf EXCEPT ![r].tally =
             Less(Less(@, Counted(vote)), Followers(vote, mine.delegations))]
     \/ /\ info # None /\ info.state = "Finished"
        /\ \E wanted \in {None} \cup {BalanceOf(b) : b \in Ballots} :
             LET kept == KeptLocked(vote, info, wanted) IN
             IF kept # None /\ block < kept.until
             THEN /\ forced \/ any
                  /\ votingOf' = [votingOf EXCEPT ![who] = [without EXCEPT !.prior = Accumulate(@, kept.until, kept.amount)]]
             ELSE votingOf' = [votingOf EXCEPT ![who] = without]
        /\ UNCHANGED referendumInfoOf
     \/ /\ info = None
        /\ votingOf' = [votingOf EXCEPT ![who] = without]
        /\ UNCHANGED referendumInfoOf
  /\ UNCHANGED <<proposalVars, externalVars, referendumVars, lock, held, slashed, block, owed>>

(* increase_upstream_delegation and reduce_upstream_delegation: a voter's  *)
(* delegations, and the tallies of the ongoing referenda that the voter    *)
(* has a standard vote on.                                                 *)
Upstream(s, a, d, Op(_, _)) ==
  LET votes == s.votingOf[a].votes IN
  [votingOf |-> [s.votingOf EXCEPT ![a].delegations = Op(@, d)],
   info |-> [r \in Referenda |->
     IF Ongoing(s.info, r) /\ r \in DOMAIN votes /\ Standard(votes[r])
     THEN [s.info[r] EXCEPT !.tally = Op(@, Sided(votes[r].aye, d))]
     ELSE s.info[r]]]

Increased(s, a, d) == Upstream(s, a, d, Plus)

(* Mutant: the tallies keep the delegation that was withdrawn.             *)
ReducedForLater(s, a, d) == [s EXCEPT !.votingOf[a].delegations = Less(@, d)]

Reduced(s, a, d) == Upstream(s, a, d, Less)

Delegating(who) == votingOf[who].target # None
Votings == [votingOf |-> votingOf, info |-> referendumInfoOf]

\* What was delegated is taken from the target, and stays locked for as long as its conviction says.
Withdrawn(who) ==
  LET mine == votingOf[who] IN Reduced(Votings, mine.target, VotesOf(mine.conviction, mine.balance))
UnlockAt(who) == block + VoteLockingPeriod * LockPeriods(votingOf[who].conviction)
PriorAfter(who) ==
  IF Delegating(who) THEN Accumulate(votingOf[who].prior, UnlockAt(who), votingOf[who].balance) ELSE votingOf[who].prior
OwedFor(who) ==
  IF Delegating(who) THEN {[who |-> who, amount |-> votingOf[who].balance, until |-> UnlockAt(who), ref |-> None]} ELSE {}

\* try_delegate, from direct voting without votes or from another delegation.
Delegate(who, to, conviction, balance) ==
  LET s == IF Delegating(who) THEN Withdrawn(who) ELSE Votings
      up == Increased(s, to, VotesOf(conviction, balance)) IN
  /\ who # to /\ balance <= Free(who)
  /\ DOMAIN votingOf[who].votes = {}
  /\ votingOf' = [up.votingOf EXCEPT ![who] =
       [@ EXCEPT !.target = to, !.balance = balance, !.conviction = conviction, !.prior = PriorAfter(who)]]
  /\ referendumInfoOf' = up.info
  /\ lock' = [lock EXCEPT ![who] = Larger(@, balance)]
  /\ owed' = owed \cup OwedFor(who)
  /\ UNCHANGED <<proposalVars, externalVars, referendumVars, held, slashed, block>>

Undelegated(who, s) == Direct(s.votingOf[who].delegations, PriorAfter(who))

\* try_undelegate.
Undelegate(who) ==
  /\ Delegating(who)
  /\ LET s == Withdrawn(who) IN
     /\ votingOf' = [s.votingOf EXCEPT ![who] = Undelegated(who, s)]
     /\ referendumInfoOf' = s.info
  /\ owed' = owed \cup OwedFor(who)
  /\ UNCHANGED <<proposalVars, externalVars, referendumVars, lock, held, slashed, block>>

\* unlock: update_lock.
Unlock(who) ==
  LET voting == [votingOf[who] EXCEPT !.prior = Rejig(@)] IN
  /\ votingOf' = [votingOf EXCEPT ![who] = voting]
  /\ lock' = [lock EXCEPT ![who] = LockedBalance(voting)]
  /\ UNCHANGED <<proposalVars, externalVars, referendumInfoOf, referendumVars, held, slashed, block, owed>>

-----------------------------------------------------------------------------
(* Proposals.                                                              *)

Blacklisted(p) == blacklist[p] # None /\ (blacklist[p].until = Forever \/ block < blacklist[p].until)

Propose(who, p, value) ==
  /\ publicPropCount < MaxPublic
  /\ Len(publicProps) < MaxProposals /\ ~Blacklisted(p) /\ value <= Free(who)
  /\ held' = [held EXCEPT ![who] = @ + value]
  /\ depositOf' = [depositOf EXCEPT ![publicPropCount] = [whos |-> <<who>>, amount |-> value]]
  /\ publicPropCount' = publicPropCount + 1
  /\ publicProps' = Append(publicProps, [index |-> publicPropCount, proposal |-> p, who |-> who])
  /\ UNCHANGED <<externalVars, referendumInfoOf, referendumVars, votingOf, lock, slashed, block, owed>>

Second(who, i) ==
  /\ depositOf[i] # None /\ Len(depositOf[i].whos) < MaxDeposits /\ depositOf[i].amount <= Free(who)
  /\ held' = [held EXCEPT ![who] = @ + depositOf[i].amount]
  /\ depositOf' = [depositOf EXCEPT ![i].whos = Append(@, who)]
  /\ UNCHANGED <<publicProps, publicPropCount, externalVars, referendumInfoOf, referendumVars, votingOf, lock, slashed, block, owed>>

\* How much of a deposit is an account's: it may have seconded several times.
PartOf(a, deposit) ==
  IF deposit = None THEN 0 ELSE deposit.amount * Cardinality({k \in DOMAIN deposit.whos : deposit.whos[k] = a})

\* The reserve of everyone who backed proposal i is slashed, and the record taken.
SlashDeposit(i) ==
  /\ held' = [a \in Voters |-> held[a] - PartOf(a, depositOf[i])]
  /\ slashed' = [a \in Voters |-> slashed[a] + PartOf(a, depositOf[i])]
  /\ depositOf' = [depositOf EXCEPT ![i] = None]

CancelProposal(i) ==
  /\ publicProps' = SelectSeq(publicProps, LAMBDA p : p.index # i)
  /\ SlashDeposit(i)
  /\ UNCHANGED <<publicPropCount, externalVars, referendumInfoOf, referendumVars, votingOf, lock, block, owed>>

ClearPublicProposals ==
  /\ publicProps' = <<>>
  /\ UNCHANGED <<depositOf, publicPropCount, externalVars, referendumInfoOf, referendumVars, votingOf, lock, held, slashed, block, owed>>

\* external_propose, external_propose_majority and external_propose_default; the last two replace what waits.
ExternalPropose(p, threshold) ==
  /\ referendumCount < MaxReferenda
  /\ threshold = "SuperMajorityApprove" => nextExternal = None /\ ~Blacklisted(p)
  /\ nextExternal' = [proposal |-> p, threshold |-> threshold]
  /\ UNCHANGED <<proposalVars, lastTabledWasExternal, blacklist, cancellations, referendumInfoOf, referendumVars,
                 votingOf, lock, held, slashed, block, owed>>

VetoExternal(member, p) ==
  LET vetoers == IF blacklist[p] = None THEN {} ELSE blacklist[p].vetoers IN
  /\ nextExternal # None /\ nextExternal.proposal = p
  /\ member \notin vetoers
  /\ blacklist' = [blacklist EXCEPT ![p] = [until |-> block + CooloffPeriod, vetoers |-> vetoers \cup {member}]]
  /\ nextExternal' = None
  /\ UNCHANGED <<proposalVars, lastTabledWasExternal, cancellations, referendumInfoOf, referendumVars,
                 votingOf, lock, held, slashed, block, owed>>

-----------------------------------------------------------------------------
(* Referenda.                                                              *)

PeriodAllowed(period) == period > 0

FastTrack(p, period, delay) ==
  /\ referendumCount < MaxReferenda
  /\ PeriodAllowed(period)
  /\ nextExternal # None /\ nextExternal.threshold # "SuperMajorityApprove" /\ nextExternal.proposal = p
  /\ nextExternal' = None
  /\ referendumInfoOf' = [referendumInfoOf EXCEPT ![referendumCount] =
       NewReferendum(block + period, p, nextExternal.threshold, delay)]
  /\ referendumCount' = referendumCount + 1
  /\ UNCHANGED <<proposalVars, lastTabledWasExternal, blacklist, cancellations, lowestUnbaked, agenda,
                 votingOf, lock, held, slashed, block, owed>>

\* internal_cancel_referendum.  Whoever won a referendum that is taken away owes nothing for it.
Cancel(r) ==
  /\ referendumInfoOf' = [referendumInfoOf EXCEPT ![r] = None]
  /\ owed' = {o \in owed : o.ref # r}

EmergencyCancel(r) ==
  /\ Ongoing(referendumInfoOf, r) /\ referendumInfoOf[r].proposal \notin cancellations
  /\ cancellations' = cancellations \cup {referendumInfoOf[r].proposal}
  /\ Cancel(r)
  /\ UNCHANGED <<proposalVars, lastTabledWasExternal, nextExternal, blacklist, referendumVars,
                 votingOf, lock, held, slashed, block>>

CancelReferendum(r) ==
  /\ Cancel(r)
  /\ UNCHANGED <<proposalVars, externalVars, referendumVars, votingOf, lock, held, slashed, block>>

\* blacklist: the first public proposal, the external proposal and the named referendum with this hash go.
Blacklist(p, maybeRef) ==
  LET at == {k \in DOMAIN publicProps : publicProps[k].proposal = p} IN
  /\ blacklist' = [blacklist EXCEPT ![p] = [until |-> Forever, vetoers |-> {}]]
  /\ IF at = {} THEN UNCHANGED <<publicProps, depositOf, held, slashed>>
     ELSE publicProps' = RemoveAt(publicProps, Min(at)) /\ SlashDeposit(publicProps[Min(at)].index)
  /\ nextExternal' = IF nextExternal # None /\ nextExternal.proposal = p THEN None ELSE nextExternal
  /\ IF maybeRef # None /\ Ongoing(referendumInfoOf, maybeRef) /\ referendumInfoOf[maybeRef].proposal = p
     THEN Cancel(maybeRef)
     ELSE UNCHANGED <<referendumInfoOf, owed>>
  /\ UNCHANGED <<publicPropCount, lastTabledWasExternal, cancellations, referendumVars, votingOf, lock, block>>

-----------------------------------------------------------------------------
(* compare_rationals: n1/d1 < n2/d2 by their continued fractions.          *)

RECURSIVE CompareRationals(_, _, _, _)
CompareRationals(n1, d1, n2, d2) ==
  \/ n1 \div d1 < n2 \div d2
  \/ /\ n1 \div d1 = n2 \div d2
     /\ n2 % d2 # 0
     /\ n1 % d1 = 0 \/ CompareRationals(d2, n2 % d2, d1, n1 % d1)

Sqrt(x) == Max({n \in 0 .. x : n * n <= x})

Approved(threshold, tally) ==
  LET voters == Sqrt(tally.turnout)
      electorate == Sqrt(TotalIssuance) IN
  /\ voters # 0
  /\ CASE threshold = "SuperMajorityApprove" -> CompareRationals(tally.nays, voters, tally.ayes, electorate)
       [] threshold = "SuperMajorityAgainst" -> CompareRationals(tally.nays, electorate, tally.ayes, voters)
       [] threshold = "SimpleMajority"       -> tally.ayes > tally.nays

-----------------------------------------------------------------------------
(* on_initialize.  s is what the launch changes.                           *)

Queues ==
  [publicProps |-> publicProps, depositOf |-> depositOf, held |-> held, nextExternal |-> nextExternal,
   wasExternal |-> FALSE, info |-> referendumInfoOf, count |-> referendumCount]

Injected(s, now, p, threshold) ==
  [s EXCEPT !.info[s.count] = NewReferendum(now + VotingPeriod, p, threshold, EnactmentPeriod), !.count = @ + 1]

LaunchExternal(s, now) ==
  Injected([s EXCEPT !.nextExternal = None, !.wasExternal = TRUE], now, s.nextExternal.proposal, s.nextExternal.threshold)

\* backing_for.
Backing(s, k) ==
  LET deposit == s.depositOf[s.publicProps[k].index] IN
  IF deposit = None THEN 0 ELSE deposit.amount * Len(deposit.whos)

\* swap_remove: the last one takes the place.
SwapRemove(seq, k) == SubSeq([seq EXCEPT ![k] = Last(seq)], 1, Len(seq) - 1)

Released(s, deposit) == [a \in Voters |-> s.held[a] - PartOf(a, deposit)]

\* The proposal with the biggest backing, the last of several.
LaunchPublic(s, now) ==
  LET winner == Max({k \in DOMAIN s.publicProps : \A j \in DOMAIN s.publicProps : Backing(s, j) <= Backing(s, k)})
      prop == s.publicProps[winner]
      deposit == s.depositOf[prop.index]
      rest == [s EXCEPT !.publicProps = SwapRemove(@, winner)] IN
  IF deposit = None THEN rest
  ELSE Injected([rest EXCEPT !.depositOf[prop.index] = None, !.held = Released(s, deposit)],
                now, prop.proposal, "SuperMajorityApprove")

\* launch_next: external and public proposals take turns when both wait.
LaunchNext(s, now) ==
  CASE s.publicProps = <<>> /\ s.nextExternal = None -> s
    [] s.nextExternal # None /\ (s.publicProps = <<>> \/ ~lastTabledWasExternal) -> LaunchExternal(s, now)
    [] OTHER -> LaunchPublic(s, now)

\* What the winners of a referendum that ends now have to keep locked.
OwedByWinners(r, now, approved) ==
  {[who |-> a, amount |-> votingOf[a].votes[r].balance, ref |-> r,
    until |-> now + VoteLockingPeriod * LockPeriods(votingOf[a].votes[r].conviction)] :
     a \in {v \in Voters : /\ r \in DOMAIN votingOf[v].votes
                           /\ Standard(votingOf[v].votes[r]) /\ votingOf[v].votes[r].aye = approved}}

\* lowest_unbaked moves over what is finished or cancelled.
UnbakedAfter(info, last) ==
  Min({r \in lowestUnbaked .. last - 1 : Ongoing(info, r)} \cup {last})

BeginBlock ==
  LET now == block + 1
      last == referendumCount
      s == IF now % LaunchPeriod = 0 THEN LaunchNext(Queues, now)
           ELSE [Queues EXCEPT !.wasExternal = lastTabledWasExternal]
      maturing == {r \in lowestUnbaked .. last - 1 : Ongoing(s.info, r) /\ s.info[r].end = now}
      passes == [r \in maturing |-> Approved(s.info[r].threshold, s.info[r].tally)]
      info == [r \in Referenda |->
        IF r \in maturing THEN [state |-> "Finished", end |-> now, approved |-> passes[r]] ELSE s.info[r]] IN
  /\ block < MaxBlock /\ s.count <= MaxReferenda
  /\ block' = now
  /\ publicProps' = s.publicProps /\ depositOf' = s.depositOf /\ held' = s.held
  /\ nextExternal' = s.nextExternal /\ lastTabledWasExternal' = s.wasExternal
  /\ referendumCount' = s.count /\ referendumInfoOf' = info
  /\ agenda' = agenda \cup {<<r, now + Larger(s.info[r].delay, 1)>> : r \in {m \in maturing : passes[m]}}
  /\ lowestUnbaked' = UnbakedAfter(info, last)
  /\ owed' = {o \in owed : now < o.until} \cup UNION {OwedByWinners(r, now, passes[r]) : r \in maturing}
  /\ UNCHANGED <<publicPropCount, blacklist, cancellations, votingOf, lock, slashed>>

-----------------------------------------------------------------------------
VoterCall ==
  \E who \in Voters :
    \/ \E r \in Referenda, b \in Ballots : Vote(who, r, b)
    \/ \E r \in Referenda, any \in BOOLEAN, forced \in BOOLEAN : RemoveVote(who, r, any, forced)
    \/ \E to \in Voters, d \in Delegable : Delegate(who, to, d[1], d[2])
    \/ Undelegate(who)
    \/ \E p \in Proposals, value \in Deposits : Propose(who, p, value)
    \/ \E i \in PublicIds : Second(who, i)

AuthorityCall ==
  \/ \E p \in Proposals, threshold \in {"SuperMajorityApprove", "SuperMajorityAgainst", "SimpleMajority"} :
       ExternalPropose(p, threshold)
  \/ \E p \in Proposals, period \in FastTracks, delay \in {0, 2} : FastTrack(p, period, delay)
  \/ \E m \in Members, p \in Proposals : VetoExternal(m, p)
  \/ \E r \in {i \in Referenda : referendumInfoOf[i] # None} : EmergencyCancel(r) \/ CancelReferendum(r)
  \/ \E p \in Proposals, r \in Referenda \cup {None} : Blacklist(p, r)
  \/ \E i \in {k \in PublicIds : depositOf[k] # None} : CancelProposal(i)
  \/ ClearPublicProposals

DemocracyNext ==
  \/ left > 0 /\ left' = left - 1 /\ (VoterCall \/ AuthorityCall)
  \/ \E who \in Voters : Unlock(who) /\ UNCHANGED left
  \/ BeginBlock /\ UNCHANGED left

DemocracySpec == DemocracyInit /\ [][DemocracyNext]_democracyVars

-----------------------------------------------------------------------------
SumOver(S, value(_)) == FoldSet(LAMBDA a, n : value(a) + n, 0, S)
Total(S, value(_)) == FoldSet(LAMBDA a, t : Plus(value(a), t), NoTally, S)

\* The tally of an ongoing referendum is what the votes on it come to, with what is delegated to the voters.
TalliesMatchVotes ==
  \A r \in Referenda : Ongoing(referendumInfoOf, r) =>
    referendumInfoOf[r].tally =
      Total({a \in Voters : r \in DOMAIN votingOf[a].votes},
            LAMBDA a : Plus(Counted(votingOf[a].votes[r]), Followers(votingOf[a].votes[r], votingOf[a].delegations)))

\* What counts as delegated to an account is what its delegators delegate, whether it votes or delegates.
DelegationsMatch ==
  \A a \in Voters :
    LET from == {v \in Voters : votingOf[v].target = a} IN
    votingOf[a].delegations =
      [votes |-> SumOver(from, LAMBDA v : VotesOf(votingOf[v].conviction, votingOf[v].balance).votes),
       capital |-> SumOver(from, LAMBDA v : votingOf[v].balance)]

\* A referendum that goes on ends in a later block, within the range that on_initialize looks through.
NoReferendumStranded ==
  \A r \in Referenda : Ongoing(referendumInfoOf, r) => r >= lowestUnbaked /\ referendumInfoOf[r].end > block

(***************************************************************************)
(* The votes decide: an ongoing referendum will be baked, and its tally is *)
(* what the votes on it come to, with what is delegated to the voters now, *)
(* in whatever order votes are cast, changed and removed and delegations   *)
(* given and withdrawn (try_vote, try_delegate, begin_block).              *)
(***************************************************************************)
VotesCounted == NoReferendumStranded /\ TalliesMatchVotes /\ DelegationsMatch

(***************************************************************************)
(* Whoever won a referendum, or delegated, keeps the balance locked for    *)
(* the periods of the conviction, in whatever order votes are removed,     *)
(* delegations ended and locks updated.                                    *)
(***************************************************************************)
WinnersStayLocked == \A o \in owed : block < o.until => lock[o.who] >= o.amount
=============================================================================
