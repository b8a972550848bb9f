------------------------------ MODULE Staking ------------------------------
(***************************************************************************)
(* The staking of HDX (pallets/staking): positions locked in the owner's   *)
(* account, a pot whose income is shared by a growing reward per stake,    *)
(* and points for time and votes that decide how much of the reward may be *)
(* taken.  A call that fails has no effect.                                *)
(* An account has at most one position, a token that cannot be moved, so a *)
(* position goes by the name of its owner.                                 *)
(***************************************************************************)
EXTENDS Integers, FiniteSets, Functions

CONSTANTS
  None, Users, Referenda,
  MinStake, UnclaimablePeriods, TimePointsPerPeriod, CurrentStakeWeight, MinSlash, MaxVotes, MaxPointsPerAction,
  TimePointsWeight, ActionPointsWeight,   \* per hundred
  MaxMultiplier,          \* of a conviction
  PayablePercentage(_),   \* of points, per hundred
  FIX,                    \* scale of the reward per stake
  StakeAmounts, VoteAmounts, Convictions, Fees,
  InitialBalance, InitialPot,
  MaxPeriod, MaxFees, MaxCalls   \* bounds

VARIABLES
  period,                 \* the current period
  staking,                \* Staking: [total, rps, reserved], or None before initialize_staking
  positions,              \* Positions: a record for each user, or None
  votes,                  \* Votes: what each user's vote in each referendum is worth, or None
  rewarded,               \* VotesRewarded: pairs of a user and a referendum
  status,                 \* of each referendum: "ongoing", "finished" or "cancelled"
  balance, lock,          \* of each user
  pot,                    \* balance of the pallet's account
  credited,               \* history: how often a vote has given points
  fees, calls             \* numbers of fees and of calls of positions so far

vars == <<period, staking, positions, votes, rewarded, status, balance, lock, pot, credited, fees, calls>>
votesVars == <<votes, rewarded, status, credited>>

Init ==
  /\ period = 0
  /\ staking = None
  /\ positions = [u \in Users |-> None]
  /\ votes = [u \in Users |-> [r \in Referenda |-> None]]
  /\ rewarded = {}
  /\ status = [r \in Referenda |-> "ongoing"]
  /\ balance = [u \in Users |-> InitialBalance]
  /\ lock = [u \in Users |-> 0]
  /\ pot = InitialPot
  /\ credited = [u \in Users |-> [r \in Referenda |-> 0]]
  /\ fees = 0
  /\ calls = 0

Lesser(x, y) == IF x <= y THEN x ELSE y
Greater(x, y) == IF x >= y THEN x ELSE y
Monus(x, y) == IF x >= y THEN x - y ELSE 0

----------------------------------------------------------------------------
(* Formulas *)

AccumulatedRps(rps, pending, total) == rps + (pending * FIX) \div total

NewRewards(s, position) == ((s.rps - position.rps) * position.stake) \div FIX

\* get_points; the code fails where it would be negative.
EarnedPoints(position) ==
  (ActionPointsWeight * position.actionPoints) \div 100
  + (TimePointsWeight * (period - position.createdAt) * TimePointsPerPeriod) \div 100

Points(position) == EarnedPoints(position) - position.slashedPoints

SlashedPoints(points, stake, increase) ==
  Lesser(Greater(Lesser((increase * points) \div (stake * CurrentStakeWeight), points), MinSlash), points)

TotalLocked(position) == position.stake + position.locked

\* Points for a vote, of the stake as it is when they are given.
PointsForVote(vote, stake) == (vote * MaxPointsPerAction) \div (MaxMultiplier * stake)

\* calculate_rewards: what is paid, and what stays unpaid.
Early(position) == period - position.createdAt <= UnclaimablePeriods

Claimable(position, total, percentage) == Monus((total * percentage) \div 100, position.locked)

CalculateRewards(s, position) ==
  LET total == NewRewards(s, position) + position.locked + position.unpaid
      paid == Claimable(position, total, PayablePercentage(Points(position)))
  IN  IF Early(position) THEN [paid |-> 0, unpaid |-> position.unpaid + NewRewards(s, position)]
      ELSE [paid |-> paid, unpaid |-> Monus(Monus(total, position.locked), paid)]

\* update_rewards: new income of the pot is shared between all stakes.
UpdateRewards(s) ==
  LET rps == AccumulatedRps(s.rps, pot - s.reserved, s.total)
  IN  IF s.total = 0 THEN s
      ELSE IF rps = s.rps THEN s ELSE [s EXCEPT !.rps = rps, !.reserved = pot]

----------------------------------------------------------------------------
(* The calls *)

\* Bounds the calls.
Call == calls < MaxCalls /\ calls' = calls + 1

InitializeStaking ==
  /\ staking = None
  /\ pot # 0
  /\ staking' = [total |-> 0, rps |-> 0, reserved |-> pot]
  /\ UNCHANGED <<period, positions, votesVars, balance, lock, pot, fees, calls>>

\* ensure_stakeable_balance.
Stakeable(u, amount) == Monus(balance[u], IF positions[u] = None THEN 0 ELSE TotalLocked(positions[u])) >= amount

Stake(u, amount) ==
  /\ Call
  /\ amount >= MinStake
  /\ staking # None
  /\ positions[u] = None
  /\ Stakeable(u, amount)
  /\ \E s \in {UpdateRewards(staking)} :
       /\ staking' = [s EXCEPT !.total = @ + amount]
       /\ positions' = [positions EXCEPT ![u] = [stake |-> amount, actionPoints |-> 0, rps |-> s.rps, createdAt |-> period,
                                                 slashedPoints |-> 0, unpaid |-> 0, locked |-> 0]]
  /\ lock' = [lock EXCEPT ![u] = amount]
  /\ UNCHANGED <<period, votesVars, balance, pot, fees>>

\* process_votes: votes of finished referenda give points, and are remembered until the user removes them.
FinishedVotes(u) == {r \in Referenda : votes[u][r] # None /\ status[r] = "finished"}

WithVotes(u, position) ==
  [position EXCEPT !.actionPoints =
     FoldFunctionOnSet(LAMBDA vote, points : points + PointsForVote(vote, position.stake), @, votes[u], FinishedVotes(u))]

ProcessVotes(u) ==
  /\ votes' = [votes EXCEPT ![u] = [r \in Referenda |-> IF r \in FinishedVotes(u) THEN None ELSE @[r]]]
  /\ rewarded' = rewarded \cup {<<u, r>> : r \in FinishedVotes(u)}
  /\ credited' = [credited EXCEPT ![u] = [r \in Referenda |-> IF r \in FinishedVotes(u) THEN @[r] + 1 ELSE @[r]]]
  /\ UNCHANGED status

NoneRewarded(u) == \A r \in Referenda : <<u, r>> \notin rewarded

\* A reward leaves the pot for its owner.
PayReward(u, amount) ==
  /\ pot >= amount
  /\ pot' = pot - amount
  /\ balance' = [balance EXCEPT ![u] = @ + amount]

Increased(s, position, rewards, amount) ==
  LET updated == [position EXCEPT !.locked = @ + rewards.paid, !.unpaid = rewards.unpaid, !.rps = s.rps]
  IN  [updated EXCEPT !.slashedPoints = @ + SlashedPoints(Points(updated), updated.stake, amount), !.stake = @ + amount]

IncreaseStake(u, amount) ==
  /\ Call
  /\ amount >= MinStake
  /\ staking # None
  /\ positions[u] # None
  /\ NoneRewarded(u)
  /\ Stakeable(u, amount)
  /\ ProcessVotes(u)
  /\ \E s \in {UpdateRewards(staking)}, position \in {WithVotes(u, positions[u])} :
     \E rewards \in {CalculateRewards(s, position)} :
     \E new \in {Increased(s, position, rewards, amount)} :
       /\ PayReward(u, rewards.paid)
       /\ s.reserved >= rewards.paid
       /\ positions' = [positions EXCEPT ![u] = new]
       /\ staking' = [s EXCEPT !.total = @ + amount, !.reserved = @ - rewards.paid]
       /\ lock' = [lock EXCEPT ![u] = TotalLocked(new)]
  /\ UNCHANGED <<period, fees>>

\* What is left unpaid of an old enough position returns to the pot.
Claimed(s, position, rewards) ==
  LET updated == [position EXCEPT !.locked = 0, !.unpaid = rewards.unpaid]
  IN  [updated EXCEPT !.slashedPoints = @ + Points(updated), !.rps = s.rps, !.unpaid = IF Early(position) THEN @ ELSE 0]

Claim(u) ==
  /\ Call
  /\ staking # None
  /\ positions[u] # None
  /\ NoneRewarded(u)
  /\ ProcessVotes(u)
  /\ \E s \in {UpdateRewards(staking)}, position \in {WithVotes(u, positions[u])} :
     \E rewards \in {CalculateRewards(s, position)} :
     \E new \in {Claimed(s, position, rewards)}, returned \in {IF Early(position) THEN 0 ELSE rewards.unpaid} :
       /\ PayReward(u, rewards.paid)
       /\ s.reserved >= rewards.paid + returned
       /\ positions' = [positions EXCEPT ![u] = new]
       /\ staking' = [s EXCEPT !.reserved = @ - rewards.paid - returned]
       /\ lock' = [lock EXCEPT ![u] = TotalLocked(new)]
  /\ UNCHANGED <<period, fees>>

\* The position is gone, with its stake and its lock.
Leave(u, s, paid, returned) ==
  /\ Call
  /\ \A r \in Referenda : votes[u][r] = None
  /\ NoneRewarded(u)
  /\ PayReward(u, paid)
  /\ s.total >= positions[u].stake /\ s.reserved >= paid + returned
  /\ staking' = [s EXCEPT !.total = @ - positions[u].stake, !.reserved = @ - paid - returned]
  /\ positions' = [positions EXCEPT ![u] = None]
  /\ lock' = [lock EXCEPT ![u] = 0]
  /\ UNCHANGED <<period, votesVars, fees>>

Unstake(u) ==
  /\ staking # None
  /\ positions[u] # None
  /\ \E s \in {UpdateRewards(staking)} : \E rewards \in {CalculateRewards(s, positions[u])} :
       Leave(u, s, rewards.paid, rewards.unpaid)

\* Called by the migration to GIGAHDX: everything is paid.
ForceUnstake(u) ==
  /\ staking # None
  /\ positions[u] # None
  /\ \E s \in {UpdateRewards(staking)} : Leave(u, s, NewRewards(s, positions[u]) + positions[u].unpaid, 0)

----------------------------------------------------------------------------
(* Referenda *)

\* on_before_vote: the position counts up to its stake, less what the owner does not really have.
StakingVote(u, amount) == Lesser(amount, Lesser(Monus(balance[u], positions[u].locked), positions[u].stake))

OnBeforeVote(u, r, amount, conviction) ==
  /\ status[r] = "ongoing"
  /\ amount <= balance[u]
  /\ positions[u] # None
  /\ votes[u][r] = None => Cardinality({x \in Referenda : votes[u][x] # None}) < MaxVotes
  /\ votes' = [votes EXCEPT ![u][r] = StakingVote(u, amount) * conviction]
  /\ UNCHANGED <<period, staking, positions, rewarded, status, balance, lock, pot, credited, fees, calls>>

\* Whether a removed vote gives points.
GivesPoints(u, r) == status[r] = "finished" /\ votes[u][r] # None /\ <<u, r>> \notin rewarded

OnRemoveVote(u, r) ==
  /\ positions[u] # None
  /\ votes[u][r] # None \/ <<u, r>> \in rewarded
  /\ rewarded' = rewarded \ {<<u, r>>}
  /\ votes' = IF <<u, r>> \in rewarded THEN votes ELSE [votes EXCEPT ![u][r] = None]
  /\ positions' = IF GivesPoints(u, r)
                  THEN [positions EXCEPT ![u].actionPoints = @ + PointsForVote(votes[u][r], positions[u].stake)]
                  ELSE positions
  /\ credited' = IF GivesPoints(u, r) THEN [credited EXCEPT ![u][r] = @ + 1] ELSE credited
  /\ UNCHANGED <<period, staking, status, balance, lock, pot, fees, calls>>

EndReferendum(r, how) ==
  /\ status[r] = "ongoing"
  /\ status' = [status EXCEPT ![r] = how]
  /\ UNCHANGED <<period, staking, positions, votes, rewarded, balance, lock, pot, credited, fees, calls>>

----------------------------------------------------------------------------
(* Everything else *)

\* process_trade_fee, and any other transfer to the pot.
ProcessTradeFee(amount) ==
  /\ fees < MaxFees
  /\ fees' = fees + 1
  /\ staking # None
  /\ pot' = pot + amount
  /\ UNCHANGED <<period, staking, positions, votesVars, balance, lock, calls>>

NextPeriod ==
  /\ period < MaxPeriod
  /\ period' = period + 1
  /\ UNCHANGED <<staking, positions, votesVars, balance, lock, pot, fees, calls>>

Next ==
  \/ InitializeStaking
  \/ \E u \in Users, amount \in StakeAmounts : Stake(u, amount)
  \/ \E u \in Users, amount \in StakeAmounts : IncreaseStake(u, amount)
  \/ \E u \in Users : Claim(u)
  \/ \E u \in Users : Unstake(u)
  \/ \E u \in Users : ForceUnstake(u)
  \/ \E u \in Users, r \in Referenda, amount \in VoteAmounts, c \in Convictions : OnBeforeVote(u, r, amount, c)
  \/ \E u \in Users, r \in Referenda : OnRemoveVote(u, r)
  \/ \E r \in Referenda, how \in {"finished", "cancelled"} : EndReferendum(r, how)
  \/ \E amount \in Fees : ProcessTradeFee(amount)
  \/ NextPeriod

Spec == Init /\ [][Next]_vars

----------------------------------------------------------------------------
(* Properties *)

Staked == {u \in Users : positions[u] # None}
SumOf(F(_), S) == FoldFunctionOnSet(LAMBDA x, sum : x + sum, 0, [u \in S |-> F(u)], S)

\* The lock of an account is its stake and the rewards locked with it, and the account has that much:
\* rewards paid into a position cannot be spent before they are claimed.
PositionsLocked ==
  \A u \in Users : lock[u] = (IF u \in Staked THEN positions[u].stake + positions[u].locked ELSE 0) /\ lock[u] <= balance[u]

\* All that positions may still be paid is set aside, and the pot holds what is set aside: no claim finds
\* the pot empty, whoever came first, and no income is promised twice.
RewardsCovered ==
  staking # None =>
    /\ staking.total = SumOf(LAMBDA u : positions[u].stake, Staked)
    /\ SumOf(LAMBDA u : NewRewards(staking, positions[u]) + positions[u].unpaid, Staked) <= staking.reserved
    /\ staking.reserved <= pot

\* No position ever owes points: calculate_points never fails, so that nobody is shut out of their stake.
PointsNeverOwed == \A u \in Staked : positions[u].slashedPoints <= EarnedPoints(positions[u])

\* A vote gives points at most once, by the owner's next claim or by its removal, in any order.
VotesCountOnce == \A u \in Users, r \in Referenda : credited[u][r] <= 1
=============================================================================
