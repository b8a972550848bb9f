------------------------------ MODULE GigaHdx -------------------------------
(***************************************************************************)
(* GIGAHDX staking (pallets/gigahdx): HDX is locked in the account of its  *)
(* owner, stHDX is minted at the exchange rate and supplied to the money   *)
(* market, which credits GIGAHDX (the aToken).  The rate is what is locked *)
(* and what the gigapot holds over the stHDX issued.  An absent stake      *)
(* record is the record of zeros, an absent pending position is zero:      *)
(* amounts of stored positions are positive.                               *)
(***************************************************************************)
EXTENDS Integers, FiniteSets, SequencesExt

CONSTANTS
  Accounts,
  MinStake, CooldownPeriod, MaxPendingUnstakes,
  SupplyLosses,       \* what the money market may round off a supply
  MaxBlock

VARIABLES
  block,
  stakes,             \* Stakes
  pendingUnstakes,    \* PendingUnstakes: of an account, by the block they began in
  totalLocked,        \* TotalLocked
  lock,               \* the balance lock under LockId
  free, reserved,     \* HDX of each account
  gigapot,            \* HDX of the gigapot account
  sthdx,              \* issuance of stHDX
  atoken,             \* GIGAHDX of each account in the money market
  legacy              \* HDX locked by the position in the legacy staking pallet

stakingVars == <<block, stakes, pendingUnstakes, totalLocked, lock, free, reserved, gigapot, sthdx, atoken, legacy>>

Blocks == 1..MaxBlock

StakeRecord == [hdx : Nat, gigahdx : Nat, unstaking : Nat, unstakingCount : Nat]
EmptyStake == [hdx |-> 0, gigahdx |-> 0, unstaking |-> 0, unstakingCount |-> 0]

Lesser(a, b) == IF a < b THEN a ELSE b
Monus(a, b) == IF a < b THEN 0 ELSE a - b       \* saturating_sub

StakingInit(firstBlock, balances, legacyStakes) ==
  /\ block = firstBlock
  /\ stakes = [a \in Accounts |-> EmptyStake]
  /\ pendingUnstakes = [a \in Accounts |-> [b \in Blocks |-> 0]]
  /\ totalLocked = 0 /\ gigapot = 0 /\ sthdx = 0
  /\ lock = [a \in Accounts |-> 0]
  /\ free = balances
  /\ reserved = [a \in Accounts |-> 0]
  /\ atoken = [a \in Accounts |-> 0]
  /\ legacy = legacyStakes

----------------------------------------------------------------------------
(* The exchange rate *)

TotalStakedHdx == totalLocked + gigapot

\* Floored at one.
ExchangeRate ==
  IF sthdx = 0 \/ TotalStakedHdx < sthdx THEN [n |-> 1, d |-> 1] ELSE [n |-> TotalStakedHdx, d |-> sthdx]

CalculateGigahdxGivenHdx(amount, rate) == (amount * rate.d) \div rate.n

CalculateHdxGivenGigahdx(amount, rate) == (amount * rate.n) \div rate.d

----------------------------------------------------------------------------
(* Staking *)

\* refresh_lock
LockOf(stake) == stake.hdx + stake.unstaking

SetStake(who, stake) ==
  /\ stakes' = [stakes EXCEPT ![who] = stake]
  /\ lock' = [lock EXCEPT ![who] = LockOf(stake)]

\* do_stake on top of the stake that `who` has by then.
DoStake(who, amount, stake) ==
  \E minted \in {CalculateGigahdxGivenHdx(amount, ExchangeRate)}, loss \in SupplyLosses :
    /\ amount > 0 /\ minted > loss
    /\ SetStake(who, [stake EXCEPT !.hdx = @ + amount, !.gigahdx = @ + minted - loss])
    /\ totalLocked' = totalLocked + amount
    /\ sthdx' = sthdx + minted
    /\ atoken' = [atoken EXCEPT ![who] = @ + minted - loss]

\* ensure_stakeable, with the balance and the external claims of that moment.
Stakeable(who, amount, balance, externalClaims) ==
  /\ amount >= MinStake
  /\ externalClaims = 0
  /\ Monus(balance, LockOf(stakes[who])) >= amount

GigaStake(who, amount) ==
  /\ Stakeable(who, amount, free[who], legacy[who])
  /\ DoStake(who, amount, stakes[who])
  /\ UNCHANGED <<block, pendingUnstakes, free, reserved, gigapot, legacy>>

\* force_unstake of the legacy position pays `rewards`, then all of it is staked.
Migrate(who, rewards) ==
  /\ legacy[who] > 0
  /\ legacy' = [legacy EXCEPT ![who] = 0]
  /\ free' = [free EXCEPT ![who] = @ + rewards]
  /\ Stakeable(who, legacy[who] + rewards, free[who] + rewards, 0)
  /\ DoStake(who, legacy[who] + rewards, stakes[who])
  /\ UNCHANGED <<block, pendingUnstakes, reserved, gigapot>>

----------------------------------------------------------------------------
(* Unstaking *)

\* `payout` leaves the active stake, then the gigapot; `dust` is what a full exit takes along.
Unstaked(who, amount, payout, dust, isNew) ==
  LET stake == stakes[who]
      hdxLeft == Monus(stake.hdx, payout) - dust
      yield == Monus(payout, stake.hdx)
  IN  /\ yield <= gigapot
      /\ gigapot' = gigapot - yield
      /\ free' = [free EXCEPT ![who] = @ + yield]
      /\ pendingUnstakes' = [pendingUnstakes EXCEPT ![who][block] = @ + payout + dust]
      /\ SetStake(who, [hdx |-> hdxLeft, gigahdx |-> stake.gigahdx - amount,
                        unstaking |-> stake.unstaking + payout + dust,
                        unstakingCount |-> stake.unstakingCount + isNew])
      /\ totalLocked' = Monus(totalLocked, stake.hdx - hdxLeft)
      /\ sthdx' = sthdx - amount
      /\ atoken' = [atoken EXCEPT ![who] = @ - amount]
      /\ UNCHANGED <<block, reserved, legacy>>

\* giga_unstake; `committed` is the HDX behind the votes of the caller.
GigaUnstake(who, amount, committed) ==
  \E payout \in {CalculateHdxGivenGigahdx(amount, ExchangeRate)} :
    LET stake == stakes[who]
        isNew == pendingUnstakes[who][block] = 0
        projected == Monus(stake.hdx, payout)
    IN  /\ isNew => stake.unstakingCount < MaxPendingUnstakes
        /\ amount > 0 /\ amount <= stake.gigahdx
        /\ projected >= committed
        /\ Unstaked(who, amount, payout,
                    IF amount = stake.gigahdx THEN projected - committed ELSE 0,
                    IF isNew THEN 1 ELSE 0)

\* The stake without one pending position.
WithoutPending(stake, amount) ==
  [stake EXCEPT !.unstaking = Monus(@, amount), !.unstakingCount = Monus(@, 1)]

Unlock(who, position) ==
  /\ pendingUnstakes[who][position] > 0
  /\ block >= position + CooldownPeriod
  /\ pendingUnstakes' = [pendingUnstakes EXCEPT ![who][position] = 0]
  /\ SetStake(who, WithoutPending(stakes[who], pendingUnstakes[who][position]))
  /\ UNCHANGED <<block, totalLocked, free, reserved, gigapot, sthdx, atoken, legacy>>

CancelUnstake(who, position) ==
  /\ pendingUnstakes[who][position] > 0
  /\ pendingUnstakes' = [pendingUnstakes EXCEPT ![who][position] = 0]
  /\ DoStake(who, pendingUnstakes[who][position],
             WithoutPending(stakes[who], pendingUnstakes[who][position]))
  /\ UNCHANGED <<block, free, reserved, gigapot, legacy>>

\* What the GIGAHDX of an account is worth beyond its stake.
Accrued(who) == Monus(CalculateHdxGivenGigahdx(stakes[who].gigahdx, ExchangeRate), stakes[who].hdx)

RealizeYield(who) ==
  \E accrued \in {Accrued(who)} :
    /\ accrued > 0 /\ accrued <= gigapot
    /\ gigapot' = gigapot - accrued
    /\ free' = [free EXCEPT ![who] = @ + accrued]
    /\ SetStake(who, [stakes[who] EXCEPT !.hdx = @ + accrued])
    /\ totalLocked' = totalLocked + accrued
    /\ UNCHANGED <<block, pendingUnstakes, reserved, sthdx, atoken, legacy>>

----------------------------------------------------------------------------
(* What other pallets do with HDX *)

NewBlock ==
  /\ block < MaxBlock
  /\ block' = block + 1
  /\ UNCHANGED <<stakes, pendingUnstakes, totalLocked, lock, free, reserved, gigapot, sthdx, atoken, legacy>>

\* A holder spends what no lock covers; a reserve counts towards the locks.
Frozen(a) == IF legacy[a] > lock[a] THEN legacy[a] ELSE lock[a]

Spendable(a) == Lesser(free[a], Monus(free[a] + reserved[a], Frozen(a)))

Spend(a, amount) ==
  /\ amount > 0 /\ amount <= Spendable(a)
  /\ free' = [free EXCEPT ![a] = @ - amount]
  /\ UNCHANGED <<block, stakes, pendingUnstakes, totalLocked, lock, reserved, gigapot, sthdx, atoken, legacy>>

Reserve(a, amount) ==
  /\ amount <= free[a]
  /\ free' = [free EXCEPT ![a] = @ - amount]
  /\ reserved' = [reserved EXCEPT ![a] = @ + amount]
  /\ UNCHANGED <<block, stakes, pendingUnstakes, totalLocked, lock, gigapot, sthdx, atoken, legacy>>

\* The fee processor pays into the gigapot.
Earn(amount) ==
  /\ gigapot' = gigapot + amount
  /\ UNCHANGED <<block, stakes, pendingUnstakes, totalLocked, lock, free, reserved, sthdx, atoken, legacy>>

-----------------------------------------------------------------------------
(***************************************************************************)
(* Rewards for voting with GIGAHDX (pallets/gigahdx-rewards) and the       *)
(* liquidation of a GIGAHDX position (pallets/liquidation), on top of the  *)
(* stakes of GigaHdx.  Conviction voting calls on_before_vote and          *)
(* on_remove_vote; the first vote removed after the end of a referendum    *)
(* allocates its reward pool.  A liquidation seizes GIGAHDX and the HDX    *)
(* behind it, and first removes the votes the rest no longer backs, as far *)
(* as they let themselves be removed.                                      *)
(***************************************************************************)

CONSTANTS
  None,
  Users,              \* accounts that stake, vote and borrow
  LiquidationAccount, \* receives what a liquidation seizes
  Referenda,
  PERMILL, RewardPercentage,          \* of the track of a referendum
  StakeAmounts, VoteAmounts, Convictions, LegacyRewards,
  Starts,             \* records of the block, balances, legacy stakes, open referenda, income and mishaps
  FeeShare,           \* HDX that reaches the accumulator at a time
  ED,                 \* the existential deposit of HDX
  Sustained           \* accounts that live on without HDX, by what else they hold

VARIABLES
  status,             \* of a referendum: "Ongoing", "Completed" or "None"
  voteRecords,        \* UserVoteRecords
  ledger,             \* the other storage of the pallet, see Ledger
  income,             \* fees still to come
  mishaps,            \* bound on the seizures by a slash, and on those that skip a vote
  skipped,            \* history: votes <<account, referendum>> a liquidation failed to remove
  slashes             \* history: how often HDX was seized by a slash

seizureVars == <<mishaps, skipped, slashes>>
vars == <<stakingVars, status, voteRecords, ledger, income, seizureVars>>

VoteRecord == [staked : Nat, weighted : Nat]
Tally == [weighted : Nat, voters : Nat]      \* an absent tally is zero
Pool == [total : Nat, weights : Nat, voters : Nat, remaining : Nat]

Ledger == [count : [Accounts -> Nat],         \* UserVoteCount
           tally : [Referenda -> Tally],      \* ReferendaTotalWeightedVotes
           track : [Referenda -> BOOLEAN],    \* ReferendumTracks has it
           pool : [Referenda -> Pool \cup {None}],   \* ReferendaRewardPool
           pending : [Accounts -> Nat],       \* PendingRewards
           accumulator : Nat, allocated : Nat]       \* HDX of the two pots

Init ==
  \E start \in Starts :
  /\ StakingInit(start.block, start.free, start.legacy)
  /\ status = [r \in Referenda |-> IF r \in start.open THEN "Ongoing" ELSE "None"]
  /\ voteRecords = [a \in Accounts |-> [r \in Referenda |-> None]]
  /\ ledger = [count |-> [a \in Accounts |-> 0],
               tally |-> [r \in Referenda |-> [weighted |-> 0, voters |-> 0]],
               track |-> [r \in Referenda |-> FALSE],
               pool |-> [r \in Referenda |-> None],
               pending |-> [a \in Accounts |-> 0],
               accumulator |-> 0, allocated |-> 0]
  /\ income = start.income
  /\ mishaps = start.mishaps
  /\ skipped = {} /\ slashes = 0

----------------------------------------------------------------------------
(* Votes *)

\* weighted: conviction is the multiplier of the conviction in percent.
Weighted(staked, conviction) == (staked * conviction) \div 100

\* The tally with the record of a voter replaced, or added where there was none.
Counted(tally, before, record) ==
  IF before = None
    THEN [weighted |-> tally.weighted + record.weighted, voters |-> tally.voters + 1]
    ELSE [tally EXCEPT !.weighted = Monus(@, before.weighted) + record.weighted]

\* on_before_vote: the vote goes through whatever the hook does; without stake it does nothing.
OnBeforeVote(who, r, record) ==
  LET before == voteRecords[who][r]
      live == ledger.pool[r] = None
  IN  /\ voteRecords' = [voteRecords EXCEPT ![who][r] = record]
      /\ ledger' = [ledger EXCEPT !.count[who] = IF before = None THEN @ + 1 ELSE @,
                                  !.track[r] = @ \/ live,
                                  !.tally[r] = IF live THEN Counted(@, before, record) ELSE @]

Vote(who, r, amount, conviction) ==
  \E staked \in {Lesser(amount, stakes[who].hdx)} :
    /\ status[r] = "Ongoing"
    /\ amount <= free[who] + reserved[who]
    /\ stakes[who].hdx > 0
    /\ OnBeforeVote(who, r, [staked |-> staked, weighted |-> Weighted(staked, conviction)])
    /\ skipped' = skipped \ {<<who, r>>}
    /\ UNCHANGED <<stakingVars, status, income, mishaps, slashes>>

\* committed_with_count: the largest reservation.
Committed(who) ==
  LET amounts == {voteRecords[who][r].staked : r \in {q \in Referenda : voteRecords[who][q] # None}}
  IN  IF amounts = {} THEN 0 ELSE CHOOSE m \in amounts : \A n \in amounts : n <= m

----------------------------------------------------------------------------
(* Rewards *)

\* The pro rata share of a voter in a pool.
ShareOf(record, pool) ==
  IF pool.weights = 0 \/ record.weighted = 0 THEN 0
  ELSE Lesser((record.weighted * pool.total) \div pool.weights, pool.remaining)

(* A mutant: what rounding leaves in the last pool stays allocated.        *)
DustForgotten(l, who, r, share) ==
  LET pool == l.pool[r]
      last == pool.voters = 1
  IN  [l EXCEPT !.pending[who] = @ + share,
                !.pool[r] = IF last THEN None ELSE [pool EXCEPT !.voters = @ - 1, !.remaining = @ - share]]

\* record_user_reward: the last voter's step returns the rest to the accumulator.
RecordUserReward(l, who, r, share) ==
  LET pool == l.pool[r]
      last == pool.voters = 1
      dust == IF last THEN pool.remaining - share ELSE 0
  IN  [l EXCEPT !.pending[who] = @ + share,
                !.pool[r] = IF last THEN None ELSE [pool EXCEPT !.voters = @ - 1, !.remaining = @ - share],
                !.allocated = @ - dust,
                !.accumulator = @ + dust]

\* Permill times a balance rounds to the nearest, a half down.
MulNearest(percentage, amount) == (percentage * amount + PERMILL \div 2 - 1) \div PERMILL

\* maybe_allocate_and_record, the allocation; the tally no longer counts the caller.
Allocated(l, r, record, allocation) ==
  [l EXCEPT !.pool[r] = [total |-> allocation, weights |-> l.tally[r].weighted + record.weighted,
                         voters |-> l.tally[r].voters + 1, remaining |-> allocation],
            !.tally[r] = [weighted |-> 0, voters |-> 0],
            !.track[r] = FALSE,
            !.accumulator = @ - allocation, !.allocated = @ + allocation]

\* The ledger after one voter left the tally of a referendum.
Uncounted(l, who, r, record) ==
  [l EXCEPT !.tally[r] = IF @.voters <= 1 THEN [weighted |-> 0, voters |-> 0]
                         ELSE [weighted |-> Monus(@.weighted, record.weighted), voters |-> @.voters - 1]]

Rewarded(l, who, r, record) == RecordUserReward(l, who, r, ShareOf(record, l.pool[r]))

AllocateAndRecord(l, who, r, record) ==
  IF l.track[r]
    THEN Rewarded(Allocated(l, r, record, MulNearest(RewardPercentage, l.accumulator)), who, r, record)
    ELSE l

\* on_remove_vote of a vote that has a record.
OnRemoveVote(l, who, r) ==
  LET record == voteRecords[who][r]
      counted == [l EXCEPT !.count[who] = Monus(@, 1)]
  IN  IF l.pool[r] # None THEN Rewarded(counted, who, r, record)
      ELSE IF status[r] = "Completed" THEN AllocateAndRecord(Uncounted(counted, who, r, record), who, r, record)
      ELSE Uncounted(counted, who, r, record)

RemoveVote(who, r) ==
  /\ voteRecords[who][r] # None
  /\ ledger' = OnRemoveVote(ledger, who, r)
  /\ voteRecords' = [voteRecords EXCEPT ![who][r] = None]
  /\ skipped' = skipped \ {<<who, r>>}
  /\ UNCHANGED <<stakingVars, status, income, mishaps, slashes>>

\* Approved or rejected, or else cancelled, killed or timed out, and pruned in the end.
EndReferendum(r, outcome) ==
  /\ outcome = "Completed" => status[r] = "Ongoing"
  /\ status[r] # outcome
  /\ status' = [status EXCEPT ![r] = outcome]
  /\ UNCHANGED <<stakingVars, voteRecords, ledger, income, seizureVars>>

ClaimRewards(who) ==
  \E total \in {ledger.pending[who]} :
    /\ legacy[who] = 0
    /\ total > 0 /\ total <= ledger.allocated
    /\ ledger' = [ledger EXCEPT !.pending[who] = 0, !.allocated = @ - total]
    /\ free' = [free EXCEPT ![who] = @ + total]
    /\ DoStake(who, total, stakes[who])
    /\ UNCHANGED <<block, pendingUnstakes, reserved, gigapot, legacy, status, voteRecords, income, seizureVars>>

----------------------------------------------------------------------------
(* Liquidation *)

\* GigaHdxVoteClearance: the votes whose reservation the rest of the stake does not cover.
Conflicting(who, hdxLeft) ==
  {r \in Referenda : voteRecords[who][r] # None /\ voteRecords[who][r].staked > hdxLeft}

(* A mutant: the votes stay.                                               *)
NothingCleared(who, conflicting) == UNCHANGED <<voteRecords, ledger, skipped>>

\* A vote that cannot be removed is skipped, and its record stays.
ClearConflictingVotes(who, conflicting) ==
  \E cleared \in SUBSET conflicting :
    /\ voteRecords' = [voteRecords EXCEPT ![who] = [r \in Referenda |-> IF r \in cleared THEN None ELSE @[r]]]
    /\ \E order \in SetToSeqs(cleared) :
         ledger' = FoldLeft(LAMBDA l, r : OnRemoveVote(l, who, r), ledger, order)
    /\ skipped' = skipped \cup ({who} \X (conflicting \ cleared))

\* on_seize after on_pre_seize: the ledger of both sides and their locks.
OnSeize(who, hdx, seizedHdx, seizedGigahdx) ==
  LET to == LiquidationAccount
      stake == [stakes EXCEPT ![who].hdx = hdx - seizedHdx, ![who].gigahdx = @ - seizedGigahdx,
                              ![to].hdx = @ + seizedHdx, ![to].gigahdx = @ + seizedGigahdx]
  IN  /\ stakes' = stake
      /\ lock' = [lock EXCEPT ![who] = LockOf(stake[who]), ![to] = LockOf(stake[to])]

\* A slash ignores locks and takes what is free, except the ED of an account that lives by it.
FreeSlashed(who, available, seized) ==
  Lesser(seized, IF who \in Sustained THEN available ELSE Monus(available, ED))

\* What the free balance left over is taken from the reserved one, unless it is at most the ED.
ReservedSlashed(who, remaining) == IF remaining > ED THEN Lesser(remaining, reserved[who]) ELSE 0

\* The HDX follows: a transfer, or a slash where a lock (perhaps of another pallet) forbids it.
\* The recipient's stake has grown by all of it, although up to the ED may stay unpaid.
MoveSeized(who, realized, seized) ==
  \E otherLock \in BOOLEAN :
    LET available    == free[who] + realized
        frozen       == IF legacy[who] > lock'[who] THEN legacy[who] ELSE lock'[who]
        canTransfer  == seized = 0 \/ (~otherLock /\ available - seized >= frozen)
        fromFree     == IF canTransfer THEN seized ELSE FreeSlashed(who, available, seized)
        fromReserved == ReservedSlashed(who, seized - fromFree)
        unpaid       == seized - fromFree - fromReserved
    IN  /\ unpaid <= ED
        /\ free' = [free EXCEPT ![who] = available - fromFree, ![LiquidationAccount] = @ + seized - unpaid]
        /\ reserved' = [reserved EXCEPT ![who] = @ - fromReserved]
        /\ slashes' = IF canTransfer THEN slashes ELSE slashes + 1

\* liquidate_gigahdx: the money market takes `seized` of the borrower's GIGAHDX.
LiquidateGigahdx(who, seized) ==
  \E accrued \in {Accrued(who)} : \E realized \in {IF accrued <= gigapot THEN accrued ELSE 0} :
    LET hdx == stakes[who].hdx + realized
    IN \E seizedHdx \in {(hdx * seized) \div stakes[who].gigahdx} :
        /\ ClearConflictingVotes(who, Conflicting(who, hdx - seizedHdx))
        /\ OnSeize(who, hdx, seizedHdx, seized)
        /\ MoveSeized(who, realized, seizedHdx)
        /\ mishaps' = IF <<skipped, slashes>>' = <<skipped, slashes>> THEN mishaps ELSE mishaps - 1
        /\ mishaps' >= 0
        /\ atoken' = [atoken EXCEPT ![who] = @ - seized, ![LiquidationAccount] = @ + seized]
        /\ gigapot' = gigapot - realized
        /\ totalLocked' = totalLocked + realized
        /\ UNCHANGED <<block, pendingUnstakes, sthdx, legacy, status, income>>

----------------------------------------------------------------------------

StakingCall(who) ==
  \/ \E amount \in StakeAmounts : GigaStake(who, amount)
  \/ \E rewards \in LegacyRewards : Migrate(who, rewards)
  \/ \E amount \in 1..stakes[who].gigahdx : GigaUnstake(who, amount, Committed(who))
  \/ \E position \in Blocks : Unlock(who, position)
  \/ \E position \in Blocks : CancelUnstake(who, position)
  \/ RealizeYield(who)

OtherTransfer ==
  \/ NewBlock
  \/ \E a \in Users : Spend(a, Spendable(a))
  \/ \E a \in Users : reserved[a] = 0 /\ Reserve(a, free[a])

Fees ==
  /\ income > 0
  /\ income' = income - 1
  /\ \/ Earn(1) /\ UNCHANGED ledger
     \/ ledger' = [ledger EXCEPT !.accumulator = @ + FeeShare] /\ UNCHANGED stakingVars
  /\ UNCHANGED <<status, voteRecords, seizureVars>>

Next ==
  \/ \E who \in Accounts : StakingCall(who) /\ UNCHANGED <<status, voteRecords, ledger, income, seizureVars>>
  \/ OtherTransfer /\ UNCHANGED <<status, voteRecords, ledger, income, seizureVars>>
  \/ Fees
  \/ \E who \in Users, r \in Referenda :
       \/ \E amount \in VoteAmounts, conviction \in Convictions : Vote(who, r, amount, conviction)
       \/ RemoveVote(who, r)
  \/ \E r \in Referenda, outcome \in {"Completed", "None"} : EndReferendum(r, outcome)
  \/ \E who \in Users : ClaimRewards(who)
  \/ \E who \in Users : \E seized \in 1..stakes[who].gigahdx : LiquidateGigahdx(who, seized)

Spec == Init /\ [][Next]_vars

----------------------------------------------------------------------------
(* Properties *)

Total(f) == FoldFunction(+, 0, f)

(* The books of the pallet agree: what is unstaking is what is pending,    *)
(* TotalLocked is what is staked, and every account holds at least the HDX *)
(* of its stake and of its pending positions, all of it under the lock, in *)
(* every order of stakes, exits, cancellations and seizures.  Only the     *)
(* account that receives what is seized may be short, by no more than the  *)
(* ED for each time a slash had to do for a transfer (on_seize).           *)
StakesBacked ==
  /\ totalLocked = Total([a \in Accounts |-> stakes[a].hdx])
  /\ \A a \in Accounts :
       /\ stakes[a].unstaking = Total(pendingUnstakes[a])
       /\ stakes[a].unstakingCount = Cardinality({b \in Blocks : pendingUnstakes[a][b] > 0})
       /\ lock[a] = stakes[a].hdx + stakes[a].unstaking
       /\ free[a] + reserved[a] + (IF a = LiquidationAccount THEN ED * slashes ELSE 0) >= lock[a]

(* What the pallet records as staked GIGAHDX is what the money market      *)
(* holds, so that the lock manager neither blocks an exit nor lets locked  *)
(* GIGAHDX go, and all of it is backed by stHDX.                           *)
GigahdxMatchesMarket ==
  /\ \A a \in Accounts : stakes[a].gigahdx = atoken[a]
  /\ Total(atoken) <= sthdx

(* A vote that counts for rewards is backed by the stake of the voter for  *)
(* as long as it stands: neither an exit nor a liquidation takes the HDX   *)
(* from under it, unless the liquidation tried to remove the vote and      *)
(* failed (clear_conflicting_votes).                                       *)
VotesBacked ==
  \A a \in Accounts, r \in Referenda :
    voteRecords[a][r] # None /\ <<a, r>> \notin skipped => voteRecords[a][r].staked <= stakes[a].hdx

(* The pot of allocated rewards holds exactly what voters may claim and    *)
(* what is left in the pools.                                              *)
RewardsCovered ==
  ledger.allocated =
    Total(ledger.pending) + Total([r \in Referenda |-> IF ledger.pool[r] = None THEN 0 ELSE ledger.pool[r].remaining])

(* Before the allocation the tally of a referendum, and after it the pool, *)
(* counts exactly the voters who still have a record; so no pool is left   *)
(* behind and none is paid out to the last voter too early.                *)
VotersCounted ==
  /\ \A a \in Accounts : ledger.count[a] = Cardinality({r \in Referenda : voteRecords[a][r] # None})
  /\ \A r \in Referenda :
       LET voters == {a \in Accounts : voteRecords[a][r] # None}
           weights == Total([a \in voters |-> voteRecords[a][r].weighted])
       IN  IF ledger.pool[r] = None
             THEN ledger.tally[r] = [weighted |-> weights, voters |-> Cardinality(voters)]
             ELSE ledger.pool[r].voters = Cardinality(voters) /\ voters # {} /\ weights <= ledger.pool[r].weights

\* An account left, and took out no more than the HDX it had staked itself.
LeftWithOwnStake ==
  \E a \in Accounts : stakes[a].gigahdx > 0 /\ stakes'[a].gigahdx = 0
                      /\ stakes'[a].unstaking - stakes[a].unstaking <= stakes[a].hdx

(* Nobody's call lowers the exchange rate, except that the last exit of an *)
(* account may take the rounding dust of its own stake along.              *)
RateKept ==
  sthdx > 0 /\ sthdx' > 0 /\ TotalStakedHdx >= sthdx =>
    \/ (totalLocked' + gigapot') * sthdx >= (totalLocked + gigapot) * sthdx'
    \/ LeftWithOwnStake
=============================================================================
