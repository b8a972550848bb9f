-------------------------- MODULE LiquidityMining --------------------------
(***************************************************************************)
(* The liquidity mining engine (pallets/liquidity-mining): global farms    *)
(* that hold the rewards, the yield farms that compete for them and the    *)
(* deposits of LP shares that earn them.  Amounts are naturals; a          *)
(* FixedU128 is its inner value, in units of 1/FIXED, and every division   *)
(* rounds down as the code's does.  All farms pay the same currency: the   *)
(* pot account is shared between them, which is the interesting case.      *)
(*                                                                         *)
(* A call that returns an error changes nothing, so it is no step.  The    *)
(* front ends (OmnipoolLiquidityMining) choose the callers and the         *)
(* arguments, check the ownership of deposits and lock the LP positions.   *)
(***************************************************************************)
EXTENDS Integers, FiniteSets

CONSTANTS
  None,              \* the absence of a stored value
  Pools,             \* AMM pools
  MaxFarmId,         \* bound on FarmSequencer
  MaxDepositId,      \* bound on DepositSequencer
  MaxBlock,          \* bound on the block number
  FIXED,             \* FixedU128::DIV
  ED,                \* existential deposit of the reward currency
  MaxYieldFarmsPerGlobalFarm,
  MaxFarmEntriesPerDeposit

CONSTANTS            \* arguments of the farm owners' calls
  TotalRewards, PlannedPeriods, BlocksPerPeriod, YieldsPerPeriod, MinDeposit, Multipliers, LoyaltyCurves,
  PriceAdjustments,  \* price adjustments given by governance
  OracleAnswers      \* price adjustments given by the oracle, None when it has no price

VARIABLES
  globalFarm,        \* GlobalFarm
  yieldFarm,         \* YieldFarm; its keys but the id are fields of the value
  activeYieldFarm,   \* ActiveYieldFarm
  deposit,           \* Deposit
  farmSequencer,     \* FarmSequencer
  depositSequencer,  \* DepositSequencer
  farmAccount,       \* balance of farm_account_id(g)
  pot,               \* balance of pot_account_id()
  paidOut,           \* what left the pot and the farm accounts for good
  block              \* current block number

farmVars == <<globalFarm, yieldFarm, activeYieldFarm, farmSequencer, farmAccount, pot, paidOut>>
lmVars == <<farmVars, deposit, depositSequencer, block>>

FarmIds == 1 .. MaxFarmId
DepositIds == 1 .. MaxDepositId

GlobalFarmIds == {g \in FarmIds : globalFarm[g] # None}
YieldFarmIds == {y \in FarmIds : yieldFarm[y] # None}
LiveDeposits == {d \in DepositIds : deposit[d] # None}
Entries(y) == {d \in LiveDeposits : y \in DOMAIN deposit[d].entries}

LMInit ==
  /\ globalFarm = [g \in FarmIds |-> None]
  /\ yieldFarm = [y \in FarmIds |-> None]
  /\ activeYieldFarm = [pg \in Pools \X FarmIds |-> None]
  /\ deposit = [d \in DepositIds |-> None]
  /\ farmSequencer = 0
  /\ depositSequencer = 0
  /\ farmAccount = [g \in FarmIds |-> 0]
  /\ pot = 0
  /\ paidOut = 0
  /\ block = 1

----------------------------------------------------------------------------
(* The formulas *)

Least(a, b) == IF a <= b THEN a ELSE b

CalculateGlobalFarmShares(valuedShares, multiplier) == (multiplier * valuedShares) \div FIXED

CalculateReward(rpsStart, rpsNow, shares) == ((rpsNow - rpsStart) * shares) \div FIXED

CalculateAccumulatedRps(rpsNow, totalShares, reward) == rpsNow + (reward * FIXED) \div totalShares

CalculateGlobalFarmRewards(totalSharesZ, priceAdjustment, yieldPerPeriod, maxRewardPerPeriod, periods) ==
  LET adjusted == (priceAdjustment * totalSharesZ) \div FIXED
  IN  Least((adjusted * yieldPerPeriod * periods) \div FIXED, maxRewardPerPeriod * periods)

\* A loyalty curve is None or [initial |-> inner value of a fraction below one, scale |-> scale_coef].
GetLoyaltyMultiplier(periods, curve) ==
  IF curve = None THEN FIXED
  ELSE ((periods * FIXED + curve.initial * curve.scale) * FIXED) \div ((periods + curve.scale) * FIXED)

\* <<user_rewards, unclaimable_rewards>>; the first is negative when the code's checked_sub fails.
CalculateUserReward(rpvsEntry, valuedShares, claimed, rpvsNow, loyaltyMultiplier) ==
  LET maxRewards == CalculateReward(rpvsEntry, rpvsNow, valuedShares)
      claimable == (loyaltyMultiplier * maxRewards) \div FIXED
  IN  IF maxRewards = 0 THEN <<0, 0>> ELSE <<claimable - claimed, maxRewards - claimable>>

----------------------------------------------------------------------------
(* Synchronisation of the farms with the current period *)

GetCurrentPeriod(blocksPerPeriod) == block \div blocksPerPeriod

\* What is left on the account of g above the existential deposit.
LeftOf(g) == IF farmAccount[g] > ED THEN farmAccount[g] - ED ELSE 0

GlobalReward(farm, left, adjustment, now) ==
  Least(left, CalculateGlobalFarmRewards(farm.totalSharesZ, adjustment, farm.yieldPerPeriod,
                                         farm.maxRewardPerPeriod, now - farm.updatedAt))

\* The farm after it was credited `reward`, and that reward.
Credited(farm, adjustment, now, reward) ==
  [farm |-> [farm EXCEPT !.updatedAt = now,
                         !.priceAdjustment = adjustment,
                         !.pendingRewards = @ + reward,
                         !.accumulatedRpz = CalculateAccumulatedRps(@, farm.totalSharesZ, reward)],
   reward |-> reward]

SyncGlobalFarmAt(farm, left, adjustment, now) ==
  IF farm.state # "Active" \/ farm.updatedAt = now
    THEN [farm |-> farm, reward |-> 0]
  ELSE IF farm.totalSharesZ = 0
    THEN [farm |-> [farm EXCEPT !.updatedAt = now], reward |-> 0]
  ELSE Credited(farm, adjustment, now, GlobalReward(farm, left, adjustment, now))

\* The farm after sync_global_farm and what moved from its account to the pot.  `price` is the
\* answer of the price adjustment provider, None when it has none.
SyncGlobalFarm(g, price) ==
  SyncGlobalFarmAt(globalFarm[g], LeftOf(g), IF price = None THEN globalFarm[g].priceAdjustment ELSE price,
                   GetCurrentPeriod(globalFarm[g].blocksPerPeriod))

\* The rewards of the yield farm since it was last synchronised.
YieldReward(yield, global) ==
  CalculateReward(yield.accumulatedRpz, global.accumulatedRpz,
                  CalculateGlobalFarmShares(yield.totalValuedShares, yield.multiplier))

(* A mutant: what the yield farm gets is still pending.                    *)
StillPending(yield, global, now, rewards) ==
  [yield |-> [yield EXCEPT !.accumulatedRpz = global.accumulatedRpz, !.updatedAt = now,
                           !.accumulatedRpvs = CalculateAccumulatedRps(@, yield.totalValuedShares, rewards),
                           !.leftToDistribute = @ + rewards],
   global |-> [global EXCEPT !.accumulatedPaidRewards = @ + rewards],
   ok |-> rewards <= global.pendingRewards]

\* Both farms with `rewards` moved between them; `ok` is false when pending_rewards cannot cover them.
Distributed(yield, global, now, rewards) ==
  [yield |-> [yield EXCEPT !.accumulatedRpz = global.accumulatedRpz, !.updatedAt = now,
                           !.accumulatedRpvs = CalculateAccumulatedRps(@, yield.totalValuedShares, rewards),
                           !.leftToDistribute = @ + rewards],
   global |-> [global EXCEPT !.accumulatedPaidRewards = @ + rewards, !.pendingRewards = @ - rewards],
   ok |-> rewards <= global.pendingRewards]

\* Both farms after sync_yield_farm.
SyncYieldFarm(yield, global, now) ==
  IF yield.state # "Active" \/ yield.updatedAt = now
    THEN [yield |-> yield, global |-> global, ok |-> TRUE]
  ELSE IF yield.totalValuedShares = 0
    THEN [yield |-> [yield EXCEPT !.accumulatedRpz = global.accumulatedRpz, !.updatedAt = now],
          global |-> global, ok |-> TRUE]
  ELSE Distributed(yield, global, now, YieldReward(yield, global))

\* A yield farm and its global farm, both synchronised, and what the global farm's account paid in.
WithReward(both, reward) == [yield |-> both.yield, global |-> both.global, ok |-> both.ok, reward |-> reward]
SyncAfter(yield, synced) ==
  WithReward(SyncYieldFarm(yield, synced.farm, GetCurrentPeriod(synced.farm.blocksPerPeriod)), synced.reward)
SyncBoth(y, price) == SyncAfter(yieldFarm[y], SyncGlobalFarm(yieldFarm[y].global, price))

\* add_stake and remove_stake; a farm whose total_shares_z would be negative is an error.
AddStake(farm, amount) == [farm EXCEPT !.totalSharesZ = @ + amount]
RemoveStake(farm, amount) == [farm EXCEPT !.totalSharesZ = @ - amount]
StakeIsValid(farm) == farm.totalSharesZ >= 0

(* A mutant: what the yield farm does not pay stays in the pot.            *)
NothingBack(g, intoPot, toUser, backToFarm) ==
  /\ pot + intoPot >= toUser + backToFarm
  /\ pot' = pot + intoPot - toUser
  /\ farmAccount' = [farmAccount EXCEPT ![g] = @ - intoPot]
  /\ paidOut' = paidOut + toUser

\* The transfers of a call: what moves from the account of g into the pot, and out of the pot
\* to users and back to the account of g.
Transfers(g, intoPot, toUser, backToFarm) ==
  /\ pot + intoPot >= toUser + backToFarm
  /\ pot' = pot + intoPot - toUser - backToFarm
  /\ farmAccount' = [farmAccount EXCEPT ![g] = @ - intoPot + backToFarm]
  /\ paidOut' = paidOut + toUser

GlobalFarmCanBeRemoved(farm) == farm.state = "Terminated" /\ farm.totalYieldFarms = 0
YieldFarmCanBeRemoved(farm) == farm.state = "Terminated" /\ farm.entriesCount = 0

----------------------------------------------------------------------------
(* Farms: the calls of their owner and of governance *)

NewGlobalFarm(totalRewards, plannedPeriods, blocksPerPeriod, yieldPerPeriod, minDeposit, price) ==
  [updatedAt |-> GetCurrentPeriod(blocksPerPeriod), blocksPerPeriod |-> blocksPerPeriod,
   totalSharesZ |-> 0, accumulatedRpz |-> 0, pendingRewards |-> 0, accumulatedPaidRewards |-> 0,
   yieldPerPeriod |-> yieldPerPeriod, maxRewardPerPeriod |-> totalRewards \div plannedPeriods,
   minDeposit |-> minDeposit, liveYieldFarms |-> 0, totalYieldFarms |-> 0,
   priceAdjustment |-> price, state |-> "Active"]

NewYieldFarm(g, pool, now, multiplier, curve) ==
  [pool |-> pool, global |-> g, updatedAt |-> now, totalShares |-> 0, totalValuedShares |-> 0,
   accumulatedRpvs |-> 0, accumulatedRpz |-> 0, multiplier |-> multiplier, loyaltyCurve |-> curve,
   leftToDistribute |-> 0, entriesCount |-> 0, totalStopped |-> 0, state |-> "Active"]

\* `toPot` is what the front end sent from the owner to the pot first.
CreateGlobalFarm(totalRewards, plannedPeriods, blocksPerPeriod, yieldPerPeriod, minDeposit, price, toPot) ==
  LET g == farmSequencer + 1
  IN  /\ g \in FarmIds
      /\ farmSequencer' = g
      /\ globalFarm' = [globalFarm EXCEPT ![g] =
           NewGlobalFarm(totalRewards, plannedPeriods, blocksPerPeriod, yieldPerPeriod, minDeposit, price)]
      /\ farmAccount' = [farmAccount EXCEPT ![g] = @ + totalRewards]
      /\ pot' = pot + toPot
      /\ UNCHANGED <<yieldFarm, activeYieldFarm, deposit, depositSequencer, paidOut, block>>

UpdateGlobalFarmPriceAdjustment(g, adjustment, price) ==
  /\ globalFarm[g] # None
  /\ globalFarm[g].state = "Active"
  /\ \E synced \in {SyncGlobalFarm(g, price)} :
         /\ globalFarm' = [globalFarm EXCEPT ![g] = [synced.farm EXCEPT !.priceAdjustment = adjustment]]
         /\ Transfers(g, synced.reward, 0, 0)
  /\ UNCHANGED <<yieldFarm, activeYieldFarm, deposit, farmSequencer, depositSequencer, block>>

UpdateGlobalFarm(g, plannedPeriods, yieldPerPeriod, minDeposit, price) ==
  /\ globalFarm[g] # None
  /\ globalFarm[g].state = "Active"
  /\ \E synced \in {SyncGlobalFarm(g, price)} : \E newMax \in {(farmAccount[g] - synced.reward) \div plannedPeriods} :
         /\ newMax # 0
         /\ globalFarm' = [globalFarm EXCEPT ![g] =
              [synced.farm EXCEPT !.yieldPerPeriod = yieldPerPeriod, !.minDeposit = minDeposit,
                                  !.maxRewardPerPeriod = newMax]]
         /\ Transfers(g, synced.reward, 0, 0)
  /\ UNCHANGED <<yieldFarm, activeYieldFarm, deposit, farmSequencer, depositSequencer, block>>

TerminateGlobalFarm(g) ==
  /\ globalFarm[g] # None
  /\ globalFarm[g].state = "Active"
  /\ globalFarm[g].liveYieldFarms = 0
  /\ LET farm == [globalFarm[g] EXCEPT !.state = "Terminated"]
     IN  globalFarm' = [globalFarm EXCEPT ![g] = IF GlobalFarmCanBeRemoved(farm) THEN None ELSE farm]
  /\ farmAccount' = [farmAccount EXCEPT ![g] = 0]
  /\ paidOut' = paidOut + farmAccount[g]
  /\ UNCHANGED <<yieldFarm, activeYieldFarm, deposit, farmSequencer, depositSequencer, pot, block>>

CreateYieldFarm(g, pool, multiplier, curve, price) ==
  LET y == farmSequencer + 1
  IN  /\ y \in FarmIds
      /\ globalFarm[g] # None
      /\ globalFarm[g].state = "Active"
      /\ globalFarm[g].totalYieldFarms < MaxYieldFarmsPerGlobalFarm
      /\ activeYieldFarm[pool, g] = None
      /\ farmSequencer' = y
      /\ yieldFarm' = [yieldFarm EXCEPT ![y] =
           NewYieldFarm(g, pool, GetCurrentPeriod(globalFarm[g].blocksPerPeriod), multiplier, curve)]
      /\ activeYieldFarm' = [activeYieldFarm EXCEPT ![pool, g] = y]
      /\ \E synced \in {SyncGlobalFarm(g, price)} :
           /\ globalFarm' = [globalFarm EXCEPT ![g] = [synced.farm EXCEPT !.liveYieldFarms = @ + 1,
                                                                          !.totalYieldFarms = @ + 1]]
           /\ Transfers(g, synced.reward, 0, 0)
      /\ UNCHANGED <<deposit, depositSequencer, block>>

UpdateYieldFarmMultiplier(g, pool, multiplier, price) ==
  /\ activeYieldFarm[pool, g] # None
  /\ \E y \in {activeYieldFarm[pool, g]} : \E s \in {SyncBoth(y, price)} :
     \E unstaked \in {RemoveStake(s.global, CalculateGlobalFarmShares(s.yield.totalValuedShares, s.yield.multiplier))} :
       /\ s.ok
       /\ StakeIsValid(unstaked)
       /\ globalFarm' = [globalFarm EXCEPT ![g] =
            AddStake(unstaked, CalculateGlobalFarmShares(s.yield.totalValuedShares, multiplier))]
       /\ yieldFarm' = [yieldFarm EXCEPT ![y] = [s.yield EXCEPT !.multiplier = multiplier]]
       /\ Transfers(g, s.reward, 0, 0)
  /\ UNCHANGED <<activeYieldFarm, deposit, farmSequencer, depositSequencer, block>>

StopYieldFarm(g, pool, price) ==
  /\ activeYieldFarm[pool, g] # None
  /\ \E y \in {activeYieldFarm[pool, g]} : \E s \in {SyncBoth(y, price)} :
     \E unstaked \in {RemoveStake(s.global, CalculateGlobalFarmShares(s.yield.totalValuedShares, s.yield.multiplier))} :
       /\ s.ok
       /\ StakeIsValid(unstaked)
       /\ globalFarm' = [globalFarm EXCEPT ![g] = unstaked]
       /\ yieldFarm' = [yieldFarm EXCEPT ![y] = [s.yield EXCEPT !.state = "Stopped", !.multiplier = 0]]
       /\ Transfers(g, s.reward, 0, 0)
  /\ activeYieldFarm' = [activeYieldFarm EXCEPT ![pool, g] = None]
  /\ UNCHANGED <<deposit, farmSequencer, depositSequencer, block>>

ResumeYieldFarm(y, multiplier, price) ==
  /\ yieldFarm[y] # None
  /\ activeYieldFarm[yieldFarm[y].pool, yieldFarm[y].global] = None
  /\ yieldFarm[y].state = "Stopped"
  /\ \E farm \in {yieldFarm[y]}, synced \in {SyncGlobalFarm(yieldFarm[y].global, price)} :
     \E now \in {GetCurrentPeriod(synced.farm.blocksPerPeriod)} :
       /\ globalFarm' = [globalFarm EXCEPT ![farm.global] =
            AddStake(synced.farm, CalculateGlobalFarmShares(farm.totalValuedShares, multiplier))]
       /\ yieldFarm' = [yieldFarm EXCEPT ![y] =
            [farm EXCEPT !.accumulatedRpz = synced.farm.accumulatedRpz, !.updatedAt = now, !.state = "Active",
                         !.multiplier = multiplier, !.totalStopped = @ + (now - farm.updatedAt)]]
       /\ activeYieldFarm' = [activeYieldFarm EXCEPT ![farm.pool, farm.global] = y]
       /\ Transfers(farm.global, synced.reward, 0, 0)
  /\ UNCHANGED <<deposit, farmSequencer, depositSequencer, block>>

TerminateYieldFarm(y) ==
  LET farm == [yieldFarm[y] EXCEPT !.leftToDistribute = 0, !.state = "Terminated"]
      g == farm.global
      removed == YieldFarmCanBeRemoved(farm)
  IN  /\ yieldFarm[y] # None
      /\ yieldFarm[y].state = "Stopped"
      /\ globalFarm[g].accumulatedPaidRewards >= yieldFarm[y].leftToDistribute
      /\ globalFarm[g].liveYieldFarms > 0
      /\ globalFarm' = [globalFarm EXCEPT ![g].accumulatedPaidRewards = @ - yieldFarm[y].leftToDistribute,
                                          ![g].liveYieldFarms = @ - 1,
                                          ![g].totalYieldFarms = IF removed THEN @ - 1 ELSE @]
      /\ yieldFarm' = [yieldFarm EXCEPT ![y] = IF removed THEN None ELSE farm]
      /\ Transfers(g, 0, 0, yieldFarm[y].leftToDistribute)
      /\ UNCHANGED <<activeYieldFarm, deposit, farmSequencer, depositSequencer, block>>

\* The calls of farm owners and governance, where the front end's AMM has the pools `listed`: stopping
\* and terminating a farm do not need its pool.  `toPot` as in CreateGlobalFarm.
OwnerCalls(listed, toPot) ==
  \E price \in OracleAnswers :
    \/ \E total \in TotalRewards, n \in PlannedPeriods, b \in BlocksPerPeriod, yield \in YieldsPerPeriod,
          adjustment \in PriceAdjustments :
         CreateGlobalFarm(total, n, b, yield, MinDeposit, adjustment, toPot)
    \/ \E g \in FarmIds : TerminateGlobalFarm(g)
    \/ \E g \in FarmIds, pool \in listed, m \in Multipliers, curve \in LoyaltyCurves :
         CreateYieldFarm(g, pool, m, curve, price)
    \/ \E g \in FarmIds, pool \in listed, m \in Multipliers : UpdateYieldFarmMultiplier(g, pool, m, price)
    \/ \E g \in FarmIds, pool \in Pools : StopYieldFarm(g, pool, price)
    \/ \E y \in FarmIds, m \in Multipliers :
         yieldFarm[y] # None /\ yieldFarm[y].pool \in listed /\ ResumeYieldFarm(y, m, price)
    \/ \E y \in FarmIds : TerminateYieldFarm(y)

----------------------------------------------------------------------------
(* Deposits: the calls of liquidity providers *)

NewEntry(yield, valuedShares, now) ==
  [global |-> yield.global, valuedShares |-> valuedShares, accumulatedRpvs |-> yield.accumulatedRpvs,
   claimedRewards |-> 0, enteredAt |-> now, updatedAt |-> now, stoppedAtCreation |-> yield.totalStopped]

\* do_deposit_lp_shares: deposit d, whose record before the call is `dep`, gets an entry in y.
DoDepositLpShares(d, dep, y, valuedShares, price) ==
  /\ y \in YieldFarmIds
  /\ y \notin DOMAIN dep.entries
  /\ yieldFarm[y].pool = dep.pool
  /\ yieldFarm[y].state = "Active"
  /\ globalFarm[yieldFarm[y].global].state = "Active"
  /\ Cardinality(DOMAIN dep.entries) < MaxFarmEntriesPerDeposit
  /\ \E s \in {SyncBoth(y, price)} :
     \E entry \in {NewEntry(s.yield, valuedShares, GetCurrentPeriod(s.global.blocksPerPeriod))} :
       /\ s.ok
       /\ valuedShares >= s.global.minDeposit
       /\ yieldFarm' = [yieldFarm EXCEPT ![y] =
            [s.yield EXCEPT !.totalShares = @ + dep.shares, !.totalValuedShares = @ + valuedShares,
                            !.entriesCount = @ + 1]]
       /\ globalFarm' = [globalFarm EXCEPT ![s.yield.global] =
            AddStake(s.global, CalculateGlobalFarmShares(valuedShares, s.yield.multiplier))]
       /\ deposit' = [deposit EXCEPT ![d] =
            [dep EXCEPT !.entries = [z \in DOMAIN @ \cup {y} |-> IF z = y THEN entry ELSE @[z]]]]
       /\ Transfers(s.yield.global, s.reward, 0, 0)
  /\ UNCHANGED <<activeYieldFarm, farmSequencer, block>>

DepositLpShares(y, pool, shares, valuedShares, price) ==
  LET d == depositSequencer + 1
  IN  /\ d \in DepositIds
      /\ DoDepositLpShares(d, [shares |-> shares, pool |-> pool, entries |-> [z \in {} |-> None]], y, valuedShares, price)
      /\ depositSequencer' = d

RedepositLpShares(d, y, valuedShares, price) ==
  /\ deposit[d] # None
  /\ DoDepositLpShares(d, deposit[d], y, valuedShares, price)
  /\ UNCHANGED depositSequencer

\* Periods the farm was stopped while the entry was in it, and the ones that count for its loyalty.
StoppedDuring(entry, yield) == yield.totalStopped - entry.stoppedAtCreation
LoyalPeriods(entry, yield) == yield.updatedAt - entry.enteredAt - StoppedDuring(entry, yield)

RewardOf(entry, yield) ==
  CalculateUserReward(entry.accumulatedRpvs, entry.valuedShares, entry.claimedRewards, yield.accumulatedRpvs,
                      GetLoyaltyMultiplier(LoyalPeriods(entry, yield), yield.loyaltyCurve))

Claimed(entry, s, reward) ==
  [ok |-> /\ s.ok
          /\ StoppedDuring(entry, s.yield) >= 0 /\ LoyalPeriods(entry, s.yield) >= 0
          /\ reward[1] >= 0 /\ s.yield.leftToDistribute >= reward[1],
   global |-> s.global,
   yield |-> [s.yield EXCEPT !.leftToDistribute = @ - reward[1]],
   entry |-> IF reward[1] = 0 THEN entry
             ELSE [entry EXCEPT !.claimedRewards = @ + reward[1],
                                !.updatedAt = GetCurrentPeriod(s.global.blocksPerPeriod)],
   intoPot |-> s.reward, rewards |-> reward[1], unclaimable |-> reward[2]]

\* What claim_rewards computes for the entry of d in y: the farms, the entry, the transfers.
ClaimOf(entry, s) == Claimed(entry, s, RewardOf(entry, s.yield))
ClaimOutcome(d, y, price) == ClaimOf(deposit[d].entries[y], SyncBoth(y, price))

\* claim_rewards with fail_on_doubleclaim.  The rewards go to the user, or to the treasury when they
\* and the user's balance are below the existential deposit.
ClaimRewards(d, y, price) ==
  /\ deposit[d] # None
  /\ y \in DOMAIN deposit[d].entries
  /\ yieldFarm[y].state # "Terminated"
  /\ deposit[d].entries[y].updatedAt # GetCurrentPeriod(globalFarm[yieldFarm[y].global].blocksPerPeriod)
  /\ \E c \in {ClaimOutcome(d, y, price)} :
       /\ c.ok
       /\ globalFarm' = [globalFarm EXCEPT ![c.yield.global] = c.global]
       /\ yieldFarm' = [yieldFarm EXCEPT ![y] = c.yield]
       /\ deposit' = [deposit EXCEPT ![d].entries[y] = c.entry]
       /\ Transfers(c.yield.global, c.intoPot, c.rewards, 0)
  /\ UNCHANGED <<activeYieldFarm, farmSequencer, depositSequencer, block>>

\* The claim that an exit begins with, where the farm still pays.
ClaimBeforeExit(d, y, price) ==
  IF yieldFarm[y].state # "Terminated" /\ yieldFarm[y].entriesCount > 0 THEN ClaimOutcome(d, y, price)
  ELSE [ok |-> TRUE, global |-> globalFarm[yieldFarm[y].global], yield |-> yieldFarm[y],
        intoPot |-> 0, rewards |-> 0, unclaimable |-> 0]

\* The yield farm without the entry, and the stake of the entry taken out of the global farm.
Left(yield, shares, valuedShares, unclaimable) ==
  [yield EXCEPT !.totalShares = @ - shares, !.totalValuedShares = @ - valuedShares,
                !.leftToDistribute = @ - unclaimable, !.entriesCount = @ - 1]
Unstaked(global, yield, valuedShares) ==
  IF yield.state = "Active" THEN RemoveStake(global, CalculateGlobalFarmShares(valuedShares, yield.multiplier)) ELSE global

\* The Mutate implementation of withdraw_lp_shares: a claim where the farm still pays, then the exit.
WithdrawLpShares(d, y, price) ==
  /\ deposit[d] # None
  /\ y \in DOMAIN deposit[d].entries
  /\ \E c \in {ClaimBeforeExit(d, y, price)}, entry \in {deposit[d].entries[y]}, others \in {DOMAIN deposit[d].entries \ {y}} :
     \E left \in {Left(c.yield, deposit[d].shares, entry.valuedShares, c.unclaimable)},
        unstaked \in {Unstaked(c.global, c.yield, entry.valuedShares)} :
     \E removed \in {YieldFarmCanBeRemoved(left)} :
     \E farm \in {[unstaked EXCEPT !.accumulatedPaidRewards = @ - c.unclaimable,
                                   !.totalYieldFarms = IF removed THEN @ - 1 ELSE @]} :
       /\ c.ok
       /\ left.totalShares >= 0 /\ left.totalValuedShares >= 0 /\ left.leftToDistribute >= 0
       /\ StakeIsValid(unstaked)
       /\ farm.accumulatedPaidRewards >= 0
       /\ yieldFarm' = [yieldFarm EXCEPT ![y] = IF removed THEN None ELSE left]
       /\ globalFarm' = [globalFarm EXCEPT ![entry.global] = IF GlobalFarmCanBeRemoved(farm) THEN None ELSE farm]
       /\ deposit' = [deposit EXCEPT ![d] =
            IF others = {} THEN None ELSE [@ EXCEPT !.entries = [z \in others |-> @[z]]]]
       /\ Transfers(entry.global, c.intoPot, c.rewards, c.unclaimable)
  /\ UNCHANGED <<activeYieldFarm, farmSequencer, depositSequencer, block>>

NewBlock ==
  /\ block < MaxBlock
  /\ block' = block + 1
  /\ UNCHANGED <<farmVars, deposit, depositSequencer>>

----------------------------------------------------------------------------
(* Properties *)

\* The sum of f over a set S of ids in 1 .. n.
SumOver(n, S, f(_)) ==
  LET sum[i \in 0 .. n] == IF i = 0 THEN 0 ELSE sum[i - 1] + (IF i \in S THEN f(i) ELSE 0)
  IN  sum[n]

\* What the bookkeeping says the pot holds for the yield farms of g.
OwedFromPot(g) ==
  globalFarm[g].pendingRewards
    + SumOver(MaxFarmId, {y \in YieldFarmIds : yieldFarm[y].global = g}, LAMBDA y : yieldFarm[y].leftToDistribute)

\* The one pot shared by all farms holds what the farms' books say is pending or left to distribute.
PotCoversFarms == pot >= SumOver(MaxFarmId, GlobalFarmIds, OwedFromPot)

\* The purse of farm g in the abstract specification: its account and what the books say the pot holds for it.
Purse == [g \in FarmIds |-> farmAccount[g] + (IF globalFarm[g] = None THEN 0 ELSE OwedFromPot(g))]

Purses == INSTANCE FarmPurses WITH Farms <- FarmIds, purse <- Purse, paid <- paidOut

\* The engine implements the abstract specification of FarmPurses: through the shared pot, a claim, an
\* exit or a termination moves money of the one farm it is about, and the books of that farm follow
\* every transfer.
FarmsKeepTheirPurses == Purses!Spec

\* What the entry of d in y could still draw if its loyalty multiplier were one.
Claimable(d, y) ==
  LET entry == deposit[d].entries[y]
  IN  CalculateReward(entry.accumulatedRpvs, yieldFarm[y].accumulatedRpvs, entry.valuedShares) - entry.claimedRewards

\* A yield farm that still pays has left to distribute at least what all its entries together can draw.
EntriesCovered ==
  \A y \in YieldFarmIds :
    yieldFarm[y].state # "Terminated" =>
      yieldFarm[y].leftToDistribute >= SumOver(MaxDepositId, Entries(y), LAMBDA d : Claimable(d, y))

\* An entry was never paid more than its full reward.
NeverOverpaid == \A y \in YieldFarmIds : \A d \in Entries(y) : Claimable(d, y) >= 0

\* Every reward is covered, whatever the order of syncs, claims, exits, stops and terminations: the pot
\* holds what the books of the farms say, these hold what the entries can draw, so that claim_rewards and
\* withdraw_lp_shares never meet NotEnoughRewardsInYieldFarm, and the loyalty multiplier, which leaves out
\* the periods a farm was stopped, never falls below what was already claimed.
FarmRewardsCovered == PotCoversFarms /\ EntriesCovered /\ NeverOverpaid

\* The counters that decide when a farm may be terminated or removed, and the totals that rewards are
\* divided by, agree with the stored farms and entries: neither a farm nor an entry is ever orphaned.
CountsAgree ==
  /\ \A g \in GlobalFarmIds :
       LET farms == {y \in YieldFarmIds : yieldFarm[y].global = g}
       IN  /\ globalFarm[g].totalYieldFarms = Cardinality(farms)
           /\ globalFarm[g].liveYieldFarms = Cardinality({y \in farms : yieldFarm[y].state # "Terminated"})
           /\ globalFarm[g].state = "Terminated" => globalFarm[g].totalYieldFarms > 0
  /\ \A y \in YieldFarmIds :
       /\ yieldFarm[y].entriesCount = Cardinality(Entries(y))
       /\ yieldFarm[y].totalShares = SumOver(MaxDepositId, Entries(y), LAMBDA d : deposit[d].shares)
       /\ yieldFarm[y].totalValuedShares = SumOver(MaxDepositId, Entries(y), LAMBDA d : deposit[d].entries[y].valuedShares)
       /\ yieldFarm[y].state = "Active" <=> activeYieldFarm[yieldFarm[y].pool, yieldFarm[y].global] = y
  /\ \A d \in LiveDeposits : DOMAIN deposit[d].entries \subseteq YieldFarmIds /\ DOMAIN deposit[d].entries # {}
=============================================================================
