-------------------------------- MODULE LBP --------------------------------
(***************************************************************************)
(* Liquidity bootstrapping pools: a sale of one asset for another between  *)
(* two blocks of the relay chain, at weights that move along a line.  The  *)
(* fees go to a collector, whose lock records how much the sale raised.    *)
(* The weighted price curve raises fixed-point numbers to fractional       *)
(* powers; a trade takes any result that the limits of the trade admit.    *)
(* The funds of owners and traders are not limited.                        *)
(***************************************************************************)
EXTENDS Integers, FiniteSets

CONSTANTS
  None,
  Tokens, Owners, Collectors,
  NewPools,        \* the data with which governance creates pools
  Updates,         \* the changes of update_pool_data; None leaves a field
  Liquidity,       \* the amounts of a new pool, for each of its assets
  TradeAmounts,
  MinPoolLiquidity, MaxInRatio, MaxOutRatio,
  RepayFee,        \* repay_fee, as <<numerator, denominator>>
  MAX_WEIGHT, MAX_SALE_DURATION,
  MaxRelayBlock,   \* bound: the block of the relay chain
  MaxSteps         \* bound: the calls of a behaviour

VARIABLES
  poolData,               \* PoolData, by the set of the two assets; None where there is no pool
  feeCollectorWithAsset,  \* FeeCollectorWithAsset
  lock,                   \* the lock "lbpcllct" of an account in an asset
  held,                   \* the balances of the pools' accounts
  raised,                 \* history: the fees that the pool collected since it was created
  relay,                  \* the block of the relay chain
  steps

Pairs == {p \in SUBSET Tokens : Cardinality(p) = 2}
Live == {p \in Pairs : poolData[p] # None}
FeeAsset(p) == poolData[p].assets[1]
Account(p) == <<poolData[p].fee_collector, FeeAsset(p)>>

-----------------------------------------------------------------------------
IsPoolRunning(pool) == pool.start # None /\ pool.end # None /\ pool.start <= relay /\ relay <= pool.end

HasPoolStarted(pool) == pool.start # None /\ pool.start <= relay

\* validate_pool_data.
Valid(pool) ==
  /\ (pool.start = None) = (pool.end = None)
  /\ pool.start # None => /\ relay < pool.start /\ pool.start < pool.end
                          /\ pool.end - pool.start < MAX_SALE_DURATION
  /\ \A w \in {pool.initial_weight, pool.final_weight} : MAX_WEIGHT \div 50 <= w /\ w < MAX_WEIGHT
  /\ pool.fee[2] # 0

\* calculate_linear_weights.
LinearWeight(start, end, initial, final, at) ==
  (initial * (end - at) + final * (at - start)) \div (end - start)

WeightNow(pool) == LinearWeight(pool.start, pool.end, pool.initial_weight, pool.final_weight, relay)

\* calculate_pool_trade_fee.
PoolTradeFee(amount, fee) ==
  IF fee[1] = 0 THEN 0 ELSE IF fee[1] = fee[2] THEN amount ELSE (amount \div fee[2]) * fee[1]

\* calculate_fees: the repay fee until the target has been collected.
FeeOf(p, amount) ==
  PoolTradeFee(amount, IF lock[Account(p)] < poolData[p].repay_target THEN RepayFee ELSE poolData[p].fee)

-----------------------------------------------------------------------------
CreatePool(new) ==
  LET p == {new.assets[1], new.assets[2]}
      pool == [new EXCEPT !.start = None, !.end = None]
  IN
  /\ \A a \in p : Liquidity >= MinPoolLiquidity
  /\ p \in Pairs /\ poolData[p] = None
  /\ <<pool.fee_collector, pool.assets[1]>> \notin feeCollectorWithAsset
  /\ Valid(pool)
  /\ poolData' = [poolData EXCEPT ![p] = pool]
  /\ feeCollectorWithAsset' = feeCollectorWithAsset \cup {<<pool.fee_collector, pool.assets[1]>>}
  /\ held' = [held EXCEPT ![p] = [a \in Tokens |-> IF a \in p THEN @[a] + Liquidity ELSE @[a]]]
  /\ raised' = [raised EXCEPT ![p] = 0]
  /\ UNCHANGED <<lock, relay>>

\* The collectors in use after the pool takes another one.
ChangeCollector(p, collector) == (feeCollectorWithAsset \ {Account(p)}) \cup {<<collector, FeeAsset(p)>>}

UpdatePoolData(who, p, new) ==
  /\ poolData[p] # None
  /\ \E f \in DOMAIN new \ {"owner"} : new[f] # None
  /\ who = poolData[p].owner
  /\ ~HasPoolStarted(poolData[p])
  /\ IF new.fee_collector = None THEN UNCHANGED feeCollectorWithAsset
     ELSE /\ <<new.fee_collector, FeeAsset(p)>> \notin feeCollectorWithAsset
          /\ feeCollectorWithAsset' = ChangeCollector(p, new.fee_collector)
  /\ LET pool == [f \in DOMAIN poolData[p] |-> IF f \in DOMAIN new /\ new[f] # None THEN new[f]
                                               ELSE poolData[p][f]]
     IN Valid(pool) /\ poolData' = [poolData EXCEPT ![p] = pool]
  /\ UNCHANGED <<lock, held, raised, relay>>

AddLiquidity(who, p, amounts) ==
  /\ poolData[p] # None
  /\ who = poolData[p].owner
  /\ \E a \in p : amounts[a] # 0
  /\ held' = [held EXCEPT ![p] = [a \in Tokens |-> IF a \in p THEN @[a] + amounts[a] ELSE @[a]]]
  /\ UNCHANGED <<poolData, feeCollectorWithAsset, lock, raised, relay>>

\* Mutant: the lock outlives the pool.
LockKept(p) == lock

Unlocked(p) == [lock EXCEPT ![Account(p)] = 0]

RemoveLiquidity(who, p) ==
  /\ poolData[p] # None
  /\ who = poolData[p].owner
  /\ ~IsPoolRunning(poolData[p])
  /\ held' = [held EXCEPT ![p] = [a \in Tokens |-> IF a \in p THEN 0 ELSE @[a]]]
  /\ lock' = Unlocked(p)
  /\ feeCollectorWithAsset' = feeCollectorWithAsset \ {Account(p)}
  /\ poolData' = [poolData EXCEPT ![p] = None]
  /\ UNCHANGED <<raised, relay>>

\* execute_trade: what the trader pays in and gets out, and the fee, which goes to the collector's lock.
ExecuteTrade(p, in, out, amount, amountB, fee) ==
  LET paid == [held[p] EXCEPT ![in] = @ + amount, ![out] = @ - amountB]
      after == IF FeeAsset(p) = in THEN paid ELSE [paid EXCEPT ![FeeAsset(p)] = @ - fee]
  IN /\ \A a \in p : after[a] >= 0
     /\ held' = [held EXCEPT ![p] = after]
     /\ lock' = [lock EXCEPT ![Account(p)] = @ + fee]
     /\ raised' = [raised EXCEPT ![p] = @ + fee]
     /\ UNCHANGED <<poolData, feeCollectorWithAsset, relay>>

(* sell: `result` is what calculate_out_given_in answers.                  *)
Sell(p, in, amount, result) ==
  LET out == CHOOSE a \in p : a # in
      fee == FeeOf(p, IF FeeAsset(p) = in THEN amount ELSE result)
  IN /\ poolData[p] # None /\ in \in p /\ IsPoolRunning(poolData[p])
     /\ amount <= held[p][in] \div MaxInRatio
     /\ result <= held[p][out] \div MaxOutRatio
     /\ IF FeeAsset(p) = in
        THEN fee <= amount /\ ExecuteTrade(p, in, out, amount - fee, result, fee)
        ELSE fee <= result /\ ExecuteTrade(p, in, out, amount, result - fee, fee)

(* buy: `result` is what calculate_in_given_out answers; when the fee is   *)
(* paid in the asset bought it is asked for the amount with the fee, which *)
(* must leave something in the pool.                                       *)
Buy(p, out, amount, result) ==
  LET in == CHOOSE a \in p : a # out
      fee == FeeOf(p, IF FeeAsset(p) = out THEN amount ELSE result)
  IN /\ poolData[p] # None /\ out \in p /\ IsPoolRunning(poolData[p])
     /\ amount <= held[p][out] \div MaxOutRatio
     /\ result <= held[p][in] \div MaxInRatio
     /\ IF FeeAsset(p) = out
        THEN amount + fee < held[p][out] /\ ExecuteTrade(p, in, out, result, amount, fee)
        ELSE fee <= result /\ ExecuteTrade(p, in, out, result - fee, amount, fee)

NextRelayBlock ==
  /\ relay < MaxRelayBlock
  /\ relay' = relay + 1
  /\ UNCHANGED <<poolData, feeCollectorWithAsset, lock, held, raised>>

-----------------------------------------------------------------------------
LBPInit ==
  /\ poolData = [p \in Pairs |-> None]
  /\ feeCollectorWithAsset = {}
  /\ lock = [account \in Collectors \X Tokens |-> 0]
  /\ held = [p \in Pairs |-> [a \in Tokens |-> 0]]
  /\ raised = [p \in Pairs |-> 0]
  /\ relay = 0 /\ steps = 0

LBPCall ==
  \/ \E new \in NewPools : CreatePool(new)
  \/ \E who \in Owners, p \in Pairs, new \in Updates : UpdatePoolData(who, p, new)
  \/ \E who \in Owners, p \in Pairs : \E x \in [p -> TradeAmounts \cup {0}] : AddLiquidity(who, p, x)
  \/ \E who \in Owners, p \in Pairs : RemoveLiquidity(who, p)
  \/ \E p \in Pairs, a \in Tokens, x, r \in TradeAmounts : Sell(p, a, x, r) \/ Buy(p, a, x, r)

LBPNext ==
  \/ LBPCall /\ steps < MaxSteps /\ steps' = steps + 1
  \/ NextRelayBlock /\ UNCHANGED steps

-----------------------------------------------------------------------------
\* The pairs in use are the pools', each of one pool: no two sales share a collector in the same asset.
CollectorsMatchPools ==
  /\ feeCollectorWithAsset = {Account(p) : p \in Live}
  /\ \A p, q \in Live : Account(p) = Account(q) => p = q

\* The lock of a collector is what its pool raised; whoever collects for no pool has nothing locked.
LocksMatchSales ==
  \A account \in Collectors \X Tokens :
    LET mine == {p \in Live : Account(p) = account}
    IN IF mine = {} THEN lock[account] = 0 ELSE \A p \in mine : lock[account] = raised[p]

\* The weights run from the initial to the final one and never leave the range between them.
WeightsOnTheLine ==
  \A p \in {q \in Live : IsPoolRunning(poolData[q])} :
    LET pool == poolData[p]
        low == IF pool.initial_weight <= pool.final_weight THEN pool.initial_weight ELSE pool.final_weight
        high == pool.initial_weight + pool.final_weight - low
    IN /\ low <= WeightNow(pool) /\ WeightNow(pool) <= high
       /\ relay = pool.start => WeightNow(pool) = pool.initial_weight
       /\ relay = pool.end => WeightNow(pool) = pool.final_weight

\* From the first to the last block of a sale its pool stays, on unchanged terms.
TermsKept ==
  \A p \in Live :
    poolData[p].start # None /\ poolData[p].start <= relay /\ relay <= poolData[p].end
      => poolData'[p] = poolData[p]
=============================================================================
