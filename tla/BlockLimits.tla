---------------------------- MODULE BlockLimits ----------------------------
(***************************************************************************)
(* The per-block limits of pallet-circuit-breaker, together with the       *)
(* Omnipool reserves they guard.                                           *)
(*                                                                         *)
(* The Omnipool reports every trade and every liquidity change through     *)
(* OmnipoolHookAdapter; the breaker counts it against a limit that it      *)
(* derives, once per block and asset, from the reserve at the first report *)
(* of the block.  An operation whose report fails is rolled back whole, so *)
(* here it is simply not enabled.                                          *)
(***************************************************************************)
EXTENDS Integers, Option

CONSTANTS
  PoolAssets,      \* the assets of the Omnipool other than the hub asset
  HubAsset,        \* the hub asset (LRNA), which the breaker never limits
  HdxAsset,        \* the subpool that receives the protocol fee
  Amounts,         \* the amounts an operation may move
  Fees,            \* the fee amounts that may leave the pool with a trade
  Ratios,          \* the (numerator, denominator) pairs governance may set
  DefaultTrade,    \* DefaultMaxNetTradeVolumeLimitPerBlock
  DefaultAdd,      \* DefaultMaxAddLiquidityLimitPerBlock
  DefaultRemove,   \* DefaultMaxRemoveLiquidityLimitPerBlock
  MaxLimitValue,   \* MAX_LIMIT_VALUE
  MaxBalance,      \* the largest value of the Balance type
  InitialReserve   \* the reserve of every pool asset in the first block

Balance == 0 .. MaxBalance

ASSUME AssetsAssumption ==
  HdxAsset \in PoolAssets /\ HubAsset \notin PoolAssets

ASSUME BalanceAssumption ==
  /\ MaxBalance \in Nat
  /\ InitialReserve \in Balance
  /\ Amounts \subseteq Balance /\ Fees \subseteq Balance

ASSUME RatioAssumption ==
  /\ Ratios \subseteq Nat \X Nat
  /\ MaxLimitValue \in Nat
  /\ DefaultTrade \in (1 .. MaxLimitValue) \X (1 .. MaxLimitValue)
  /\ {DefaultAdd, DefaultRemove} \subseteq
       ((1 .. MaxLimitValue) \X (1 .. MaxLimitValue)) \cup {None}

TradeVolumeLimit == [volume_in : Balance, volume_out : Balance, limit : Balance]
LiquidityLimit == [liquidity : Balance, limit : Balance]
ValidRatios == (1 .. MaxLimitValue) \X (1 .. MaxLimitValue)

ASSUME NoneAssumption ==
  None \notin ValidRatios \cup TradeVolumeLimit \cup LiquidityLimit

VARIABLES
  reserve,                        \* the pool account's balance of each asset
  tradeVolumeLimitPerAsset,       \* configuration: a ratio
  liquidityAddLimitPerAsset,      \* configuration: a ratio or None
  liquidityRemoveLimitPerAsset,   \* configuration: a ratio or None
  allowedTradeVolumeLimit,        \* this block: a TradeVolumeLimit or None
  allowedAddLiquidity,            \* this block: a LiquidityLimit or None
  allowedRemoveLiquidity,         \* this block: a LiquidityLimit or None
  (* history variables *)
  blockStart,                     \* the reserves when the block began
  unlimited                       \* net change of this block no limit covers

config == <<tradeVolumeLimitPerAsset, liquidityAddLimitPerAsset,
            liquidityRemoveLimitPerAsset>>
counters == <<allowedTradeVolumeLimit, allowedAddLiquidity,
              allowedRemoveLiquidity>>
vars == <<reserve, config, counters, blockStart, unlimited>>

-----------------------------------------------------------------------------
(* Computing and checking a limit.                                         *)

(* calculate_limit fails when the product does not fit a Balance.          *)
LimitFits(liquidity, ratio) == liquidity * ratio[1] <= MaxBalance
CalculateLimit(liquidity, ratio) == (liquidity * ratio[1]) \div ratio[2]

(* Mutant: the outflow is not checked.                                     *)
CheckInfluxOnly(range) == range.volume_in - range.volume_out <= range.limit

(* check_outflow_limit and check_influx_limit.                             *)
CheckLimits(range) ==
  /\ range.volume_out - range.volume_in <= range.limit
  /\ range.volume_in - range.volume_out <= range.limit

(* initialize_trade_limit: what is stored for asset a, from its reserve.   *)
InitializeTradeLimit(a, initialReserve) ==
  IF allowedTradeVolumeLimit[a] = None
  THEN [volume_in |-> 0, volume_out |-> 0,
        limit |-> CalculateLimit(initialReserve, tradeVolumeLimitPerAsset[a])]
  ELSE allowedTradeVolumeLimit[a]

CanInitializeTradeLimit(a, initialReserve) ==
  allowedTradeVolumeLimit[a] = None =>
    LimitFits(initialReserve, tradeVolumeLimitPerAsset[a])

(* Mutant: the amounts of the last trade replace those of the block.       *)
OverwriteAmounts(range, amountIn, amountOut) ==
  [range EXCEPT !.volume_in = amountIn, !.volume_out = amountOut]

(* update_amounts: the additions are checked.                              *)
UpdateAmounts(range, amountIn, amountOut) ==
  [range EXCEPT !.volume_in = @ + amountIn, !.volume_out = @ + amountOut]

AmountsFit(range) ==
  range.volume_in <= MaxBalance /\ range.volume_out <= MaxBalance

(* A liquidity limit is stored when one is configured and none is stored.  *)
StoredLiquidityLimit(stored, ratio, initialLiquidity) ==
  IF ratio # None /\ stored = None
  THEN [liquidity |-> 0, limit |-> CalculateLimit(initialLiquidity, ratio)]
  ELSE stored

CanStoreLiquidityLimit(stored, ratio, initialLiquidity) ==
  (ratio # None /\ stored = None) => LimitFits(initialLiquidity, ratio)

(* update_amount followed by check_limit.                                  *)
UpdateAmount(stored, amount) == [stored EXCEPT !.liquidity = @ + amount]
CheckLimit(stored) ==
  stored.liquidity <= MaxBalance /\ stored.liquidity <= stored.limit

-----------------------------------------------------------------------------
Init ==
  /\ reserve = [a \in PoolAssets |-> InitialReserve]
  /\ tradeVolumeLimitPerAsset = [a \in PoolAssets |-> DefaultTrade]
  /\ liquidityAddLimitPerAsset = [a \in PoolAssets |-> DefaultAdd]
  /\ liquidityRemoveLimitPerAsset = [a \in PoolAssets |-> DefaultRemove]
  /\ allowedTradeVolumeLimit = [a \in PoolAssets |-> None]
  /\ allowedAddLiquidity = [a \in PoolAssets |-> None]
  /\ allowedRemoveLiquidity = [a \in PoolAssets |-> None]
  /\ blockStart = reserve
  /\ unlimited = [a \in PoolAssets |-> 0]

(***************************************************************************)
(* sell or buy of one pool asset for another.  Part of the asset fee       *)
(* leaves the pool through on_trade_fee before the trade is reported and   *)
(* is not part of the reported volume.  When some of the protocol fee is   *)
(* left over, it goes to the HDX subpool, which reports a zero trade of    *)
(* HDX and so stores a limit for it.                                       *)
(***************************************************************************)
Trade(assetIn, amountIn, assetOut, amountOut, takenFee, hdxFee) ==
  LET in  == UpdateAmounts(InitializeTradeLimit(assetIn, reserve[assetIn]),
                           amountIn, 0)
      out == UpdateAmounts(InitializeTradeLimit(assetOut, reserve[assetOut]),
                           0, amountOut)
      reported == [allowedTradeVolumeLimit EXCEPT ![assetIn] = in,
                                                  ![assetOut] = out]
      hdx == InitializeTradeLimit(HdxAsset, reserve[HdxAsset])
  IN
  /\ assetIn # assetOut
  /\ amountOut + takenFee <= reserve[assetOut]
  /\ reserve[assetIn] + amountIn <= MaxBalance
  /\ CanInitializeTradeLimit(assetIn, reserve[assetIn])
  /\ CanInitializeTradeLimit(assetOut, reserve[assetOut])
  /\ AmountsFit(in) /\ CheckLimits(in)
  /\ AmountsFit(out) /\ CheckLimits(out)
  /\ reserve' = [reserve EXCEPT ![assetIn] = @ + amountIn,
                                ![assetOut] = @ - amountOut - takenFee]
  /\ unlimited' = [unlimited EXCEPT ![assetOut] = @ - takenFee]
  /\ IF hdxFee /\ HdxAsset \notin {assetIn, assetOut}
     THEN /\ CanInitializeTradeLimit(HdxAsset, reserve[HdxAsset])
          /\ allowedTradeVolumeLimit' = [reported EXCEPT ![HdxAsset] = hdx]
     ELSE allowedTradeVolumeLimit' = reported
  /\ UNCHANGED <<config, allowedAddLiquidity, allowedRemoveLiquidity,
                 blockStart>>

(* A trade that sells the hub asset: on_hub_asset_trade.                   *)
HubAssetTrade(assetOut, amountOut, takenFee) ==
  LET out == UpdateAmounts(InitializeTradeLimit(assetOut, reserve[assetOut]),
                           0, amountOut)
  IN
  /\ amountOut + takenFee <= reserve[assetOut]
  /\ CanInitializeTradeLimit(assetOut, reserve[assetOut])
  /\ AmountsFit(out) /\ CheckLimits(out)
  /\ reserve' = [reserve EXCEPT ![assetOut] = @ - amountOut - takenFee]
  /\ unlimited' = [unlimited EXCEPT ![assetOut] = @ - takenFee]
  /\ allowedTradeVolumeLimit' = [allowedTradeVolumeLimit EXCEPT ![assetOut] = out]
  /\ UNCHANGED <<config, allowedAddLiquidity, allowedRemoveLiquidity,
                 blockStart>>

(***************************************************************************)
(* on_liquidity_changed.  The treasury (the whitelisted account), root, a  *)
(* safe withdrawal (trading disabled) and withdraw_protocol_liquidity are  *)
(* exempt: the breaker returns before it stores or counts anything.        *)
(***************************************************************************)
StoreLiquidityLimits(a) ==
  /\ CanStoreLiquidityLimit(allowedAddLiquidity[a],
                            liquidityAddLimitPerAsset[a], reserve[a])
  /\ CanStoreLiquidityLimit(allowedRemoveLiquidity[a],
                            liquidityRemoveLimitPerAsset[a], reserve[a])

StoredAdd(a) == StoredLiquidityLimit(allowedAddLiquidity[a],
                                     liquidityAddLimitPerAsset[a], reserve[a])
StoredRemove(a) == StoredLiquidityLimit(allowedRemoveLiquidity[a],
                                        liquidityRemoveLimitPerAsset[a], reserve[a])

(* What ensure_and_update_{add,remove}_liquidity_limit leaves stored.      *)
Counted(stored, ratio, amount) ==
  IF ratio # None THEN UpdateAmount(stored, amount) ELSE stored

AddLiquidity(a, amount) ==
  LET added == Counted(StoredAdd(a), liquidityAddLimitPerAsset[a], amount)
  IN
  /\ reserve[a] + amount <= MaxBalance
  /\ StoreLiquidityLimits(a)
  /\ liquidityAddLimitPerAsset[a] # None => CheckLimit(added)
  /\ reserve' = [reserve EXCEPT ![a] = @ + amount]
  /\ allowedAddLiquidity' = [allowedAddLiquidity EXCEPT ![a] = added]
  /\ allowedRemoveLiquidity' = [allowedRemoveLiquidity EXCEPT ![a] = StoredRemove(a)]
  /\ unlimited' = IF liquidityAddLimitPerAsset[a] = None
                  THEN [unlimited EXCEPT ![a] = @ + amount] ELSE unlimited
  /\ UNCHANGED <<config, allowedTradeVolumeLimit, blockStart>>

RemoveLiquidity(a, amount) ==
  LET removed == Counted(StoredRemove(a), liquidityRemoveLimitPerAsset[a], amount)
  IN
  /\ amount <= reserve[a]
  /\ StoreLiquidityLimits(a)
  /\ liquidityRemoveLimitPerAsset[a] # None => CheckLimit(removed)
  /\ reserve' = [reserve EXCEPT ![a] = @ - amount]
  /\ allowedRemoveLiquidity' = [allowedRemoveLiquidity EXCEPT ![a] = removed]
  /\ allowedAddLiquidity' = [allowedAddLiquidity EXCEPT ![a] = StoredAdd(a)]
  /\ unlimited' = IF liquidityRemoveLimitPerAsset[a] = None
                  THEN [unlimited EXCEPT ![a] = @ - amount] ELSE unlimited
  /\ UNCHANGED <<config, allowedTradeVolumeLimit, blockStart>>

ExemptLiquidityChange(a, delta) ==
  /\ reserve[a] + delta \in Balance
  /\ reserve' = [reserve EXCEPT ![a] = @ + delta]
  /\ unlimited' = [unlimited EXCEPT ![a] = @ + delta]
  /\ UNCHANGED <<config, counters, blockStart>>

-----------------------------------------------------------------------------
(* Governance: validate_limit, then the configuration of one asset.        *)

ValidateLimit(ratio) ==
  /\ ratio[1] \in 1 .. MaxLimitValue
  /\ ratio[2] \in 1 .. MaxLimitValue

SetTradeVolumeLimit(a, ratio) ==
  /\ ValidateLimit(ratio)
  /\ tradeVolumeLimitPerAsset' = [tradeVolumeLimitPerAsset EXCEPT ![a] = ratio]
  /\ UNCHANGED <<reserve, liquidityAddLimitPerAsset,
                 liquidityRemoveLimitPerAsset, counters, blockStart, unlimited>>

SetAddLiquidityLimit(a, ratio) ==
  /\ ratio # None => ValidateLimit(ratio)
  /\ liquidityAddLimitPerAsset' = [liquidityAddLimitPerAsset EXCEPT ![a] = ratio]
  /\ UNCHANGED <<reserve, tradeVolumeLimitPerAsset,
                 liquidityRemoveLimitPerAsset, counters, blockStart, unlimited>>

SetRemoveLiquidityLimit(a, ratio) ==
  /\ ratio # None => ValidateLimit(ratio)
  /\ liquidityRemoveLimitPerAsset' =
       [liquidityRemoveLimitPerAsset EXCEPT ![a] = ratio]
  /\ UNCHANGED <<reserve, tradeVolumeLimitPerAsset,
                 liquidityAddLimitPerAsset, counters, blockStart, unlimited>>

(* on_finalize clears every counter; the next block starts from there.     *)
OnFinalize ==
  /\ allowedTradeVolumeLimit' = [a \in PoolAssets |-> None]
  /\ allowedAddLiquidity' = [a \in PoolAssets |-> None]
  /\ allowedRemoveLiquidity' = [a \in PoolAssets |-> None]
  /\ blockStart' = reserve
  /\ unlimited' = [a \in PoolAssets |-> 0]
  /\ UNCHANGED <<reserve, config>>

Next ==
  \/ \E a, b \in PoolAssets, x, y \in Amounts, fee \in Fees, h \in BOOLEAN :
       Trade(a, x, b, y, fee, h)
  \/ \E a \in PoolAssets, x \in Amounts, fee \in Fees : HubAssetTrade(a, x, fee)
  \/ \E a \in PoolAssets, x \in Amounts : AddLiquidity(a, x)
  \/ \E a \in PoolAssets, x \in Amounts : RemoveLiquidity(a, x)
  \/ \E a \in PoolAssets, x \in Amounts :
       ExemptLiquidityChange(a, x) \/ ExemptLiquidityChange(a, 0 - x)
  \/ \E a \in PoolAssets, r \in Ratios : SetTradeVolumeLimit(a, r)
  \/ \E a \in PoolAssets, r \in Ratios \cup {None} : SetAddLiquidityLimit(a, r)
  \/ \E a \in PoolAssets, r \in Ratios \cup {None} : SetRemoveLiquidityLimit(a, r)
  \/ OnFinalize

Spec == Init /\ [][Next]_vars

-----------------------------------------------------------------------------
TypeOK ==
  /\ reserve \in [PoolAssets -> Balance]
  /\ tradeVolumeLimitPerAsset \in [PoolAssets -> ValidRatios]
  /\ liquidityAddLimitPerAsset \in [PoolAssets -> ValidRatios \cup {None}]
  /\ liquidityRemoveLimitPerAsset \in [PoolAssets -> ValidRatios \cup {None}]
  /\ allowedTradeVolumeLimit \in [PoolAssets -> TradeVolumeLimit \cup {None}]
  /\ allowedAddLiquidity \in [PoolAssets -> LiquidityLimit \cup {None}]
  /\ allowedRemoveLiquidity \in [PoolAssets -> LiquidityLimit \cup {None}]
  /\ blockStart \in [PoolAssets -> Balance]
  /\ unlimited \in [PoolAssets -> Int]

(* The stored net trade volume and the stored liquidity of an asset.       *)
NetVolume(a) == IF allowedTradeVolumeLimit[a] = None THEN 0
                ELSE allowedTradeVolumeLimit[a].volume_in
                       - allowedTradeVolumeLimit[a].volume_out
Liquidity(stored) == IF stored = None THEN 0 ELSE stored.liquidity
LimitOf(stored) == IF stored = None THEN 0 ELSE stored.limit

(***************************************************************************)
(* Every unit the pool of an asset gained or lost in this block is counted *)
(* by exactly one of the breaker's counters, unless the operation was      *)
(* exempt: the counters of ensure_pool_state_change_limit and              *)
(* ensure_{add,remove}_liquidity_limit account for the reserve.            *)
(***************************************************************************)
CountersExplainReserve ==
  \A a \in PoolAssets :
    reserve[a] = blockStart[a] + NetVolume(a) + Liquidity(allowedAddLiquidity[a])
                   - Liquidity(allowedRemoveLiquidity[a]) + unlimited[a]

(***************************************************************************)
(* Whatever the order of the trades, additions, removals and configuration *)
(* changes of a block, they move a reserve away from its value at the      *)
(* start of the block by no more than the limits stored for the asset.     *)
(***************************************************************************)
ReserveWithinEnvelope ==
  \A a \in PoolAssets :
    LET moved == reserve[a] - blockStart[a] - unlimited[a]
        trade == LimitOf(allowedTradeVolumeLimit[a])
    IN /\ moved <= trade + LimitOf(allowedAddLiquidity[a])
       /\ 0 - moved <= trade + LimitOf(allowedRemoveLiquidity[a])
=============================================================================
