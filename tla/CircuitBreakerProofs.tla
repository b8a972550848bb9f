------------------------- MODULE CircuitBreakerProofs -------------------------
(***************************************************************************)
(* Proofs about BlockLimits for every set of assets, every ratio and every *)
(* width of the Balance type, and about DepositFuse for every period, set  *)
(* of accounts and set of limits.                                          *)
(***************************************************************************)
EXTENDS BlockLimits, DepositFuse, SumTheorems, TLAPS

(***************************************************************************)
(* What the checks of the breaker establish for a stored entry.            *)
(***************************************************************************)
LimitsRespected ==
  \A a \in PoolAssets :
    /\ allowedTradeVolumeLimit[a] # None => CheckLimits(allowedTradeVolumeLimit[a])
    /\ allowedAddLiquidity[a] # None => CheckLimit(allowedAddLiquidity[a])
    /\ allowedRemoveLiquidity[a] # None => CheckLimit(allowedRemoveLiquidity[a])

(* CountersExplainReserve alone does not bound anything and                *)
(* ReserveWithinEnvelope alone is not inductive: the induction needs the   *)
(* counters and the limits they were checked against.                      *)
IInv == TypeOK /\ CountersExplainReserve /\ LimitsRespected

-----------------------------------------------------------------------------
(* A quotient by a positive divisor is a natural number no larger than the *)
(* dividend.                                                               *)
LEMMA QuotientBound ==
  ASSUME NEW x \in Nat, NEW d \in Nat, d >= 1
  PROVE  x \div d \in 0 .. x
  OBVIOUS

(* calculate_limit returns a Balance whenever its product fits one.        *)
LEMMA LimitIsBalance ==
  ASSUME NEW liquidity \in Balance, NEW ratio \in ValidRatios,
         LimitFits(liquidity, ratio)
  PROVE  CalculateLimit(liquidity, ratio) \in Balance
  <1>1. ratio[1] \in Nat /\ ratio[2] \in Nat /\ ratio[2] >= 1
    BY RatioAssumption DEF ValidRatios
  <1>2. liquidity * ratio[1] \in Nat
    BY <1>1, BalanceAssumption DEF Balance
  <1>3. (liquidity * ratio[1]) \div ratio[2] \in 0 .. (liquidity * ratio[1])
    BY <1>1, <1>2, QuotientBound
  <1> QED
    BY <1>2, <1>3, BalanceAssumption DEF LimitFits, CalculateLimit, Balance

-----------------------------------------------------------------------------
(* initialize_trade_limit leaves a well-formed entry within its limit, and *)
(* does not change the net volume of the asset.                            *)
LEMMA InitializedTradeLimit ==
  ASSUME IInv, NEW a \in PoolAssets, CanInitializeTradeLimit(a, reserve[a])
  PROVE  LET range == InitializeTradeLimit(a, reserve[a])
         IN /\ range \in TradeVolumeLimit
            /\ CheckLimits(range)
            /\ range.volume_in - range.volume_out = NetVolume(a)
  <1>1. CASE allowedTradeVolumeLimit[a] = None
    <2>1. CalculateLimit(reserve[a], tradeVolumeLimitPerAsset[a]) \in Balance
      BY <1>1, LimitIsBalance DEF IInv, TypeOK, CanInitializeTradeLimit
    <2> QED
      BY <1>1, <2>1, BalanceAssumption
      DEF InitializeTradeLimit, TradeVolumeLimit, CheckLimits, NetVolume, Balance
  <1>2. CASE allowedTradeVolumeLimit[a] # None
    BY <1>2 DEF IInv, TypeOK, LimitsRespected, InitializeTradeLimit, NetVolume
  <1> QED
    BY <1>1, <1>2

(* The same for a liquidity limit.                                         *)
LEMMA StoredLimit ==
  ASSUME NEW stored \in LiquidityLimit \cup {None},
         stored # None => CheckLimit(stored),
         NEW ratio \in ValidRatios \cup {None},
         NEW liquidity \in Balance,
         CanStoreLiquidityLimit(stored, ratio, liquidity)
  PROVE  LET next == StoredLiquidityLimit(stored, ratio, liquidity)
         IN /\ next \in LiquidityLimit \cup {None}
            /\ next # None => CheckLimit(next)
            /\ Liquidity(next) = Liquidity(stored)
            /\ ratio # None => next # None
  <1>1. CASE ratio # None /\ stored = None
    <2>1. CalculateLimit(liquidity, ratio) \in Balance
      BY <1>1, LimitIsBalance DEF CanStoreLiquidityLimit
    <2>2. [liquidity |-> 0, limit |-> CalculateLimit(liquidity, ratio)] \in LiquidityLimit
      BY <2>1, BalanceAssumption DEF LiquidityLimit, Balance
    <2>3. [liquidity |-> 0, limit |-> CalculateLimit(liquidity, ratio)] # None
      BY <2>2, NoneAssumption
    <2> QED
      BY <1>1, <2>1, <2>2, <2>3, BalanceAssumption
      DEF StoredLiquidityLimit, LiquidityLimit, CheckLimit, Liquidity, Balance
  <1>2. CASE ~(ratio # None /\ stored = None)
    BY <1>2 DEF StoredLiquidityLimit
  <1> QED
    BY <1>1, <1>2

-----------------------------------------------------------------------------
(* The first block begins without limits and without counters.             *)
LEMMA InitIInv == Init => IInv
  BY BalanceAssumption, RatioAssumption
  DEF Init, IInv, TypeOK, CountersExplainReserve, LimitsRespected,
      NetVolume, Liquidity, Balance, ValidRatios

(* Counting a trade of asset a in its entry: the new entry is well formed, *)
(* and its net volume moves by what the trade moved.                       *)
LEMMA UpdatedTradeLimit ==
  ASSUME NEW range \in TradeVolumeLimit,
         NEW amountIn \in Balance, NEW amountOut \in Balance,
         AmountsFit(UpdateAmounts(range, amountIn, amountOut))
  PROVE  LET next == UpdateAmounts(range, amountIn, amountOut)
         IN /\ next \in TradeVolumeLimit
            /\ next # None
            /\ next.volume_in - next.volume_out =
                 range.volume_in - range.volume_out + amountIn - amountOut
  <1>1. UpdateAmounts(range, amountIn, amountOut) \in TradeVolumeLimit
    <2>1. range.volume_in + amountIn \in Balance
      BY BalanceAssumption DEF UpdateAmounts, AmountsFit, TradeVolumeLimit, Balance
    <2>2. range.volume_out + amountOut \in Balance
      BY BalanceAssumption DEF UpdateAmounts, AmountsFit, TradeVolumeLimit, Balance
    <2> QED
      BY <2>1, <2>2, Zenon DEF UpdateAmounts, TradeVolumeLimit
  <1>2. UpdateAmounts(range, amountIn, amountOut) # None
    BY <1>1, NoneAssumption
  <1> QED
    BY <1>1, <1>2, BalanceAssumption DEF UpdateAmounts, TradeVolumeLimit, Balance

(* A trade of two pool assets: both reports are counted, and the reserves  *)
(* move by what was counted.                                               *)
LEMMA TradeIInv ==
  ASSUME IInv, NEW a \in PoolAssets, NEW b \in PoolAssets,
         NEW x \in Amounts, NEW y \in Amounts, NEW fee \in Fees, NEW h \in BOOLEAN,
         Trade(a, x, b, y, fee, h)
  PROVE  IInv'
  <1> DEFINE in  == UpdateAmounts(InitializeTradeLimit(a, reserve[a]), x, 0)
             out == UpdateAmounts(InitializeTradeLimit(b, reserve[b]), 0, y)
             hdx == InitializeTradeLimit(HdxAsset, reserve[HdxAsset])
  <1>1. x \in Balance /\ y \in Balance /\ fee \in Balance /\ 0 \in Balance
    BY BalanceAssumption DEF Balance
  <1>2. /\ in \in TradeVolumeLimit /\ in # None /\ CheckLimits(in)
        /\ in.volume_in - in.volume_out = NetVolume(a) + x
    <2>1. /\ InitializeTradeLimit(a, reserve[a]) \in TradeVolumeLimit
          /\ InitializeTradeLimit(a, reserve[a]).volume_in
               - InitializeTradeLimit(a, reserve[a]).volume_out = NetVolume(a)
      BY InitializedTradeLimit DEF Trade
    <2>2. AmountsFit(in) /\ CheckLimits(in)
      BY DEF Trade
    <2> QED
      BY <1>1, <2>1, <2>2, UpdatedTradeLimit DEF TradeVolumeLimit, Balance
  <1>3. /\ out \in TradeVolumeLimit /\ out # None /\ CheckLimits(out)
        /\ out.volume_in - out.volume_out = NetVolume(b) - y
    <2>1. /\ InitializeTradeLimit(b, reserve[b]) \in TradeVolumeLimit
          /\ InitializeTradeLimit(b, reserve[b]).volume_in
               - InitializeTradeLimit(b, reserve[b]).volume_out = NetVolume(b)
      BY InitializedTradeLimit DEF Trade
    <2>2. AmountsFit(out) /\ CheckLimits(out)
      BY DEF Trade
    <2> QED
      BY <1>1, <2>1, <2>2, UpdatedTradeLimit DEF TradeVolumeLimit, Balance
  <1>4. CanInitializeTradeLimit(HdxAsset, reserve[HdxAsset]) =>
          /\ hdx \in TradeVolumeLimit /\ hdx # None /\ CheckLimits(hdx)
          /\ hdx.volume_in - hdx.volume_out = NetVolume(HdxAsset)
    BY InitializedTradeLimit, AssetsAssumption, NoneAssumption
  <1> HIDE DEF in, out, hdx
  <1>5. /\ a # b
        /\ y + fee <= reserve[b] /\ reserve[a] + x <= MaxBalance
        /\ reserve' = [reserve EXCEPT ![a] = @ + x, ![b] = @ - y - fee]
        /\ unlimited' = [unlimited EXCEPT ![b] = @ - fee]
        /\ UNCHANGED <<config, allowedAddLiquidity, allowedRemoveLiquidity, blockStart>>
    BY DEF Trade
  <1>6. \/ allowedTradeVolumeLimit' =
             [allowedTradeVolumeLimit EXCEPT ![a] = in, ![b] = out]
        \/ /\ HdxAsset \notin {a, b}
           /\ CanInitializeTradeLimit(HdxAsset, reserve[HdxAsset])
           /\ allowedTradeVolumeLimit' =
                [allowedTradeVolumeLimit EXCEPT ![a] = in, ![b] = out,
                                                ![HdxAsset] = hdx]
    BY DEF Trade, in, out, hdx
  <1>7. TypeOK'
    BY <1>1, <1>2, <1>3, <1>4, <1>5, <1>6, BalanceAssumption
    DEF IInv, TypeOK, Balance, config
  <1>8. LimitsRespected'
    BY <1>2, <1>3, <1>4, <1>5, <1>6 DEF IInv, TypeOK, LimitsRespected
  <1>9. CountersExplainReserve'
    BY <1>1, <1>2, <1>3, <1>4, <1>5, <1>6, BalanceAssumption
    DEF IInv, TypeOK, CountersExplainReserve, NetVolume, Balance,
        TradeVolumeLimit, LiquidityLimit, Liquidity
  <1> QED
    BY <1>7, <1>8, <1>9 DEF IInv

(* A trade of the hub asset reports one pool asset only; the hub asset     *)
(* itself is never limited.                                                *)
LEMMA HubAssetTradeIInv ==
  ASSUME IInv, NEW b \in PoolAssets, NEW y \in Amounts, NEW fee \in Fees,
         HubAssetTrade(b, y, fee)
  PROVE  IInv'
  <1> DEFINE out == UpdateAmounts(InitializeTradeLimit(b, reserve[b]), 0, y)
  <1>1. y \in Balance /\ fee \in Balance /\ 0 \in Balance
    BY BalanceAssumption DEF Balance
  <1>2. /\ out \in TradeVolumeLimit /\ out # None /\ CheckLimits(out)
        /\ out.volume_in - out.volume_out = NetVolume(b) - y
    <2>1. /\ InitializeTradeLimit(b, reserve[b]) \in TradeVolumeLimit
          /\ InitializeTradeLimit(b, reserve[b]).volume_in
               - InitializeTradeLimit(b, reserve[b]).volume_out = NetVolume(b)
      BY InitializedTradeLimit DEF HubAssetTrade
    <2>2. AmountsFit(out) /\ CheckLimits(out)
      BY DEF HubAssetTrade
    <2> QED
      BY <1>1, <2>1, <2>2, UpdatedTradeLimit DEF TradeVolumeLimit, Balance
  <1>3. /\ y + fee <= reserve[b]
        /\ reserve' = [reserve EXCEPT ![b] = @ - y - fee]
        /\ unlimited' = [unlimited EXCEPT ![b] = @ - fee]
        /\ allowedTradeVolumeLimit' = [allowedTradeVolumeLimit EXCEPT ![b] = out]
        /\ UNCHANGED <<config, allowedAddLiquidity, allowedRemoveLiquidity, blockStart>>
    BY DEF HubAssetTrade
  <1> HIDE DEF out
  <1>4. TypeOK'
    BY <1>1, <1>2, <1>3, BalanceAssumption DEF IInv, TypeOK, Balance, config
  <1>5. LimitsRespected'
    BY <1>2, <1>3 DEF IInv, TypeOK, LimitsRespected
  <1>6. CountersExplainReserve'
    <2> SUFFICES ASSUME NEW c \in PoolAssets
                 PROVE  (reserve[c] = blockStart[c] + NetVolume(c)
                           + Liquidity(allowedAddLiquidity[c])
                           - Liquidity(allowedRemoveLiquidity[c]) + unlimited[c])'
      BY DEF CountersExplainReserve
    <2>1. reserve[c] = blockStart[c] + NetVolume(c)
                         + Liquidity(allowedAddLiquidity[c])
                         - Liquidity(allowedRemoveLiquidity[c]) + unlimited[c]
      BY DEF IInv, CountersExplainReserve
    <2>2. NetVolume(c)' = IF c = b THEN NetVolume(c) - y ELSE NetVolume(c)
      BY <1>2, <1>3 DEF IInv, TypeOK, NetVolume
    <2>3. /\ NetVolume(c) \in Int
          /\ Liquidity(allowedAddLiquidity[c]) \in Int
          /\ Liquidity(allowedRemoveLiquidity[c]) \in Int
      BY DEF IInv, TypeOK, NetVolume, Liquidity, TradeVolumeLimit, LiquidityLimit, Balance
    <2> QED
      BY <1>1, <1>3, <2>1, <2>2, <2>3, BalanceAssumption
      DEF IInv, TypeOK, Balance
  <1> QED
    BY <1>4, <1>5, <1>6 DEF IInv

-----------------------------------------------------------------------------
(* Counting an amount in a stored liquidity limit.                         *)
LEMMA CountedLimit ==
  ASSUME NEW stored \in LiquidityLimit \cup {None}, NEW amount \in Balance,
         stored # None => CheckLimit(stored),
         NEW ratio, ratio # None => stored # None,
         ratio # None => CheckLimit(Counted(stored, ratio, amount))
  PROVE  LET next == Counted(stored, ratio, amount)
         IN /\ next \in LiquidityLimit \cup {None}
            /\ next # None => CheckLimit(next)
            /\ ratio # None => Liquidity(next) = Liquidity(stored) + amount
            /\ ratio = None => Liquidity(next) = Liquidity(stored)
  <1>1. CASE ratio # None
    <2>1. Counted(stored, ratio, amount) = [stored EXCEPT !.liquidity = @ + amount]
      BY <1>1 DEF Counted, UpdateAmount
    <2>2. stored \in LiquidityLimit
      BY <1>1
    <2>3. stored.liquidity + amount \in Balance
      BY <1>1, <2>1, <2>2, BalanceAssumption DEF CheckLimit, LiquidityLimit, Balance
    <2>4. Counted(stored, ratio, amount) \in LiquidityLimit
      BY <2>1, <2>2, <2>3 DEF LiquidityLimit
    <2>5. Counted(stored, ratio, amount) # None
      BY <2>4, NoneAssumption
    <2> QED
      BY <1>1, <2>1, <2>2, <2>4, <2>5 DEF Liquidity, LiquidityLimit
  <1>2. CASE ratio = None
    BY <1>2 DEF Counted
  <1> QED
    BY <1>1, <1>2

(* Storing the limits of both directions at a liquidity change leaves the  *)
(* invariant's account of the reserve as it is.                            *)
LEMMA StoredLimits ==
  ASSUME IInv, NEW a \in PoolAssets, StoreLiquidityLimits(a)
  PROVE  /\ StoredAdd(a) \in LiquidityLimit \cup {None}
         /\ StoredAdd(a) # None => CheckLimit(StoredAdd(a))
         /\ Liquidity(StoredAdd(a)) = Liquidity(allowedAddLiquidity[a])
         /\ liquidityAddLimitPerAsset[a] # None => StoredAdd(a) # None
         /\ StoredRemove(a) \in LiquidityLimit \cup {None}
         /\ StoredRemove(a) # None => CheckLimit(StoredRemove(a))
         /\ Liquidity(StoredRemove(a)) = Liquidity(allowedRemoveLiquidity[a])
         /\ liquidityRemoveLimitPerAsset[a] # None => StoredRemove(a) # None
  <1>1. /\ allowedAddLiquidity[a] \in LiquidityLimit \cup {None}
        /\ allowedAddLiquidity[a] # None => CheckLimit(allowedAddLiquidity[a])
        /\ liquidityAddLimitPerAsset[a] \in ValidRatios \cup {None}
        /\ allowedRemoveLiquidity[a] \in LiquidityLimit \cup {None}
        /\ allowedRemoveLiquidity[a] # None => CheckLimit(allowedRemoveLiquidity[a])
        /\ liquidityRemoveLimitPerAsset[a] \in ValidRatios \cup {None}
        /\ reserve[a] \in Balance
    BY DEF IInv, TypeOK, LimitsRespected
  <1> QED
    BY <1>1, StoredLimit, Zenon DEF StoreLiquidityLimits, StoredAdd, StoredRemove

(* Adding liquidity counts the amount before the reserve changes.          *)
LEMMA AddLiquidityIInv ==
  ASSUME IInv, NEW a \in PoolAssets, NEW x \in Amounts, AddLiquidity(a, x)
  PROVE  IInv'
  <1> DEFINE added == Counted(StoredAdd(a), liquidityAddLimitPerAsset[a], x)
             removed == StoredRemove(a)
  <1>1. x \in Balance
    BY BalanceAssumption
  <1>2. /\ reserve[a] + x <= MaxBalance
        /\ StoreLiquidityLimits(a)
        /\ liquidityAddLimitPerAsset[a] # None => CheckLimit(added)
        /\ reserve' = [reserve EXCEPT ![a] = @ + x]
        /\ allowedAddLiquidity' = [allowedAddLiquidity EXCEPT ![a] = added]
        /\ allowedRemoveLiquidity' = [allowedRemoveLiquidity EXCEPT ![a] = removed]
        /\ unlimited' = IF liquidityAddLimitPerAsset[a] = None
                        THEN [unlimited EXCEPT ![a] = @ + x] ELSE unlimited
        /\ UNCHANGED <<config, allowedTradeVolumeLimit, blockStart>>
    BY DEF AddLiquidity
  <1>3. /\ added \in LiquidityLimit \cup {None}
        /\ added # None => CheckLimit(added)
        /\ liquidityAddLimitPerAsset[a] # None =>
             Liquidity(added) = Liquidity(allowedAddLiquidity[a]) + x
        /\ liquidityAddLimitPerAsset[a] = None =>
             Liquidity(added) = Liquidity(allowedAddLiquidity[a])
    BY <1>1, <1>2, StoredLimits, CountedLimit
  <1>4. /\ removed \in LiquidityLimit \cup {None}
        /\ removed # None => CheckLimit(removed)
        /\ Liquidity(removed) = Liquidity(allowedRemoveLiquidity[a])
    BY <1>2, StoredLimits
  <1> HIDE DEF added, removed
  <1>5. TypeOK'
    BY <1>1, <1>2, <1>3, <1>4, BalanceAssumption DEF IInv, TypeOK, Balance, config
  <1>6. LimitsRespected'
    BY <1>2, <1>3, <1>4 DEF IInv, TypeOK, LimitsRespected
  <1>7. CountersExplainReserve'
    BY <1>1, <1>2, <1>3, <1>4, BalanceAssumption
    DEF IInv, TypeOK, CountersExplainReserve, NetVolume, Balance,
        TradeVolumeLimit, LiquidityLimit, Liquidity
  <1> QED
    BY <1>5, <1>6, <1>7 DEF IInv

(* Removing liquidity counts the amount before the reserve changes.        *)
LEMMA RemoveLiquidityIInv ==
  ASSUME IInv, NEW a \in PoolAssets, NEW x \in Amounts, RemoveLiquidity(a, x)
  PROVE  IInv'
  <1> DEFINE removed == Counted(StoredRemove(a), liquidityRemoveLimitPerAsset[a], x)
             added == StoredAdd(a)
  <1>1. x \in Balance
    BY BalanceAssumption
  <1>2. /\ x <= reserve[a]
        /\ StoreLiquidityLimits(a)
        /\ liquidityRemoveLimitPerAsset[a] # None => CheckLimit(removed)
        /\ reserve' = [reserve EXCEPT ![a] = @ - x]
        /\ allowedRemoveLiquidity' = [allowedRemoveLiquidity EXCEPT ![a] = removed]
        /\ allowedAddLiquidity' = [allowedAddLiquidity EXCEPT ![a] = added]
        /\ unlimited' = IF liquidityRemoveLimitPerAsset[a] = None
                        THEN [unlimited EXCEPT ![a] = @ - x] ELSE unlimited
        /\ UNCHANGED <<config, allowedTradeVolumeLimit, blockStart>>
    BY DEF RemoveLiquidity
  <1>3. /\ removed \in LiquidityLimit \cup {None}
        /\ removed # None => CheckLimit(removed)
        /\ liquidityRemoveLimitPerAsset[a] # None =>
             Liquidity(removed) = Liquidity(allowedRemoveLiquidity[a]) + x
        /\ liquidityRemoveLimitPerAsset[a] = None =>
             Liquidity(removed) = Liquidity(allowedRemoveLiquidity[a])
    BY <1>1, <1>2, StoredLimits, CountedLimit
  <1>4. /\ added \in LiquidityLimit \cup {None}
        /\ added # None => CheckLimit(added)
        /\ Liquidity(added) = Liquidity(allowedAddLiquidity[a])
    BY <1>2, StoredLimits
  <1> HIDE DEF added, removed
  <1>5. TypeOK'
    BY <1>1, <1>2, <1>3, <1>4, BalanceAssumption DEF IInv, TypeOK, Balance, config
  <1>6. LimitsRespected'
    BY <1>2, <1>3, <1>4 DEF IInv, TypeOK, LimitsRespected
  <1>7. CountersExplainReserve'
    BY <1>1, <1>2, <1>3, <1>4, BalanceAssumption
    DEF IInv, TypeOK, CountersExplainReserve, NetVolume, Balance,
        TradeVolumeLimit, LiquidityLimit, Liquidity
  <1> QED
    BY <1>5, <1>6, <1>7 DEF IInv

-----------------------------------------------------------------------------
(* Every call, every limit change and the end of the block keep the        *)
(* invariant.                                                              *)
LEMMA NextIInv == IInv /\ [Next]_vars => IInv'
  <1> SUFFICES ASSUME IInv, [Next]_vars PROVE IInv'
    OBVIOUS
  <1>1. ASSUME NEW a \in PoolAssets, NEW b \in PoolAssets, NEW x \in Amounts,
               NEW y \in Amounts, NEW fee \in Fees, NEW h \in BOOLEAN,
               Trade(a, x, b, y, fee, h)
        PROVE  IInv'
    BY <1>1, TradeIInv
  <1>2. ASSUME NEW a \in PoolAssets, NEW x \in Amounts, NEW fee \in Fees,
               HubAssetTrade(a, x, fee)
        PROVE  IInv'
    BY <1>2, HubAssetTradeIInv
  <1>3. ASSUME NEW a \in PoolAssets, NEW x \in Amounts, AddLiquidity(a, x)
        PROVE  IInv'
    BY <1>3, AddLiquidityIInv
  <1>4. ASSUME NEW a \in PoolAssets, NEW x \in Amounts, RemoveLiquidity(a, x)
        PROVE  IInv'
    BY <1>4, RemoveLiquidityIInv
  <1>5. ASSUME NEW a \in PoolAssets, NEW delta \in Int, ExemptLiquidityChange(a, delta)
        PROVE  IInv'
    <2>1. TypeOK'
      BY <1>5, BalanceAssumption
      DEF ExemptLiquidityChange, IInv, TypeOK, Balance, config, counters
    <2>2. LimitsRespected'
      BY <1>5 DEF ExemptLiquidityChange, IInv, LimitsRespected, counters
    <2>3. CountersExplainReserve'
      BY <1>5, BalanceAssumption
      DEF ExemptLiquidityChange, IInv, TypeOK, CountersExplainReserve, NetVolume,
          Balance, TradeVolumeLimit, LiquidityLimit, Liquidity, counters
    <2> QED
      BY <2>1, <2>2, <2>3 DEF IInv
  <1>6. ASSUME NEW a \in PoolAssets, NEW r \in Ratios, SetTradeVolumeLimit(a, r)
        PROVE  IInv'
    <2>1. r \in ValidRatios
      BY <1>6, RatioAssumption DEF SetTradeVolumeLimit, ValidateLimit, ValidRatios
    <2> QED
      BY <1>6, <2>1
      DEF SetTradeVolumeLimit, IInv, TypeOK, LimitsRespected, CountersExplainReserve,
          NetVolume, counters
  <1>7. ASSUME NEW a \in PoolAssets, NEW r \in Ratios \cup {None},
               SetAddLiquidityLimit(a, r)
        PROVE  IInv'
    <2>1. r \in ValidRatios \cup {None}
      BY <1>7, RatioAssumption DEF SetAddLiquidityLimit, ValidateLimit, ValidRatios
    <2> QED
      BY <1>7, <2>1
      DEF SetAddLiquidityLimit, IInv, TypeOK, LimitsRespected, CountersExplainReserve,
          NetVolume, counters
  <1>8. ASSUME NEW a \in PoolAssets, NEW r \in Ratios \cup {None},
               SetRemoveLiquidityLimit(a, r)
        PROVE  IInv'
    <2>1. r \in ValidRatios \cup {None}
      BY <1>8, RatioAssumption DEF SetRemoveLiquidityLimit, ValidateLimit, ValidRatios
    <2> QED
      BY <1>8, <2>1
      DEF SetRemoveLiquidityLimit, IInv, TypeOK, LimitsRespected,
          CountersExplainReserve, NetVolume, counters
  <1>9. CASE OnFinalize
    BY <1>9, BalanceAssumption
    DEF OnFinalize, IInv, TypeOK, LimitsRespected, CountersExplainReserve,
        NetVolume, Liquidity, Balance, config
  <1>10. CASE UNCHANGED vars
    BY <1>10
    DEF IInv, TypeOK, LimitsRespected, CountersExplainReserve, NetVolume,
        vars, config, counters
  <1>11. \A x \in Amounts : x \in Int /\ 0 - x \in Int
    BY BalanceAssumption DEF Balance
  <1> QED
    BY <1>1, <1>2, <1>3, <1>4, <1>5, <1>6, <1>7, <1>8, <1>9, <1>10, <1>11 DEF Next

(* The invariant holds throughout.                                         *)
LEMMA SpecIInv == Spec => []IInv
  BY InitIInv, NextIInv, PTL DEF Spec

(***************************************************************************)
(* The counters of the breaker account for the reserve of every asset, in  *)
(* every block, whatever the operations and configuration changes.         *)
(***************************************************************************)
THEOREM CountersCorrect == Spec => [](TypeOK /\ CountersExplainReserve)
  <1>1. IInv => TypeOK /\ CountersExplainReserve
    BY DEF IInv
  <1> QED
    BY <1>1, SpecIInv, PTL

(***************************************************************************)
(* No sequence of operations of one block moves a reserve beyond the       *)
(* limits stored for the asset, exempt operations and fees set aside.      *)
(***************************************************************************)
THEOREM EnvelopeHolds == Spec => []ReserveWithinEnvelope
  <1>1. IInv => ReserveWithinEnvelope
    <2> SUFFICES ASSUME IInv, NEW a \in PoolAssets
                 PROVE  LET moved == reserve[a] - blockStart[a] - unlimited[a]
                            trade == LimitOf(allowedTradeVolumeLimit[a])
                        IN /\ moved <= trade + LimitOf(allowedAddLiquidity[a])
                           /\ 0 - moved <= trade + LimitOf(allowedRemoveLiquidity[a])
      BY Zenon DEF ReserveWithinEnvelope
    <2>1. /\ NetVolume(a) \in Int /\ LimitOf(allowedTradeVolumeLimit[a]) \in Int
          /\ NetVolume(a) <= LimitOf(allowedTradeVolumeLimit[a])
          /\ 0 - NetVolume(a) <= LimitOf(allowedTradeVolumeLimit[a])
      BY BalanceAssumption
      DEF IInv, TypeOK, LimitsRespected, CheckLimits, NetVolume, LimitOf,
          TradeVolumeLimit, Balance
    <2>2. /\ Liquidity(allowedAddLiquidity[a]) \in 0 .. LimitOf(allowedAddLiquidity[a])
          /\ LimitOf(allowedAddLiquidity[a]) \in Int
      BY BalanceAssumption
      DEF IInv, TypeOK, LimitsRespected, CheckLimit, Liquidity, LimitOf,
          LiquidityLimit, Balance
    <2>3. /\ Liquidity(allowedRemoveLiquidity[a])
               \in 0 .. LimitOf(allowedRemoveLiquidity[a])
          /\ LimitOf(allowedRemoveLiquidity[a]) \in Int
      BY BalanceAssumption
      DEF IInv, TypeOK, LimitsRespected, CheckLimit, Liquidity, LimitOf,
          LiquidityLimit, Balance
    <2>4. /\ reserve[a] = blockStart[a] + NetVolume(a)
                            + Liquidity(allowedAddLiquidity[a])
                            - Liquidity(allowedRemoveLiquidity[a]) + unlimited[a]
          /\ reserve[a] \in Int /\ blockStart[a] \in Int /\ unlimited[a] \in Int
      BY BalanceAssumption DEF IInv, TypeOK, CountersExplainReserve, Balance
    <2> QED
      BY <2>1, <2>2, <2>3, <2>4
  <1> QED
    BY <1>1, SpecIInv, PTL

-----------------------------------------------------------------------------
(* The issuance fuse.                                                      *)

InPeriod == lockdownState # None /\ lockdownState.status = "Unlocked"

(* What deposits left usable is covered by the growth the fuse sees, and   *)
(* the limit the fuse compares it with is one the period had.              *)
GrowthCovers == InPeriod => usable <= issuance - lockdownState.issuance
CapCovers == InPeriod /\ limit # None => limit <= cap

FuseIInv == FuseTypeOK /\ UsableWithinLimit /\ GrowthCovers /\ CapCovers

-----------------------------------------------------------------------------
(* Before the first deposit nothing is locked or counted.                  *)
LEMMA FuseInitIInv == FuseInit => FuseIInv
  <1> SUFFICES ASSUME FuseInit PROVE FuseIInv
    OBVIOUS
  <1>1. FuseTypeOK
    BY DepositAssumption DEF FuseInit, FuseTypeOK, Supply, Block
  <1>2. UsableWithinLimit /\ GrowthCovers /\ CapCovers
    BY DEF FuseInit, UsableWithinLimit, GrowthCovers, CapCovers, InPeriod
  <1> QED BY <1>1, <1>2 DEF FuseIInv

(* classify_state tells the five cases apart, and only an unlocked state   *)
(* is within a period.                                                     *)
LEMMA StateFacts ==
  ASSUME FuseTypeOK
  PROVE  /\ lockdownState # None =>
              \/ lockdownState.status = "Locked" /\ lockdownState.until \in Nat
              \/ /\ lockdownState.status = "Unlocked" /\ lockdownState.at \in Block
                 /\ lockdownState.issuance \in Supply
         /\ ClassifyState \in {"InitialDeposit", "LockdownActive", "LockdownExpired",
                               "PeriodExpired", "WithinPeriod"}
         /\ ClassifyState = "WithinPeriod" => InPeriod
         /\ ClassifyState = "LockdownActive" => ~InPeriod
  BY DEF FuseTypeOK, LockdownStatus, ClassifyState, InPeriod

(* An unlocked state records when its period began and from which issuance. *)
LEMMA UnlockedFacts ==
  ASSUME NEW at \in Block, NEW base \in Supply
  PROVE  /\ Unlocked(at, base) \in LockdownStatus
         /\ Unlocked(at, base) # None
         /\ Unlocked(at, base).status = "Unlocked"
         /\ Unlocked(at, base).issuance = base
  BY LockdownAssumption DEF Unlocked, LockdownStatus

(* A locked state records when its lockdown ends.                          *)
LEMMA LockedFacts ==
  ASSUME NEW until \in Nat
  PROVE  /\ Locked(until) \in LockdownStatus
         /\ Locked(until).status = "Locked"
  BY DEF Locked, LockdownStatus

-----------------------------------------------------------------------------
(* What a deposit locks, by the situation the fuse finds.                  *)
LEMMA LockFacts ==
  ASSUME FuseIInv, NEW amount \in DepositAmounts
  PROVE  /\ ToLock(amount) \in Nat
         /\ limit # None => Excess(amount) \in Nat
         /\ limit # None /\ ClassifyState = "LockdownActive" => ToLock(amount) = amount
         /\ limit # None /\ ClassifyState # "LockdownActive" => ToLock(amount) = Excess(amount)
         /\ limit # None /\ ClassifyState = "WithinPeriod" =>
              Excess(amount) >= issuance + amount - lockdownState.issuance - limit
         /\ limit # None /\ OpensPeriod => amount - Excess(amount) <= limit
  <1>1. amount \in Nat /\ issuance \in Nat /\ (limit # None => limit \in Nat)
    BY DepositAssumption DEF FuseIInv, FuseTypeOK, Supply
  <1>2. ClassifyState = "WithinPeriod" => lockdownState.issuance \in Nat
    BY StateFacts DEF FuseIInv, InPeriod, Supply
  <1>3. limit # None /\ ClassifyState = "WithinPeriod" =>
          Excess(amount) \in Nat /\ Excess(amount) >= issuance + amount - lockdownState.issuance - limit
    BY <1>1, <1>2 DEF Excess, Saturating, NewIssuance
  <1>4. limit # None /\ ClassifyState # "WithinPeriod" =>
          Excess(amount) \in Nat /\ amount - Excess(amount) <= limit
    BY <1>1 DEF Excess, Saturating
  <1> QED BY <1>1, <1>3, <1>4 DEF ToLock, OpensPeriod

(* The state a deposit leaves: the old one, a lockdown, or a new period    *)
(* from the issuance before the deposit.                                   *)
LEMMA StateAfterFacts ==
  ASSUME FuseIInv, NEW amount \in DepositAmounts
  PROVE  /\ limit = None \/ ClassifyState = "LockdownActive" => StateAfterDeposit(amount) = lockdownState
         /\ limit # None /\ ClassifyState # "LockdownActive" /\ Excess(amount) > 0 =>
              StateAfterDeposit(amount) = Locked(block + Period)
         /\ limit # None /\ ClassifyState = "WithinPeriod" /\ ~(Excess(amount) > 0) =>
              StateAfterDeposit(amount) = lockdownState
         /\ limit # None /\ OpensPeriod /\ ~(Excess(amount) > 0) =>
              StateAfterDeposit(amount) = Unlocked(block, issuance)
  <1>1. Baseline(amount) = issuance
    BY DepositAssumption DEF Baseline, Saturating, NewIssuance, FuseIInv, FuseTypeOK, Supply
  <1> QED BY <1>1, StateFacts DEF StateAfterDeposit, OpensPeriod, FuseIInv

-----------------------------------------------------------------------------
(* A deposit stays within the limit and keeps the growth an upper bound.   *)
LEMMA DepositKeeps ==
  ASSUME FuseIInv, NEW who \in Accounts, NEW amount \in DepositAmounts, Deposit(who, amount)
  PROVE  FuseIInv'
  <1>1. /\ amount \in Nat /\ issuance \in Nat /\ issuance + amount <= MaxSupply
        /\ MaxSupply \in Nat /\ usable \in Int /\ cap \in Supply /\ usable <= cap
        /\ limit # None => limit \in Supply
        /\ 0 - MaxSupply <= usable
        /\ block \in Nat /\ block \in Block /\ Period \in Nat
    BY DepositAssumption DEF FuseIInv, FuseTypeOK, UsableWithinLimit, Supply, Block, Deposit, NewIssuance
  <1>2. issuance' = issuance + amount /\ issuance' \in Supply
    BY <1>1 DEF Deposit, NewIssuance, Supply
  <1>3. free' \in [Accounts -> Nat] /\ reserved' \in [Accounts -> Nat]
    BY <1>1, LockFacts DEF FuseIInv, FuseTypeOK, Deposit, CanLockDeposit
  <1>4. ClassifyState \in {"InitialDeposit", "LockdownActive", "LockdownExpired",
                           "PeriodExpired", "WithinPeriod"}
    BY StateFacts DEF FuseIInv
  <1>5. lockdownState' = StateAfterDeposit(amount) /\ block' = block /\ limit' = limit
    BY DEF Deposit
  <1>6. FuseTypeOK /\ GrowthCovers /\ CapCovers
    BY DEF FuseIInv
  <1>7. CASE limit = None \/ ClassifyState = "LockdownActive"
    <2>1. lockdownState' = lockdownState
      BY <1>5, <1>7, StateAfterFacts
    <2>2. usable' = usable /\ cap' = cap
      <3>1. (IF limit = None THEN 0 ELSE amount - ToLock(amount)) = 0
        BY <1>1, <1>7, LockFacts
      <3>2. ~(limit # None /\ OpensPeriod)
        BY <1>7 DEF OpensPeriod
      <3>3. usable' = Floor(usable + 0) /\ cap' = cap
        BY <3>1, <3>2 DEF Deposit
      <3> QED BY <3>3, <1>1 DEF Floor
    <2>3. InPeriod => usable <= issuance + amount - lockdownState.issuance
      BY <1>1, <1>6, StateFacts DEF GrowthCovers, InPeriod, Supply
    <2>4. FuseTypeOK'
      BY <1>2, <1>3, <1>5, <1>6, <2>1, <2>2 DEF FuseTypeOK
    <2>5. GrowthCovers'
      <3>1. InPeriod => usable' <= issuance' - lockdownState.issuance
        <4>1. issuance' = issuance + amount
          BY <1>2
        <4>2. InPeriod => lockdownState.issuance \in Int
          BY <1>6, StateFacts DEF InPeriod, Supply
        <4> QED BY <4>1, <4>2, <1>1, <2>2, <2>3
      <3> QED BY <3>1, <2>1 DEF GrowthCovers, InPeriod
    <2>6. UsableWithinLimit' /\ CapCovers'
      BY <1>1, <1>5, <1>6, <2>1, <2>2 DEF UsableWithinLimit, CapCovers, InPeriod
    <2> QED BY <2>4, <2>5, <2>6 DEF FuseIInv
  <1>8. CASE limit # None /\ OpensPeriod
    <2>1. usable' = Floor(amount - Excess(amount)) /\ cap' = limit
      <3>1. ToLock(amount) = Excess(amount)
        BY <1>8, LockFacts DEF OpensPeriod
      <3> QED BY <3>1, <1>8 DEF Deposit
    <2>2. Excess(amount) \in Nat /\ amount - Excess(amount) <= limit
      BY <1>8, LockFacts
    <2>3. usable' \in (0 - MaxSupply) .. MaxSupply /\ usable' <= limit /\ usable' <= amount
      BY <2>1, <2>2, <1>1, <1>8 DEF Floor, Supply
    <2>4. CASE Excess(amount) > 0
      <3>1. lockdownState' = Locked(block + Period)
        BY <1>5, <1>8, <2>4, StateAfterFacts DEF OpensPeriod
      <3>2. lockdownState' \in LockdownStatus /\ lockdownState'.status = "Locked"
        BY <3>1, <1>1, LockedFacts
      <3> QED BY <3>2, <2>1, <2>3, <1>1, <1>2, <1>3, <1>5, <1>8
              DEF FuseIInv, FuseTypeOK, UsableWithinLimit, GrowthCovers, CapCovers, InPeriod
    <2>5. CASE ~(Excess(amount) > 0)
      <3>1. lockdownState' = Unlocked(block, issuance)
        BY <1>5, <1>8, <2>5, StateAfterFacts
      <3>2. issuance \in Supply
        BY <1>6 DEF FuseTypeOK
      <3>3. lockdownState' \in LockdownStatus /\ lockdownState'.issuance = issuance
        BY <3>1, <3>2, <1>1, UnlockedFacts
      <3>4. usable' <= issuance' - lockdownState'.issuance
        BY <3>3, <2>3, <1>2, <1>1
      <3> QED BY <3>3, <3>4, <2>1, <2>3, <1>1, <1>2, <1>3, <1>5, <1>8
              DEF FuseIInv, FuseTypeOK, UsableWithinLimit, GrowthCovers, CapCovers, InPeriod, Supply
    <2> QED BY <2>4, <2>5
  <1>9. CASE limit # None /\ ClassifyState = "WithinPeriod"
    <2>1. InPeriod /\ lockdownState.issuance \in Supply
      BY <1>6, <1>9, StateFacts DEF InPeriod
    <2>2. usable' = Floor(usable + (amount - Excess(amount))) /\ cap' = cap
      <3>1. ToLock(amount) = Excess(amount) /\ ~OpensPeriod
        BY <1>9, LockFacts DEF OpensPeriod
      <3> QED BY <3>1, <1>9 DEF Deposit
    <2>3. Excess(amount) \in Nat /\ Excess(amount) >= issuance + amount - lockdownState.issuance - limit
      BY <1>9, LockFacts
    <2>4. usable <= issuance - lockdownState.issuance /\ limit <= cap
      BY <1>6, <1>9, <2>1 DEF GrowthCovers, CapCovers
    <2>5. /\ usable' \in (0 - MaxSupply) .. MaxSupply /\ usable' <= cap
          /\ usable' <= issuance + amount - lockdownState.issuance
      BY <2>1, <2>2, <2>3, <2>4, <1>1, <1>9 DEF Floor, Supply
    <2>6. CASE Excess(amount) > 0
      <3>1. lockdownState' = Locked(block + Period)
        BY <1>5, <1>9, <2>6, StateAfterFacts
      <3>2. lockdownState' \in LockdownStatus /\ lockdownState'.status = "Locked"
        BY <3>1, <1>1, LockedFacts
      <3> QED BY <3>2, <2>2, <2>5, <1>1, <1>2, <1>3, <1>5, <1>9
              DEF FuseIInv, FuseTypeOK, UsableWithinLimit, GrowthCovers, CapCovers, InPeriod
    <2>7. CASE ~(Excess(amount) > 0)
      <3>1. lockdownState' = lockdownState
        BY <1>5, <1>9, <2>7, StateAfterFacts
      <3>2. FuseTypeOK'
        BY <3>1, <1>2, <1>3, <1>5, <1>6, <2>2, <2>5 DEF FuseTypeOK
      <3>3. GrowthCovers'
        <4>1. usable' <= issuance' - lockdownState.issuance
          <5>1. issuance' = issuance + amount
            BY <1>2
          <5>2. lockdownState.issuance \in Int /\ usable' \in Int
            BY <2>1, <2>5 DEF Supply
          <5> QED BY <5>1, <5>2, <1>1, <2>5
        <4> QED BY <4>1, <3>1 DEF GrowthCovers, InPeriod
      <3>4. UsableWithinLimit' /\ CapCovers'
        BY <3>1, <1>5, <2>2, <2>4, <2>5 DEF UsableWithinLimit, CapCovers, InPeriod
      <3> QED BY <3>2, <3>3, <3>4 DEF FuseIInv
    <2> QED BY <2>6, <2>7
  <1> QED BY <1>4, <1>7, <1>8, <1>9 DEF OpensPeriod

(* A burn lowers what is usable and the growth of the period alike.        *)
LEMMA BurnKeeps ==
  ASSUME FuseIInv, NEW who \in Accounts, NEW amount \in DepositAmounts, Burn(who, amount)
  PROVE  FuseIInv'
  <1>1. /\ amount \in Nat /\ issuance \in Supply /\ MaxSupply \in Nat
        /\ usable \in (0 - MaxSupply) .. MaxSupply /\ usable <= cap /\ cap \in Supply
    BY DepositAssumption DEF FuseIInv, FuseTypeOK, UsableWithinLimit, Supply
  <1>2. free' \in [Accounts -> Nat]
    BY <1>1 DEF FuseIInv, FuseTypeOK, Burn
  <1>3. issuance' \in Supply /\ issuance' = issuance - amount
    BY <1>1 DEF Burn, Supply
  <1>4. usable' \in (0 - MaxSupply) .. MaxSupply /\ usable' <= cap
    BY <1>1 DEF Burn, Floor, Supply
  <1>5. InPeriod => usable' <= issuance' - lockdownState.issuance
    <2>1. InPeriod => lockdownState.issuance \in Supply /\ usable <= issuance - lockdownState.issuance
      BY StateFacts DEF FuseIInv, InPeriod, GrowthCovers
    <2> QED BY <2>1, <1>1, <1>3 DEF Burn, Floor, Supply
  <1> QED BY <1>1, <1>2, <1>3, <1>4, <1>5
          DEF FuseIInv, FuseTypeOK, UsableWithinLimit, GrowthCovers, CapCovers, InPeriod, Burn

(* force_lift_lockdown begins a period in which nothing was deposited yet. *)
LEMMA ForceLiftKeeps ==
  ASSUME FuseIInv, ForceLiftLockdown
  PROVE  FuseIInv'
  <1>1. Baseline(0) = issuance /\ issuance \in Supply /\ block \in Block /\ MaxSupply \in Nat
    BY DepositAssumption DEF Baseline, Saturating, NewIssuance, FuseIInv, FuseTypeOK, Supply
  <1>2. lockdownState' \in LockdownStatus /\ lockdownState'.issuance = issuance
    BY <1>1, UnlockedFacts DEF ForceLiftLockdown
  <1>3. /\ usable' = 0 /\ cap' \in Supply
        /\ cap' = IF limit = None THEN 0 ELSE limit
        /\ issuance' = issuance /\ free' = free /\ reserved' = reserved
        /\ block' = block /\ limit' = limit
    BY <1>1 DEF ForceLiftLockdown, balances, FuseIInv, FuseTypeOK, Supply
  <1> QED BY <1>1, <1>2, <1>3
          DEF FuseIInv, FuseTypeOK, UsableWithinLimit, GrowthCovers, CapCovers, InPeriod, Supply

(* Every deposit, burn, release, governance call and new block keeps the   *)
(* invariant.                                                              *)
LEMMA FuseNextKeeps ==
  ASSUME FuseIInv, [FuseNext]_fuseVars
  PROVE  FuseIInv'
  <1>1. ASSUME NEW who \in Accounts, ReleaseDeposit(who) PROVE FuseIInv'
    BY <1>1 DEF ReleaseDeposit, FuseIInv, FuseTypeOK, UsableWithinLimit, GrowthCovers, CapCovers, InPeriod
  <1>2. ASSUME NEW until \in Block, LockdownAsset(until) PROVE FuseIInv'
    <2>1. lockdownState' \in LockdownStatus /\ lockdownState'.status = "Locked"
      BY <1>2, DepositAssumption, LockedFacts DEF LockdownAsset, Block
    <2> QED BY <1>2, <2>1
            DEF LockdownAsset, balances, FuseIInv, FuseTypeOK, UsableWithinLimit, GrowthCovers, CapCovers, InPeriod
  <1>3. ASSUME NEW value \in Limits, SetXcmRateLimit(value) PROVE FuseIInv'
    <2>1. value \in Supply /\ cap \in Supply /\ usable \in Int /\ usable <= cap
      BY DepositAssumption DEF FuseIInv, FuseTypeOK, UsableWithinLimit, Supply
    <2>2. cap' \in Supply /\ cap' >= cap /\ cap' >= value
      BY <1>3, <2>1, DepositAssumption DEF SetXcmRateLimit, Supply
    <2> QED BY <1>3, <2>1, <2>2, DepositAssumption
            DEF SetXcmRateLimit, balances, FuseIInv, FuseTypeOK, UsableWithinLimit, GrowthCovers, CapCovers,
                InPeriod, Supply
  <1>4. ASSUME NewBlock PROVE FuseIInv'
    BY <1>4, DepositAssumption
       DEF NewBlock, balances, FuseIInv, FuseTypeOK, UsableWithinLimit, GrowthCovers, CapCovers, InPeriod, Block
  <1>5. ASSUME UNCHANGED fuseVars PROVE FuseIInv'
    BY <1>5 DEF fuseVars, balances, FuseIInv, FuseTypeOK, UsableWithinLimit, GrowthCovers, CapCovers, InPeriod
  <1> QED BY <1>1, <1>2, <1>3, <1>4, <1>5, DepositKeeps, BurnKeeps, ForceLiftKeeps DEF FuseNext

-----------------------------------------------------------------------------
(***************************************************************************)
(* A period of the issuance fuse never leaves more usable than the highest *)
(* limit in force in it, whatever on_deposit, release_deposit, the manual  *)
(* lockdowns and the registry do.                                          *)
(***************************************************************************)
THEOREM DepositsWithinLimit == FuseSpec => [](FuseTypeOK /\ UsableWithinLimit)
  <1>1. FuseIInv => FuseTypeOK /\ UsableWithinLimit
    BY DEF FuseIInv
  <1> QED BY <1>1, FuseInitIInv, FuseNextKeeps, PTL DEF FuseSpec

(* A burn takes from one account and leaves the total no higher.           *)
LEMMA BurnLowersTotal ==
  ASSUME FuseTypeOK, NEW who \in Accounts, NEW amount \in DepositAmounts, Burn(who, amount)
  PROVE  TotalFree' <= TotalFree
  <1>1. \A x \in Accounts : free'[x] \in Int /\ free[x] \in Int /\ free'[x] <= free[x]
    BY DepositAssumption DEF FuseTypeOK, Burn, Supply
  <1> QED BY <1>1, DepositAssumption, SumMonotone DEF TotalFree

(***************************************************************************)
(* While an asset with a limit is in lockdown no deposit, release, burn or *)
(* call of the authority adds to its usable supply: on_deposit reserves    *)
(* every deposit whole and release_deposit refuses.                        *)
(***************************************************************************)
THEOREM LockdownHolds == FuseSpec => LockdownHoldsSupply
  <1>1. ASSUME FuseIInv, FuseNext, limit # None, LockdownActive
        PROVE  TotalFree' <= TotalFree
    <2>1. ClassifyState = "LockdownActive"
      BY <1>1 DEF ClassifyState, LockdownActive
    <2>2. TotalFree \in Int
      BY <1>1, DepositAssumption, SumInt DEF FuseIInv, FuseTypeOK, TotalFree
    <2>3. free' = free => TotalFree' <= TotalFree
      BY <2>2 DEF TotalFree
    <2>4. ASSUME NEW who \in Accounts, NEW amount \in DepositAmounts, Deposit(who, amount)
          PROVE  free' = free
      <3>1. ToLock(amount) = amount /\ amount \in Nat /\ free \in [Accounts -> Nat]
        BY <1>1, <2>1, DepositAssumption, LockFacts DEF FuseIInv, FuseTypeOK, Supply
      <3> QED BY <2>4, <3>1 DEF Deposit
    <2>5. ASSUME NEW who \in Accounts, NEW amount \in DepositAmounts, Burn(who, amount)
          PROVE  TotalFree' <= TotalFree
      BY <1>1, <2>5, BurnLowersTotal DEF FuseIInv
    <2>6. ~ \E who \in Accounts : ReleaseDeposit(who)
      BY <2>1 DEF ReleaseDeposit
    <2> QED
      BY <1>1, <2>3, <2>4, <2>5, <2>6
      DEF FuseNext, LockdownAsset, ForceLiftLockdown, SetXcmRateLimit, NewBlock, balances
  <1> QED BY <1>1, FuseInitIInv, FuseNextKeeps, PTL DEF FuseSpec, LockdownHoldsSupply
=============================================================================
