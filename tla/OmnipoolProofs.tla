--------------------------- MODULE OmnipoolProofs ---------------------------
(***************************************************************************)
(* Proofs about the Omnipool, for all assets, amounts, fees and prices.    *)
(***************************************************************************)
EXTENDS Omnipool, OmnipoolMathProofs

-----------------------------------------------------------------------------
(* Every step keeps the type invariant and dilutes no shares.  The two are *)
(* shown together, one action at a time.                                   *)

AssetMap == [Assets -> AssetState \cup {None}]

SameShares(a, b) ==
  \A z \in Assets : a[z] \in AssetState => b[z] \in AssetState /\ b[z].shares = a[z].shares

NoDilution ==
  \A x \in Assets :
    InPool(x) /\ InPool(x)' /\ assets'[x].shares # assets[x].shares
      => reserve'[x] * assets[x].shares >= reserve[x] * assets'[x].shares

(* What others take of the asset fee reduces the minted amount, at most to *)
(* nothing.                                                                *)
LEMMA ExtraAfterFeeTakenNat ==
  ASSUME NEW extra \in Nat, NEW fee \in Nat, NEW taken \in {0, AllowedFee(fee)}
  PROVE  taken \in Nat /\ ExtraAfterFeeTaken(extra, taken, fee) \in Nat
<1>1. taken \in Nat /\ taken <= fee
  BY DEF AllowedFee
<1>2. taken * extra \in Nat /\ taken * extra <= fee * extra
  BY <1>1, MulOrder
<1>3. fee # 0 => (taken * extra) \div fee \in Nat /\ (taken * extra) \div fee <= extra
  BY <1>2, DivAtMost, Zenon
<1> QED
  BY <1>1, <1>3 DEF ExtraAfterFeeTaken

(* The state of an asset in the pool is one that the calculations take.    *)
LEMMA StateOfTyped ==
  ASSUME TypeOK, NEW x \in Assets, InPool(x)
  PROVE  /\ assets[x] \in AssetState
         /\ StateOf(x) \in PoolState
         /\ StateOf(x).reserve = reserve[x] /\ StateOf(x).hub = assets[x].hub /\ StateOf(x).shares = assets[x].shares
<1>1. assets[x] \in AssetState /\ reserve[x] \in Nat
  BY Zenon DEF TypeOK, InPool
<1>2. assets[x].hub \in Nat /\ assets[x].shares \in Nat
  BY <1>1, Zenon DEF AssetState
<1> QED
  BY <1>1, <1>2, Zenon DEF StateOf, PoolState

(* The snapshot of an asset in the pool is an amount.                      *)
LEMMA SnapshotTyped ==
  ASSUME TypeOK, NEW x \in Assets, InPool(x)
  PROVE  SnapshotQ0(x) \in Nat
<1>1. assets[x].hub \in Nat
  BY StateOfTyped, Zenon DEF AssetState
<1>2. q0[x] \in Nat \cup {None}
  BY Zenon DEF TypeOK
<1> QED
  BY <1>1, <1>2, Zenon DEF SnapshotQ0

(* And so are the slip fee parameters of every trade.                      *)
LEMMA SlipTyped ==
  ASSUME TypeOK, NEW x \in Assets, InPool(x), NEW y \in Assets, InPool(y)
  PROVE  /\ LoadTradeSlipFees(x, y) \in TradeSlipFees \cup {None}
         /\ LoadHubTradeSlipFees(y) \in HubTradeSlipFees \cup {None}
<1>1. SnapshotQ0(x) \in Nat /\ SnapshotQ0(y) \in Nat
  BY SnapshotTyped, Zenon
<1>2. slipDelta[x] \in Int /\ slipDelta[y] \in Int /\ slipFee \in (0..PERMILL) \cup {None}
  BY Zenon DEF TypeOK
<1> QED
  BY <1>1, <1>2, Zenon DEF LoadTradeSlipFees, LoadHubTradeSlipFees, TradeSlipFees, HubTradeSlipFees

(* A change of an asset's hub reserve leaves its shares alone.             *)
LEMMA HubChanged ==
  ASSUME NEW a \in AssetMap, NEW x \in Assets, a[x] \in AssetState, NEW v \in Nat
  PROVE  LET b == [a EXCEPT ![x].hub = v]
         IN  /\ b \in AssetMap /\ b[x] \in AssetState
             /\ b[x].hub = v /\ b[x].shares = a[x].shares /\ b[x].protocolShares = a[x].protocolShares
             /\ \A z \in Assets \ {x} : b[z] = a[z]
             /\ SameShares(a, b)
<1> DEFINE b == [a EXCEPT ![x].hub = v]
<1>2. b[x] = [a[x] EXCEPT !.hub = v] /\ \A z \in Assets \ {x} : b[z] = a[z]
  BY Zenon DEF AssetMap
<1>3. /\ b[x] \in AssetState /\ b[x].shares = a[x].shares /\ b[x].hub = v
      /\ b[x].protocolShares = a[x].protocolShares
  BY <1>2 DEF AssetState
<1>4. b \in AssetMap
  BY <1>3, Zenon DEF AssetMap
<1> QED
  BY <1>2, <1>3, <1>4, Zenon DEF SameShares

(* A change of an asset's shares.                                          *)
LEMMA SharesChanged ==
  ASSUME NEW a \in AssetMap, NEW x \in Assets, a[x] \in AssetState, NEW v \in Nat
  PROVE  LET b == [a EXCEPT ![x].shares = v]
         IN  /\ b \in AssetMap /\ b[x] \in AssetState
             /\ b[x].shares = v /\ b[x].protocolShares = a[x].protocolShares /\ b[x].hub = a[x].hub
             /\ \A z \in Assets \ {x} : b[z] = a[z]
<1> DEFINE b == [a EXCEPT ![x].shares = v]
<1>1. b[x] = [a[x] EXCEPT !.shares = v] /\ \A z \in Assets \ {x} : b[z] = a[z]
  BY Zenon DEF AssetMap
<1>2. /\ b[x] \in AssetState /\ b[x].shares = v /\ b[x].protocolShares = a[x].protocolShares
      /\ b[x].hub = a[x].hub
  BY <1>1 DEF AssetState
<1>3. b \in AssetMap
  BY <1>2, Zenon DEF AssetMap
<1> QED
  BY <1>1, <1>2, <1>3, Zenon

(* A change of the protocol's shares of an asset.                          *)
LEMMA ProtocolSharesChanged ==
  ASSUME NEW a \in AssetMap, NEW x \in Assets, a[x] \in AssetState, NEW v \in Nat
  PROVE  LET b == [a EXCEPT ![x].protocolShares = v]
         IN  /\ b \in AssetMap /\ b[x] \in AssetState
             /\ b[x].protocolShares = v /\ b[x].shares = a[x].shares /\ b[x].hub = a[x].hub
             /\ \A z \in Assets \ {x} : b[z] = a[z]
<1> DEFINE b == [a EXCEPT ![x].protocolShares = v]
<1>1. b[x] = [a[x] EXCEPT !.protocolShares = v] /\ \A z \in Assets \ {x} : b[z] = a[z]
  BY Zenon DEF AssetMap
<1>2. b[x] \in AssetState /\ b[x].protocolShares = v /\ b[x].shares = a[x].shares /\ b[x].hub = a[x].hub
  BY <1>1 DEF AssetState
<1>3. b \in AssetMap
  BY <1>2, Zenon DEF AssetMap
<1> QED
  BY <1>1, <1>2, <1>3

(* add_liquidity changes an asset's hub reserve and shares.                *)
LEMMA HubAndSharesChanged ==
  ASSUME NEW x \in Assets, NEW h \in Nat, NEW s \in Nat, TypeOK, InPool(x),
         assets' = [assets EXCEPT ![x].hub = h, ![x].shares = s]
  PROVE  /\ assets' \in AssetMap /\ assets'[x] \in AssetState
         /\ assets'[x].hub = h /\ assets'[x].shares = s /\ assets'[x].protocolShares = assets[x].protocolShares
         /\ \A z \in Assets \ {x} : assets'[z] = assets[z]
<1>1. assets \in AssetMap /\ assets[x] \in AssetState
  BY StateOfTyped, Zenon DEF TypeOK, AssetMap
<1> DEFINE m == [assets[x] EXCEPT !.hub = h]
<1>2. assets'[x] = [m EXCEPT !.shares = s] /\ \A z \in Assets \ {x} : assets'[z] = assets[z]
  BY <1>1 DEF AssetMap
<1>3. /\ assets'[x] \in AssetState /\ assets'[x].hub = h /\ assets'[x].shares = s
      /\ assets'[x].protocolShares = assets[x].protocolShares
  <2>1. m \in AssetState /\ m.hub = h /\ m.protocolShares = assets[x].protocolShares
    BY <1>1 DEF AssetState
  <2> DEFINE d == [m EXCEPT !.shares = s]
  <2> HIDE DEF m
  <2>2. d \in AssetState /\ d.hub = m.hub /\ d.shares = s /\ d.protocolShares = m.protocolShares
    BY <2>1 DEF AssetState
  <2> HIDE DEF d
  <2> QED
    BY <1>2, <2>1, <2>2, Zenon DEF d
<1>4. assets' \in AssetMap
  BY <1>1, <1>2, <1>3 DEF AssetMap
<1> QED
  BY <1>2, <1>3, <1>4, Zenon

(* The slip fee storages stay typed.                                       *)
LEMMA SlipUpdateTyped ==
  ASSUME TypeOK, NEW x \in Assets, InPool(x), NEW y \in Assets, InPool(y),
         NEW hubIn \in Nat, NEW hubOut \in Nat,
         \/ UpdateSlipFeeDelta(x, hubIn, y, hubOut)
         \/ UpdateSlipFeeDeltaHubTrade(y, hubOut)
         \/ EnsureQ0Snapshot(x) /\ UNCHANGED slipDelta
  PROVE  q0' \in [Assets -> Nat \cup {None}] /\ slipDelta' \in [Assets -> Int]
<1>1. SnapshotQ0(x) \in Nat /\ SnapshotQ0(y) \in Nat
  BY SnapshotTyped, Zenon
<1>2. q0 \in [Assets -> Nat \cup {None}] /\ slipDelta \in [Assets -> Int]
  BY Zenon DEF TypeOK
<1>3. CASE UpdateSlipFeeDelta(x, hubIn, y, hubOut)
  BY <1>1, <1>2, <1>3 DEF UpdateSlipFeeDelta, slipVars
<1>4. CASE UpdateSlipFeeDeltaHubTrade(y, hubOut)
  BY <1>1, <1>2, <1>4 DEF UpdateSlipFeeDeltaHubTrade, slipVars
<1>5. CASE EnsureQ0Snapshot(x) /\ UNCHANGED slipDelta
  BY <1>1, <1>2, <1>5, Zenon DEF EnsureQ0Snapshot
<1> QED
  BY <1>3, <1>4, <1>5, Zenon

(* The hub asset of the pool account never goes negative.                  *)
LEMMA HubUpdateTyped ==
  ASSUME TypeOK, NEW received \in Int, NEW amount \in Int, UpdateHubAssetLiquidity(received, amount)
  PROVE  hubFree' \in Nat /\ hubReserved' \in Nat
<1>1. PICK kept \in IF amount > 0 THEN {0, amount} ELSE {0} :
        /\ hubFree + amount + received - kept >= 0
        /\ hubFree' = hubFree + amount + received - kept
        /\ hubReserved' = hubReserved + kept
  BY Zenon DEF UpdateHubAssetLiquidity
<1>2. kept \in Nat /\ hubFree \in Nat /\ hubReserved \in Nat
  BY DEF TypeOK
<1> QED
  BY <1>1, <1>2

(* The calls are counted up to their bound.                                *)
LEMMA CallTyped ==
  ASSUME TypeOK, Call
  PROVE  calls' \in 0..MaxCalls
BY OmnipoolAssumption DEF TypeOK, Call

(* What leaves the pool for others is a natural number.                    *)
LEMMA ActualFeesTakenNat ==
  ASSUME NEW y, NEW taken \in Nat, NEW fee \in Nat, NEW actual \in ActualFeesTaken(y, taken, fee)
  PROVE  actual \in Nat
<1>1. PICK more \in IF y \in ATokens /\ taken > 0 THEN Overdrafts ELSE {0} : actual = taken + more
  BY Zenon DEF ActualFeesTaken, Withdrawn
<1>2. more \in Nat
  BY <1>1, OmnipoolAssumption
<1> QED
  BY <1>1, <1>2

(* The settlement of a trade keeps the types and changes no shares.        *)
LEMMA SettleSafe ==
  ASSUME TypeOK, NEW x \in Assets, InPool(x), NEW y \in Assets, InPool(y), x # y, NEW r,
         r.in \in Nat, r.hubIn \in Nat, r.out \in Nat, r.hubOut \in Nat,
         r.extra \in Nat, r.assetFee \in Nat, r.protocolFee \in Nat, r.hubIn <= assets[x].hub,
         Call, Settle(x, y, r)
  PROVE  TypeOK' /\ NoDilution
<1>1. PICK taken \in {0, AllowedFee(r.assetFee)} :
        LET extra  == ExtraAfterFeeTaken(r.extra, taken, r.assetFee)
            credit == r.protocolFee - MulFloor(BurnProtocolFee, r.protocolFee)
            moved  == r.hubOut + extra - r.hubIn
        IN  /\ InPool(HDX)
            /\ \E actual \in ActualFeesTaken(y, taken, r.assetFee) :
                 /\ r.out + actual <= reserve[y]
                 /\ reserve' = [reserve EXCEPT ![x] = @ + r.in, ![y] = @ - r.out - actual]
            /\ assets' = IncreaseHdxSubpool([assets EXCEPT ![x].hub = @ - r.hubIn, ![y].hub = @ + r.hubOut + extra],
                                            credit)
            /\ hubFree + moved >= 0
            /\ hubFree' = hubFree + moved + credit
            /\ UpdateSlipFeeDelta(x, r.hubIn, y, r.hubOut)
            /\ UNCHANGED <<hubReserved, userHub, book, settings>>
  BY Zenon DEF Settle
<1> DEFINE extra  == ExtraAfterFeeTaken(r.extra, taken, r.assetFee)
           credit == r.protocolFee - MulFloor(BurnProtocolFee, r.protocolFee)
           sold   == [assets EXCEPT ![x].hub = assets[x].hub - r.hubIn]
           bought == [sold EXCEPT ![y].hub = sold[y].hub + r.hubOut + extra]
           after  == [bought EXCEPT ![HDX].hub = bought[HDX].hub + credit]
<1>2. taken \in Nat /\ extra \in Nat
  BY ExtraAfterFeeTakenNat, Zenon
<1>3. credit \in Nat
  <2>1. MulFloor(BurnProtocolFee, r.protocolFee) \in Nat /\ MulFloor(BurnProtocolFee, r.protocolFee) <= r.protocolFee
    BY OmnipoolAssumption, MulFloorPart, Zenon
  <2> QED
    BY <2>1
<1> HIDE DEF extra, credit
<1>5. /\ HDX \in Assets /\ assets \in AssetMap
      /\ assets[x] \in AssetState /\ assets[y] \in AssetState /\ assets[HDX] \in AssetState
  BY <1>1, OmnipoolAssumption, StateOfTyped, Zenon DEF TypeOK, AssetMap
<1>6. sold \in AssetMap /\ SameShares(assets, sold) /\ sold[y] \in AssetState /\ sold[HDX] \in AssetState
  <2>1. assets[x].hub - r.hubIn \in Nat
    BY <1>5 DEF AssetState
  <2>2. sold \in AssetMap /\ SameShares(assets, sold)
    BY <1>5, <2>1, HubChanged, Zenon
  <2> QED
    BY <1>5, <2>2, Zenon DEF SameShares
<1>7. bought \in AssetMap /\ SameShares(sold, bought) /\ bought[HDX] \in AssetState
  <2> HIDE DEF sold
  <2>1. sold[y].hub + r.hubOut + extra \in Nat
    BY <1>2, <1>6 DEF AssetState
  <2>2. bought \in AssetMap /\ SameShares(sold, bought)
    BY <1>6, <2>1, HubChanged, Zenon
  <2> QED
    BY <1>6, <2>2 DEF SameShares
<1>8. after \in AssetMap /\ SameShares(bought, after)
  <2> HIDE DEF bought
  <2>1. bought[HDX].hub + credit \in Nat
    BY <1>3, <1>7 DEF AssetState
  <2> QED
    BY <1>5, <1>7, <2>1, HubChanged, Zenon
<1>4. assets' = after
  BY <1>1, Zenon DEF IncreaseHdxSubpool, extra, credit
<1> HIDE DEF sold, bought, after
<1>9. SameShares(assets, assets')
  BY <1>4, <1>6, <1>7, <1>8, Zenon DEF SameShares
<1>10. NoDilution
  BY <1>9, StateOfTyped, Zenon DEF NoDilution, SameShares
<1>11. hubFree' \in Nat
  <2>1. hubFree \in Nat
    BY Zenon DEF TypeOK
  <2>2. hubFree + (r.hubOut + extra - r.hubIn) >= 0 /\ hubFree' = hubFree + (r.hubOut + extra - r.hubIn) + credit
    BY <1>1, Zenon DEF extra, credit
  <2> QED
    BY <1>2, <1>3, <2>1, <2>2
<1>12. reserve' \in [Assets -> Nat]
  <2>1. PICK actual \in ActualFeesTaken(y, taken, r.assetFee) :
          /\ r.out + actual <= reserve[y]
          /\ reserve' = [reserve EXCEPT ![x] = @ + r.in, ![y] = @ - r.out - actual]
    BY <1>1, Zenon
  <2>2. actual \in Nat
    BY <1>2, ActualFeesTakenNat, Zenon
  <2> QED
    BY <2>1, <2>2 DEF TypeOK
<1>13. q0' \in [Assets -> Nat \cup {None}] /\ slipDelta' \in [Assets -> Int]
  BY <1>1, SlipUpdateTyped, Zenon
<1>14. UNCHANGED <<hubReserved, userHub, positions, nextPositionId, slipFee, hubTradable>>
  BY <1>1, Zenon DEF book, settings
<1>15. TypeOK'
  BY <1>4, <1>8, <1>11, <1>12, <1>13, <1>14, CallTyped, Zenon DEF TypeOK, AssetMap
<1> QED
  BY <1>10, <1>15, Zenon

(* A call that leaves the shares of every asset alone dilutes none.        *)
LEMMA SameSharesSafe ==
  ASSUME TypeOK, SameShares(assets, assets')
  PROVE  NoDilution
BY StateOfTyped, Zenon DEF NoDilution, SameShares

(* The settlement of a trade with the hub asset.                           *)
LEMMA SettleHubSafe ==
  ASSUME TypeOK, NEW y \in Assets, InPool(y), NEW r,
         r.out \in Nat, r.hubOut \in Nat, r.extra \in Nat, r.assetFee \in Nat,
         Call, SettleHub(y, r)
  PROVE  TypeOK' /\ NoDilution
<1>1. PICK taken \in {0, AllowedFee(r.assetFee)} :
        /\ CanPay(r.hubOut)
        /\ userHub' = userHub - r.hubOut
        /\ \E actual \in ActualFeesTaken(y, taken, r.assetFee) :
             /\ r.out + actual <= reserve[y]
             /\ reserve' = [reserve EXCEPT ![y] = @ - r.out - actual]
        /\ UpdateHubAssetLiquidity(r.hubOut, ExtraAfterFeeTaken(r.extra, taken, r.assetFee))
        /\ assets' = [assets EXCEPT ![y].hub = @ + r.hubOut + ExtraAfterFeeTaken(r.extra, taken, r.assetFee)]
        /\ UpdateSlipFeeDeltaHubTrade(y, r.hubOut)
        /\ UNCHANGED <<book, settings>>
  BY Zenon DEF SettleHub
<1> DEFINE extra == ExtraAfterFeeTaken(r.extra, taken, r.assetFee)
<1>2. taken \in Nat /\ extra \in Nat
  BY ExtraAfterFeeTakenNat, Zenon
<1>3. hubFree' \in Nat /\ hubReserved' \in Nat
  BY <1>1, <1>2, HubUpdateTyped
<1>4. assets \in AssetMap /\ assets[y] \in AssetState
  BY StateOfTyped, Zenon DEF TypeOK, AssetMap
<1>5. assets' \in AssetMap /\ SameShares(assets, assets')
  <2>1. assets' = [assets EXCEPT ![y].hub = assets[y].hub + r.hubOut + extra]
    BY <1>1, Zenon
  <2> HIDE DEF extra
  <2>2. assets[y].hub + r.hubOut + extra \in Nat
    BY <1>2, <1>4 DEF AssetState
  <2> QED
    BY <1>4, <2>1, <2>2, HubChanged, Zenon
<1>6. reserve' \in [Assets -> Nat]
  <2>1. PICK actual \in ActualFeesTaken(y, taken, r.assetFee) :
          /\ r.out + actual <= reserve[y]
          /\ reserve' = [reserve EXCEPT ![y] = @ - r.out - actual]
    BY <1>1, Zenon
  <2>2. actual \in Nat
    BY <1>2, ActualFeesTakenNat, Zenon
  <2> QED
    BY <2>1, <2>2 DEF TypeOK
<1>7. userHub' \in Nat
  BY <1>1 DEF TypeOK, CanPay
<1>8. q0' \in [Assets -> Nat \cup {None}] /\ slipDelta' \in [Assets -> Int]
  BY <1>1, SlipUpdateTyped, Zenon
<1>9. UNCHANGED <<positions, nextPositionId, slipFee, hubTradable>>
  BY <1>1, Zenon DEF book, settings
<1>10. TypeOK'
  BY <1>3, <1>5, <1>6, <1>7, <1>8, <1>9, CallTyped, Zenon DEF TypeOK, AssetMap
<1> QED
  BY <1>5, <1>10, SameSharesSafe, Zenon

(* Sell, buy and the trades with the hub asset.                            *)
LEMMA TradingSafe ==
  ASSUME TypeOK, Trading
  PROVE  TypeOK' /\ NoDilution
<1>1. /\ None \notin Nat /\ TradeAmounts \subseteq Nat /\ MinTradingLimit \in Nat \ {0}
      /\ AssetFees \subseteq 0..PERMILL /\ ProtocolFees \subseteq 0..PERMILL
  BY OmnipoolAssumption, ScaleAssumption
<1>2. ASSUME NEW amount \in TradeAmounts, NEW x \in Assets, NEW y \in Assets, Sell(x, y, amount)
      PROVE  TypeOK' /\ NoDilution
  <2>1. PICK assetFee \in AssetFees, protocolFee \in ProtocolFees :
          LET r == CalculateSell(StateOf(x), StateOf(y), amount, assetFee, protocolFee, LoadTradeSlipFees(x, y))
          IN  r.ok /\ Settle(x, y, r)
    BY <1>2, Zenon DEF Sell
  <2>2. Call /\ x # y /\ InPool(x) /\ InPool(y) /\ amount \in Nat \ {0}
    BY <1>1, <1>2 DEF Sell, Allowed
  <2>3. StateOf(x) \in PoolState /\ StateOf(y) \in PoolState /\ StateOf(x).hub = assets[x].hub
        /\ LoadTradeSlipFees(x, y) \in TradeSlipFees \cup {None}
    BY <2>2, StateOfTyped, SlipTyped, Zenon
  <2> DEFINE r == CalculateSell(StateOf(x), StateOf(y), amount, assetFee, protocolFee, LoadTradeSlipFees(x, y))
  <2>4. /\ r.in \in Nat /\ r.hubIn \in Nat /\ r.out \in Nat /\ r.hubOut \in Nat
        /\ r.extra \in Nat /\ r.assetFee \in Nat /\ r.protocolFee \in Nat /\ r.hubIn <= assets[x].hub
    BY <1>1, <2>1, <2>2, <2>3, SellResult, Zenon
  <2>5. Settle(x, y, r)
    BY <2>1, Zenon
  <2> HIDE DEF r
  <2> QED
    BY <2>2, <2>4, <2>5, SettleSafe, Zenon
<1>3. ASSUME NEW amount \in TradeAmounts, NEW x \in Assets, NEW y \in Assets, Buy(x, y, amount)
      PROVE  TypeOK' /\ NoDilution
  <2>1. PICK assetFee \in AssetFees, protocolFee \in ProtocolFees :
          LET r == CalculateBuy(StateOf(x), StateOf(y), amount, assetFee, protocolFee, LoadTradeSlipFees(x, y))
          IN  r.ok /\ Settle(x, y, r)
    BY <1>3, Zenon DEF Buy
  <2>2. Call /\ x # y /\ InPool(x) /\ InPool(y) /\ amount \in Nat \ {0}
    BY <1>1, <1>3 DEF Buy, Allowed
  <2>3. StateOf(x) \in PoolState /\ StateOf(y) \in PoolState /\ StateOf(x).hub = assets[x].hub
        /\ LoadTradeSlipFees(x, y) \in TradeSlipFees \cup {None}
    BY <2>2, StateOfTyped, SlipTyped, Zenon
  <2> DEFINE r == CalculateBuy(StateOf(x), StateOf(y), amount, assetFee, protocolFee, LoadTradeSlipFees(x, y))
  <2>4. /\ r.in \in Nat /\ r.hubIn \in Nat /\ r.out \in Nat /\ r.hubOut \in Nat
        /\ r.extra \in Nat /\ r.assetFee \in Nat /\ r.protocolFee \in Nat /\ r.hubIn <= assets[x].hub
    BY <1>1, <2>1, <2>2, <2>3, BuyResult, Zenon
  <2>5. Settle(x, y, r)
    BY <2>1, Zenon
  <2> HIDE DEF r
  <2> QED
    BY <2>2, <2>4, <2>5, SettleSafe, Zenon
<1>4. ASSUME NEW amount \in TradeAmounts, NEW y \in Assets, SellHubAsset(y, amount)
      PROVE  TypeOK' /\ NoDilution
  <2>1. PICK assetFee \in AssetFees :
          LET r == CalculateSellHub(StateOf(y), amount, assetFee, LoadHubTradeSlipFees(y))
          IN  r.ok /\ SettleHub(y, r)
    BY <1>4, Zenon DEF SellHubAsset
  <2>2. Call /\ InPool(y)
    BY <1>4, Zenon DEF SellHubAsset, Allowed
  <2>3. StateOf(y) \in PoolState /\ LoadHubTradeSlipFees(y) \in HubTradeSlipFees \cup {None}
    BY <2>2, StateOfTyped, SlipTyped, Zenon
  <2> DEFINE r == CalculateSellHub(StateOf(y), amount, assetFee, LoadHubTradeSlipFees(y))
  <2>4. r.out \in Nat /\ r.hubOut \in Nat /\ r.extra \in Nat /\ r.assetFee \in Nat
    BY <1>1, <2>1, <2>3, SellHubResult, Zenon
  <2>5. SettleHub(y, r)
    BY <2>1, Zenon
  <2> HIDE DEF r
  <2> QED
    BY <2>2, <2>4, <2>5, SettleHubSafe, Zenon
<1>5. ASSUME NEW amount \in TradeAmounts, NEW y \in Assets, BuyAssetForHubAsset(y, amount)
      PROVE  TypeOK' /\ NoDilution
  <2>1. PICK assetFee \in AssetFees :
          LET r == CalculateBuyForHub(StateOf(y), amount, assetFee, LoadHubTradeSlipFees(y))
          IN  r.ok /\ SettleHub(y, r)
    BY <1>5, Zenon DEF BuyAssetForHubAsset
  <2>2. Call /\ InPool(y)
    BY <1>5, Zenon DEF BuyAssetForHubAsset, Allowed
  <2>3. StateOf(y) \in PoolState
    BY <2>2, StateOfTyped, Zenon
  <2> DEFINE r == CalculateBuyForHub(StateOf(y), amount, assetFee, LoadHubTradeSlipFees(y))
  <2>4. r.out \in Nat /\ r.hubOut \in Nat /\ r.extra \in Nat /\ r.assetFee \in Nat
    BY <1>1, <2>1, <2>3, BuyForHubResult, Zenon
  <2>5. SettleHub(y, r)
    BY <2>1, Zenon
  <2> HIDE DEF r
  <2> QED
    BY <2>2, <2>4, <2>5, SettleHubSafe, Zenon
<1> QED
  BY <1>2, <1>3, <1>4, <1>5, Zenon DEF Trading

(* Shares of a deposit, and what it adds to the reserve.                   *)
LEMMA AddedShares ==
  ASSUME NEW r \in Nat, NEW s \in Nat, NEW dr \in Nat, NEW ds \in Nat, r * ds <= s * dr
  PROVE  (r + dr) * s >= r * (s + ds)
<1>1. (r + dr) * s = r * s + s * dr /\ r * (s + ds) = r * s + r * ds
  OBVIOUS
<1>2. r * s \in Nat /\ s * dr \in Nat /\ r * ds \in Nat
  BY MulOrder
<1> QED
  BY <1>1, <1>2

(* Shares of a withdrawal, and what it takes from the reserve.             *)
LEMMA RemovedShares ==
  ASSUME NEW r \in Nat, NEW s \in Nat, NEW dr \in Nat, NEW ds \in Nat, s * dr <= r * ds
  PROVE  (r - dr) * s >= r * (s - ds)
<1>1. (r - dr) * s = r * s - s * dr /\ r * (s - ds) = r * s - r * ds
  OBVIOUS
<1>2. r * s \in Nat /\ s * dr \in Nat /\ r * ds \in Nat
  BY MulOrder
<1> QED
  BY <1>1, <1>2

(* A new position goes to a free id.                                       *)
LEMMA NewPositionTyped ==
  ASSUME TypeOK, NEW position \in Position, NewPosition(position)
  PROVE  positions' \in [PositionIds -> Position \cup {None}] /\ nextPositionId' \in 0..MaxPositionId
<1>1. MaxPositionId \in Nat /\ nextPositionId \in 0..MaxPositionId
  BY OmnipoolAssumption, Zenon DEF TypeOK
<1>2. nextPositionId' \in 0..MaxPositionId
  BY <1>1 DEF NewPosition
<1>3. positions' \in [PositionIds -> Position \cup {None}]
  BY Zenon DEF NewPosition, TypeOK
<1> QED
  BY <1>2, <1>3, Zenon

(* add_token.                                                              *)
LEMMA AddTokenSafe ==
  ASSUME TypeOK, NEW x \in Assets, NEW price \in InitialPrices, NEW cap \in Caps, AddToken(x, price, cap)
  PROVE  TypeOK' /\ NoDilution
<1> DEFINE hub == MulInt(price, reserve[x])
<1>1. /\ price \in Nat \ {0} /\ cap \in 0..PERMILL /\ reserve[x] \in Nat /\ FIXED \in Nat \ {0}
  BY OmnipoolAssumption, ScaleAssumption, Zenon DEF TypeOK
<1>2. hub \in Nat /\ FromPermill(cap) \in Nat
  <2>1. hub \in Nat
    BY <1>1, MulIntNat, Zenon
  <2>2. FromPermill(cap) \in 0..FIXED
    BY <1>1, FromPermillPart, Zenon
  <2> QED
    BY <1>1, <2>1, <2>2
<1>3. /\ Call /\ ~InPool(x) /\ UpdateHubAssetLiquidity(0, hub)
      /\ assets' = [assets EXCEPT ![x] = [hub |-> hub, shares |-> reserve[x], protocolShares |-> 0,
                                          cap |-> FromPermill(cap), tradable |-> AllFlags]]
      /\ NewPosition([asset |-> x, amount |-> reserve[x], shares |-> reserve[x], price |-> <<price, FIXED>>])
      /\ UNCHANGED <<reserve, userHub, settings, slipVars>>
  BY Zenon DEF AddToken
<1> HIDE DEF hub
<1>4. assets' \in [Assets -> AssetState \cup {None}]
  <2>1. [hub |-> hub, shares |-> reserve[x], protocolShares |-> 0,
         cap |-> FromPermill(cap), tradable |-> AllFlags] \in AssetState
    BY <1>1, <1>2, Zenon DEF AssetState
  <2> QED
    BY <1>3, <2>1, Zenon DEF TypeOK
<1>5. positions' \in [PositionIds -> Position \cup {None}] /\ nextPositionId' \in 0..MaxPositionId
  <2>1. [asset |-> x, amount |-> reserve[x], shares |-> reserve[x], price |-> <<price, FIXED>>] \in Position
    BY <1>1, Zenon DEF Position
  <2> QED
    BY <1>3, <2>1, NewPositionTyped, Zenon
<1>6. hubFree' \in Nat /\ hubReserved' \in Nat
  BY <1>2, <1>3, HubUpdateTyped
<1>7. UNCHANGED <<reserve, userHub, slipFee, hubTradable, q0, slipDelta>>
  BY <1>3, Zenon DEF settings, slipVars
<1>8. TypeOK'
  BY <1>3, <1>4, <1>5, <1>6, <1>7, CallTyped, Zenon DEF TypeOK
<1>9. NoDilution
  BY <1>3, Zenon DEF NoDilution, InPool, TypeOK
<1> QED
  BY <1>8, <1>9, Zenon

(* add_liquidity: the new shares are rounded down.                         *)
LEMMA AddLiquiditySafe ==
  ASSUME TypeOK, NEW x \in Assets, NEW amount \in LiquidityAmounts, AddLiquidity(x, amount)
  PROVE  TypeOK' /\ NoDilution
<1> DEFINE r == CalculateAddLiquidity(StateOf(x), amount)
<1>1. amount \in Nat \ {0}
  BY OmnipoolAssumption DEF AddLiquidity
<1>2. Call /\ InPool(x) /\ r.ok
  BY Zenon DEF AddLiquidity, Allowed
<1>3. /\ StateOf(x) \in PoolState /\ assets[x] \in AssetState
      /\ StateOf(x).reserve = reserve[x] /\ StateOf(x).hub = assets[x].hub /\ StateOf(x).shares = assets[x].shares
  BY <1>2, StateOfTyped, Zenon
<1>4. r.hub \in Nat /\ r.shares \in Nat /\ reserve[x] * r.shares <= assets[x].shares * amount
  BY <1>1, <1>2, <1>3, AddLiquidityResult, Zenon
<1>5. /\ NewPosition([asset |-> x, amount |-> amount, shares |-> r.shares,
                      price |-> <<assets[x].hub + r.hub, reserve[x] + amount>>])
      /\ reserve' = [reserve EXCEPT ![x] = reserve[x] + amount]
      /\ assets' = [assets EXCEPT ![x].hub = assets[x].hub + r.hub, ![x].shares = assets[x].shares + r.shares]
      /\ UpdateHubAssetLiquidity(0, r.hub)
      /\ EnsureQ0Snapshot(x) /\ UNCHANGED slipDelta
      /\ UNCHANGED <<userHub, settings>>
  BY <1>3, Zenon DEF AddLiquidity
<1> HIDE DEF r
<1>6. reserve[x] \in Nat /\ assets[x].hub \in Nat /\ assets[x].shares \in Nat
  BY <1>3, Zenon DEF TypeOK, AssetState
<1>7. /\ assets'[x] \in AssetState /\ assets'[x].shares = assets[x].shares + r.shares
      /\ \A z \in Assets \ {x} : assets'[z] = assets[z]
      /\ assets' \in [Assets -> AssetState \cup {None}]
  <2> DEFINE h == assets[x].hub + r.hub
             s == assets[x].shares + r.shares
  <2>1. assets \in AssetMap /\ h \in Nat /\ s \in Nat
    BY <1>4, <1>6 DEF TypeOK, AssetMap
  <2>2. assets' = [assets EXCEPT ![x].hub = h, ![x].shares = s]
    BY <1>5, Zenon
  <2> HIDE DEF h, s
  <2>3. /\ assets' \in AssetMap /\ assets'[x] \in AssetState /\ assets'[x].shares = s
        /\ \A z \in Assets \ {x} : assets'[z] = assets[z]
    BY <1>2, <2>1, <2>2, HubAndSharesChanged, Zenon
  <2> QED
    BY <2>3, Zenon DEF AssetMap, s
<1>8. positions' \in [PositionIds -> Position \cup {None}] /\ nextPositionId' \in 0..MaxPositionId
  <2>1. [asset |-> x, amount |-> amount, shares |-> r.shares,
         price |-> <<assets[x].hub + r.hub, reserve[x] + amount>>] \in Position
    BY <1>1, <1>4, <1>6 DEF Position
  <2> QED
    BY <1>5, <2>1, NewPositionTyped, Zenon
<1>9. hubFree' \in Nat /\ hubReserved' \in Nat
  <2>1. 0 \in Int /\ r.hub \in Int
    BY <1>4
  <2> QED
    BY <1>5, <2>1, HubUpdateTyped, Zenon
<1>10. q0' \in [Assets -> Nat \cup {None}] /\ slipDelta' \in [Assets -> Int]
  BY <1>2, <1>5, SlipUpdateTyped, Zenon
<1>11. reserve' \in [Assets -> Nat] /\ reserve'[x] = reserve[x] + amount
  BY <1>1, <1>5, <1>6 DEF TypeOK
<1>12. UNCHANGED <<userHub, slipFee, hubTradable>>
  BY <1>5, Zenon DEF settings
<1>13. TypeOK'
  BY <1>2, <1>7, <1>8, <1>9, <1>10, <1>11, <1>12, CallTyped, Zenon DEF TypeOK
<1>14. reserve'[x] * assets[x].shares >= reserve[x] * assets'[x].shares
  <2>1. (reserve[x] + amount) * assets[x].shares >= reserve[x] * (assets[x].shares + r.shares)
    BY <1>1, <1>4, <1>6, AddedShares, Zenon
  <2> QED
    BY <1>7, <1>11, <2>1, Zenon
<1>15. NoDilution
  BY <1>7, <1>14, Zenon DEF NoDilution
<1> QED
  BY <1>13, <1>15, Zenon

(* What a withdrawal leaves of the asset.                                  *)
LEMMA AfterRemovalTyped ==
  ASSUME TypeOK, NEW x \in Assets, InPool(x), NEW r, r.hub \in Nat, r.shares \in Nat, r.protocolShares \in Nat,
         r.hub <= assets[x].hub, r.shares <= assets[x].shares
  PROVE  /\ AfterRemoval(x, r) \in AssetMap /\ AfterRemoval(x, r)[x] \in AssetState
         /\ AfterRemoval(x, r)[x].hub = assets[x].hub - r.hub
         /\ AfterRemoval(x, r)[x].shares = assets[x].shares - r.shares
         /\ AfterRemoval(x, r)[x].protocolShares = assets[x].protocolShares + r.protocolShares
         /\ \A z \in Assets \ {x} : AfterRemoval(x, r)[z] = assets[z]
<1> DEFINE h == assets[x].hub - r.hub
           s == assets[x].shares - r.shares
           p == assets[x].protocolShares + r.protocolShares
           m == [assets EXCEPT ![x].hub = h]
           b == [m EXCEPT ![x].shares = s]
           c == [b EXCEPT ![x].protocolShares = p]
<1>1. assets \in AssetMap /\ assets[x] \in AssetState
  BY StateOfTyped, Zenon DEF TypeOK, AssetMap
<1>2. h \in Nat /\ s \in Nat /\ p \in Nat
  BY <1>1 DEF AssetState
<1>3. AfterRemoval(x, r) = c
  BY <1>1, Zenon DEF AfterRemoval, AssetMap
<1> HIDE DEF h
<1>4. m \in AssetMap /\ m[x] \in AssetState /\ m[x].hub = h /\ \A z \in Assets \ {x} : m[z] = assets[z]
  BY <1>1, <1>2, HubChanged
<1> HIDE DEF s, m
<1>5. /\ b \in AssetMap /\ b[x] \in AssetState /\ b[x].shares = s /\ b[x].hub = m[x].hub
      /\ \A z \in Assets \ {x} : b[z] = m[z]
  BY <1>2, <1>4, SharesChanged
<1> HIDE DEF p, b
<1>6. /\ c \in AssetMap /\ c[x] \in AssetState
      /\ c[x].protocolShares = p /\ c[x].shares = b[x].shares /\ c[x].hub = b[x].hub
      /\ \A z \in Assets \ {x} : c[z] = b[z]
  BY <1>2, <1>5, ProtocolSharesChanged
<1> HIDE DEF c
<1> QED
  BY <1>3, <1>4, <1>5, <1>6, Zenon DEF h, s, p

(* The payout of a withdrawal.                                             *)
LEMMA PayOutTyped ==
  ASSUME TypeOK, NEW r, r.hub \in Nat, r.lpHub \in Nat, PayOut(r)
  PROVE  hubFree' \in Nat /\ hubReserved' \in Nat /\ userHub' \in Nat
<1>1. PICK burned \in IF r.lpHub < HubDust THEN {0, r.lpHub} ELSE {0} :
        UpdateHubAssetLiquidity(-r.lpHub, r.lpHub - r.hub) /\ userHub' = userHub + r.lpHub - burned
  BY Zenon DEF PayOut
<1>2. -r.lpHub \in Int /\ r.lpHub - r.hub \in Int
  OBVIOUS
<1>3. hubFree' \in Nat /\ hubReserved' \in Nat
  BY <1>1, <1>2, HubUpdateTyped, Zenon
<1>4. userHub' \in Nat
  BY <1>1 DEF TypeOK
<1> QED
  BY <1>3, <1>4, Zenon

(* A withdrawal takes no more of the reserve than the part of the shares   *)
(* that it burns.                                                          *)
LEMMA RemovalDilutesNone ==
  ASSUME TypeOK, NEW x \in Assets, InPool(x), NEW r,
         r.reserve \in Nat, r.shares \in Nat,
         assets[x].shares * r.reserve <= reserve[x] * r.shares,
         reserve' = [reserve EXCEPT ![x] = @ - r.reserve],
         assets'[x].shares = assets[x].shares - r.shares,
         \A z \in Assets \ {x} : assets'[z] = assets[z]
  PROVE  NoDilution
<1>1. reserve[x] \in Nat /\ assets[x].shares \in Nat
  BY StateOfTyped, Zenon DEF TypeOK, AssetState
<1>2. reserve'[x] = reserve[x] - r.reserve
  BY Zenon DEF TypeOK
<1>3. (reserve[x] - r.reserve) * assets[x].shares >= reserve[x] * (assets[x].shares - r.shares)
  BY <1>1, RemovedShares, Zenon
<1>4. reserve'[x] * assets[x].shares >= reserve[x] * assets'[x].shares
  BY <1>2, <1>3, Zenon
<1> QED
  BY <1>4, Zenon DEF NoDilution

(* remove_liquidity.                                                       *)
LEMMA RemoveLiquiditySafe ==
  ASSUME TypeOK, NEW id \in PositionIds, NEW shares \in Nat, RemoveLiquidity(id, shares)
  PROVE  TypeOK' /\ NoDilution
<1> DEFINE p   == positions[id]
           x   == p.asset
<1>1. PICK oracle \in OraclePrices :
        LET fee == CalculateWithdrawalFee(Price(StateOf(x)), oracle, MinWithdrawalFee)
            r   == CalculateRemoveLiquidity(StateOf(x), shares, p, fee)
        IN  /\ r.ok
            /\ r.shares <= StateOf(x).shares
            /\ reserve' = [reserve EXCEPT ![x] = @ - r.reserve]
            /\ assets' = AfterRemoval(x, r)
            /\ positions' = [positions EXCEPT ![id] =
                               IF p.shares - shares = 0 THEN None
                               ELSE [p EXCEPT !.shares = p.shares - shares, !.amount = p.amount - r.amount]]
            /\ PayOut(r)
  BY Zenon DEF RemoveLiquidity
<1> DEFINE fee == CalculateWithdrawalFee(Price(StateOf(x)), oracle, MinWithdrawalFee)
           r   == CalculateRemoveLiquidity(StateOf(x), shares, p, fee)
<1>2. /\ Call /\ InPool(x) /\ p # None /\ shares <= p.shares /\ reserve[x] > 0 /\ EnsureQ0Snapshot(x)
      /\ UNCHANGED <<nextPositionId, slipDelta, settings>>
  BY Zenon DEF RemoveLiquidity, Allowed
<1>3. p \in Position
  BY <1>2, Zenon DEF TypeOK
<1> HIDE DEF p
<1>4. x \in Assets /\ p.shares \in Nat /\ p.amount \in Nat /\ IsPosition(p)
  BY <1>3, Zenon DEF Position, IsPosition
<1> HIDE DEF x
<1>5. /\ StateOf(x) \in PoolState /\ reserve[x] \in Nat /\ StateOf(x).reserve = reserve[x]
      /\ StateOf(x).hub = assets[x].hub /\ StateOf(x).shares = assets[x].shares
  BY <1>2, <1>4, StateOfTyped, Zenon DEF TypeOK
<1>6. fee \in 0..FIXED
  <2>1. Price(StateOf(x)) \in Nat
    <3>1. StateOf(x).hub \in Nat /\ StateOf(x).reserve \in Nat \ {0}
      BY <1>2, <1>5 DEF PoolState
    <3> QED
      BY <3>1, FromRationalNat, Zenon DEF Price
  <2>2. oracle \in Nat /\ MinWithdrawalFee \in 0..PERMILL
    BY OmnipoolAssumption, Zenon
  <2> QED
    BY <2>1, <2>2, WithdrawalFeePart, Zenon
<1> HIDE DEF fee
<1>7. r.ok /\ r.shares <= StateOf(x).shares
  BY <1>1, Zenon DEF fee
<1>8. /\ r.reserve \in Nat /\ r.hub \in Nat /\ r.shares \in Nat /\ r.protocolShares \in Nat
      /\ r.lpHub \in Nat /\ r.amount \in Nat
      /\ r.reserve <= reserve[x] /\ r.hub <= assets[x].hub
      /\ assets[x].shares * r.reserve <= reserve[x] * r.shares
      /\ r.amount <= p.amount
  BY <1>2, <1>4, <1>5, <1>6, <1>7, RemoveLiquidityResult, Zenon
<1>9. /\ reserve' = [reserve EXCEPT ![x] = @ - r.reserve]
      /\ assets' = AfterRemoval(x, r)
      /\ positions' = [positions EXCEPT ![id] =
                         IF p.shares - shares = 0 THEN None
                         ELSE [p EXCEPT !.shares = p.shares - shares, !.amount = p.amount - r.amount]]
      /\ PayOut(r)
  BY <1>1, Zenon DEF fee
<1> HIDE DEF r
<1>10. /\ assets' \in AssetMap /\ assets'[x].shares = assets[x].shares - r.shares
       /\ \A z \in Assets \ {x} : assets'[z] = assets[z]
  BY <1>2, <1>4, <1>5, <1>7, <1>8, <1>9, AfterRemovalTyped, Zenon DEF r
<1>11. NoDilution
  BY <1>2, <1>4, <1>8, <1>9, <1>10, RemovalDilutesNone, Zenon
<1>12. hubFree' \in Nat /\ hubReserved' \in Nat /\ userHub' \in Nat
  BY <1>8, <1>9, PayOutTyped, Zenon
<1>13. positions' \in [PositionIds -> Position \cup {None}]
  <2> DEFINE q == [p EXCEPT !.shares = p.shares - shares, !.amount = p.amount - r.amount]
  <2>1. p.shares - shares \in Nat /\ p.amount - r.amount \in Nat
    BY <1>2, <1>4, <1>8
  <2>2. q \in Position
    BY <1>3, <2>1, Zenon DEF Position
  <2>3. positions \in [PositionIds -> Position \cup {None}] /\ p = positions[id]
    BY Zenon DEF TypeOK, p
  <2>4. positions' = [positions EXCEPT ![id] = IF p.shares - shares = 0 THEN None ELSE q]
    BY <1>9, Zenon
  <2> HIDE DEF q
  <2> QED
    BY <2>2, <2>3, <2>4, Zenon
<1>14. q0' \in [Assets -> Nat \cup {None}] /\ slipDelta' \in [Assets -> Int]
  BY <1>2, <1>4, SlipUpdateTyped, Zenon
<1>15. reserve' \in [Assets -> Nat]
  BY <1>4, <1>8, <1>9 DEF TypeOK
<1>16. UNCHANGED <<nextPositionId, slipFee, hubTradable>>
  BY <1>2, Zenon DEF settings
<1>17. TypeOK'
  BY <1>2, <1>10, <1>12, <1>13, <1>14, <1>15, <1>16, CallTyped, Zenon DEF TypeOK, AssetMap
<1> QED
  BY <1>11, <1>17, Zenon

(* sacrifice_position.                                                     *)
LEMMA SacrificePositionSafe ==
  ASSUME TypeOK, NEW id \in PositionIds, SacrificePosition(id)
  PROVE  TypeOK' /\ NoDilution
<1> DEFINE x == positions[id].asset
           v == assets[x].protocolShares + positions[id].shares
           b == [assets EXCEPT ![x].protocolShares = v]
<1>1. positions[id] \in Position /\ InPool(x) /\ Call
  BY Zenon DEF TypeOK, SacrificePosition
<1>2. x \in Assets /\ positions[id].shares \in Nat
  BY <1>1, Zenon DEF Position
<1>3. assets' = b
  BY Zenon DEF SacrificePosition
<1>4. positions' \in [PositionIds -> Position \cup {None}]
  BY Zenon DEF SacrificePosition, TypeOK
<1> HIDE DEF x
<1>5. assets \in AssetMap /\ assets[x] \in AssetState
  BY <1>1, <1>2, StateOfTyped, Zenon DEF TypeOK, AssetMap
<1>6. v \in Nat
  BY <1>2, <1>5 DEF AssetState
<1> HIDE DEF v
<1>7. /\ b \in AssetMap /\ b[x] \in AssetState /\ b[x].shares = assets[x].shares
      /\ \A z \in Assets \ {x} : b[z] = assets[z]
  BY <1>2, <1>5, <1>6, ProtocolSharesChanged
<1> HIDE DEF b
<1>8. UNCHANGED <<reserve, hubFree, hubReserved, userHub, nextPositionId, slipFee, hubTradable,
                  q0, slipDelta>>
  BY Zenon DEF SacrificePosition, settings, slipVars
<1>9. TypeOK'
  BY <1>1, <1>3, <1>4, <1>7, <1>8, CallTyped, Zenon DEF TypeOK, AssetMap
<1>10. SameShares(assets, assets')
  BY <1>3, <1>7, Zenon DEF SameShares
<1> QED
  BY <1>9, <1>10, SameSharesSafe, Zenon

(* withdraw_protocol_liquidity.                                            *)
LEMMA WithdrawProtocolLiquiditySafe ==
  ASSUME TypeOK, NEW x \in Assets, NEW amount \in Nat, NEW price, price[1] \in Nat, price[2] \in Nat \ {0},
         WithdrawProtocolLiquidity(x, amount, price)
  PROVE  TypeOK' /\ NoDilution
<1> DEFINE p     == [amount |-> 0, shares |-> amount, price |-> price]
           r     == CalculateRemoveLiquidity(StateOf(x), amount, p, 0)
           after == AfterRemoval(x, r)
           v     == IF amount > after[x].protocolShares THEN 0 ELSE after[x].protocolShares - amount
           b     == [after EXCEPT ![x].protocolShares = v]
<1>1. /\ Call /\ InPool(x) /\ r.ok /\ r.shares <= assets[x].shares
      /\ reserve' = [reserve EXCEPT ![x] = @ - r.reserve]
      /\ assets' = b
      /\ PayOut(r)
      /\ UNCHANGED <<book, settings, slipVars>>
  BY Zenon DEF WithdrawProtocolLiquidity
<1>2. IsPosition(p) /\ 0 \in 0..FIXED
  BY ScaleAssumption DEF IsPosition
<1>3. /\ StateOf(x) \in PoolState /\ StateOf(x).reserve = reserve[x] /\ StateOf(x).hub = assets[x].hub
      /\ StateOf(x).shares = assets[x].shares
  BY <1>1, StateOfTyped, Zenon
<1> HIDE DEF p
<1>4. /\ r.reserve \in Nat /\ r.hub \in Nat /\ r.shares \in Nat /\ r.protocolShares \in Nat
      /\ r.lpHub \in Nat /\ r.reserve <= reserve[x] /\ r.hub <= assets[x].hub
      /\ assets[x].shares * r.reserve <= reserve[x] * r.shares
  BY <1>1, <1>2, <1>3, RemoveLiquidityResult, Zenon
<1> HIDE DEF r
<1>5. /\ after \in AssetMap /\ after[x] \in AssetState /\ after[x].shares = assets[x].shares - r.shares
      /\ \A z \in Assets \ {x} : after[z] = assets[z]
  BY <1>1, <1>4, AfterRemovalTyped
<1> HIDE DEF after
<1>6. v \in Nat
  BY <1>5 DEF AssetState
<1> HIDE DEF v
<1>7. /\ b \in AssetMap /\ b[x] \in AssetState /\ b[x].shares = after[x].shares
      /\ \A z \in Assets \ {x} : b[z] = after[z]
  BY <1>5, <1>6, ProtocolSharesChanged
<1> HIDE DEF b
<1>8. /\ assets' \in AssetMap /\ assets'[x].shares = assets[x].shares - r.shares
      /\ \A z \in Assets \ {x} : assets'[z] = assets[z]
  BY <1>1, <1>5, <1>7, Zenon
<1>9. NoDilution
  BY <1>1, <1>4, <1>8, RemovalDilutesNone, Zenon
<1>10. hubFree' \in Nat /\ hubReserved' \in Nat /\ userHub' \in Nat
  BY <1>1, <1>4, PayOutTyped, Zenon
<1>11. reserve' \in [Assets -> Nat]
  BY <1>1, <1>4 DEF TypeOK
<1>12. UNCHANGED <<positions, nextPositionId, slipFee, hubTradable, q0, slipDelta>>
  BY <1>1, Zenon DEF book, settings, slipVars
<1>13. TypeOK'
  BY <1>1, <1>8, <1>10, <1>11, <1>12, CallTyped, Zenon DEF TypeOK, AssetMap
<1> QED
  BY <1>9, <1>13, Zenon

(* add_liquidity, sacrifice_position and remove_liquidity.                 *)
LEMMA ProvidingSafe ==
  ASSUME TypeOK, Providing
  PROVE  TypeOK' /\ NoDilution
<1>1. CASE \E x \in Assets, amount \in LiquidityAmounts : AddLiquidity(x, amount)
  BY <1>1, AddLiquiditySafe, Zenon
<1>2. ASSUME NEW id \in PositionIds, SacrificePosition(id) PROVE TypeOK' /\ NoDilution
  BY <1>2, SacrificePositionSafe, Zenon
<1>3. ASSUME NEW id \in PositionIds, positions[id] # None,
             NEW shares \in {positions[id].shares, positions[id].shares \div 2}, RemoveLiquidity(id, shares)
      PROVE  TypeOK' /\ NoDilution
  <2>1. positions[id].shares \in Nat
    BY <1>3, Zenon DEF TypeOK, Position
  <2>2. shares \in Nat
    BY <2>1
  <2> QED
    BY <1>3, <2>2, RemoveLiquiditySafe, Zenon
<1> QED
  BY <1>1, <1>2, <1>3, Zenon DEF Providing

(* The calls of governance and of the authority.                           *)
LEMMA GoverningSafe ==
  ASSUME TypeOK, Governing
  PROVE  TypeOK' /\ NoDilution
<1>1. ASSUME NEW x \in Assets, RemoveToken(x) PROVE TypeOK' /\ NoDilution
  <2>1. InPool(x) /\ hubFree >= assets[x].hub /\ hubFree' = hubFree - assets[x].hub /\ Call
    BY <1>1, Zenon DEF RemoveToken
  <2>2. hubFree' \in Nat
    BY <2>1, StateOfTyped DEF TypeOK, AssetState
  <2>3. assets' \in [Assets -> AssetState \cup {None}] /\ reserve' \in [Assets -> Nat]
    BY <1>1, Zenon DEF RemoveToken, TypeOK
  <2>4. UNCHANGED <<hubReserved, userHub, positions, nextPositionId, slipFee, hubTradable, q0, slipDelta>>
    BY <1>1, Zenon DEF RemoveToken, book, settings, slipVars
  <2>5. TypeOK'
    BY <2>1, <2>2, <2>3, <2>4, CallTyped, Zenon DEF TypeOK
  <2>6. NoDilution
    BY <1>1, Zenon DEF NoDilution, RemoveToken, InPool, TypeOK
  <2> QED
    BY <2>5, <2>6, Zenon
<1>2. ASSUME NEW x \in Assets, RefundRefusedAsset(x, reserve[x]) PROVE TypeOK' /\ NoDilution
  <2>1. reserve' \in [Assets -> Nat]
    BY <1>2 DEF RefundRefusedAsset, TypeOK
  <2>2. Call /\ UNCHANGED <<assets, hubFree, hubReserved, userHub, positions, nextPositionId, slipFee, hubTradable,
                            q0, slipDelta>>
    BY <1>2, Zenon DEF RefundRefusedAsset, book, settings, slipVars
  <2>3. TypeOK'
    BY <2>1, <2>2, CallTyped, Zenon DEF TypeOK
  <2> QED
    BY <2>2, <2>3, Zenon DEF NoDilution
<1>3. ASSUME NEW x \in Assets, NEW a, InPool(x), a \in AssetState, a.shares = assets[x].shares,
             Call, assets' = [assets EXCEPT ![x] = a],
             UNCHANGED <<reserve, hubFree, hubReserved, userHub, book, settings, slipVars>>
      PROVE  TypeOK' /\ NoDilution
  <2>1. assets' \in [Assets -> AssetState \cup {None}]
    BY <1>3, Zenon DEF TypeOK
  <2>2. UNCHANGED <<reserve, hubFree, hubReserved, userHub, positions, nextPositionId, slipFee, hubTradable,
                    q0, slipDelta>>
    BY <1>3, Zenon DEF book, settings, slipVars
  <2>3. TypeOK'
    BY <1>3, <2>1, <2>2, CallTyped, Zenon DEF TypeOK
  <2>4. \A z \in Assets : assets'[z] = IF z = x THEN a ELSE assets[z]
    BY <1>3, Zenon DEF TypeOK
  <2>5. SameShares(assets, assets')
    BY <1>3, <2>4, Zenon DEF SameShares
  <2> QED
    BY <2>3, <2>5, SameSharesSafe, Zenon
<1>4. ASSUME NEW x \in Assets, NEW flags \in Tradabilities, SetAssetTradableState(x, flags)
      PROVE  TypeOK' /\ NoDilution
  <2> DEFINE a == [assets[x] EXCEPT !.tradable = flags]
  <2>1. InPool(x) /\ Call /\ assets' = [assets EXCEPT ![x] = a]
        /\ UNCHANGED <<reserve, hubFree, hubReserved, userHub, book, settings, slipVars>>
    BY <1>4, Zenon DEF SetAssetTradableState
  <2>2. flags \in SUBSET AllFlags /\ assets[x] \in AssetState
    BY <2>1, OmnipoolAssumption, StateOfTyped, Zenon DEF AllFlags
  <2>3. a \in AssetState /\ a.shares = assets[x].shares
    BY <2>2, Zenon DEF AssetState
  <2> HIDE DEF a
  <2> QED
    BY <1>3, <2>1, <2>3, Zenon
<1>5. ASSUME NEW x \in Assets, NEW cap \in Caps, SetAssetWeightCap(x, cap) PROVE TypeOK' /\ NoDilution
  <2> DEFINE a == [assets[x] EXCEPT !.cap = FromPermill(cap)]
  <2>1. InPool(x) /\ Call /\ assets' = [assets EXCEPT ![x] = a]
        /\ UNCHANGED <<reserve, hubFree, hubReserved, userHub, book, settings, slipVars>>
    BY <1>5, Zenon DEF SetAssetWeightCap
  <2>2. FromPermill(cap) \in Nat
    <3>1. cap \in 0..PERMILL /\ FIXED \in Nat
      BY OmnipoolAssumption, ScaleAssumption, Zenon
    <3>2. FromPermill(cap) \in 0..FIXED
      BY <3>1, FromPermillPart, Zenon
    <3> QED
      BY <3>1, <3>2
  <2>3. assets[x] \in AssetState
    BY <2>1, StateOfTyped, Zenon
  <2>4. a \in AssetState /\ a.shares = assets[x].shares
    BY <2>2, <2>3, Zenon DEF AssetState
  <2> HIDE DEF a
  <2> QED
    BY <1>3, <2>1, <2>4, Zenon
<1>6. ASSUME NEW x \in Assets, NEW price \in InitialPrices, NEW cap \in Caps, AddToken(x, price, cap)
      PROVE  TypeOK' /\ NoDilution
  BY <1>6, AddTokenSafe, Zenon
<1>7. ASSUME NEW x \in Assets, InPool(x), NEW price \in OraclePrices,
             WithdrawProtocolLiquidity(x, assets[x].protocolShares, <<price, FIXED>>)
      PROVE  TypeOK' /\ NoDilution
  <2> DEFINE at == <<price, FIXED>>
             amount == assets[x].protocolShares
  <2>1. at[1] \in Nat /\ at[2] \in Nat \ {0}
    BY OmnipoolAssumption, ScaleAssumption, Zenon
  <2>2. amount \in Nat
    BY <1>7, StateOfTyped, Zenon DEF AssetState
  <2>3. WithdrawProtocolLiquidity(x, amount, at)
    BY <1>7, Zenon
  <2> HIDE DEF at, amount
  <2> QED
    BY <2>1, <2>2, <2>3, WithdrawProtocolLiquiditySafe, Zenon
<1>8. ASSUME NEW flags \in Tradabilities, SetHubTradableState(flags) PROVE TypeOK' /\ NoDilution
  <2>1. Call /\ hubTradable' \in SUBSET AllFlags
    BY <1>8, OmnipoolAssumption, Zenon DEF SetHubTradableState, AllFlags
  <2>2. UNCHANGED <<assets, reserve, hubFree, hubReserved, userHub, positions, nextPositionId, slipFee,
                    q0, slipDelta>>
    BY <1>8, Zenon DEF SetHubTradableState, book, slipVars
  <2>3. TypeOK'
    BY <2>1, <2>2, CallTyped, Zenon DEF TypeOK
  <2> QED
    BY <2>2, <2>3, Zenon DEF NoDilution
<1>9. ASSUME NEW max \in SlipFees \cup {None}, SetSlipFee(max) PROVE TypeOK' /\ NoDilution
  <2>1. Call /\ slipFee' \in (0..PERMILL) \cup {None}
    BY <1>9, OmnipoolAssumption, Zenon DEF SetSlipFee
  <2>2. UNCHANGED <<assets, reserve, hubFree, hubReserved, userHub, positions, nextPositionId, hubTradable,
                    q0, slipDelta>>
    BY <1>9, Zenon DEF SetSlipFee, book, slipVars
  <2>3. TypeOK'
    BY <2>1, <2>2, CallTyped, Zenon DEF TypeOK
  <2> QED
    BY <2>2, <2>3, Zenon DEF NoDilution
<1> QED
  BY <1>1, <1>2, <1>4, <1>5, <1>6, <1>7, <1>8, <1>9, Zenon DEF Governing

(* on_finalize, and the release of reserved hub asset.                     *)
LEMMA BlockSafe ==
  ASSUME TypeOK, NewBlock \/ ReleaseHub
  PROVE  TypeOK' /\ NoDilution
<1>1. CASE NewBlock
  <2>2. q0' \in [Assets -> Nat \cup {None}] /\ slipDelta' \in [Assets -> Int]
    <3>1. q0' = [x \in Assets |-> None] /\ slipDelta' = [x \in Assets |-> 0]
      BY <1>1, Zenon DEF NewBlock
    <3>2. q0' \in [Assets -> Nat \cup {None}]
      BY <3>1, Zenon
    <3>3. slipDelta' \in [Assets -> Int]
      BY <3>1
    <3> QED
      BY <3>2, <3>3, Zenon
  <2>3. UNCHANGED <<assets, reserve, hubFree, hubReserved, userHub, positions, nextPositionId, slipFee, hubTradable,
                    calls>>
    BY <1>1, Zenon DEF NewBlock, book, settings
  <2>4. TypeOK'
    BY <2>2, <2>3, Zenon DEF TypeOK
  <2> QED
    BY <2>3, <2>4, Zenon DEF NoDilution
<1>2. CASE ReleaseHub
  <2>1. hubFree' \in Nat /\ hubReserved' \in Nat
    BY <1>2 DEF ReleaseHub, TypeOK
  <2>2. UNCHANGED <<assets, reserve, userHub, positions, nextPositionId, slipFee, hubTradable, q0, slipDelta, calls>>
    BY <1>2, Zenon DEF ReleaseHub, book, settings, slipVars
  <2>3. TypeOK'
    BY <2>1, <2>2, Zenon DEF TypeOK
  <2> QED
    BY <2>2, <2>3, Zenon DEF NoDilution
<1> QED
  BY <1>1, <1>2, Zenon

(* The pool starts typed.                                                  *)
LEMMA InitTyped == Init => TypeOK
<1> SUFFICES ASSUME Init PROVE TypeOK
  OBVIOUS
<1>1. /\ PERMILL \in Nat \ {0} /\ FIXED \in Nat \ {0}
      /\ InitialReserve \in [Assets -> Nat] /\ InitialPrice \in [Assets -> Nat \ {0}]
      /\ InitialOrder \in Seq(Assets) /\ Len(InitialOrder) <= MaxPositionId
      /\ InitialHubSupply \in Nat /\ InitialUserHub \in Nat /\ MaxCalls \in Nat /\ MaxPositionId \in Nat
  BY OmnipoolAssumption, ScaleAssumption, Zenon
<1>2. \A x \in Assets : InitialHub(x) \in Nat
  BY <1>1, MulIntNat, Zenon DEF InitialHub
<1>3. FromPermill(PERMILL) \in Nat
  <2>1. PERMILL \in 0..PERMILL
    BY <1>1
  <2>2. FromPermill(PERMILL) \in 0..FIXED
    BY <2>1, FromPermillPart, Zenon
  <2> QED
    BY <1>1, <2>2
<1>4. assets \in [Assets -> AssetState \cup {None}]
  BY <1>1, <1>2, <1>3, Zenon DEF Init, AssetState
<1>5. positions \in [PositionIds -> Position \cup {None}]
  <2>1. ASSUME NEW id \in PositionIds, id + 1 \in DOMAIN InitialOrder
        PROVE  [asset |-> InitialOrder[id + 1], amount |-> InitialReserve[InitialOrder[id + 1]],
                shares |-> InitialReserve[InitialOrder[id + 1]],
                price |-> <<InitialPrice[InitialOrder[id + 1]], FIXED>>] \in Position
    <3>1. InitialOrder[id + 1] \in Assets
      BY <1>1, <2>1
    <3> QED
      BY <1>1, <3>1, Zenon DEF Position
  <2> QED
    BY <2>1, Zenon DEF Init
<1>6. nextPositionId \in 0..MaxPositionId
  <2>1. Len(InitialOrder) \in Nat
    BY <1>1
  <2>2. nextPositionId = Len(InitialOrder)
    BY Zenon DEF Init
  <2> QED
    BY <1>1, <2>1, <2>2
<1>7. slipFee \in (0..PERMILL) \cup {None}
  BY OmnipoolAssumption, Zenon DEF Init
<1>9. /\ reserve \in [Assets -> Nat] /\ hubFree \in Nat /\ hubReserved \in Nat /\ userHub \in Nat
      /\ calls \in 0..MaxCalls
  <2>1. /\ reserve = InitialReserve /\ hubFree = InitialHubSupply /\ hubReserved = 0
        /\ userHub = InitialUserHub /\ calls = 0
    BY Zenon DEF Init
  <2> QED
    BY <1>1, <2>1
<1>10. /\ q0 \in [Assets -> Nat \cup {None}] /\ slipDelta \in [Assets -> Int]
       /\ hubTradable \in SUBSET AllFlags
  <2>1. q0 = [x \in Assets |-> None] /\ slipDelta = [x \in Assets |-> 0] /\ hubTradable = {"SELL"}
    BY Zenon DEF Init
  <2>2. q0 \in [Assets -> Nat \cup {None}]
    BY <2>1, Zenon
  <2>3. slipDelta \in [Assets -> Int]
    BY <2>1
  <2>4. hubTradable \in SUBSET AllFlags
    BY <2>1, Zenon DEF AllFlags
  <2> QED
    BY <2>2, <2>3, <2>4, Zenon
<1> QED
  BY <1>4, <1>5, <1>6, <1>7, <1>9, <1>10, Zenon DEF TypeOK

(* Every step of the specification keeps the types and dilutes no shares.  *)
LEMMA StepSafe ==
  ASSUME TypeOK, [Next]_vars
  PROVE  TypeOK' /\ (vars' # vars => NoDilution)
<1>1. CASE Next
  BY <1>1, TradingSafe, ProvidingSafe, GoverningSafe, BlockSafe, Zenon DEF Next
<1>2. CASE UNCHANGED vars
  BY <1>2, Zenon DEF TypeOK, vars
<1> QED
  BY <1>1, <1>2, Zenon

(* The types are invariant: no balance, reserve or share count of the pool *)
(* is ever negative.                                                       *)
THEOREM TypeCorrect == Spec => []TypeOK
<1>1. Init => TypeOK
  BY InitTyped, Zenon
<1>2. TypeOK /\ [Next]_vars => TypeOK'
  BY StepSafe, Zenon
<1> QED
  BY <1>1, <1>2, PTL DEF Spec

(* No call that mints or burns shares lowers the reserve behind each share *)
(* that remains, in a pool of any size, at any prices and fees and however *)
(* often it is called.                                                     *)
THEOREM NobodyDiluted == Spec => SharesNotDiluted
<1>1. Init => TypeOK
  BY InitTyped, Zenon
<1>2. TypeOK /\ [Next]_vars => TypeOK'
  BY StepSafe, Zenon
<1>3. TypeOK /\ [Next]_vars =>
        [\A x \in Assets :
           InPool(x) /\ InPool(x)' /\ assets'[x].shares # assets[x].shares
             => reserve'[x] * assets[x].shares >= reserve[x] * assets'[x].shares]_vars
  BY StepSafe, Zenon DEF NoDilution
<1> QED
  BY <1>1, <1>2, <1>3, PTL DEF Spec, SharesNotDiluted

=============================================================================
