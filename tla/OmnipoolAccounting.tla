------------------------- MODULE OmnipoolAccounting -------------------------
(***************************************************************************)
(* The totals of the Omnipool, for all assets, amounts, fees and prices    *)
(* and any number of calls: the hub asset of the pool's account is the sum *)
(* of the hub reserves, the shares of an asset are those of its positions  *)
(* and of the protocol, every position can be withdrawn, and the           *)
(* denominator of the slip fee stays positive.                             *)
(***************************************************************************)
EXTENDS OmnipoolProofs, SumTheorems

(* The hub reserve of an asset, nothing when it is not in the pool, and    *)
(* the sum of them.                                                        *)
HubPart(a, x) == IF a[x] # None THEN a[x].hub ELSE 0

HubTotal(a) == SumFunctionOnSet([x \in Assets |-> HubPart(a, x)], Assets)

(* The shares of an asset that are not the protocol's, and those of them   *)
(* that a position holds.                                                  *)
Outstanding(a, x) == IF a[x] # None THEN a[x].shares - a[x].protocolShares ELSE 0

Held(p, x) == IF p # None /\ p.asset = x THEN p.shares ELSE 0

(* No position has an id that is still to be given out.                    *)
FreshIds == \A id \in PositionIds : id >= nextPositionId => positions[id] = None

(* The flow of a block is counted only from the snapshot on, and the       *)
(* snapshot exceeds what was taken out since.                              *)
SlipFits(q, delta) == IF q = None THEN delta = 0 ELSE q > 0 => q + delta > 0

SlipSound == \A x \in Assets : SlipFits(q0[x], slipDelta[x])

(* The inductive invariant.                                                *)
Accounts == TypeOK /\ HubReservesBacked /\ SharesAccounted /\ FreshIds /\ SlipSound

-----------------------------------------------------------------------------
(* Sums over the assets and over the positions.                            *)

(* The sum of the hub reserves is an amount, of amounts.                   *)
LEMMA HubTotalNat ==
  ASSUME NEW a \in AssetMap
  PROVE  (\A x \in Assets : HubPart(a, x) \in Nat) /\ HubTotal(a) \in Nat
<1>1. \A x \in Assets : HubPart(a, x) \in Nat
  BY DEF HubPart, AssetMap, AssetState
<1> DEFINE f == [x \in Assets |-> HubPart(a, x)]
<1>2. \A x \in Assets : f[x] \in Nat
  BY <1>1, Zenon
<1>3. IsFiniteSet(Assets)
  BY OmnipoolAssumption, Zenon
<1> HIDE DEF f
<1>4. SumFunctionOnSet(f, Assets) \in Nat
  BY <1>2, <1>3, SumNat, Zenon
<1> QED
  BY <1>1, <1>4, Zenon DEF HubTotal, f

(* A change of one asset changes the sum by as much.                       *)
LEMMA HubTotalChange ==
  ASSUME NEW a \in AssetMap, NEW b \in AssetMap, NEW x \in Assets, \A z \in Assets \ {x} : b[z] = a[z]
  PROVE  HubTotal(b) = (HubTotal(a) - HubPart(a, x)) + HubPart(b, x)
<1> DEFINE f == [z \in Assets |-> HubPart(a, z)]
           g == [z \in Assets |-> HubPart(b, z)]
<1>1. \A z \in Assets : f[z] \in Int /\ g[z] \in Int
  <2>1. \A z \in Assets : HubPart(a, z) \in Nat /\ HubPart(b, z) \in Nat
    BY HubTotalNat, Zenon
  <2> QED
    BY <2>1
<1>2. \A z \in Assets \ {x} : f[z] = g[z]
  BY Zenon DEF HubPart
<1>3. IsFiniteSet(Assets)
  BY OmnipoolAssumption, Zenon
<1>4. f[x] = HubPart(a, x) /\ g[x] = HubPart(b, x)
  BY Zenon
<1> HIDE DEF f, g
<1>5. SumFunctionOnSet(g, Assets) = (SumFunctionOnSet(f, Assets) - f[x]) + g[x]
  BY <1>1, <1>2, <1>3, SumChange
<1> QED
  BY <1>4, <1>5, Zenon DEF HubTotal, f, g

(* The hub reserve of an asset is set.                                     *)
WithHub(a, x, v) == [a EXCEPT ![x].hub = v]

(* It adds the difference to the sum and changes nothing else.             *)
LEMMA HubMoved ==
  ASSUME NEW a \in AssetMap, NEW x \in Assets, a[x] \in AssetState, NEW v \in Nat
  PROVE  LET b == WithHub(a, x, v)
         IN  /\ b \in AssetMap /\ b[x] \in AssetState
             /\ \A z \in Assets \ {x} : b[z] = a[z]
             /\ \A z \in Assets : Outstanding(b, z) = Outstanding(a, z)
             /\ HubTotal(b) = (HubTotal(a) - a[x].hub) + v
<1> DEFINE b == [a EXCEPT ![x].hub = v]
<1>1. /\ b \in AssetMap /\ b[x] \in AssetState /\ \A z \in Assets \ {x} : b[z] = a[z]
      /\ b[x].hub = v /\ b[x].shares = a[x].shares /\ b[x].protocolShares = a[x].protocolShares
  BY HubChanged
<1> HIDE DEF b
<1>2. None \notin AssetState
  BY OmnipoolAssumption, Zenon
<1>3. HubPart(a, x) = a[x].hub /\ HubPart(b, x) = v
  BY <1>1, <1>2, Zenon DEF HubPart
<1>4. \A z \in Assets : Outstanding(b, z) = Outstanding(a, z)
  BY <1>1, <1>2, Zenon DEF Outstanding
<1>5. HubTotal(b) = (HubTotal(a) - a[x].hub) + v
  BY <1>1, <1>3, HubTotalChange, Zenon
<1> QED
  BY <1>1, <1>4, <1>5, Zenon DEF b, WithHub

(* What a call does to the pool's account it does to the hub reserves.     *)
LEMMA HubUpdateKept ==
  ASSUME TypeOK, HubReservesBacked, NEW received \in Int, NEW amount \in Int,
         UpdateHubAssetLiquidity(received, amount), HubTotal(assets') = HubTotal(assets) + (amount + received)
  PROVE  HubReservesBacked'
<1>1. PICK kept \in IF amount > 0 THEN {0, amount} ELSE {0} :
        hubFree' = hubFree + amount + received - kept /\ hubReserved' = hubReserved + kept
  BY Zenon DEF UpdateHubAssetLiquidity
<1>2. kept \in Nat /\ hubFree \in Nat /\ hubReserved \in Nat
  BY DEF TypeOK
<1>3. hubFree + hubReserved = HubTotal(assets)
  BY Zenon DEF HubReservesBacked, HubTotal, HubPart, InPool
<1>4. hubFree' + hubReserved' = HubTotal(assets')
  BY <1>1, <1>2, <1>3
<1> QED
  BY <1>4, Zenon DEF HubReservesBacked, HubTotal, HubPart, InPool

(* A call that does not touch the pool's account leaves the sum alone.     *)
LEMMA HubKept ==
  ASSUME HubReservesBacked, UNCHANGED <<hubFree, hubReserved>>, HubTotal(assets') = HubTotal(assets)
  PROVE  HubReservesBacked'
BY Zenon DEF HubReservesBacked, HubTotal, HubPart, InPool

(* The shares of a position are an amount.                                 *)
LEMMA HeldNat ==
  ASSUME NEW p \in Position \cup {None}, NEW x
  PROVE  Held(p, x) \in Nat
BY DEF Held, Position

(* The shares of an asset move into or out of one position as they move in *)
(* the asset.                                                              *)
LEMMA SharesMoved ==
  ASSUME TypeOK, TypeOK', SharesAccounted, NEW id \in PositionIds,
         \A j \in PositionIds \ {id} : positions'[j] = positions[j],
         \A x \in Assets : Outstanding(assets', x) =
                             (Outstanding(assets, x) - Held(positions[id], x)) + Held(positions'[id], x)
  PROVE  SharesAccounted'
<1> SUFFICES ASSUME NEW x \in Assets
             PROVE  SumFunctionOnSet(PositionShares(x), PositionIds)' = Outstanding(assets', x)
  BY Zenon DEF SharesAccounted, Outstanding, InPool
<1> DEFINE f == [j \in PositionIds |-> Held(positions[j], x)]
           g == [j \in PositionIds |-> Held(positions'[j], x)]
<1>1. SumFunctionOnSet(f, PositionIds) = Outstanding(assets, x)
  BY Zenon DEF SharesAccounted, Outstanding, InPool, PositionShares, Held
<1>2. SumFunctionOnSet(PositionShares(x), PositionIds)' = SumFunctionOnSet(g, PositionIds)
  BY Zenon DEF PositionShares, Held, PositionIds
<1>3. \A j \in PositionIds : f[j] \in Int /\ g[j] \in Int
  <2>1. \A j \in PositionIds : positions[j] \in Position \cup {None} /\ positions'[j] \in Position \cup {None}
    BY Zenon DEF TypeOK
  <2>2. \A j \in PositionIds : Held(positions[j], x) \in Nat /\ Held(positions'[j], x) \in Nat
    BY <2>1, HeldNat, Zenon
  <2> QED
    BY <2>2
<1>4. \A j \in PositionIds \ {id} : f[j] = g[j]
  BY Zenon
<1>5. IsFiniteSet(PositionIds)
  BY FS_Interval, OmnipoolAssumption DEF PositionIds
<1>6. f[id] = Held(positions[id], x) /\ g[id] = Held(positions'[id], x)
  BY Zenon
<1> HIDE DEF f, g
<1>7. SumFunctionOnSet(g, PositionIds) = (SumFunctionOnSet(f, PositionIds) - f[id]) + g[id]
  BY <1>3, <1>4, <1>5, SumChange
<1> QED
  BY <1>1, <1>2, <1>6, <1>7, Zenon

(* The positions stay, and the shares of every asset.                      *)
LEMMA SharesKept ==
  ASSUME SharesAccounted, positions' = positions,
         \A x \in Assets : Outstanding(assets', x) = Outstanding(assets, x)
  PROVE  SharesAccounted'
<1>1. \A x \in Assets : PositionShares(x)' = PositionShares(x)
  BY Zenon DEF PositionShares, PositionIds
<1> QED
  BY <1>1, Zenon DEF SharesAccounted, Outstanding, InPool

(* A new position takes the first id that was never given out.             *)
LEMMA NewPositionFresh ==
  ASSUME TypeOK, FreshIds, NEW position \in Position, NewPosition(position)
  PROVE  /\ FreshIds'
         /\ nextPositionId \in PositionIds
         /\ positions[nextPositionId] = None /\ positions'[nextPositionId] = position
         /\ \A j \in PositionIds \ {nextPositionId} : positions'[j] = positions[j]
<1>1. MaxPositionId \in Nat /\ nextPositionId \in 0..MaxPositionId /\ nextPositionId < MaxPositionId
  BY OmnipoolAssumption, Zenon DEF TypeOK, NewPosition
<1>2. nextPositionId \in PositionIds /\ nextPositionId >= nextPositionId
  BY <1>1 DEF PositionIds
<1>3. positions[nextPositionId] = None
  BY <1>2, Zenon DEF FreshIds
<1>4. positions' = [positions EXCEPT ![nextPositionId] = position] /\ nextPositionId' = nextPositionId + 1
  BY Zenon DEF NewPosition
<1>5. /\ positions'[nextPositionId] = position
      /\ \A j \in PositionIds \ {nextPositionId} : positions'[j] = positions[j]
  BY <1>2, <1>4, Zenon DEF TypeOK
<1>6. \A j \in PositionIds : j >= nextPositionId' => j # nextPositionId /\ j >= nextPositionId
  BY <1>1, <1>4 DEF PositionIds
<1>7. FreshIds'
  BY <1>5, <1>6, Zenon DEF FreshIds, PositionIds
<1> QED
  BY <1>2, <1>3, <1>5, <1>7, Zenon

-----------------------------------------------------------------------------
(* The slip fee storages.                                                  *)

(* The snapshot that a call takes or finds fits the flow so far.           *)
LEMMA SnapshotFits ==
  ASSUME TypeOK, SlipSound, NEW x \in Assets, InPool(x)
  PROVE  /\ SnapshotQ0(x) \in Nat /\ slipDelta[x] \in Int
         /\ SnapshotQ0(x) # None /\ SlipFits(SnapshotQ0(x), slipDelta[x])
<1>1. SnapshotQ0(x) \in Nat /\ None \notin Nat
  BY SnapshotTyped, OmnipoolAssumption, Zenon
<1>2. SnapshotQ0(x) # None
  BY <1>1, Zenon
<1>3. slipDelta[x] \in Int /\ SlipFits(q0[x], slipDelta[x])
  BY Zenon DEF TypeOK, SlipSound
<1>4. CASE q0[x] = None
  <2>1. slipDelta[x] = 0
    BY <1>3, <1>4, Zenon DEF SlipFits
  <2> QED
    BY <1>1, <1>2, <2>1 DEF SlipFits
<1>5. CASE q0[x] # None
  BY <1>1, <1>2, <1>3, <1>5, Zenon DEF SnapshotQ0
<1> QED
  BY <1>4, <1>5, Zenon

(* A snapshot fits the flow of the asset bought, which only grows, and     *)
(* that of the asset sold, when the slip fee was defined.                  *)
LEMMA FlowFits ==
  ASSUME NEW q \in Nat, q # None, NEW delta \in Int, SlipFits(q, delta), NEW amount \in Nat
  PROVE  /\ SlipFits(q, delta + amount)
         /\ SlipIsDefined(q, delta, -amount, amount) => SlipFits(q, delta - amount)
BY DEF SlipFits, SlipIsDefined

(* A change of liquidity takes the snapshot.                               *)
LEMMA SnapshotKeepsSlip ==
  ASSUME TypeOK, SlipSound, NEW x \in Assets, InPool(x), EnsureQ0Snapshot(x), UNCHANGED slipDelta
  PROVE  SlipSound'
<1>1. SlipFits(SnapshotQ0(x), slipDelta[x])
  BY SnapshotFits, Zenon
<1>2. q0 \in [Assets -> Nat \cup {None}]
  BY Zenon DEF TypeOK
<1>3. \A z \in Assets : q0'[z] = q0[z] \/ (z = x /\ q0'[z] = SnapshotQ0(x))
  BY <1>2 DEF EnsureQ0Snapshot
<1> QED
  BY <1>1, <1>3, Zenon DEF SlipSound

(* A trade with the hub asset.                                             *)
LEMMA HubTradeKeepsSlip ==
  ASSUME TypeOK, SlipSound, NEW y \in Assets, InPool(y), NEW hubOut \in Nat,
         UpdateSlipFeeDeltaHubTrade(y, hubOut)
  PROVE  SlipSound'
<1>1. CASE slipFee = None
  BY <1>1, Zenon DEF UpdateSlipFeeDeltaHubTrade, slipVars, SlipSound
<1>2. CASE slipFee # None
  <2>1. SlipFits(SnapshotQ0(y), slipDelta[y] + hubOut)
    BY SnapshotFits, FlowFits, Zenon
  <2>2. q0 \in [Assets -> Nat \cup {None}] /\ slipDelta \in [Assets -> Int]
    BY Zenon DEF TypeOK
  <2>3. /\ q0'[y] = SnapshotQ0(y) /\ slipDelta'[y] = slipDelta[y] + hubOut
        /\ \A z \in Assets \ {y} : q0'[z] = q0[z] /\ slipDelta'[z] = slipDelta[z]
    BY <1>2, <2>2, Zenon DEF UpdateSlipFeeDeltaHubTrade
  <2> QED
    BY <2>1, <2>3, Zenon DEF SlipSound
<1> QED
  BY <1>1, <1>2, Zenon

(* A trade of one asset for another.                                       *)
LEMMA TradeKeepsSlip ==
  ASSUME TypeOK, SlipSound, NEW x \in Assets, InPool(x), NEW y \in Assets, InPool(y), x # y,
         NEW hubIn \in Nat, NEW hubOut \in Nat, UpdateSlipFeeDelta(x, hubIn, y, hubOut),
         slipFee # None => SlipIsDefined(SnapshotQ0(x), slipDelta[x], -hubIn, hubIn)
  PROVE  SlipSound'
<1>1. CASE slipFee = None
  BY <1>1, Zenon DEF UpdateSlipFeeDelta, slipVars, SlipSound
<1>2. CASE slipFee # None
  <2>1. SlipFits(SnapshotQ0(y), slipDelta[y] + hubOut)
    BY SnapshotFits, FlowFits, Zenon
  <2>2. SlipFits(SnapshotQ0(x), slipDelta[x] - hubIn)
    BY <1>2, SnapshotFits, FlowFits, Zenon
  <2>3. q0 \in [Assets -> Nat \cup {None}] /\ slipDelta \in [Assets -> Int]
    BY Zenon DEF TypeOK
  <2>4. /\ q0' = [q0 EXCEPT ![x] = SnapshotQ0(x), ![y] = SnapshotQ0(y)]
        /\ slipDelta' = [slipDelta EXCEPT ![x] = @ - hubIn, ![y] = @ + hubOut]
    BY <1>2, Zenon DEF UpdateSlipFeeDelta
  <2>5. /\ q0'[x] = SnapshotQ0(x) /\ q0'[y] = SnapshotQ0(y)
        /\ \A z \in Assets \ {x, y} : q0'[z] = q0[z]
    BY <2>3, <2>4
  <2>6. /\ slipDelta'[x] = slipDelta[x] - hubIn /\ slipDelta'[y] = slipDelta[y] + hubOut
        /\ \A z \in Assets \ {x, y} : slipDelta'[z] = slipDelta[z]
    BY <2>3, <2>4
  <2> QED
    BY <2>1, <2>2, <2>5, <2>6, Zenon DEF SlipSound
<1> QED
  BY <1>1, <1>2, Zenon

(* The calculations of sell and buy refuse a flow that the snapshot of the *)
(* asset sold does not cover.                                              *)
LEMMA CalculationsCheckSlip ==
  ASSUME NEW i, NEW o, NEW amount, NEW assetFee, NEW protocolFee, NEW slip, slip # None
  PROVE  /\ LET r == CalculateSell(i, o, amount, assetFee, protocolFee, slip)
             IN  r.ok => SlipIsDefined(slip.inQ0, slip.inDelta, -r.hubIn, r.hubIn)
         /\ LET r == CalculateBuy(i, o, amount, assetFee, protocolFee, slip)
             IN  r.ok => SlipIsDefined(slip.inQ0, slip.inDelta, -r.hubIn, r.hubIn)
<1>1. ASSUME NEW hubIn, HubLeg(hubIn, protocolFee, slip).ok
      PROVE  SlipIsDefined(slip.inQ0, slip.inDelta, -hubIn, hubIn)
  BY <1>1, Zenon DEF HubLeg
<1>2. ~Rejected.ok
  BY DEF Rejected
<1>3. LET r == CalculateSell(i, o, amount, assetFee, protocolFee, slip)
      IN  r.ok => HubLeg(r.hubIn, protocolFee, slip).ok
  BY <1>2 DEF CalculateSell
<1>4. LET r == CalculateBuy(i, o, amount, assetFee, protocolFee, slip)
      IN  r.ok => HubLeg(r.hubIn, protocolFee, slip).ok
  BY <1>2 DEF CalculateBuy
<1> QED
  BY <1>1, <1>3, <1>4, Zenon

-----------------------------------------------------------------------------
(* Trades.                                                                 *)

(* The settlement of a trade: the hub reserves of three assets, or two     *)
(* when HDX is one of them, change by what the account mints or burns.     *)
LEMMA SettleKeepsAccounts ==
  ASSUME Accounts, TypeOK', NEW x \in Assets, InPool(x), NEW y \in Assets, InPool(y), x # y, NEW r,
         r.hubIn \in Nat, r.hubOut \in Nat, r.extra \in Nat, r.assetFee \in Nat, r.protocolFee \in Nat,
         r.hubIn <= assets[x].hub,
         slipFee # None => SlipIsDefined(SnapshotQ0(x), slipDelta[x], -r.hubIn, r.hubIn),
         Settle(x, y, r)
  PROVE  Accounts'
<1>0. TypeOK /\ HubReservesBacked /\ SharesAccounted /\ FreshIds /\ SlipSound
  BY Zenon DEF Accounts
<1>1. PICK taken \in {0, AllowedFee(r.assetFee)} :
        LET extra  == ExtraAfterFeeTaken(r.extra, taken, r.assetFee)
            credit == r.protocolFee - MulFloor(BurnProtocolFee, r.protocolFee)
            moved  == r.hubOut + extra - r.hubIn
        IN  /\ InPool(HDX)
            /\ assets' = IncreaseHdxSubpool([assets EXCEPT ![x].hub = @ - r.hubIn, ![y].hub = @ + r.hubOut + extra],
                                            credit)
            /\ hubFree' = hubFree + moved + credit
            /\ UpdateSlipFeeDelta(x, r.hubIn, y, r.hubOut)
            /\ UNCHANGED <<hubReserved, userHub, book, settings>>
  BY Zenon DEF Settle
<1> DEFINE extra  == ExtraAfterFeeTaken(r.extra, taken, r.assetFee)
           credit == r.protocolFee - MulFloor(BurnProtocolFee, r.protocolFee)
           v1     == assets[x].hub - r.hubIn
           sold   == WithHub(assets, x, v1)
           v2     == sold[y].hub + r.hubOut + extra
           bought == WithHub(sold, y, v2)
           v3     == bought[HDX].hub + credit
           after  == WithHub(bought, HDX, v3)
<1>2. extra \in Nat
  BY ExtraAfterFeeTakenNat, Zenon
<1>3. credit \in Nat
  <2>1. MulFloor(BurnProtocolFee, r.protocolFee) \in Nat /\ MulFloor(BurnProtocolFee, r.protocolFee) <= r.protocolFee
    BY OmnipoolAssumption, MulFloorPart, Zenon
  <2> QED
    BY <2>1
<1> HIDE DEF extra, credit
<1>7. assets' = after
  BY <1>1, Zenon DEF IncreaseHdxSubpool, WithHub, extra, credit
<1>4. /\ HDX \in Assets /\ assets \in AssetMap
      /\ assets[x] \in AssetState /\ assets[y] \in AssetState /\ assets[HDX] \in AssetState
  BY <1>0, <1>1, OmnipoolAssumption, StateOfTyped, Zenon DEF TypeOK, AssetMap
<1>5. assets[x].hub \in Nat /\ v1 \in Nat
  BY <1>4 DEF AssetState
<1> HIDE DEF v1
<1>6. /\ sold \in AssetMap /\ sold[y] \in AssetState /\ sold[HDX] \in AssetState
      /\ \A z \in Assets : Outstanding(sold, z) = Outstanding(assets, z)
      /\ HubTotal(sold) = (HubTotal(assets) - assets[x].hub) + v1
  <2>1. /\ sold \in AssetMap /\ sold[x] \in AssetState /\ \A z \in Assets \ {x} : sold[z] = assets[z]
        /\ \A z \in Assets : Outstanding(sold, z) = Outstanding(assets, z)
        /\ HubTotal(sold) = (HubTotal(assets) - assets[x].hub) + v1
    BY <1>4, <1>5, HubMoved, Zenon
  <2> HIDE DEF sold
  <2> QED
    BY <1>4, <2>1, Zenon
<1> HIDE DEF sold
<1>8. sold[y].hub \in Nat /\ v2 \in Nat
  BY <1>2, <1>6 DEF AssetState
<1> HIDE DEF v2
<1>9. /\ bought \in AssetMap /\ bought[HDX] \in AssetState
      /\ \A z \in Assets : Outstanding(bought, z) = Outstanding(sold, z)
      /\ HubTotal(bought) = (HubTotal(sold) - sold[y].hub) + v2
  <2>1. /\ bought \in AssetMap /\ bought[y] \in AssetState /\ \A z \in Assets \ {y} : bought[z] = sold[z]
        /\ \A z \in Assets : Outstanding(bought, z) = Outstanding(sold, z)
        /\ HubTotal(bought) = (HubTotal(sold) - sold[y].hub) + v2
    BY <1>6, <1>8, HubMoved, Zenon
  <2> HIDE DEF bought
  <2> QED
    BY <1>4, <1>6, <2>1, Zenon
<1> HIDE DEF bought
<1>10. bought[HDX].hub \in Nat /\ v3 \in Nat
  BY <1>3, <1>9 DEF AssetState
<1> HIDE DEF v3
<1>11. /\ after \in AssetMap /\ after[HDX] \in AssetState
       /\ \A z \in Assets \ {HDX} : after[z] = bought[z]
       /\ \A z \in Assets : Outstanding(after, z) = Outstanding(bought, z)
       /\ HubTotal(after) = (HubTotal(bought) - bought[HDX].hub) + v3
  <2>1. HDX \in Assets /\ bought \in AssetMap /\ bought[HDX] \in AssetState /\ v3 \in Nat
    BY <1>4, <1>9, <1>10, Zenon
  <2> QED
    BY <2>1, HubMoved, Zenon
<1> HIDE DEF after
<1>12. HubReservesBacked'
  <2>1. HubTotal(assets) \in Nat /\ HubTotal(sold) \in Nat /\ HubTotal(bought) \in Nat
    BY <1>4, <1>6, <1>9, HubTotalNat, Zenon
  <2>2. HubTotal(after) = HubTotal(assets) + (r.hubOut + extra - r.hubIn) + credit
    BY <1>2, <1>3, <1>5, <1>6, <1>8, <1>9, <1>10, <1>11, <2>1 DEF v1, v2, v3
  <2>3. hubFree \in Nat /\ hubReserved \in Nat
    BY <1>0, Zenon DEF TypeOK
  <2>4. hubFree' = hubFree + (r.hubOut + extra - r.hubIn) + credit /\ hubReserved' = hubReserved
    BY <1>1, Zenon DEF extra, credit
  <2>5. hubFree + hubReserved = HubTotal(assets)
    BY <1>0, Zenon DEF HubReservesBacked, HubTotal, HubPart, InPool
  <2>6. hubFree' + hubReserved' = HubTotal(after)
    BY <1>2, <1>3, <2>2, <2>3, <2>4, <2>5
  <2> QED
    BY <1>7, <2>6, Zenon DEF HubReservesBacked, HubTotal, HubPart, InPool
<1>13. UNCHANGED <<positions, nextPositionId>>
  BY <1>1, Zenon DEF book
<1>14. SharesAccounted' /\ FreshIds'
  <2>1. \A z \in Assets : Outstanding(assets', z) = Outstanding(assets, z)
    BY <1>6, <1>7, <1>9, <1>11, Zenon
  <2> QED
    BY <1>0, <1>13, <2>1, SharesKept, Zenon DEF FreshIds, PositionIds
<1>15. SlipSound'
  BY <1>0, <1>1, TradeKeepsSlip, Zenon
<1> QED
  BY <1>12, <1>14, <1>15, Zenon DEF Accounts

(* The settlement of a trade with the hub asset.                           *)
LEMMA SettleHubKeepsAccounts ==
  ASSUME Accounts, TypeOK', NEW y \in Assets, InPool(y), NEW r,
         r.hubOut \in Nat, r.extra \in Nat, r.assetFee \in Nat, SettleHub(y, r)
  PROVE  Accounts'
<1>0. TypeOK /\ HubReservesBacked /\ SharesAccounted /\ FreshIds /\ SlipSound
  BY Zenon DEF Accounts
<1>1. PICK taken \in {0, AllowedFee(r.assetFee)} :
        /\ UpdateHubAssetLiquidity(r.hubOut, ExtraAfterFeeTaken(r.extra, taken, r.assetFee))
        /\ assets' = [assets EXCEPT ![y].hub = @ + r.hubOut + ExtraAfterFeeTaken(r.extra, taken, r.assetFee)]
        /\ UpdateSlipFeeDeltaHubTrade(y, r.hubOut)
        /\ UNCHANGED <<book, settings>>
  BY Zenon DEF SettleHub
<1> DEFINE extra == ExtraAfterFeeTaken(r.extra, taken, r.assetFee)
           v     == assets[y].hub + r.hubOut + extra
<1>2. extra \in Nat
  BY ExtraAfterFeeTakenNat, Zenon
<1>3. assets' = WithHub(assets, y, v) /\ UpdateHubAssetLiquidity(r.hubOut, extra)
  BY <1>1, Zenon DEF WithHub
<1> HIDE DEF extra
<1>4. assets \in AssetMap /\ assets[y] \in AssetState
  BY <1>0, StateOfTyped, Zenon DEF TypeOK, AssetMap
<1>5. assets[y].hub \in Nat /\ v \in Nat
  BY <1>2, <1>4 DEF AssetState
<1> HIDE DEF v
<1>6. /\ \A z \in Assets : Outstanding(assets', z) = Outstanding(assets, z)
      /\ HubTotal(assets') = (HubTotal(assets) - assets[y].hub) + v
  BY <1>3, <1>4, <1>5, HubMoved, Zenon
<1>7. HubReservesBacked'
  <2>1. HubTotal(assets) \in Nat
    BY <1>4, HubTotalNat, Zenon
  <2>2. HubTotal(assets') = HubTotal(assets) + (extra + r.hubOut) /\ r.hubOut \in Int /\ extra \in Int
    BY <1>2, <1>5, <1>6, <2>1 DEF v
  <2> QED
    BY <1>0, <1>3, <2>2, HubUpdateKept, Zenon
<1>8. SharesAccounted' /\ FreshIds'
  <2>1. UNCHANGED <<positions, nextPositionId>>
    BY <1>1, Zenon DEF book
  <2> QED
    BY <1>0, <1>6, <2>1, SharesKept, Zenon DEF FreshIds, PositionIds
<1>9. SlipSound'
  BY <1>0, <1>1, HubTradeKeepsSlip, Zenon
<1> QED
  BY <1>7, <1>8, <1>9, Zenon DEF Accounts

(* A sale or purchase reads the snapshot and the flow of the asset sold.   *)
LEMMA SlipRead ==
  ASSUME TypeOK, NEW x \in Assets, InPool(x), NEW y \in Assets, InPool(y), slipFee # None
  PROVE  /\ LoadTradeSlipFees(x, y) # None
         /\ LoadTradeSlipFees(x, y).inQ0 = SnapshotQ0(x)
         /\ LoadTradeSlipFees(x, y).inDelta = slipDelta[x]
<1>1. SnapshotQ0(x) \in Nat /\ SnapshotQ0(y) \in Nat
  BY SnapshotTyped, Zenon
<1>2. slipDelta[x] \in Int /\ slipDelta[y] \in Int /\ slipFee \in 0..PERMILL
  BY Zenon DEF TypeOK
<1>3. LoadTradeSlipFees(x, y) \in TradeSlipFees /\ None \notin TradeSlipFees
  BY <1>1, <1>2, OmnipoolAssumption, Zenon DEF LoadTradeSlipFees, TradeSlipFees
<1> QED
  BY <1>3, Zenon DEF LoadTradeSlipFees

(* Sell, buy and the trades with the hub asset.                            *)
LEMMA TradingKeepsAccounts ==
  ASSUME Accounts, TypeOK', Trading
  PROVE  Accounts'
<1>0. TypeOK
  BY Zenon DEF Accounts
<1>1. /\ None \notin Nat /\ TradeAmounts \subseteq Nat /\ MinTradingLimit \in Nat \ {0}
      /\ AssetFees \subseteq 0..PERMILL /\ ProtocolFees \subseteq 0..PERMILL
  BY OmnipoolAssumption, ScaleAssumption
<1>2. ASSUME NEW amount \in TradeAmounts, NEW x \in Assets, NEW y \in Assets, Sell(x, y, amount)
      PROVE  Accounts'
  <2>1. PICK assetFee \in AssetFees, protocolFee \in ProtocolFees :
          LET r == CalculateSell(StateOf(x), StateOf(y), amount, assetFee, protocolFee, LoadTradeSlipFees(x, y))
          IN  r.ok /\ Settle(x, y, r)
    BY <1>2, Zenon DEF Sell
  <2>2. x # y /\ InPool(x) /\ InPool(y) /\ amount \in Nat \ {0}
    BY <1>1, <1>2 DEF Sell, Allowed
  <2>3. StateOf(x) \in PoolState /\ StateOf(y) \in PoolState /\ StateOf(x).hub = assets[x].hub
        /\ LoadTradeSlipFees(x, y) \in TradeSlipFees \cup {None}
    BY <1>0, <2>2, StateOfTyped, SlipTyped, Zenon
  <2> DEFINE r == CalculateSell(StateOf(x), StateOf(y), amount, assetFee, protocolFee, LoadTradeSlipFees(x, y))
  <2>4. /\ r.hubIn \in Nat /\ r.hubOut \in Nat
        /\ r.extra \in Nat /\ r.assetFee \in Nat /\ r.protocolFee \in Nat /\ r.hubIn <= assets[x].hub
    BY <1>1, <2>1, <2>2, <2>3, SellResult, Zenon
  <2>5. slipFee # None => SlipIsDefined(SnapshotQ0(x), slipDelta[x], -r.hubIn, r.hubIn)
    BY <1>0, <2>1, <2>2, CalculationsCheckSlip, SlipRead, Zenon
  <2>6. Settle(x, y, r)
    BY <2>1, Zenon
  <2> HIDE DEF r
  <2> QED
    BY <2>2, <2>4, <2>5, <2>6, SettleKeepsAccounts, Zenon
<1>3. ASSUME NEW amount \in TradeAmounts, NEW x \in Assets, NEW y \in Assets, Buy(x, y, amount)
      PROVE  Accounts'
  <2>1. PICK assetFee \in AssetFees, protocolFee \in ProtocolFees :
          LET r == CalculateBuy(StateOf(x), StateOf(y), amount, assetFee, protocolFee, LoadTradeSlipFees(x, y))
          IN  r.ok /\ Settle(x, y, r)
    BY <1>3, Zenon DEF Buy
  <2>2. x # y /\ InPool(x) /\ InPool(y) /\ amount \in Nat \ {0}
    BY <1>1, <1>3 DEF Buy, Allowed
  <2>3. StateOf(x) \in PoolState /\ StateOf(y) \in PoolState /\ StateOf(x).hub = assets[x].hub
        /\ LoadTradeSlipFees(x, y) \in TradeSlipFees \cup {None}
    BY <1>0, <2>2, StateOfTyped, SlipTyped, Zenon
  <2> DEFINE r == CalculateBuy(StateOf(x), StateOf(y), amount, assetFee, protocolFee, LoadTradeSlipFees(x, y))
  <2>4. /\ r.hubIn \in Nat /\ r.hubOut \in Nat
        /\ r.extra \in Nat /\ r.assetFee \in Nat /\ r.protocolFee \in Nat /\ r.hubIn <= assets[x].hub
    BY <1>1, <2>1, <2>2, <2>3, BuyResult, Zenon
  <2>5. slipFee # None => SlipIsDefined(SnapshotQ0(x), slipDelta[x], -r.hubIn, r.hubIn)
    BY <1>0, <2>1, <2>2, CalculationsCheckSlip, SlipRead, Zenon
  <2>6. Settle(x, y, r)
    BY <2>1, Zenon
  <2> HIDE DEF r
  <2> QED
    BY <2>2, <2>4, <2>5, <2>6, SettleKeepsAccounts, Zenon
<1>4. ASSUME NEW amount \in TradeAmounts, NEW y \in Assets, SellHubAsset(y, amount)
      PROVE  Accounts'
  <2>1. PICK assetFee \in AssetFees :
          LET r == CalculateSellHub(StateOf(y), amount, assetFee, LoadHubTradeSlipFees(y))
          IN  r.ok /\ SettleHub(y, r)
    BY <1>4, Zenon DEF SellHubAsset
  <2>2. InPool(y) /\ amount \in Nat
    BY <1>1, <1>4, Zenon DEF SellHubAsset, Allowed
  <2>3. StateOf(y) \in PoolState /\ LoadHubTradeSlipFees(y) \in HubTradeSlipFees \cup {None}
    BY <1>0, <2>2, StateOfTyped, SlipTyped, Zenon
  <2> DEFINE r == CalculateSellHub(StateOf(y), amount, assetFee, LoadHubTradeSlipFees(y))
  <2>4. r.hubOut \in Nat /\ r.extra \in Nat /\ r.assetFee \in Nat
    BY <1>1, <2>1, <2>2, <2>3, SellHubResult, Zenon
  <2>5. SettleHub(y, r)
    BY <2>1, Zenon
  <2> HIDE DEF r
  <2> QED
    BY <2>2, <2>4, <2>5, SettleHubKeepsAccounts, Zenon
<1>5. ASSUME NEW amount \in TradeAmounts, NEW y \in Assets, BuyAssetForHubAsset(y, amount)
      PROVE  Accounts'
  <2>1. PICK assetFee \in AssetFees :
          LET r == CalculateBuyForHub(StateOf(y), amount, assetFee, LoadHubTradeSlipFees(y))
          IN  r.ok /\ SettleHub(y, r)
    BY <1>5, Zenon DEF BuyAssetForHubAsset
  <2>2. InPool(y) /\ amount \in Nat
    BY <1>1, <1>5, Zenon DEF BuyAssetForHubAsset, Allowed
  <2>3. StateOf(y) \in PoolState
    BY <1>0, <2>2, StateOfTyped, Zenon
  <2> DEFINE r == CalculateBuyForHub(StateOf(y), amount, assetFee, LoadHubTradeSlipFees(y))
  <2>4. r.hubOut \in Nat /\ r.extra \in Nat /\ r.assetFee \in Nat
    BY <1>1, <2>1, <2>2, <2>3, BuyForHubResult, Zenon
  <2>5. SettleHub(y, r)
    BY <2>1, Zenon
  <2> HIDE DEF r
  <2> QED
    BY <2>2, <2>4, <2>5, SettleHubKeepsAccounts, Zenon
<1> QED
  BY <1>2, <1>3, <1>4, <1>5, Zenon DEF Trading

-----------------------------------------------------------------------------
(* Liquidity.                                                              *)

(* An asset in the pool is one that is not None, and its parts are sums of *)
(* amounts.                                                                *)
LEMMA PartsOfState ==
  ASSUME NEW a, NEW x, a[x] \in AssetState
  PROVE  /\ a[x] # None
         /\ HubPart(a, x) = a[x].hub /\ Outstanding(a, x) = a[x].shares - a[x].protocolShares
         /\ a[x].hub \in Nat /\ a[x].shares \in Nat /\ a[x].protocolShares \in Nat
<1>1. a[x] # None
  BY OmnipoolAssumption, Zenon
<1> QED
  BY <1>1, Zenon DEF HubPart, Outstanding, AssetState

(* The shares that are not the protocol's, as a number.                    *)
LEMMA OutstandingInt ==
  ASSUME NEW a \in AssetMap, NEW x \in Assets
  PROVE  Outstanding(a, x) \in Int
BY DEF Outstanding, AssetMap, AssetState

(* add_token.                                                              *)
LEMMA AddTokenKeepsAccounts ==
  ASSUME Accounts, TypeOK', NEW x \in Assets, NEW price \in InitialPrices, NEW cap \in Caps,
         AddToken(x, price, cap)
  PROVE  Accounts'
<1>0. TypeOK /\ HubReservesBacked /\ SharesAccounted /\ FreshIds /\ SlipSound
  BY Zenon DEF Accounts
<1> DEFINE hub == MulInt(price, reserve[x])
           p   == [asset |-> x, amount |-> reserve[x], shares |-> reserve[x], price |-> <<price, FIXED>>]
           c   == [hub |-> hub, shares |-> reserve[x], protocolShares |-> 0,
                   cap |-> FromPermill(cap), tradable |-> AllFlags]
<1>1. /\ assets[x] = None /\ UpdateHubAssetLiquidity(0, hub) /\ assets' = [assets EXCEPT ![x] = c]
      /\ NewPosition(p) /\ UNCHANGED slipVars
  BY Zenon DEF AddToken, InPool
<1>2. price \in Nat \ {0} /\ reserve[x] \in Nat /\ FIXED \in Nat \ {0}
  BY <1>0, OmnipoolAssumption, ScaleAssumption, Zenon DEF TypeOK
<1>3. hub \in Nat
  BY <1>2, MulIntNat, Zenon
<1>4. p \in Position /\ p # None /\ p.asset = x /\ p.shares = reserve[x]
  <2>1. p \in Position
    BY <1>2, Zenon DEF Position
  <2> QED
    BY <2>1, OmnipoolAssumption, Zenon
<1>5. c.hub = hub /\ c.shares = reserve[x] /\ c.protocolShares = 0
  BY Zenon
<1> HIDE DEF hub, p, c
<1>6. assets \in AssetMap /\ assets' \in AssetMap
  BY <1>0, Zenon DEF TypeOK, AssetMap
<1>7. assets'[x] = c /\ \A z \in Assets \ {x} : assets'[z] = assets[z]
  BY <1>1, <1>6, Zenon DEF AssetMap
<1>8. c # None
  BY <1>3, <1>5, <1>2, <1>6, <1>7, OmnipoolAssumption, FromPermillPart DEF c, AssetState
<1>9. HubReservesBacked'
  <2>1. HubPart(assets, x) = 0 /\ HubPart(assets', x) = hub
    BY <1>1, <1>5, <1>7, <1>8, Zenon DEF HubPart
  <2>2. HubTotal(assets') = (HubTotal(assets) - HubPart(assets, x)) + HubPart(assets', x) /\ HubTotal(assets) \in Nat
    BY <1>6, <1>7, HubTotalChange, HubTotalNat, Zenon
  <2>3. HubTotal(assets') = HubTotal(assets) + (hub + 0) /\ 0 \in Int /\ hub \in Int
    BY <1>3, <2>1, <2>2
  <2> QED
    BY <1>0, <1>1, <2>3, HubUpdateKept, Zenon
<1>10. /\ FreshIds' /\ nextPositionId \in PositionIds
       /\ positions[nextPositionId] = None /\ positions'[nextPositionId] = p
       /\ \A j \in PositionIds \ {nextPositionId} : positions'[j] = positions[j]
  BY <1>0, <1>1, <1>4, NewPositionFresh, Zenon
<1>11. SharesAccounted'
  <2>1. ASSUME NEW z \in Assets
        PROVE  Outstanding(assets', z) = (Outstanding(assets, z) - Held(None, z)) + Held(p, z)
    <3>1. Held(None, z) = 0
      BY Zenon DEF Held
    <3>2. CASE z = x
      <4>1. Outstanding(assets, z) = 0 /\ Outstanding(assets', z) = reserve[x] - 0 /\ Held(p, z) = reserve[x]
        BY <1>1, <1>4, <1>5, <1>7, <1>8, <3>2, Zenon DEF Outstanding, Held
      <4> QED
        BY <1>2, <3>1, <4>1
    <3>3. CASE z # x
      <4>1. Outstanding(assets', z) = Outstanding(assets, z) /\ Held(p, z) = 0
        BY <1>4, <1>7, <3>3, Zenon DEF Outstanding, Held
      <4>2. Outstanding(assets, z) \in Int
        BY <1>6, OutstandingInt, Zenon
      <4> QED
        BY <3>1, <4>1, <4>2
    <3> QED
      BY <3>2, <3>3, Zenon
  <2> QED
    BY <1>0, <1>10, <2>1, SharesMoved, Zenon
<1>12. SlipSound'
  BY <1>0, <1>1, Zenon DEF SlipSound, slipVars
<1> QED
  BY <1>9, <1>10, <1>11, <1>12, Zenon DEF Accounts

(* add_liquidity: the new shares are those of the new position.            *)
LEMMA AddLiquidityKeepsAccounts ==
  ASSUME Accounts, TypeOK', NEW x \in Assets, NEW amount \in LiquidityAmounts, AddLiquidity(x, amount)
  PROVE  Accounts'
<1>0. TypeOK /\ HubReservesBacked /\ SharesAccounted /\ FreshIds /\ SlipSound
  BY Zenon DEF Accounts
<1> DEFINE r == CalculateAddLiquidity(StateOf(x), amount)
           p == [asset |-> x, amount |-> amount, shares |-> r.shares,
                 price |-> <<assets[x].hub + r.hub, reserve[x] + amount>>]
           h == assets[x].hub + r.hub
           s == assets[x].shares + r.shares
<1>1. amount \in Nat \ {0} /\ InPool(x) /\ r.ok
  BY OmnipoolAssumption DEF AddLiquidity, Allowed
<1>2. /\ StateOf(x) \in PoolState /\ assets[x] \in AssetState
      /\ StateOf(x).reserve = reserve[x] /\ StateOf(x).hub = assets[x].hub /\ StateOf(x).shares = assets[x].shares
  BY <1>0, <1>1, StateOfTyped, Zenon
<1>3. r.hub \in Nat /\ r.shares \in Nat
  BY <1>1, <1>2, AddLiquidityResult, Zenon
<1>4. /\ NewPosition(p) /\ assets' = [assets EXCEPT ![x].hub = h, ![x].shares = s]
      /\ UpdateHubAssetLiquidity(0, r.hub) /\ EnsureQ0Snapshot(x) /\ UNCHANGED slipDelta
  BY <1>2, Zenon DEF AddLiquidity
<1> HIDE DEF r
<1>5. reserve[x] \in Nat /\ assets[x].hub \in Nat /\ assets[x].shares \in Nat /\ assets[x].protocolShares \in Nat
  BY <1>0, <1>2, Zenon DEF TypeOK, AssetState
<1>6. p \in Position /\ p # None /\ p.asset = x /\ p.shares = r.shares
  <2>1. p \in Position
    BY <1>1, <1>3, <1>5 DEF Position
  <2> QED
    BY <2>1, OmnipoolAssumption, Zenon
<1> HIDE DEF p
<1>7. h \in Nat /\ s \in Nat
  BY <1>3, <1>5
<1> HIDE DEF h, s
<1>8. /\ assets' \in AssetMap /\ assets'[x] \in AssetState /\ assets'[x].hub = h /\ assets'[x].shares = s
      /\ assets'[x].protocolShares = assets[x].protocolShares
      /\ \A z \in Assets \ {x} : assets'[z] = assets[z]
  BY <1>0, <1>1, <1>4, <1>7, HubAndSharesChanged, Zenon
<1>9. assets \in AssetMap
  BY <1>0, Zenon DEF TypeOK, AssetMap
<1>10. HubReservesBacked'
  <2>1. HubPart(assets, x) = assets[x].hub /\ HubPart(assets', x) = h
    BY <1>2, <1>8, PartsOfState, Zenon
  <2>2. HubTotal(assets') = (HubTotal(assets) - HubPart(assets, x)) + HubPart(assets', x) /\ HubTotal(assets) \in Nat
    BY <1>8, <1>9, HubTotalChange, HubTotalNat, Zenon
  <2>3. HubTotal(assets') = HubTotal(assets) + (r.hub + 0) /\ 0 \in Int /\ r.hub \in Int
    BY <1>3, <1>5, <2>1, <2>2 DEF h
  <2> QED
    BY <1>0, <1>4, <2>3, HubUpdateKept, Zenon
<1>11. /\ FreshIds' /\ nextPositionId \in PositionIds
       /\ positions[nextPositionId] = None /\ positions'[nextPositionId] = p
       /\ \A j \in PositionIds \ {nextPositionId} : positions'[j] = positions[j]
  BY <1>0, <1>4, <1>6, NewPositionFresh, Zenon
<1>12. SharesAccounted'
  <2>1. Outstanding(assets', x) = (Outstanding(assets, x) - Held(None, x)) + Held(p, x)
    <3>1. /\ Outstanding(assets, x) = assets[x].shares - assets[x].protocolShares
          /\ Outstanding(assets', x) = s - assets[x].protocolShares
      <4>1. Outstanding(assets, x) = assets[x].shares - assets[x].protocolShares
        BY <1>2, PartsOfState, Zenon
      <4>2. Outstanding(assets', x) = assets'[x].shares - assets'[x].protocolShares
        BY <1>8, PartsOfState, Zenon
      <4> QED
        BY <1>8, <4>1, <4>2, Zenon
    <3>2. Held(None, x) = 0 /\ Held(p, x) = r.shares
      BY <1>6, Zenon DEF Held
    <3> QED
      BY <1>3, <1>5, <3>1, <3>2 DEF s
  <2>2. ASSUME NEW z \in Assets
        PROVE  Outstanding(assets', z) = (Outstanding(assets, z) - Held(None, z)) + Held(p, z)
    <3>1. CASE z = x
      BY <2>1, <3>1, Zenon
    <3>2. CASE z # x
      <4>1. Outstanding(assets', z) = Outstanding(assets, z) /\ Held(None, z) = 0 /\ Held(p, z) = 0
        BY <1>6, <1>8, <3>2, Zenon DEF Outstanding, Held
      <4>2. Outstanding(assets, z) \in Int
        BY <1>9, OutstandingInt, Zenon
      <4> QED
        BY <4>1, <4>2
    <3> QED
      BY <3>1, <3>2, Zenon
  <2> QED
    BY <1>0, <1>11, <2>2, SharesMoved, Zenon
<1>13. SlipSound'
  BY <1>0, <1>1, <1>4, SnapshotKeepsSlip, Zenon
<1> QED
  BY <1>10, <1>11, <1>12, <1>13, Zenon DEF Accounts

(* What a withdrawal burns and pays out leaves the account and the hub     *)
(* reserve of the asset.                                                   *)
LEMMA PayOutKept ==
  ASSUME TypeOK, HubReservesBacked, NEW r, r.hub \in Nat, r.lpHub \in Nat, PayOut(r),
         HubTotal(assets') = HubTotal(assets) - r.hub
  PROVE  HubReservesBacked'
<1>1. UpdateHubAssetLiquidity(-r.lpHub, r.lpHub - r.hub)
  BY Zenon DEF PayOut
<1>2. -r.lpHub \in Int /\ r.lpHub - r.hub \in Int
  OBVIOUS
<1>3. HubTotal(assets) \in Nat
  BY HubTotalNat, Zenon DEF TypeOK, AssetMap
<1>4. HubTotal(assets') = HubTotal(assets) + ((r.lpHub - r.hub) + (-r.lpHub))
  BY <1>3
<1> QED
  BY <1>1, <1>2, <1>4, HubUpdateKept, Zenon

(* What the calculation of a withdrawal takes from the asset, of any       *)
(* position, leaves the account and the hub reserves together.             *)
LEMMA RemovalKeepsHub ==
  ASSUME TypeOK, HubReservesBacked, NEW x \in Assets, InPool(x), NEW r, r.hub \in Nat, r.lpHub \in Nat,
         assets' \in AssetMap, assets'[x] \in AssetState, assets'[x].hub = assets[x].hub - r.hub,
         \A z \in Assets \ {x} : assets'[z] = assets[z], PayOut(r)
  PROVE  HubReservesBacked'
<1>1. assets \in AssetMap /\ assets[x] \in AssetState
  BY StateOfTyped, Zenon DEF TypeOK, AssetMap
<1>2. HubTotal(assets') = (HubTotal(assets) - HubPart(assets, x)) + HubPart(assets', x) /\ HubTotal(assets) \in Nat
  BY <1>1, HubTotalChange, HubTotalNat, Zenon
<1>3. HubPart(assets, x) = assets[x].hub /\ HubPart(assets', x) = assets'[x].hub /\ assets[x].hub \in Nat
  BY <1>1, PartsOfState, Zenon
<1>4. HubTotal(assets') = HubTotal(assets) - r.hub
  BY <1>2, <1>3
<1> QED
  BY <1>4, PayOutKept, Zenon

(* remove_liquidity: the shares that leave the position leave the asset or *)
(* become the protocol's.                                                  *)
LEMMA RemoveLiquidityKeepsAccounts ==
  ASSUME Accounts, TypeOK', NEW id \in PositionIds, NEW shares \in Nat, RemoveLiquidity(id, shares)
  PROVE  Accounts'
<1>0. TypeOK /\ HubReservesBacked /\ SharesAccounted /\ FreshIds /\ SlipSound
  BY Zenon DEF Accounts
<1> DEFINE p == positions[id]
           x == p.asset
<1>1. PICK oracle \in OraclePrices :
        LET fee == CalculateWithdrawalFee(Price(StateOf(x)), oracle, MinWithdrawalFee)
            r   == CalculateRemoveLiquidity(StateOf(x), shares, p, fee)
        IN  /\ r.ok
            /\ r.shares <= StateOf(x).shares
            /\ assets' = AfterRemoval(x, r)
            /\ positions' = [positions EXCEPT ![id] =
                               IF p.shares - shares = 0 THEN None
                               ELSE [p EXCEPT !.shares = p.shares - shares, !.amount = p.amount - r.amount]]
            /\ PayOut(r)
  BY Zenon DEF RemoveLiquidity
<1> DEFINE fee == CalculateWithdrawalFee(Price(StateOf(x)), oracle, MinWithdrawalFee)
           r   == CalculateRemoveLiquidity(StateOf(x), shares, p, fee)
<1>2. /\ InPool(x) /\ p # None /\ shares <= p.shares /\ reserve[x] > 0 /\ EnsureQ0Snapshot(x)
      /\ UNCHANGED <<nextPositionId, slipDelta>>
  BY Zenon DEF RemoveLiquidity, Allowed
<1>3. p \in Position
  BY <1>0, <1>2, Zenon DEF TypeOK
<1>4. positions \in [PositionIds -> Position \cup {None}] /\ p = positions[id]
  BY <1>0, Zenon DEF TypeOK
<1> HIDE DEF p
<1>5. x \in Assets /\ p.shares \in Nat /\ p.amount \in Nat /\ IsPosition(p)
  BY <1>3, Zenon DEF Position, IsPosition
<1>6. p.asset = x
  OBVIOUS
<1> HIDE DEF x
<1>7. /\ StateOf(x) \in PoolState /\ reserve[x] \in Nat /\ StateOf(x).reserve = reserve[x]
      /\ StateOf(x).hub = assets[x].hub /\ StateOf(x).shares = assets[x].shares /\ assets[x] \in AssetState
  BY <1>0, <1>2, <1>5, StateOfTyped, Zenon DEF TypeOK
<1>8. fee \in 0..FIXED
  <2>1. StateOf(x).hub \in Nat /\ StateOf(x).reserve \in Nat \ {0}
    BY <1>2, <1>7 DEF PoolState
  <2>2. Price(StateOf(x)) \in Nat
    BY <2>1, FromRationalNat, Zenon DEF Price
  <2>3. oracle \in Nat /\ MinWithdrawalFee \in 0..PERMILL
    BY OmnipoolAssumption, Zenon
  <2> QED
    BY <2>2, <2>3, WithdrawalFeePart, Zenon
<1> HIDE DEF fee
<1>9. r.ok /\ r.shares <= StateOf(x).shares
  BY <1>1, Zenon DEF fee
<1>10. /\ r.hub \in Nat /\ r.shares \in Nat /\ r.protocolShares \in Nat /\ r.lpHub \in Nat
       /\ r.hub <= assets[x].hub /\ r.shares + r.protocolShares = shares
       /\ r.amount \in Nat /\ r.amount <= p.amount
  BY <1>2, <1>5, <1>7, <1>8, <1>9, RemoveLiquidityResult, Zenon
<1>11. /\ assets' = AfterRemoval(x, r) /\ PayOut(r)
       /\ positions' = [positions EXCEPT ![id] =
                          IF p.shares - shares = 0 THEN None
                          ELSE [p EXCEPT !.shares = p.shares - shares, !.amount = p.amount - r.amount]]
  BY <1>1, Zenon DEF fee
<1>12. r.shares <= assets[x].shares
  BY <1>7, <1>9, Zenon
<1> HIDE DEF r
<1>13. /\ assets' \in AssetMap /\ assets'[x] \in AssetState /\ assets'[x].hub = assets[x].hub - r.hub
       /\ assets'[x].shares = assets[x].shares - r.shares
       /\ assets'[x].protocolShares = assets[x].protocolShares + r.protocolShares
       /\ \A z \in Assets \ {x} : assets'[z] = assets[z]
  BY <1>0, <1>2, <1>5, <1>10, <1>11, <1>12, AfterRemovalTyped, Zenon
<1>14. HubReservesBacked'
  BY <1>0, <1>2, <1>5, <1>10, <1>11, <1>13, RemovalKeepsHub, Zenon
<1> DEFINE q == IF p.shares - shares = 0 THEN None
                ELSE [p EXCEPT !.shares = p.shares - shares, !.amount = p.amount - r.amount]
<1>15. positions'[id] = q /\ \A j \in PositionIds \ {id} : positions'[j] = positions[j]
  BY <1>4, <1>11, Zenon
<1>16. Held(p, x) = p.shares /\ Held(q, x) = p.shares - shares /\ (q # None => q.asset = x)
  <2>1. Held(p, x) = p.shares
    BY <1>2, <1>6, Zenon DEF Held
  <2>2. CASE p.shares - shares = 0
    BY <2>1, <2>2, Zenon DEF Held
  <2>3. CASE p.shares - shares # 0
    <3>1. q = [p EXCEPT !.shares = p.shares - shares, !.amount = p.amount - r.amount]
      BY <2>3, Zenon
    <3>2. q.asset = x /\ q.shares = p.shares - shares
      BY <1>3, <1>6, <3>1, Zenon DEF Position
    <3>3. q # None
      <4>1. p.shares - shares \in Nat /\ p.amount - r.amount \in Nat
        BY <1>2, <1>5, <1>10
      <4>2. q \in Position
        BY <1>3, <3>1, <4>1, Zenon DEF Position
      <4> QED
        BY <4>2, OmnipoolAssumption, Zenon
    <3> QED
      BY <2>1, <3>2, <3>3, Zenon DEF Held
  <2> QED
    BY <2>2, <2>3, Zenon
<1> HIDE DEF q
<1>17. SharesAccounted'
  <2>1. ASSUME NEW z \in Assets
        PROVE  Outstanding(assets', z) = (Outstanding(assets, z) - Held(p, z)) + Held(q, z)
    <3>1. CASE z = x
      <4>1. /\ Outstanding(assets, x) = assets[x].shares - assets[x].protocolShares
            /\ assets[x].shares \in Nat /\ assets[x].protocolShares \in Nat
        BY <1>7, PartsOfState, Zenon
      <4>2. Outstanding(assets', x) = assets'[x].shares - assets'[x].protocolShares
        BY <1>13, PartsOfState, Zenon
      <4> QED
        BY <1>5, <1>10, <1>13, <1>16, <3>1, <4>1, <4>2
    <3>2. CASE z # x
      <4>1. Outstanding(assets', z) = Outstanding(assets, z) /\ Held(p, z) = 0 /\ Held(q, z) = 0
        BY <1>6, <1>13, <1>16, <3>2, Zenon DEF Outstanding, Held
      <4>2. Outstanding(assets, z) \in Int
        BY <1>0, OutstandingInt, Zenon DEF TypeOK, AssetMap
      <4> QED
        BY <4>1, <4>2
    <3> QED
      BY <3>1, <3>2, Zenon
  <2> QED
    BY <1>0, <1>4, <1>15, <2>1, SharesMoved, Zenon
<1>18. FreshIds'
  BY <1>0, <1>2, <1>4, <1>15, Zenon DEF FreshIds, PositionIds
<1>19. SlipSound'
  BY <1>0, <1>2, <1>5, SnapshotKeepsSlip, Zenon
<1> QED
  BY <1>14, <1>17, <1>18, <1>19, Zenon DEF Accounts

(* sacrifice_position: the shares of the position become the protocol's.   *)
LEMMA SacrificeKeepsAccounts ==
  ASSUME Accounts, TypeOK', NEW id \in PositionIds, SacrificePosition(id)
  PROVE  Accounts'
<1>0. TypeOK /\ HubReservesBacked /\ SharesAccounted /\ FreshIds /\ SlipSound
  BY Zenon DEF Accounts
<1> DEFINE p == positions[id]
           x == p.asset
           v == assets[x].protocolShares + p.shares
           b == [assets EXCEPT ![x].protocolShares = v]
<1>1. p \in Position /\ p # None /\ InPool(x)
  BY <1>0, Zenon DEF TypeOK, SacrificePosition
<1>2. x \in Assets /\ p.shares \in Nat
  BY <1>1, Zenon DEF Position
<1>3. /\ assets' = b /\ positions'[id] = None /\ \A j \in PositionIds \ {id} : positions'[j] = positions[j]
      /\ UNCHANGED <<hubFree, hubReserved, nextPositionId, q0, slipDelta>>
  BY <1>0, Zenon DEF SacrificePosition, TypeOK, slipVars
<1>4. p.asset = x /\ p = positions[id]
  OBVIOUS
<1> HIDE DEF p, x
<1>5. assets \in AssetMap /\ assets[x] \in AssetState
  BY <1>0, <1>1, <1>2, StateOfTyped, Zenon DEF TypeOK, AssetMap
<1>6. assets[x].shares \in Nat /\ assets[x].protocolShares \in Nat /\ v \in Nat
  BY <1>2, <1>5 DEF AssetState
<1> HIDE DEF v
<1>7. /\ b \in AssetMap /\ b[x] \in AssetState /\ b[x].hub = assets[x].hub
      /\ b[x].shares = assets[x].shares /\ b[x].protocolShares = v
      /\ \A z \in Assets \ {x} : b[z] = assets[z]
  BY <1>2, <1>5, <1>6, ProtocolSharesChanged
<1> HIDE DEF b
<1>8. HubReservesBacked'
  <2>1. HubTotal(b) = (HubTotal(assets) - HubPart(assets, x)) + HubPart(b, x) /\ HubTotal(assets) \in Nat
    BY <1>2, <1>5, <1>7, HubTotalChange, HubTotalNat, Zenon
  <2>2. HubPart(assets, x) = assets[x].hub /\ HubPart(b, x) = b[x].hub /\ assets[x].hub \in Nat
    BY <1>5, <1>7, PartsOfState, Zenon
  <2>3. HubTotal(assets') = HubTotal(assets)
    BY <1>3, <1>7, <2>1, <2>2
  <2> QED
    BY <1>0, <1>3, <2>3, HubKept, Zenon
<1>9. SharesAccounted'
  <2>1. ASSUME NEW z \in Assets
        PROVE  Outstanding(b, z) = (Outstanding(assets, z) - Held(p, z)) + Held(None, z)
    <3>1. Held(None, z) = 0
      BY Zenon DEF Held
    <3>2. CASE z = x
      <4>1. Outstanding(assets, x) = assets[x].shares - assets[x].protocolShares
        BY <1>5, PartsOfState, Zenon
      <4>2. Outstanding(b, x) = b[x].shares - b[x].protocolShares
        BY <1>7, PartsOfState, Zenon
      <4>3. Held(p, x) = p.shares
        BY <1>1, <1>4, Zenon DEF Held
      <4> QED
        BY <1>2, <1>6, <1>7, <3>1, <3>2, <4>1, <4>2, <4>3 DEF v
    <3>3. CASE z # x
      <4>1. Outstanding(b, z) = Outstanding(assets, z) /\ Held(p, z) = 0
        BY <1>4, <1>7, <3>3, Zenon DEF Outstanding, Held
      <4>2. Outstanding(assets, z) \in Int
        BY <1>5, OutstandingInt, Zenon
      <4> QED
        BY <3>1, <4>1, <4>2
    <3> QED
      BY <3>2, <3>3, Zenon
  <2> QED
    BY <1>0, <1>3, <1>4, <2>1, SharesMoved, Zenon
<1>10. FreshIds' /\ SlipSound'
  BY <1>0, <1>3, Zenon DEF FreshIds, SlipSound, PositionIds
<1> QED
  BY <1>8, <1>9, <1>10, Zenon DEF Accounts

(* withdraw_protocol_liquidity: what stays with the protocol was its own.  *)
LEMMA WithdrawProtocolKeepsAccounts ==
  ASSUME Accounts, TypeOK', NEW x \in Assets, NEW amount \in Nat, NEW price, price[1] \in Nat, price[2] \in Nat \ {0},
         WithdrawProtocolLiquidity(x, amount, price)
  PROVE  Accounts'
<1>0. TypeOK /\ HubReservesBacked /\ SharesAccounted /\ FreshIds /\ SlipSound
  BY Zenon DEF Accounts
<1> DEFINE p     == [amount |-> 0, shares |-> amount, price |-> price]
           r     == CalculateRemoveLiquidity(StateOf(x), amount, p, 0)
           after == AfterRemoval(x, r)
           v     == IF amount > after[x].protocolShares THEN 0 ELSE after[x].protocolShares - amount
           b     == [after EXCEPT ![x].protocolShares = v]
<1>1. /\ InPool(x) /\ amount <= assets[x].protocolShares /\ r.ok /\ r.shares <= assets[x].shares
      /\ assets' = b /\ PayOut(r) /\ UNCHANGED <<positions, nextPositionId, q0, slipDelta>>
  BY Zenon DEF WithdrawProtocolLiquidity, book, slipVars
<1>2. IsPosition(p) /\ 0 \in 0..FIXED
  BY ScaleAssumption DEF IsPosition
<1>3. /\ StateOf(x) \in PoolState /\ StateOf(x).hub = assets[x].hub /\ StateOf(x).shares = assets[x].shares
      /\ assets[x] \in AssetState
  BY <1>0, <1>1, StateOfTyped, Zenon
<1> HIDE DEF p
<1>4. /\ r.hub \in Nat /\ r.shares \in Nat /\ r.protocolShares \in Nat
      /\ r.lpHub \in Nat /\ r.hub <= assets[x].hub /\ r.shares + r.protocolShares = amount
  BY <1>1, <1>2, <1>3, RemoveLiquidityResult, Zenon
<1> HIDE DEF r
<1>5. /\ after \in AssetMap /\ after[x] \in AssetState /\ after[x].hub = assets[x].hub - r.hub
      /\ after[x].shares = assets[x].shares - r.shares
      /\ after[x].protocolShares = assets[x].protocolShares + r.protocolShares
      /\ \A z \in Assets \ {x} : after[z] = assets[z]
  BY <1>0, <1>1, <1>4, AfterRemovalTyped
<1> HIDE DEF after
<1>6. assets[x].shares \in Nat /\ assets[x].protocolShares \in Nat
  BY <1>3, Zenon DEF AssetState
<1>7. v \in Nat /\ v = assets[x].protocolShares + r.protocolShares - amount
  BY <1>1, <1>4, <1>5, <1>6
<1> HIDE DEF v
<1>8. /\ b \in AssetMap /\ b[x] \in AssetState /\ b[x].hub = after[x].hub
      /\ b[x].shares = after[x].shares /\ b[x].protocolShares = v
      /\ \A z \in Assets \ {x} : b[z] = after[z]
  BY <1>5, <1>7, ProtocolSharesChanged
<1> HIDE DEF b
<1>9. /\ assets' \in AssetMap /\ assets'[x] \in AssetState /\ assets'[x].hub = assets[x].hub - r.hub
      /\ \A z \in Assets \ {x} : assets'[z] = assets[z]
  BY <1>1, <1>5, <1>8, Zenon
<1>10. HubReservesBacked'
  BY <1>0, <1>1, <1>4, <1>9, RemovalKeepsHub, Zenon
<1>11. SharesAccounted'
  <2>1. Outstanding(assets, x) = assets[x].shares - assets[x].protocolShares
    BY <1>3, PartsOfState, Zenon
  <2>2. Outstanding(b, x) = b[x].shares - b[x].protocolShares
    BY <1>8, PartsOfState, Zenon
  <2>3. Outstanding(b, x) = Outstanding(assets, x)
    BY <1>4, <1>5, <1>6, <1>7, <1>8, <2>1, <2>2
  <2>4. \A z \in Assets : Outstanding(assets', z) = Outstanding(assets, z)
    BY <1>1, <1>9, <2>3, Zenon DEF Outstanding
  <2> QED
    BY <1>0, <1>1, <2>4, SharesKept, Zenon
<1>12. FreshIds' /\ SlipSound'
  BY <1>0, <1>1, Zenon DEF FreshIds, SlipSound, PositionIds
<1> QED
  BY <1>10, <1>11, <1>12, Zenon DEF Accounts

-----------------------------------------------------------------------------
(* Governance and blocks.                                                  *)

(* remove_token: only the protocol still has shares, and the hub reserve   *)
(* of the asset is burned with it.                                         *)
LEMMA RemoveTokenKeepsAccounts ==
  ASSUME Accounts, TypeOK', NEW x \in Assets, RemoveToken(x)
  PROVE  Accounts'
<1>0. TypeOK /\ HubReservesBacked /\ SharesAccounted /\ FreshIds /\ SlipSound
  BY Zenon DEF Accounts
<1>1. /\ InPool(x) /\ assets[x].shares = assets[x].protocolShares /\ hubFree' = hubFree - assets[x].hub
      /\ UNCHANGED <<hubReserved, positions, nextPositionId, q0, slipDelta>>
  BY Zenon DEF RemoveToken, book, slipVars
<1>2. assets'[x] = None /\ \A z \in Assets \ {x} : assets'[z] = assets[z]
  BY <1>0, Zenon DEF RemoveToken, TypeOK
<1>3. assets \in AssetMap /\ assets' \in AssetMap /\ assets[x] \in AssetState
  BY <1>0, <1>1, StateOfTyped, Zenon DEF TypeOK, AssetMap
<1>4. /\ HubPart(assets, x) = assets[x].hub /\ Outstanding(assets, x) = assets[x].shares - assets[x].protocolShares
      /\ assets[x].hub \in Nat /\ assets[x].shares \in Nat
  BY <1>3, PartsOfState, Zenon
<1>5. HubReservesBacked'
  <2>1. HubTotal(assets') = (HubTotal(assets) - HubPart(assets, x)) + HubPart(assets', x) /\ HubTotal(assets) \in Nat
    BY <1>2, <1>3, HubTotalChange, HubTotalNat, Zenon
  <2>2. HubPart(assets', x) = 0
    BY <1>2, Zenon DEF HubPart
  <2>3. hubFree + hubReserved = HubTotal(assets)
    BY <1>0, Zenon DEF HubReservesBacked, HubTotal, HubPart, InPool
  <2>4. hubFree \in Nat /\ hubReserved \in Nat
    BY <1>0, Zenon DEF TypeOK
  <2>5. hubFree' + hubReserved' = HubTotal(assets')
    BY <1>1, <1>4, <2>1, <2>2, <2>3, <2>4
  <2> QED
    BY <2>5, Zenon DEF HubReservesBacked, HubTotal, HubPart, InPool
<1>6. SharesAccounted'
  <2>1. Outstanding(assets, x) = 0
    BY <1>1, <1>4
  <2>2. \A z \in Assets : Outstanding(assets', z) = Outstanding(assets, z)
    BY <1>2, <2>1, Zenon DEF Outstanding
  <2> QED
    BY <1>0, <1>1, <2>2, SharesKept, Zenon
<1>7. FreshIds' /\ SlipSound'
  BY <1>0, <1>1, Zenon DEF FreshIds, SlipSound, PositionIds
<1> QED
  BY <1>5, <1>6, <1>7, Zenon DEF Accounts

(* A call that changes no amount of any asset.                             *)
LEMMA SettingsKeepAccounts ==
  ASSUME Accounts, TypeOK', NEW x \in Assets, InPool(x), assets'[x] \in AssetState,
         assets'[x].hub = assets[x].hub, assets'[x].shares = assets[x].shares,
         assets'[x].protocolShares = assets[x].protocolShares,
         \A z \in Assets \ {x} : assets'[z] = assets[z],
         UNCHANGED <<hubFree, hubReserved, positions, nextPositionId, q0, slipDelta>>
  PROVE  Accounts'
<1>0. TypeOK /\ HubReservesBacked /\ SharesAccounted /\ FreshIds /\ SlipSound
  BY Zenon DEF Accounts
<1>1. assets \in AssetMap /\ assets' \in AssetMap /\ assets[x] \in AssetState
  BY <1>0, StateOfTyped, Zenon DEF TypeOK, AssetMap
<1>2. /\ HubPart(assets, x) = assets[x].hub /\ Outstanding(assets, x) = assets[x].shares - assets[x].protocolShares
      /\ assets[x].hub \in Nat
  BY <1>1, PartsOfState, Zenon
<1>3. HubPart(assets', x) = assets'[x].hub /\ Outstanding(assets', x) = assets'[x].shares - assets'[x].protocolShares
  BY PartsOfState, Zenon
<1>4. HubReservesBacked'
  <2>1. HubTotal(assets') = (HubTotal(assets) - HubPart(assets, x)) + HubPart(assets', x) /\ HubTotal(assets) \in Nat
    BY <1>1, HubTotalChange, HubTotalNat, Zenon
  <2>2. HubTotal(assets') = HubTotal(assets)
    BY <1>2, <1>3, <2>1
  <2> QED
    BY <1>0, <2>2, HubKept, Zenon
<1>5. SharesAccounted'
  <2>1. \A z \in Assets : Outstanding(assets', z) = Outstanding(assets, z)
    BY <1>2, <1>3, Zenon DEF Outstanding
  <2> QED
    BY <1>0, <2>1, SharesKept, Zenon
<1>6. FreshIds' /\ SlipSound'
  BY <1>0, Zenon DEF FreshIds, SlipSound, PositionIds
<1> QED
  BY <1>4, <1>5, <1>6, Zenon DEF Accounts

(* A call that touches neither assets nor positions.                       *)
LEMMA UntouchedKeepsAccounts ==
  ASSUME Accounts, TypeOK', UNCHANGED <<assets, positions, nextPositionId, q0, slipDelta>>,
         hubFree' + hubReserved' = hubFree + hubReserved
  PROVE  Accounts'
<1>1. HubReservesBacked'
  BY Zenon DEF Accounts, HubReservesBacked, InPool
<1>2. SharesAccounted'
  BY SharesKept, Zenon DEF Accounts
<1> QED
  BY <1>1, <1>2, Zenon DEF Accounts, FreshIds, SlipSound, PositionIds

(* The calls of governance and of the authority.                           *)
LEMMA GoverningKeepsAccounts ==
  ASSUME Accounts, TypeOK', Governing
  PROVE  Accounts'
<1>0. TypeOK
  BY Zenon DEF Accounts
<1>1. ASSUME NEW x \in Assets, RemoveToken(x) PROVE Accounts'
  BY <1>1, RemoveTokenKeepsAccounts, Zenon
<1>2. ASSUME NEW x \in Assets, RefundRefusedAsset(x, reserve[x]) PROVE Accounts'
  <2>1. UNCHANGED <<assets, positions, nextPositionId, q0, slipDelta>> /\ hubFree' + hubReserved' = hubFree + hubReserved
    BY <1>2, Zenon DEF RefundRefusedAsset, book, slipVars
  <2> QED
    BY <2>1, UntouchedKeepsAccounts, Zenon
<1>3. ASSUME NEW x \in Assets, NEW flags \in Tradabilities, SetAssetTradableState(x, flags)
      PROVE  Accounts'
  <2>1. /\ InPool(x) /\ assets' = [assets EXCEPT ![x].tradable = flags]
        /\ UNCHANGED <<hubFree, hubReserved, positions, nextPositionId, q0, slipDelta>>
    BY <1>3, Zenon DEF SetAssetTradableState, book, slipVars
  <2>2. flags \in SUBSET AllFlags /\ assets[x] \in AssetState
    BY <1>0, <2>1, OmnipoolAssumption, StateOfTyped, Zenon DEF AllFlags
  <2>3. /\ assets'[x] = [assets[x] EXCEPT !.tradable = flags]
        /\ \A z \in Assets \ {x} : assets'[z] = assets[z]
    BY <1>0, <2>1, Zenon DEF TypeOK
  <2>4. /\ assets'[x] \in AssetState /\ assets'[x].hub = assets[x].hub /\ assets'[x].shares = assets[x].shares
        /\ assets'[x].protocolShares = assets[x].protocolShares
    BY <2>2, <2>3, Zenon DEF AssetState
  <2> QED
    BY <2>1, <2>3, <2>4, SettingsKeepAccounts, Zenon
<1>4. ASSUME NEW x \in Assets, NEW cap \in Caps, SetAssetWeightCap(x, cap) PROVE Accounts'
  <2>1. /\ InPool(x) /\ assets' = [assets EXCEPT ![x].cap = FromPermill(cap)]
        /\ UNCHANGED <<hubFree, hubReserved, positions, nextPositionId, q0, slipDelta>>
    BY <1>4, Zenon DEF SetAssetWeightCap, book, slipVars
  <2>2. FromPermill(cap) \in Nat /\ assets[x] \in AssetState
    <3>1. cap \in 0..PERMILL /\ FIXED \in Nat
      BY OmnipoolAssumption, ScaleAssumption, Zenon
    <3>2. FromPermill(cap) \in 0..FIXED
      BY <3>1, FromPermillPart, Zenon
    <3>3. FromPermill(cap) \in Nat
      BY <3>1, <3>2
    <3> QED
      BY <1>0, <2>1, <3>3, StateOfTyped, Zenon
  <2>3. /\ assets'[x] = [assets[x] EXCEPT !.cap = FromPermill(cap)]
        /\ \A z \in Assets \ {x} : assets'[z] = assets[z]
    BY <1>0, <2>1, Zenon DEF TypeOK
  <2>4. /\ assets'[x] \in AssetState /\ assets'[x].hub = assets[x].hub /\ assets'[x].shares = assets[x].shares
        /\ assets'[x].protocolShares = assets[x].protocolShares
    BY <2>2, <2>3, Zenon DEF AssetState
  <2> QED
    BY <2>1, <2>3, <2>4, SettingsKeepAccounts, Zenon
<1>5. ASSUME NEW x \in Assets, NEW price \in InitialPrices, NEW cap \in Caps, AddToken(x, price, cap)
      PROVE  Accounts'
  BY <1>5, AddTokenKeepsAccounts, Zenon
<1>6. ASSUME NEW x \in Assets, InPool(x), NEW price \in OraclePrices,
             WithdrawProtocolLiquidity(x, assets[x].protocolShares, <<price, FIXED>>)
      PROVE  Accounts'
  <2> DEFINE at == <<price, FIXED>>
             amount == assets[x].protocolShares
  <2>1. at[1] \in Nat /\ at[2] \in Nat \ {0}
    BY OmnipoolAssumption, ScaleAssumption, Zenon
  <2>2. amount \in Nat
    BY <1>0, <1>6, StateOfTyped, Zenon DEF AssetState
  <2>3. WithdrawProtocolLiquidity(x, amount, at)
    BY <1>6, Zenon
  <2> HIDE DEF at, amount
  <2> QED
    BY <2>1, <2>2, <2>3, WithdrawProtocolKeepsAccounts, Zenon
<1>7. ASSUME NEW flags \in Tradabilities, SetHubTradableState(flags) PROVE Accounts'
  <2>1. UNCHANGED <<assets, positions, nextPositionId, q0, slipDelta>> /\ hubFree' + hubReserved' = hubFree + hubReserved
    BY <1>7, Zenon DEF SetHubTradableState, book, slipVars
  <2> QED
    BY <2>1, UntouchedKeepsAccounts, Zenon
<1>8. ASSUME NEW max \in SlipFees \cup {None}, SetSlipFee(max) PROVE Accounts'
  <2>1. UNCHANGED <<assets, positions, nextPositionId, q0, slipDelta>> /\ hubFree' + hubReserved' = hubFree + hubReserved
    BY <1>8, Zenon DEF SetSlipFee, book, slipVars
  <2> QED
    BY <2>1, UntouchedKeepsAccounts, Zenon
<1> QED
  BY <1>1, <1>2, <1>3, <1>4, <1>5, <1>6, <1>7, <1>8, Zenon DEF Governing

(* The calls of the liquidity providers.                                   *)
LEMMA ProvidingKeepsAccounts ==
  ASSUME Accounts, TypeOK', Providing
  PROVE  Accounts'
<1>1. CASE \E x \in Assets, amount \in LiquidityAmounts : AddLiquidity(x, amount)
  BY <1>1, AddLiquidityKeepsAccounts, Zenon
<1>2. ASSUME NEW id \in PositionIds, SacrificePosition(id) PROVE Accounts'
  BY <1>2, SacrificeKeepsAccounts, Zenon
<1>3. ASSUME NEW id \in PositionIds, positions[id] # None,
             NEW shares \in {positions[id].shares, positions[id].shares \div 2}, RemoveLiquidity(id, shares)
      PROVE  Accounts'
  <2>1. positions[id].shares \in Nat
    BY <1>3, Zenon DEF Accounts, TypeOK, Position
  <2>2. shares \in Nat
    BY <2>1
  <2> QED
    BY <1>3, <2>2, RemoveLiquidityKeepsAccounts, Zenon
<1> QED
  BY <1>1, <1>2, <1>3, Zenon DEF Providing

(* on_finalize, and the release of reserved hub asset.                     *)
LEMMA BlockKeepsAccounts ==
  ASSUME Accounts, TypeOK', NewBlock \/ ReleaseHub
  PROVE  Accounts'
<1>1. CASE NewBlock
  <2>1. /\ q0' = [x \in Assets |-> None] /\ slipDelta' = [x \in Assets |-> 0]
        /\ UNCHANGED <<assets, hubFree, hubReserved, positions, nextPositionId>>
    BY <1>1, Zenon DEF NewBlock, book
  <2>2. HubReservesBacked'
    BY <2>1, HubKept, Zenon DEF Accounts
  <2>3. SharesAccounted'
    BY <2>1, SharesKept, Zenon DEF Accounts
  <2>4. SlipSound' /\ FreshIds'
    BY <2>1, Zenon DEF Accounts, SlipSound, SlipFits, FreshIds, PositionIds
  <2> QED
    BY <2>2, <2>3, <2>4, Zenon DEF Accounts
<1>2. CASE ReleaseHub
  <2>1. UNCHANGED <<assets, positions, nextPositionId, q0, slipDelta>>
    BY <1>2, Zenon DEF ReleaseHub, book, slipVars
  <2>2. hubFree \in Nat /\ hubReserved \in Nat /\ hubFree' = hubFree + hubReserved /\ hubReserved' = 0
    BY <1>2, Zenon DEF ReleaseHub, Accounts, TypeOK
  <2>3. hubFree' + hubReserved' = hubFree + hubReserved
    BY <2>2
  <2> QED
    BY <2>1, <2>3, UntouchedKeepsAccounts, Zenon
<1> QED
  BY <1>1, <1>2, Zenon

(* The accounts after the initial add_token calls: each asset has the one  *)
(* position of its first provider.                                         *)
LEMMA InitAccounts == Init => Accounts
<1> SUFFICES ASSUME Init PROVE Accounts
  OBVIOUS
<1>1. TypeOK
  BY InitTyped, Zenon
<1>2. /\ InitialReserve \in [Assets -> Nat] /\ InitialOrder \in Seq(Assets)
      /\ Len(InitialOrder) <= MaxPositionId /\ MaxPositionId \in Nat /\ InitialHubSupply \in Nat
      /\ \A i, j \in DOMAIN InitialOrder : InitialOrder[i] = InitialOrder[j] => i = j
      /\ None \notin AssetState /\ None \notin Position
  BY OmnipoolAssumption, Zenon
<1>3. \A x \in Assets : IF x \in InitialAssets
                        THEN /\ InPool(x) /\ assets[x].hub = InitialHub(x)
                             /\ assets[x].shares = InitialReserve[x] /\ assets[x].protocolShares = 0
                        ELSE assets[x] = None
  <2>1. ASSUME NEW x \in Assets, x \in InitialAssets
        PROVE  /\ InPool(x) /\ assets[x].hub = InitialHub(x)
               /\ assets[x].shares = InitialReserve[x] /\ assets[x].protocolShares = 0
    <3>1. assets[x] = [hub |-> InitialHub(x), shares |-> InitialReserve[x], protocolShares |-> 0,
                       cap |-> FromPermill(PERMILL), tradable |-> AllFlags]
      BY <2>1, Zenon DEF Init
    <3>2. InitialHub(x) \in Nat /\ FromPermill(PERMILL) \in Nat /\ InitialReserve[x] \in Nat
      <4>1. InitialPrice \in [Assets -> Nat \ {0}] /\ PERMILL \in Nat \ {0} /\ FIXED \in Nat \ {0}
        BY OmnipoolAssumption, ScaleAssumption, Zenon
      <4>2. InitialHub(x) \in Nat
        BY <1>2, <4>1, MulIntNat, Zenon DEF InitialHub
      <4>3. PERMILL \in 0..PERMILL
        BY <4>1
      <4>4. FromPermill(PERMILL) \in 0..FIXED
        BY <4>3, FromPermillPart, Zenon
      <4>5. FromPermill(PERMILL) \in Nat
        BY <4>1, <4>4
      <4> QED
        BY <1>2, <4>2, <4>5, Zenon
    <3>3. assets[x] \in AssetState
      BY <3>1, <3>2 DEF AssetState
    <3>4. /\ assets[x].hub = InitialHub(x) /\ assets[x].shares = InitialReserve[x]
          /\ assets[x].protocolShares = 0
      BY <3>1
    <3> QED
      BY <1>2, <3>3, <3>4, Zenon DEF InPool
  <2> QED
    BY <2>1, Zenon DEF Init
<1>4. HubReservesBacked
  <2> DEFINE f == [x \in Assets |-> IF x \in InitialAssets THEN InitialHub(x) ELSE 0]
             g == [x \in Assets |-> IF InPool(x) THEN assets[x].hub ELSE 0]
  <2>1. \A x \in Assets : f[x] = g[x]
    BY <1>3, Zenon DEF InPool
  <2>2. IsFiniteSet(Assets)
    BY OmnipoolAssumption, Zenon
  <2>3. hubFree = SumFunctionOnSet(f, Assets) /\ hubReserved = 0 /\ hubFree \in Nat
    BY <1>2, Zenon DEF Init, InitialHubSupply
  <2> HIDE DEF f, g
  <2>4. SumFunctionOnSet(f, Assets) = SumFunctionOnSet(g, Assets)
    BY <2>1, <2>2, SumSame, Zenon
  <2>5. hubFree + hubReserved = SumFunctionOnSet(g, Assets)
    BY <2>3, <2>4
  <2> QED
    BY <2>5, Zenon DEF HubReservesBacked, g
<1>5. \A id \in PositionIds :
        IF id + 1 \in DOMAIN InitialOrder
        THEN /\ positions[id] # None /\ positions[id].asset = InitialOrder[id + 1]
             /\ positions[id].shares = InitialReserve[InitialOrder[id + 1]]
        ELSE positions[id] = None
  <2>1. ASSUME NEW id \in PositionIds, id + 1 \in DOMAIN InitialOrder
        PROVE  /\ positions[id] # None /\ positions[id].asset = InitialOrder[id + 1]
               /\ positions[id].shares = InitialReserve[InitialOrder[id + 1]]
    <3> DEFINE x == InitialOrder[id + 1]
    <3>1. positions[id] = [asset |-> x, amount |-> InitialReserve[x], shares |-> InitialReserve[x],
                           price |-> <<InitialPrice[x], FIXED>>]
      BY <2>1, Zenon DEF Init
    <3>2. x \in Assets
      BY <1>2, <2>1
    <3>3. positions[id] \in Position
      <4>1. InitialReserve[x] \in Nat /\ InitialPrice[x] \in Nat \ {0} /\ FIXED \in Nat \ {0}
        BY <3>2, OmnipoolAssumption, ScaleAssumption, Zenon
      <4> HIDE DEF x
      <4>2. <<InitialPrice[x], FIXED>> \in Nat \X (Nat \ {0})
        BY <4>1
      <4> QED
        BY <3>1, <3>2, <4>1, <4>2 DEF Position
    <3>4. positions[id].asset = x /\ positions[id].shares = InitialReserve[x]
      BY <3>1
    <3> QED
      BY <1>2, <3>3, <3>4, Zenon
  <2> QED
    BY <2>1, Zenon DEF Init
<1>6. SharesAccounted
  <2> SUFFICES ASSUME NEW x \in Assets
               PROVE  SumFunctionOnSet(PositionShares(x), PositionIds) = Outstanding(assets, x)
    BY Zenon DEF SharesAccounted, Outstanding, InPool
  <2>1. IsFiniteSet(PositionIds)
    BY FS_Interval, OmnipoolAssumption DEF PositionIds
  <2> DEFINE f == PositionShares(x)
             z == [id \in PositionIds |-> 0]
  <2>2. \A id \in PositionIds : f[id] = Held(positions[id], x)
    BY Zenon DEF PositionShares, Held
  <2>3. \A id \in PositionIds : z[id] = 0 /\ z[id] \in Int /\ f[id] \in Int
    <3>1. \A id \in PositionIds : positions[id] \in Position \cup {None}
      BY <1>1, Zenon DEF TypeOK
    <3>2. \A id \in PositionIds : Held(positions[id], x) \in Nat
      BY <3>1, HeldNat, Zenon
    <3>3. \A id \in PositionIds : f[id] \in Nat
      BY <2>2, <3>2, Zenon
    <3> HIDE DEF f
    <3> QED
      BY <3>3
  <2> HIDE DEF f, z
  <2>4. SumFunctionOnSet(z, PositionIds) = 0
    BY <2>1, <2>3, SumOfZeros, Zenon
  <2>5. CASE x \in InitialAssets
    <3>1. PICK i \in DOMAIN InitialOrder : InitialOrder[i] = x
      BY <2>5, Zenon DEF InitialAssets
    <3>2. i - 1 \in PositionIds /\ (i - 1) + 1 = i
      BY <1>2 DEF PositionIds
    <3>3. f[i - 1] = InitialReserve[x]
      BY <1>5, <2>2, <3>1, <3>2, Zenon DEF Held
    <3>4. \A id \in PositionIds : id + 1 = i => id = i - 1
      BY <1>2 DEF PositionIds
    <3>5. \A id \in PositionIds \ {i - 1} : f[id] = 0
      BY <1>2, <1>5, <2>2, <3>1, <3>4, Zenon DEF Held
    <3>6. \A id \in PositionIds \ {i - 1} : z[id] = f[id]
      BY <2>3, <3>5, Zenon
    <3> DEFINE k == i - 1
    <3>7. k \in PositionIds /\ f[k] = InitialReserve[x] /\ \A id \in PositionIds \ {k} : z[id] = f[id]
      BY <3>2, <3>3, <3>6, Zenon
    <3> HIDE DEF k
    <3>8. SumFunctionOnSet(f, PositionIds) = (SumFunctionOnSet(z, PositionIds) - z[k]) + f[k]
      BY <2>1, <2>3, <3>7, SumChange
    <3>9. InitialReserve[x] \in Nat /\ z[k] = 0
      BY <1>2, <2>3, <3>7, Zenon
    <3>10. SumFunctionOnSet(f, PositionIds) = InitialReserve[x]
      BY <2>4, <3>7, <3>8, <3>9
    <3>11. Outstanding(assets, x) = InitialReserve[x] - 0
      BY <1>3, <2>5, Zenon DEF Outstanding, InPool
    <3>12. Outstanding(assets, x) = InitialReserve[x]
      BY <3>9, <3>11
    <3> QED
      BY <3>10, <3>12, Zenon DEF f
  <2>6. CASE x \notin InitialAssets
    <3>1. \A id \in PositionIds : f[id] = 0
      BY <1>5, <2>2, <2>6, Zenon DEF Held, InitialAssets
    <3>2. SumFunctionOnSet(f, PositionIds) = 0
      BY <2>1, <3>1, SumOfZeros, Zenon
    <3> QED
      BY <1>3, <2>6, <3>2, Zenon DEF Outstanding, f
  <2> QED
    BY <2>5, <2>6, Zenon
<1>7. FreshIds
  <2>1. \A id \in PositionIds : id >= Len(InitialOrder) => id + 1 \notin DOMAIN InitialOrder
    BY <1>2 DEF PositionIds
  <2>2. nextPositionId = Len(InitialOrder)
    BY Zenon DEF Init
  <2> QED
    BY <1>5, <2>1, <2>2, Zenon DEF FreshIds
<1>8. SlipSound
  BY Zenon DEF Init, SlipSound, SlipFits
<1> QED
  BY <1>1, <1>4, <1>6, <1>7, <1>8, Zenon DEF Accounts

(* Every step keeps the accounts.                                          *)
LEMMA StepAccounts ==
  ASSUME Accounts, [Next]_vars
  PROVE  Accounts'
<1>1. TypeOK'
  BY StepSafe, Zenon DEF Accounts
<1>2. CASE Next
  BY <1>1, <1>2, TradingKeepsAccounts, ProvidingKeepsAccounts, GoverningKeepsAccounts, BlockKeepsAccounts, Zenon DEF Next
<1>3. CASE UNCHANGED vars
  <2>1. UNCHANGED <<assets, positions, nextPositionId, q0, slipDelta>> /\ hubFree' + hubReserved' = hubFree + hubReserved
    BY <1>3, Zenon DEF vars
  <2> QED
    BY <1>1, <2>1, UntouchedKeepsAccounts, Zenon
<1> QED
  BY <1>2, <1>3, Zenon

(* The inductive invariant is one.                                         *)
LEMMA AccountsInvariant == Spec => []Accounts
<1>1. Init => Accounts
  BY InitAccounts, Zenon
<1>2. Accounts /\ [Next]_vars => Accounts'
  BY StepAccounts, Zenon
<1> QED
  BY <1>1, <1>2, PTL DEF Spec

(* With the shares accounted for, a position's shares are shares of its    *)
(* asset, and calculate_remove_liquidity_state_changes pays them out.      *)
LEMMA AccountedCanExit == Accounts => PositionsCanExit
<1> SUFFICES ASSUME Accounts, NEW id \in PositionIds, positions[id] # None, positions[id].shares > 0,
                    StateOf(positions[id].asset).hub > 0, StateOf(positions[id].asset).reserve > 0
             PROVE  LET p == positions[id]
                        s == StateOf(p.asset)
                        r == CalculateRemoveLiquidity(s, p.shares, p, FromPermill(MinWithdrawalFee))
                    IN  r.ok /\ r.reserve <= s.reserve /\ r.hub <= s.hub /\ r.shares <= s.shares
  BY Zenon DEF PositionsCanExit
<1> DEFINE p == positions[id]
           x == p.asset
           s == StateOf(x)
           fee == FromPermill(MinWithdrawalFee)
           r == CalculateRemoveLiquidity(s, p.shares, p, fee)
<1>0. TypeOK /\ SharesAccounted
  BY Zenon DEF Accounts
<1>1. p \in Position /\ p # None /\ x = p.asset /\ p.shares > 0 /\ s.hub > 0 /\ s.reserve > 0
  BY <1>0, Zenon DEF TypeOK
<1>2. /\ x \in Assets /\ p.shares \in Nat /\ p.amount \in Nat
      /\ p.price[1] \in Nat /\ p.price[2] \in Nat \ {0}
  <2>1. x \in Assets /\ p.shares \in Nat /\ p.amount \in Nat /\ p.price \in Nat \X (Nat \ {0})
    BY <1>1, Zenon DEF Position
  <2> HIDE DEF p, x
  <2> QED
    BY <2>1
<1>3. IsPosition(p) /\ p.shares \in Nat \ {0}
  <2> HIDE DEF p, x, s
  <2> QED
    BY <1>1, <1>2 DEF IsPosition
<1>4. fee \in 0..FIXED
  BY OmnipoolAssumption, FromPermillPart, Zenon
<1>5. InPool(x) /\ p.shares <= Outstanding(assets, x)
  <2> DEFINE f == PositionShares(x)
  <2>1. \A j \in PositionIds : f[j] = Held(positions[j], x)
    BY Zenon DEF PositionShares, Held
  <2>2. \A j \in PositionIds : f[j] \in Nat
    <3>1. \A j \in PositionIds : positions[j] \in Position \cup {None}
      BY <1>0, Zenon DEF TypeOK
    <3> QED
      BY <2>1, <3>1, HeldNat, Zenon
  <2>3. IsFiniteSet(PositionIds)
    BY FS_Interval, OmnipoolAssumption DEF PositionIds
  <2>4. f[id] = p.shares
    BY <1>1, <2>1, Zenon DEF Held
  <2>5. SumFunctionOnSet(f, PositionIds) = Outstanding(assets, x)
    BY <1>0, <1>2, Zenon DEF SharesAccounted, Outstanding, InPool
  <2> HIDE DEF f, p, x
  <2>6. f[id] <= SumFunctionOnSet(f, PositionIds)
    BY <2>2, <2>3, SumNat
  <2>7. p.shares <= Outstanding(assets, x)
    BY <2>4, <2>5, <2>6, Zenon
  <2>8. ~ InPool(x) => Outstanding(assets, x) = 0
    BY Zenon DEF InPool, Outstanding
  <2>9. ~ (p.shares <= 0)
    BY <1>3
  <2> QED
    BY <2>7, <2>8, <2>9, Zenon
<1>6. s \in PoolState /\ s.shares = assets[x].shares /\ assets[x] \in AssetState
  BY <1>0, <1>2, <1>5, StateOfTyped, Zenon
<1>7. p.shares <= s.shares
  <2> HIDE DEF p, x, s
  <2>1. /\ Outstanding(assets, x) = assets[x].shares - assets[x].protocolShares
        /\ assets[x].shares \in Nat /\ assets[x].protocolShares \in Nat
    BY <1>6, PartsOfState, Zenon
  <2> QED
    BY <1>2, <1>5, <1>6, <2>1
<1>8. p.shares <= p.shares
  <2> HIDE DEF p
  <2> QED
    BY <1>2
<1> HIDE DEF p, s, fee
<1>9. r.ok /\ r.shares <= s.shares
  BY <1>1, <1>3, <1>6, <1>7, <1>8, RemovalDefined, Zenon
<1>10. r.reserve <= s.reserve /\ r.hub <= s.hub
  BY <1>2, <1>3, <1>4, <1>6, <1>9, RemoveLiquidityResult, Zenon
<1> QED
  BY <1>9, <1>10, Zenon DEF p, s, fee

(* The hub asset of the pool's account is the sum of the hub reserves, for *)
(* any assets, prices, fees and amounts and after any number of calls:     *)
(* what update_hub_asset_liquidity mints and burns, what the settlements   *)
(* move and what remove_token burns match the changes of the assets.       *)
THEOREM HubIsBacked == Spec => []HubReservesBacked
<1>1. Accounts => HubReservesBacked
  BY Zenon DEF Accounts
<1> QED
  BY <1>1, AccountsInvariant, PTL

(* The shares of an asset are always those of its positions and of the     *)
(* protocol, through partial withdrawals, sacrifices, losses that stay     *)
(* with the protocol and removals of tokens.                               *)
THEOREM SharesAreAccounted == Spec => []SharesAccounted
<1>1. Accounts => SharesAccounted
  BY Zenon DEF Accounts
<1> QED
  BY <1>1, AccountsInvariant, PTL

(* Wherever the trades of others took the price, the withdrawal of a whole *)
(* position is defined and within the reserves of its asset.               *)
THEOREM EveryoneCanExit == Spec => []PositionsCanExit
<1>1. Accounts => PositionsCanExit
  BY AccountedCanExit, Zenon
<1> QED
  BY <1>1, AccountsInvariant, PTL

(* The denominator of the slip fee stays positive within a block, however  *)
(* many trades it has and whenever the fee is switched on or off.          *)
THEOREM SlipStaysDefined == Spec => []SlipDenominatorPositive
<1>1. Accounts => SlipDenominatorPositive
  BY Zenon DEF Accounts, SlipSound, SlipFits, SlipDenominatorPositive
<1> QED
  BY <1>1, AccountsInvariant, PTL

=============================================================================
