------------------------------ MODULE Omnipool ------------------------------
(***************************************************************************)
(* The Omnipool (pallets/omnipool): one pool of many assets, each paired   *)
(* with an amount of the hub asset (LRNA) that the pool mints and burns.   *)
(*                                                                         *)
(* Traders and liquidity providers are one outside party with enough of    *)
(* every asset; of the hub asset it has userHub.  A call that fails in the *)
(* code rolls back, so that the action is not enabled.  What other pallets *)
(* decide is left open: the dynamic fees and the share of the asset fee    *)
(* that the fee processor takes, the oracle's price, the price barrier and *)
(* the limits of the circuit breaker (they may refuse any call), and       *)
(* whether the deposit fuse (see DepositFuse) reserves a minted amount.    *)
(***************************************************************************)
EXTENDS OmnipoolMath, FiniteSets, Functions, Sequences

CONSTANTS Assets, HDX,
          MinTradingLimit, MinPoolLiquidity, MaxInRatio, MaxOutRatio,
          MinWithdrawalFee,    \* parts of PERMILL
          BurnProtocolFee,     \* parts of PERMILL
          HubDust,             \* the hub amount below which a failed payout is burned
          LiquidityTolerance,  \* the tolerance of ensure_liquidity_invariant
          MinInitialLiquidity, \* 20 existential deposits
          InitialOrder,        \* the tokens added so far, in this order,
          InitialPrice,        \* at these prices
          InitialReserve, InitialUserHub, InitialSlipFees,
          TradeAmounts, LiquidityAmounts, AssetFees, ProtocolFees, SlipFees,
          OraclePrices,        \* a price above zero may be zero as a FixedU128
          InitialPrices, Tradabilities, Caps,
          FeeTolerance,        \* what process_trade_fee accepts above the fee it allows
          ATokens, Overdrafts, \* the assets whose transfers round, and what they take on top
          MaxCalls, MaxPositionId

AllFlags == {"SELL", "BUY", "ADD", "REMOVE"}

AssetState == [hub : Nat, shares : Nat, protocolShares : Nat, cap : Nat, tradable : SUBSET AllFlags]

Position == [asset : Assets, amount : Nat, shares : Nat, price : Nat \X (Nat \ {0})]

(* The tokens added so far, and the hub asset minted for them.             *)
InitialAssets == {InitialOrder[i] : i \in DOMAIN InitialOrder}

InitialHub(x) == MulInt(InitialPrice[x], InitialReserve[x])

InitialHubSupply == SumFunctionOnSet([x \in Assets |-> IF x \in InitialAssets THEN InitialHub(x) ELSE 0], Assets)

ASSUME OmnipoolAssumption ==
  /\ IsFiniteSet(Assets) /\ HDX \in Assets
  /\ MinTradingLimit \in Nat \ {0} /\ MinPoolLiquidity \in Nat \ {0}
  /\ MaxInRatio \in Nat \ {0} /\ MaxOutRatio \in Nat \ {0}
  /\ MinWithdrawalFee \in 0..PERMILL /\ BurnProtocolFee \in 0..PERMILL
  /\ MinInitialLiquidity \in Nat \ {0}
  /\ InitialReserve \in [Assets -> Nat] /\ InitialPrice \in [Assets -> Nat \ {0}]
  /\ HubDust \in Nat /\ LiquidityTolerance \in Nat /\ InitialUserHub \in Nat
  /\ TradeAmounts \subseteq Nat /\ LiquidityAmounts \subseteq Nat
  /\ AssetFees \subseteq 0..(PERMILL - 1) /\ ProtocolFees \subseteq 0..(PERMILL - 1)
  /\ SlipFees \subseteq 0..PERMILL /\ InitialSlipFees \subseteq SlipFees \cup {None} /\ Caps \subseteq 0..PERMILL
  /\ OraclePrices \subseteq Nat /\ InitialPrices \subseteq Nat \ {0}
  /\ Tradabilities \subseteq SUBSET {"SELL", "BUY", "ADD", "REMOVE"}
  /\ InitialOrder \in Seq(Assets) /\ Len(InitialOrder) <= MaxPositionId
  /\ \A i, j \in DOMAIN InitialOrder : InitialOrder[i] = InitialOrder[j] => i = j
  /\ InitialHubSupply \in Nat
  /\ FeeTolerance \in Nat /\ ATokens \subseteq Assets /\ Overdrafts \subseteq Nat
  /\ MaxCalls \in Nat /\ MaxPositionId \in Nat
  /\ None \notin Nat /\ None \notin AssetState /\ None \notin Position /\ None \notin TradeSlipFees

VARIABLES
  assets,          \* Assets: the state of each asset, None when not in the pool
  reserve,         \* the pool account's balance of each asset
  hubFree,         \* the pool account's free balance of the hub asset
  hubReserved,     \* and what the deposit fuse reserved of it
  userHub,         \* hub asset outside the pool
  positions,       \* Positions: by the id of their NFT
  nextPositionId,
  slipFee,         \* SlipFee: the cap of the slip fee, None when disabled
  q0,              \* SlipFeeHubReserveAtBlockStart
  slipDelta,       \* SlipFeeDelta
  hubTradable,     \* HubAssetTradability
  calls            \* history: the calls so far

vars == <<assets, reserve, hubFree, hubReserved, userHub, positions, nextPositionId, slipFee,
          q0, slipDelta, hubTradable, calls>>

book == <<positions, nextPositionId>>
slipVars == <<q0, slipDelta>>
settings == <<slipFee, hubTradable>>

-----------------------------------------------------------------------------
PositionIds == 0..(MaxPositionId - 1)

InPool(x) == assets[x] # None

StateOf(x) == [reserve |-> reserve[x], hub |-> assets[x].hub, shares |-> assets[x].shares]

Allowed(x, flag) == InPool(x) /\ flag \in assets[x].tradable

(* Every call counts towards the bound.                                    *)
Call == calls < MaxCalls /\ calls' = calls + 1

SnapshotQ0(x) == IF q0[x] = None THEN assets[x].hub ELSE q0[x]

EnsureQ0Snapshot(x) == q0' = IF slipFee = None THEN q0 ELSE [q0 EXCEPT ![x] = SnapshotQ0(x)]

LoadTradeSlipFees(x, y) ==
  IF slipFee = None THEN None
  ELSE [inQ0 |-> SnapshotQ0(x), inDelta |-> slipDelta[x],
        outQ0 |-> SnapshotQ0(y), outDelta |-> slipDelta[y], max |-> slipFee]

LoadHubTradeSlipFees(y) ==
  IF slipFee = None THEN None
  ELSE [outQ0 |-> SnapshotQ0(y), outDelta |-> slipDelta[y], max |-> slipFee]

(* What the trade leaves in the slip fee storages.                         *)
UpdateSlipFeeDelta(x, hubIn, y, hubOut) ==
  IF slipFee = None THEN UNCHANGED slipVars
  ELSE /\ q0' = [q0 EXCEPT ![x] = SnapshotQ0(x), ![y] = SnapshotQ0(y)]
       /\ slipDelta' = [slipDelta EXCEPT ![x] = @ - hubIn, ![y] = @ + hubOut]

UpdateSlipFeeDeltaHubTrade(y, hubOut) ==
  IF slipFee = None THEN UNCHANGED slipVars
  ELSE /\ q0' = [q0 EXCEPT ![y] = SnapshotQ0(y)]
       /\ slipDelta' = [slipDelta EXCEPT ![y] = @ + hubOut]

(* A mutant: hub asset is burned when it should be, and never minted.      *)
NeverMints(received, amount) ==
  /\ hubFree + amount >= 0
  /\ hubFree + amount + received >= 0
  /\ hubFree' = hubFree + received + IF amount > 0 THEN 0 ELSE amount
  /\ UNCHANGED hubReserved

(* The pool receives hub asset from a trader (or pays a provider when the  *)
(* amount is negative), and mints or burns.  The deposit fuse may reserve  *)
(* what is minted, taken here as nothing or all of it; burning and paying  *)
(* need free balance.                                                      *)
UpdateHubAssetLiquidity(received, amount) ==
  \E kept \in IF amount > 0 THEN {0, amount} ELSE {0} :
    /\ hubFree + amount >= 0
    /\ hubFree + amount + received - kept >= 0
    /\ hubFree' = hubFree + amount + received - kept
    /\ hubReserved' = hubReserved + kept

(* What others may take of the asset fee.                                  *)
AllowedFee(fee) == IF fee = 0 THEN 0 ELSE fee - 1

(* What leaves the pool account when others report to have taken a fee:    *)
(* the same, except that the transfer of an aToken may take more.          *)
Withdrawn(y, taken) == {taken + more : more \in IF y \in ATokens /\ taken > 0 THEN Overdrafts ELSE {0}}

(* A mutant: FeeOverdraft is never raised.                                 *)
AnythingTaken(y, taken, fee) == Withdrawn(y, taken)

(* process_trade_fee refuses what exceeds the fee it allows, but not by    *)
(* what it tolerates; the reported fee is the one that is accounted for.   *)
ActualFeesTaken(y, taken, fee) == {actual \in Withdrawn(y, taken) : actual <= AllowedFee(fee) + FeeTolerance}

IncreaseHdxSubpool(a, amount) == [a EXCEPT ![HDX].hub = @ + amount]

-----------------------------------------------------------------------------
(* Trades.                                                                 *)

(* The settlement that sell and buy share: transfers, one mint or burn for *)
(* the difference of the hub reserves, the protocol fee to the HDX pool,   *)
(* and ensure_trade_invariant.                                             *)
Settle(x, y, r) ==
  \E taken \in {0, AllowedFee(r.assetFee)} :
    LET extra  == ExtraAfterFeeTaken(r.extra, taken, r.assetFee)
        credit == r.protocolFee - MulFloor(BurnProtocolFee, r.protocolFee)
        moved  == r.hubOut + extra - r.hubIn
        traded == {x, y, HDX}
        after  == IncreaseHdxSubpool([assets EXCEPT ![x].hub = @ - r.hubIn, ![y].hub = @ + r.hubOut + extra],
                                     credit)
        HubOf(a) == SumFunctionOnSet([z \in traded |-> a[z].hub], traded)
    IN  /\ InPool(HDX)
        /\ hubFree >= HubOf(assets)
        /\ \E actual \in ActualFeesTaken(y, taken, r.assetFee) :
             /\ r.out + actual <= reserve[y]
             /\ reserve' = [reserve EXCEPT ![x] = @ + r.in, ![y] = @ - r.out - actual]
        /\ assets' = after
        /\ hubFree + moved >= 0
        /\ hubFree' = hubFree + moved + credit
        /\ UpdateSlipFeeDelta(x, r.hubIn, y, r.hubOut)
        /\ (reserve[x] + r.in) * (assets[x].hub - r.hubIn) >= reserve[x] * assets[x].hub
        /\ hubFree' = hubFree - HubOf(assets) + HubOf(after)
        /\ UNCHANGED <<hubReserved, userHub, book, settings>>

Sell(x, y, amount) ==
  /\ Call
  /\ x # y
  /\ amount >= MinTradingLimit
  /\ Allowed(x, "SELL") /\ Allowed(y, "BUY")
  /\ amount <= reserve[x] \div MaxInRatio
  /\ \E assetFee \in AssetFees, protocolFee \in ProtocolFees :
       LET r == CalculateSell(StateOf(x), StateOf(y), amount, assetFee, protocolFee,
                              LoadTradeSlipFees(x, y))
       IN  /\ r.ok
           /\ r.out > 0
           /\ r.out <= reserve[y] \div MaxOutRatio
           /\ Settle(x, y, r)

Buy(x, y, amount) ==
  /\ Call
  /\ x # y
  /\ amount >= MinTradingLimit
  /\ Allowed(x, "SELL") /\ Allowed(y, "BUY")
  /\ amount <= reserve[y] \div MaxOutRatio
  /\ \E assetFee \in AssetFees, protocolFee \in ProtocolFees :
       LET r == CalculateBuy(StateOf(x), StateOf(y), amount, assetFee, protocolFee,
                             LoadTradeSlipFees(x, y))
       IN  /\ r.ok
           /\ r.in <= reserve[x] \div MaxInRatio
           /\ Settle(x, y, r)

CanPay(amount) == amount <= userHub

(* The settlement of a trade that pays with the hub asset itself.          *)
SettleHub(y, r) ==
  \E taken \in {0, AllowedFee(r.assetFee)} :
    LET extra == ExtraAfterFeeTaken(r.extra, taken, r.assetFee)
    IN  /\ r.out <= reserve[y] \div MaxOutRatio
        /\ r.hubOut <= assets[y].hub \div MaxInRatio
        /\ CanPay(r.hubOut)
        /\ userHub' = userHub - r.hubOut
        /\ \E actual \in ActualFeesTaken(y, taken, r.assetFee) :
             /\ r.out + actual <= reserve[y]
             /\ reserve' = [reserve EXCEPT ![y] = @ - r.out - actual]
        /\ UpdateHubAssetLiquidity(r.hubOut, extra)
        /\ assets' = [assets EXCEPT ![y].hub = @ + r.hubOut + extra]
        /\ UpdateSlipFeeDeltaHubTrade(y, r.hubOut)
        /\ UNCHANGED <<book, settings>>

SellHubAsset(y, amount) ==
  /\ Call
  /\ amount >= MinTradingLimit
  /\ "SELL" \in hubTradable /\ Allowed(y, "BUY")
  /\ \E assetFee \in AssetFees :
       LET r == CalculateSellHub(StateOf(y), amount, assetFee, LoadHubTradeSlipFees(y))
       IN  r.ok /\ SettleHub(y, r)

BuyAssetForHubAsset(y, amount) ==
  /\ Call
  /\ amount >= MinTradingLimit
  /\ "SELL" \in hubTradable /\ Allowed(y, "BUY")
  /\ \E assetFee \in AssetFees :
       LET r == CalculateBuyForHub(StateOf(y), amount, assetFee, LoadHubTradeSlipFees(y))
       IN  r.ok /\ SettleHub(y, r)

-----------------------------------------------------------------------------
(* Liquidity.                                                              *)

NewPosition(position) ==
  /\ nextPositionId < MaxPositionId
  /\ positions' = [positions EXCEPT ![nextPositionId] = position]
  /\ nextPositionId' = nextPositionId + 1

AddToken(x, price, cap) ==
  LET amount == reserve[x]
      hub    == MulInt(price, amount)
  IN  /\ Call
      /\ ~InPool(x)
      /\ amount >= MinInitialLiquidity
      /\ assets' = [assets EXCEPT ![x] = [hub |-> hub, shares |-> amount, protocolShares |-> 0,
                                          cap |-> FromPermill(cap), tradable |-> AllFlags]]
      /\ NewPosition([asset |-> x, amount |-> amount, shares |-> amount, price |-> <<price, FIXED>>])
      /\ UpdateHubAssetLiquidity(0, hub)
      /\ UNCHANGED <<reserve, userHub, settings, slipVars>>

(* The price of the asset may not move by more than the tolerance.         *)
EnsureLiquidityInvariant(old, new) ==
  /\ (new.hub - LiquidityTolerance) * old.reserve <= old.hub * new.reserve
  /\ old.hub * new.reserve <= (new.hub + LiquidityTolerance) * old.reserve

AddLiquidity(x, amount) ==
  /\ Call
  /\ amount >= MinPoolLiquidity
  /\ Allowed(x, "ADD")
  /\ LET old == StateOf(x)
         r   == CalculateAddLiquidity(old, amount)
         new == [reserve |-> old.reserve + amount, hub |-> old.hub + r.hub, shares |-> old.shares + r.shares]
     IN  /\ r.ok
         /\ hubFree + hubReserved + r.hub > 0
         /\ FromRational(new.hub, hubFree + hubReserved + r.hub) <= assets[x].cap
         /\ NewPosition([asset |-> x, amount |-> amount, shares |-> r.shares, price |-> <<new.hub, new.reserve>>])
         /\ reserve' = [reserve EXCEPT ![x] = new.reserve]
         /\ assets' = [assets EXCEPT ![x].hub = new.hub, ![x].shares = new.shares]
         /\ UpdateHubAssetLiquidity(0, r.hub)
         /\ EnsureQ0Snapshot(x)
         /\ EnsureLiquidityInvariant(old, new)
  /\ UNCHANGED <<slipDelta, userHub, settings>>

(* The pool burns the hub asset of the liquidity withdrawn, except what    *)
(* the provider is paid; a payout too small for the provider's account to  *)
(* exist is burned as well.                                                *)
PayOut(r) ==
  \E burned \in IF r.lpHub < HubDust THEN {0, r.lpHub} ELSE {0} :
    /\ UpdateHubAssetLiquidity(-r.lpHub, r.lpHub - r.hub)
    /\ userHub' = userHub + r.lpHub - burned

(* A mutant: the shares that stay with the protocol leave the pool too.    *)
AllSharesBurned(x, r) ==
  [assets EXCEPT ![x].hub = @ - r.hub, ![x].shares = @ - r.shares - r.protocolShares,
                 ![x].protocolShares = @ + r.protocolShares]

AfterRemoval(x, r) ==
  [assets EXCEPT ![x].hub = @ - r.hub, ![x].shares = @ - r.shares,
                 ![x].protocolShares = @ + r.protocolShares]

RemoveLiquidity(id, shares) ==
  /\ Call
  /\ positions[id] # None
  /\ shares > 0 /\ shares <= positions[id].shares
  /\ LET position == positions[id]
         x        == position.asset
         left     == position.shares - shares
     IN  /\ Allowed(x, "REMOVE")
         /\ reserve[x] > 0
         /\ \E oracle \in OraclePrices :
              LET old == StateOf(x)
                  fee == CalculateWithdrawalFee(Price(old), oracle, MinWithdrawalFee)
                  r   == CalculateRemoveLiquidity(old, shares, position, fee)
              IN  /\ r.ok
                  /\ r.shares <= old.shares
                  /\ reserve' = [reserve EXCEPT ![x] = @ - r.reserve]
                  /\ assets' = AfterRemoval(x, r)
                  /\ positions' = [positions EXCEPT ![id] =
                                     IF left = 0 THEN None
                                     ELSE [position EXCEPT !.shares = left, !.amount = position.amount - r.amount]]
                  /\ PayOut(r)
                  /\ EnsureLiquidityInvariant(old, [reserve |-> old.reserve - r.reserve, hub |-> old.hub - r.hub])
         /\ EnsureQ0Snapshot(x)
  /\ UNCHANGED <<nextPositionId, slipDelta, settings>>

SacrificePosition(id) ==
  /\ Call
  /\ positions[id] # None
  /\ InPool(positions[id].asset)
  /\ assets' = [assets EXCEPT ![positions[id].asset].protocolShares = @ + positions[id].shares]
  /\ positions' = [positions EXCEPT ![id] = None]
  /\ UNCHANGED <<reserve, hubFree, hubReserved, userHub, nextPositionId, settings, slipVars>>

WithdrawProtocolLiquidity(x, amount, price) ==
  /\ Call
  /\ InPool(x)
  /\ amount <= assets[x].protocolShares
  /\ LET r     == CalculateRemoveLiquidity(StateOf(x), amount, [amount |-> 0, shares |-> amount, price |-> price], 0)
         after == AfterRemoval(x, r)
     IN  /\ r.ok
         /\ r.shares <= assets[x].shares
         /\ reserve' = [reserve EXCEPT ![x] = @ - r.reserve]
         /\ assets' = [after EXCEPT ![x].protocolShares = IF amount > @ THEN 0 ELSE @ - amount]
         /\ PayOut(r)
  /\ UNCHANGED <<book, settings, slipVars>>

-----------------------------------------------------------------------------
(* Governance, blocks and the circuit breaker.                             *)

RemoveToken(x) ==
  /\ Call
  /\ InPool(x)
  /\ assets[x].tradable = {}
  /\ assets[x].shares = assets[x].protocolShares
  /\ hubFree >= assets[x].hub
  /\ hubFree' = hubFree - assets[x].hub
  /\ reserve' = [reserve EXCEPT ![x] = 0]
  /\ assets' = [assets EXCEPT ![x] = None]
  /\ UNCHANGED <<hubReserved, userHub, book, settings, slipVars>>

RefundRefusedAsset(x, amount) ==
  /\ Call
  /\ ~InPool(x)
  /\ amount <= reserve[x]
  /\ reserve' = [reserve EXCEPT ![x] = @ - amount]
  /\ UNCHANGED <<assets, hubFree, hubReserved, userHub, book, settings, slipVars>>

SetAssetTradableState(x, flags) ==
  /\ Call
  /\ InPool(x)
  /\ assets' = [assets EXCEPT ![x].tradable = flags]
  /\ UNCHANGED <<reserve, hubFree, hubReserved, userHub, book, settings, slipVars>>

SetHubTradableState(flags) ==
  /\ Call
  /\ flags \cap {"ADD", "REMOVE"} = {}
  /\ hubTradable' = flags
  /\ UNCHANGED <<assets, reserve, hubFree, hubReserved, userHub, book, slipFee, slipVars>>

SetAssetWeightCap(x, cap) ==
  /\ Call
  /\ InPool(x)
  /\ assets' = [assets EXCEPT ![x].cap = FromPermill(cap)]
  /\ UNCHANGED <<reserve, hubFree, hubReserved, userHub, book, settings, slipVars>>

SetSlipFee(max) ==
  /\ Call
  /\ max # None => max * 10 <= PERMILL * 9
  /\ slipFee' = max
  /\ UNCHANGED <<assets, reserve, hubFree, hubReserved, userHub, book, hubTradable, slipVars>>

(* on_finalize of one block; the next one begins.                          *)
NewBlock ==
  /\ q0' = [x \in Assets |-> None]
  /\ slipDelta' = [x \in Assets |-> 0]
  /\ UNCHANGED <<assets, reserve, hubFree, hubReserved, userHub, book, settings, calls>>

(* The circuit breaker releases what its deposit fuse reserved.            *)
ReleaseHub ==
  /\ hubReserved > 0
  /\ hubFree' = hubFree + hubReserved
  /\ hubReserved' = 0
  /\ UNCHANGED <<assets, reserve, userHub, book, settings, slipVars, calls>>

-----------------------------------------------------------------------------
(* The pool after add_token for each asset of InitialOrder.                *)
Init ==
  /\ assets = [x \in Assets |->
                 IF x \in InitialAssets
                 THEN [hub |-> InitialHub(x), shares |-> InitialReserve[x], protocolShares |-> 0,
                       cap |-> FromPermill(PERMILL), tradable |-> AllFlags]
                 ELSE None]
  /\ reserve = InitialReserve
  /\ hubFree = InitialHubSupply
  /\ hubReserved = 0
  /\ userHub = InitialUserHub
  /\ positions = [id \in PositionIds |->
                    IF id + 1 \in DOMAIN InitialOrder
                    THEN LET x == InitialOrder[id + 1]
                         IN  [asset |-> x, amount |-> InitialReserve[x], shares |-> InitialReserve[x],
                              price |-> <<InitialPrice[x], FIXED>>]
                    ELSE None]
  /\ nextPositionId = Len(InitialOrder)
  /\ slipFee \in InitialSlipFees
  /\ q0 = [x \in Assets |-> None]
  /\ slipDelta = [x \in Assets |-> 0]
  /\ hubTradable = {"SELL"}
  /\ calls = 0

Trading ==
  \E amount \in TradeAmounts :
    \/ \E x, y \in Assets : Sell(x, y, amount) \/ Buy(x, y, amount)
    \/ \E y \in Assets : SellHubAsset(y, amount) \/ BuyAssetForHubAsset(y, amount)

Providing ==
  \/ \E x \in Assets, amount \in LiquidityAmounts : AddLiquidity(x, amount)
  \/ \E id \in PositionIds :
       \/ SacrificePosition(id)
       \/ positions[id] # None
          /\ \E shares \in {positions[id].shares, positions[id].shares \div 2} : RemoveLiquidity(id, shares)

Governing ==
  \/ \E x \in Assets :
       \/ \E price \in InitialPrices, cap \in Caps : AddToken(x, price, cap)
       \/ RemoveToken(x)
       \/ RefundRefusedAsset(x, reserve[x])
       \/ \E flags \in Tradabilities : SetAssetTradableState(x, flags)
       \/ \E cap \in Caps : SetAssetWeightCap(x, cap)
       \/ InPool(x) /\ \E price \in OraclePrices :
            WithdrawProtocolLiquidity(x, assets[x].protocolShares, <<price, FIXED>>)
  \/ \E flags \in Tradabilities : SetHubTradableState(flags)
  \/ \E max \in SlipFees \cup {None} : SetSlipFee(max)

Next == Trading \/ Providing \/ Governing \/ NewBlock \/ ReleaseHub

Spec == Init /\ [][Next]_vars

-----------------------------------------------------------------------------
(* The type invariant.  No balance, reserve or share count of the pool is  *)
(* ever negative: the unsigned subtractions of the handlers do not wrap or *)
(* fail halfway.                                                           *)
TypeOK ==
  /\ assets \in [Assets -> AssetState \cup {None}]
  /\ reserve \in [Assets -> Nat]
  /\ hubFree \in Nat /\ hubReserved \in Nat /\ userHub \in Nat
  /\ positions \in [PositionIds -> Position \cup {None}]
  /\ nextPositionId \in 0..MaxPositionId
  /\ slipFee \in (0..PERMILL) \cup {None}
  /\ q0 \in [Assets -> Nat \cup {None}]
  /\ slipDelta \in [Assets -> Int]
  /\ hubTradable \in SUBSET AllFlags
  /\ calls \in 0..MaxCalls

(* The hub asset of the pool's account, free and reserved, is the sum of   *)
(* the hub reserves of its assets, after every trade, deposit, withdrawal, *)
(* fee and token removal (what try_state asserts of the free balance, and  *)
(* what the weight cap in do_add_liquidity counts on).                     *)
HubReservesBacked ==
  hubFree + hubReserved = SumFunctionOnSet([x \in Assets |-> IF InPool(x) THEN assets[x].hub ELSE 0], Assets)

(* The shares of an asset in each position.                                *)
PositionShares(x) ==
  [id \in PositionIds |-> IF positions[id] # None /\ positions[id].asset = x THEN positions[id].shares ELSE 0]

(* The shares of an asset that are not the protocol's are those of its     *)
(* positions, and no position with shares outlives its asset (try_state).  *)
SharesAccounted ==
  \A x \in Assets :
    SumFunctionOnSet(PositionShares(x), PositionIds) =
      IF InPool(x) THEN assets[x].shares - assets[x].protocolShares ELSE 0

(* A position can always be withdrawn whole, as long as the asset has      *)
(* reserves: the roundings in calculate_remove_liquidity_state_changes     *)
(* never make a checked subtraction fail, wherever the price went, and the *)
(* amounts are there.                                                      *)
PositionsCanExit ==
  \A id \in PositionIds :
    LET p == positions[id]
        s == StateOf(p.asset)
        r == CalculateRemoveLiquidity(s, p.shares, p, FromPermill(MinWithdrawalFee))
    IN  p # None => (p.shares > 0 /\ s.hub > 0 /\ s.reserve > 0 =>
                       r.ok /\ r.reserve <= s.reserve /\ r.hub <= s.hub /\ r.shares <= s.shares)

(* The hub asset that a block's trades took from an asset is less than     *)
(* what it had when the block first touched it, so that the denominator of *)
(* the slip fee stays positive for the rest of the block                   *)
(* (calculate_slip_fee_amount).                                            *)
SlipDenominatorPositive ==
  \A x \in Assets : q0[x] # None /\ q0[x] > 0 => q0[x] + slipDelta[x] > 0

(* A call that mints or burns shares never lowers the reserve behind each  *)
(* of the shares that remain: providers who do nothing lose nothing to     *)
(* those who join or leave (do_add_liquidity, do_remove_liquidity,         *)
(* withdraw_protocol_liquidity).                                           *)
SharesNotDiluted ==
  [][\A x \in Assets :
       InPool(x) /\ InPool(x)' /\ assets'[x].shares # assets[x].shares
         => reserve'[x] * assets[x].shares >= reserve[x] * assets'[x].shares]_vars

(* A call that leaves the shares of an asset alone, a trade, never lowers  *)
(* the product of its reserve and its hub reserve, whatever part of the    *)
(* asset fee others take; of an aToken the reserve may be short of that by *)
(* no more than the tolerance of process_trade_fee.  The code checks the   *)
(* product for the asset sold only (ensure_trade_invariant).               *)
CurvesKept ==
  [][\A x \in Assets :
       InPool(x) /\ InPool(x)' /\ assets'[x].shares = assets[x].shares
         => (reserve'[x] + (IF x \in ATokens THEN FeeTolerance ELSE 0)) * assets'[x].hub
              >= reserve[x] * assets[x].hub]_vars

=============================================================================
