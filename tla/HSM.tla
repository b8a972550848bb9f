--------------------------------- MODULE HSM ---------------------------------
(***************************************************************************)
(* The Hollar stability module (pallet hsm) beside the stable pool that it *)
(* prices against.  Asset 1 of the pool is Hollar, asset 2 the one         *)
(* collateral.  A flash loan mints Hollar to the receiver and takes the    *)
(* same amount back at the end of the call, so only its two trades remain. *)
(* Prices are <<numerator, denominator>>, collateral for one Hollar.       *)
(***************************************************************************)
EXTENDS Stableswap

CONSTANTS
  PurchaseFees, BuyBackFees,   \* in units of 1 / PERMILL
  BuybackRates,                \* in units of 1 / PERBILL
  Coefficients,                \* max_buy_price_coefficient, <<numerator, denominator>>
  MaxHoldings,                 \* max_in_holding, may hold None
  MinArbitrageAmount

Hollar == 1
Collateral == 2

VARIABLES
  collateral,   \* Collaterals: None or [purchaseFee, coefficient, buyBackFee, rate, maxHolding]
  holding,      \* collateral on the pallet's account
  received,     \* HollarAmountReceived
  profit,       \* what the receiver of arbitrage profits got
  net,          \* Hollar minted less Hollar burned by the pallet
  buybacks,     \* how many times the pallet bought Hollar back
  tradedAt,     \* the pegs at which the pallet traded
  opening       \* the pool's reserves when the block began, with the Hollar sent to it before the first call

historyVars == <<net, buybacks, tradedAt, opening>>
hsmVars == <<collateral, holding, received, profit, historyVars>>
allVars == <<vars, hsmVars>>

----------------------------------------------------------------------------
(* math/src/hsm *)

CalculatePurchasePrice(peg, fee) == <<(PERMILL + fee) * peg[2], PERMILL * peg[1]>>
CalculateImbalance(hollar, peg, reserves) ==
  LET pegged == (reserves * peg[1]) \div peg[2] IN IF hollar <= pegged THEN 0 ELSE (hollar - pegged) \div 2
CalculateBuybackLimit(imbalance, rate) == (imbalance * rate) \div PERBILL
CalculateBuyPriceWithFee(price, fee) == <<price[1] * PERMILL, price[2] * (PERMILL - fee)>>
CalculateMaxBuyPrice(peg, coefficient) == <<coefficient[1] * peg[2], coefficient[2] * peg[1]>>
CalculateCollateralAmount(hollar, price) == (hollar * price[1] + price[2] - 1) \div price[2]
CalculateHollarAmount(amount, price) == (amount * price[2]) \div price[1]
EnsureMaxPrice(price, max) == price[1] * max[2] <= price[2] * max[1]

----------------------------------------------------------------------------

\* Below, `state` is the pool's snapshot of the block (get_stablepool_state).

\* get_asset_peg: the pool's, or one unit for one unit where the pool has none.
AssetPeg(state) == IF pegInfo # None THEN state.pegs[Collateral] ELSE <<Scale[Collateral], Scale[Hollar]>>

(* A mutant: the limit follows the pool within the block.                  *)
LimitOfTheMoment(state) == CalculateBuybackLimit(
  CalculateImbalance(reserve[Hollar], AssetPeg(state), reserve[Collateral]), collateral.rate)

BuybackLimit(state) == CalculateBuybackLimit(
  CalculateImbalance(state.reserves[Hollar], AssetPeg(state), state.reserves[Collateral]), collateral.rate)

\* simulate_buy and simulate_sell on the snapshot, at the pool's fee: None where they fail.
SimulateBuyHollar(state, hollar) ==
  IF state.reserves[Hollar] <= hollar \/ state.reserves[Collateral] = 0 THEN None
  ELSE CalculateInGivenOutWithFee(state.reserves, Collateral, Hollar, hollar, state.amplification, state.fee, state.pegs)
SimulateSellCollateral(state, amount) ==
  IF state.reserves[Hollar] = 0 \/ state.reserves[Collateral] = 0 THEN None
  ELSE CalculateOutGivenInWithFee(state.reserves, Collateral, Hollar, amount, state.amplification, state.fee, state.pegs)

BuyPrice(simulatedCollateral, simulatedHollar) ==
  CalculateBuyPriceWithFee(<<simulatedCollateral, simulatedHollar>>, collateral.buyBackFee)
MaxBuyPrice(state) == CalculateMaxBuyPrice(AssetPeg(state), collateral.coefficient)
PurchasePrice(state) == CalculatePurchasePrice(AssetPeg(state), collateral.purchaseFee)

\* do_trade_hollar_in once the amounts are known: the Hollar is burned.
HollarIn(state, price, hollar, amount) ==
  /\ received + hollar <= BuybackLimit(state)
  /\ EnsureMaxPrice(price, MaxBuyPrice(state))
  /\ holding >= amount
  /\ holding' = holding - amount
  /\ received' = received + hollar
  /\ net' = net - hollar
  /\ buybacks' = buybacks + 1
  /\ tradedAt' = tradedAt \cup {AssetPeg(state)}
  /\ UNCHANGED opening

\* do_trade_hollar_out once the amounts are known: the Hollar is minted.
HollarOut(state, hollar, amount) ==
  /\ collateral.maxHolding # None => holding + amount <= collateral.maxHolding
  /\ holding' = holding + amount
  /\ net' = net + hollar
  /\ tradedAt' = tradedAt \cup {AssetPeg(state)}
  /\ UNCHANGED <<received, buybacks, opening>>

\* What a user's trade with the pallet leaves alone.
PoolUntouched == UNCHANGED <<poolVars, target, reserve, shares, blockVars, block, collateral, profit>>

SellHollar(state, who, hollar) ==
  \E simulated \in Some(SimulateBuyHollar(state, hollar)) :
  \E price \in {BuyPrice(simulated, hollar)} : \E amount \in {CalculateCollateralAmount(hollar, price)} :
    /\ collateral.buyBackFee < PERMILL
    /\ HollarIn(state, price, hollar, amount)
    /\ Swap(who, Hollar, hollar, amount)
    /\ PoolUntouched

BuyCollateral(state, who, amount) ==
  \E simulated \in Some(SimulateSellCollateral(state, amount)) :
  \E price \in {BuyPrice(amount, simulated)} : \E hollar \in {CalculateHollarAmount(amount, price)} :
    /\ collateral.buyBackFee < PERMILL
    /\ HollarIn(state, price, hollar, amount)
    /\ Swap(who, Hollar, hollar, amount)
    /\ PoolUntouched

SellCollateral(state, who, amount) ==
  \E hollar \in {CalculateHollarAmount(amount, PurchasePrice(state))} :
    /\ HollarOut(state, hollar, amount)
    /\ Swap(who, Collateral, amount, hollar)
    /\ PoolUntouched

BuyHollar(state, who, hollar) ==
  \E amount \in {CalculateCollateralAmount(hollar, PurchasePrice(state))} :
    /\ HollarOut(state, hollar, amount)
    /\ Swap(who, Collateral, amount, hollar)
    /\ PoolUntouched

----------------------------------------------------------------------------
(* Arbitrage with a flash loan *)

\* calculate_ideal_trade_size: what is left of the block's limit, as far as the holding pays for it.
Affordable(price, limit) ==
  LET most == (holding * price[2]) \div price[1] IN IF most < limit THEN most ELSE limit
IdealTradeSizeAt(state, price, limit) ==
  IF EnsureMaxPrice(price, MaxBuyPrice(state)) /\ Affordable(price, limit) - received > MinArbitrageAmount
  THEN Affordable(price, limit) - received ELSE None
IdealTradeSizeOf(state, simulated, limit) ==
  IF simulated = None THEN None ELSE IdealTradeSizeAt(state, BuyPrice(simulated, limit), limit)
IdealTradeSize(state, limit) ==
  IF limit = 0 \/ collateral.buyBackFee = PERMILL THEN None
  ELSE IdealTradeSizeOf(state, SimulateBuyHollar(state, limit), limit)

\* find_arbitrage_opportunity
MoreHollar(state) ==
  state.reserves[Hollar] > (state.reserves[Collateral] * AssetPeg(state)[1]) \div AssetPeg(state)[2]

\* More Hollar than collateral in the pool: it is sold to the pallet and bought back from the pool.
ArbitrageHollarIn(terms, state) ==
  /\ MoreHollar(state)
  /\ \E loan \in Some(IdealTradeSize(state, BuybackLimit(state))) :
     \E simulated \in Some(SimulateBuyHollar(state, loan)), spent \in Some(BuyResult(terms, Hollar, loan)) :
     \E price \in {BuyPrice(simulated, loan)} : \E paid \in {CalculateCollateralAmount(loan, price)} :
       /\ HollarIn(state, price, loan, paid)
       /\ PoolBuy(terms, Hollar, spent, loan)
       /\ spent <= paid
       /\ profit' = profit + paid - spent
  /\ UNCHANGED <<balance, collateral>>

\* Less Hollar: it is sold to the pool and bought from the pallet with what that gave.  The code offers
\* fewer sizes than this, the ones after which the pool's spot price is still above the pallet's.
ArbitrageHollarOut(terms, state, loan) ==
  /\ \E gained \in Some(SellResult(terms, Hollar, loan)), paid \in {CalculateCollateralAmount(loan, PurchasePrice(state))} :
       /\ PoolSell(terms, Hollar, loan, gained)
       /\ paid <= gained
       /\ HollarOut(state, loan, paid)
       /\ profit' = profit + gained - paid
  /\ UNCHANGED <<balance, collateral>>

----------------------------------------------------------------------------
(* The authority's calls, and the block *)

CollateralUnchanged == UNCHANGED <<vars, holding, received, profit, historyVars>>

AddCollateralAsset(info) ==
  /\ collateral = None
  /\ pool # None
  /\ collateral' = info
  /\ CollateralUnchanged

UpdateCollateralAsset(info) ==
  /\ collateral # None
  /\ collateral' = info
  /\ CollateralUnchanged

RemoveCollateralAsset ==
  /\ collateral # None
  /\ holding = 0
  /\ collateral' = None
  /\ CollateralUnchanged

Infos == [purchaseFee : PurchaseFees, coefficient : Coefficients, buyBackFee : BuyBackFees,
          rate : BuybackRates, maxHolding : MaxHoldings]

HSMInit == /\ collateral = None /\ holding = 0 /\ received = 0 /\ profit = 0
           /\ net = 0 /\ buybacks = 0 /\ tradedAt = {} /\ opening = reserve

HSMStep ==
  \/ /\ calls < MaxCalls /\ calls' = calls + 1
     /\ collateral # None /\ pool # None
     /\ \E terms \in {Terms} : \E state \in {InitialPoolSnapshot(terms)}, x \in Amounts :
          \/ \E who \in Users : \/ SellHollar(state, who, x)
                              \/ BuyCollateral(state, who, x)
                              \/ SellCollateral(state, who, x)
                              \/ BuyHollar(state, who, x)
          \/ ArbitrageHollarIn(terms, state)
          \/ ArbitrageHollarOut(terms, state, x)
  \/ calls < MaxCalls /\ (\E info \in Infos : AddCollateralAsset(info) \/ UpdateCollateralAsset(info))
  \/ RemoveCollateralAsset

SentToPool == reserve'[Hollar] - reserve[Hollar]

\* A call of the pool, or the end of the block for both (on_finalize).
PoolStep ==
  /\ Next
  /\ received' = IF block' = block THEN received ELSE 0
  /\ opening' = IF block' # block THEN reserve
                ELSE IF snapshot' = None THEN [opening EXCEPT ![Hollar] = @ + SentToPool] ELSE opening
  /\ UNCHANGED <<collateral, holding, profit, net, buybacks, tradedAt>>

HSMNext == HSMStep \/ PoolStep

HSMSpec == Init /\ HSMInit /\ [][HSMNext]_allVars

----------------------------------------------------------------------------
(* Properties *)

(* As long as all trades were made at one peg and no coefficient is above  *)
(* one, the collateral pays for every Hollar that the pallet minted and    *)
(* did not burn, but for less than one unit for each time it bought Hollar *)
(* back: the amount it pays then is rounded up.                            *)
CollateralBacksHollar ==
  \A peg \in tradedAt : tradedAt = {peg} => (holding + buybacks) * peg[1] >= net * peg[2]

(* In a block the pallet buys back no more Hollar than the imbalance the   *)
(* block began with allows, however trades with the pallet, arbitrage and  *)
(* trades in the pool are interleaved (at one rate and one peg).           *)
BuybackWithinLimit ==
  \A peg \in tradedAt : (tradedAt = {peg} /\ collateral # None) =>
    received <= CalculateBuybackLimit(CalculateImbalance(opening[Hollar], peg, opening[Collateral]), collateral.rate)
=============================================================================
