------------------------- MODULE OmnipoolMathProofs -------------------------
(***************************************************************************)
(* Proofs about the calculations of the Omnipool, for all amounts, fees and *)
(* prices.                                                                 *)
(***************************************************************************)
EXTENDS OmnipoolMath, TLAPS

-----------------------------------------------------------------------------
(* Facts about products and quotients of natural numbers.                  *)

(* The order of two numbers is that of their multiples.                    *)
LEMMA MulOrder ==
  ASSUME NEW a \in Nat, NEW b \in Nat, NEW c \in Nat, a <= b
  PROVE  a * c <= b * c /\ c * a <= c * b /\ a * c \in Nat /\ b * c \in Nat
OBVIOUS

(* Division rounds down.                                                   *)
LEMMA DivRoundsDown ==
  ASSUME NEW a \in Nat, NEW b \in Nat \ {0}
  PROVE  /\ a \div b \in Nat
         /\ b * (a \div b) <= a
         /\ a < b * (a \div b) + b
OBVIOUS

(* A quotient is at most c when the dividend is at most c times the        *)
(* divisor.                                                                *)
LEMMA DivAtMost ==
  ASSUME NEW a \in Nat, NEW b \in Nat \ {0}, NEW c \in Nat, a <= b * c
  PROVE  a \div b \in Nat /\ a \div b <= c
<1> DEFINE q == a \div b
<1>1. q \in Nat /\ b * q <= a
  BY DivRoundsDown
<1> HIDE DEF q
<1>2. ASSUME q >= c + 1 PROVE FALSE
  <2>1. b * (c + 1) <= b * q
    BY <1>1, <1>2, MulOrder
  <2>2. b * (c + 1) = b * c + b
    OBVIOUS
  <2> QED
    BY <1>1, <2>1, <2>2
<1> QED
  BY <1>1, <1>2 DEF q

(* And it is less than c when the dividend is less than that.              *)
LEMMA DivBelow ==
  ASSUME NEW a \in Nat, NEW b \in Nat \ {0}, NEW c \in Nat, a < b * c
  PROVE  a \div b \in Nat /\ a \div b < c
<1> DEFINE q == a \div b
<1>1. q \in Nat /\ b * q <= a
  BY DivRoundsDown
<1> HIDE DEF q
<1>2. ASSUME q >= c PROVE FALSE
  <2>1. b * c <= b * q
    BY <1>1, <1>2, MulOrder
  <2> QED
    BY <1>1, <2>1
<1> QED
  BY <1>1, <1>2 DEF q

-----------------------------------------------------------------------------
(* What the operators of OmnipoolMath return.                              *)

(* A part of an amount is at most the amount.                              *)
LEMMA MulFloorPart ==
  ASSUME NEW parts \in 0..PERMILL, NEW x \in Nat
  PROVE  MulFloor(parts, x) \in Nat /\ MulFloor(parts, x) <= x
<1>1. PERMILL \in Nat \ {0}
  BY ScaleAssumption
<1>2. parts * x \in Nat /\ parts * x <= PERMILL * x
  BY <1>1, MulOrder
<1> QED
  BY <1>1, <1>2, DivAtMost DEF MulFloor

(* A fraction of an amount, in fixed point, is at most the amount.         *)
LEMMA MulIntPart ==
  ASSUME NEW f \in 0..FIXED, NEW x \in Nat
  PROVE  MulInt(f, x) \in Nat /\ MulInt(f, x) <= x
<1>1. FIXED \in Nat \ {0}
  BY ScaleAssumption
<1>2. f * x \in Nat /\ f * x <= FIXED * x
  BY <1>1, MulOrder
<1> QED
  BY <1>1, <1>2, DivAtMost DEF MulInt

(* A price times an amount is an amount.                                   *)
LEMMA MulIntNat ==
  ASSUME NEW f \in Nat, NEW x \in Nat
  PROVE  MulInt(f, x) \in Nat
<1>1. FIXED \in Nat \ {0}
  BY ScaleAssumption
<1>2. f * x \in Nat
  BY MulOrder
<1> QED
  BY <1>1, <1>2, DivRoundsDown DEF MulInt

(* A quotient in fixed point is a number.                                  *)
LEMMA FromRationalNat ==
  ASSUME NEW n \in Nat, NEW d \in Nat \ {0}
  PROVE  FromRational(n, d) \in Nat
<1>1. FIXED \in Nat
  BY ScaleAssumption
<1>2. n * FIXED \in Nat
  BY <1>1, MulOrder
<1> QED
  BY <1>2, DivRoundsDown DEF FromRational

(* The fixed-point form of a Permill is at most one, and positive when the *)
(* Permill is.                                                             *)
LEMMA FromPermillPart ==
  ASSUME NEW parts \in 0..PERMILL
  PROVE  FromPermill(parts) \in 0..FIXED /\ (parts > 0 => FromPermill(parts) > 0)
<1> DEFINE unit == FIXED \div PERMILL
<1>1. PERMILL \in Nat \ {0} /\ FIXED \in Nat \ {0} /\ FIXED % PERMILL = 0
  BY ScaleAssumption
<1>2. unit \in Nat /\ PERMILL * unit <= FIXED /\ FIXED < PERMILL * unit + PERMILL
  BY <1>1, DivRoundsDown
<1>3. FIXED = PERMILL * unit
  BY <1>1
<1>4. FromPermill(parts) = parts * unit
  BY DEF FromPermill
<1> HIDE DEF unit
<1>5. unit > 0
  BY <1>1, <1>2, <1>3
<1>6. parts * unit \in Nat /\ parts * unit <= PERMILL * unit
  BY <1>1, <1>2, MulOrder
<1>7. parts > 0 => 1 * unit <= parts * unit
  BY <1>1, <1>2, MulOrder
<1> QED
  BY <1>2, <1>3, <1>4, <1>5, <1>6, <1>7, <1>1

(* An absolute value is a number.                                          *)
LEMMA AbsNat ==
  ASSUME NEW x \in Int
  PROVE  Abs(x) \in Nat
BY DEF Abs

(* A slip fee is a part of the amount it is taken from.                    *)
LEMMA SlipFeeAmountNat ==
  ASSUME NEW q \in Nat, NEW prior \in Int, NEW delta \in Int, NEW max \in 0..PERMILL, NEW base \in Nat
  PROVE  CalculateSlipFeeAmount(q, prior, delta, max, base) \in Nat
<1> DEFINE cumulative == prior + delta
           denom == q + cumulative
<1>1. Abs(cumulative) \in Nat
  BY AbsNat
<1>2. Abs(cumulative) * base \in Nat
  BY <1>1, MulOrder
<1>3. MulFloor(max, base) \in Nat
  BY MulFloorPart
<1>4. denom \in Int
  OBVIOUS
<1>5. denom > 0 => (Abs(cumulative) * base) \div denom \in Nat
  BY <1>2, <1>4, DivRoundsDown
<1> QED
  BY <1>3, <1>4, <1>5 DEF CalculateSlipFeeAmount

(* The fees and what is left are all of the hub asset that set out.        *)
LEMMA HubLegSplits ==
  ASSUME NEW hubIn \in Nat, NEW pf \in 0..PERMILL, NEW slip \in TradeSlipFees \cup {None},
         HubLeg(hubIn, pf, slip).ok
  PROVE  /\ HubLeg(hubIn, pf, slip).fee \in Nat
         /\ HubLeg(hubIn, pf, slip).net \in Nat
         /\ HubLeg(hubIn, pf, slip).fee + HubLeg(hubIn, pf, slip).net = hubIn
<1> DEFINE pfAmount == MulFloor(pf, hubIn)
           slipSell == IF slip = None THEN 0
                       ELSE CalculateSlipFeeAmount(slip.inQ0, slip.inDelta, -hubIn, slip.max, hubIn)
           gross    == hubIn - pfAmount - slipSell
           slipBuy  == IF slip = None THEN 0
                       ELSE CalculateSlipFeeAmount(slip.outQ0, slip.outDelta, gross, slip.max, gross)
<1>1. pfAmount \in Nat
  BY MulFloorPart
<1>2. slipSell \in Nat
  <2>1. CASE slip = None
    BY <2>1
  <2>2. CASE slip # None
    <3>1. slip \in TradeSlipFees
      BY <2>2
    <3>2. slip.inQ0 \in Nat /\ slip.inDelta \in Int /\ slip.max \in 0..PERMILL /\ -hubIn \in Int
      BY <3>1 DEF TradeSlipFees
    <3>3. CalculateSlipFeeAmount(slip.inQ0, slip.inDelta, -hubIn, slip.max, hubIn) \in Nat
      BY <3>2, SlipFeeAmountNat, Zenon
    <3> QED
      BY <2>2, <3>3
  <2> QED
    BY <2>1, <2>2
<1>3. gross >= 0 /\ gross - slipBuy >= 0
  BY DEF HubLeg
<1>4. gross \in Nat
  BY <1>1, <1>2, <1>3
<1>5. slipBuy \in Nat
  <2>1. CASE slip = None
    BY <2>1
  <2>2. CASE slip # None
    <3>1. slip \in TradeSlipFees
      BY <2>2
    <3>2. slip.outQ0 \in Nat /\ slip.outDelta \in Int /\ slip.max \in 0..PERMILL /\ gross \in Int
      BY <3>1, <1>4 DEF TradeSlipFees
    <3>3. CalculateSlipFeeAmount(slip.outQ0, slip.outDelta, gross, slip.max, gross) \in Nat
      BY <3>2, <1>4, SlipFeeAmountNat, Zenon
    <3> QED
      BY <2>2, <3>3
  <2> QED
    BY <2>1, <2>2
<1>6. /\ HubLeg(hubIn, pf, slip).fee = pfAmount + slipSell + slipBuy
      /\ HubLeg(hubIn, pf, slip).net = gross - slipBuy
  BY DEF HubLeg
<1> HIDE DEF pfAmount, slipSell, slipBuy
<1> QED
  BY <1>1, <1>2, <1>3, <1>4, <1>5, <1>6

PoolState == [reserve : Nat, hub : Nat, shares : Nat]

(* What is minted for the asset fee is an amount.                          *)
LEMMA ExtraHubNat ==
  ASSUME NEW fee \in 0..PERMILL, NEW q \in Nat \ {0}, NEW d \in Nat
  PROVE  ExtraHub(fee, q, d) \in Nat
<1>1. (q + d) * d \in Nat
  BY MulOrder
<1>2. ((q + d) * d) \div q \in Nat
  BY <1>1, DivRoundsDown
<1> QED
  BY <1>2, MulFloorPart DEF ExtraHub

(* A sale: all amounts are natural numbers, the pool sold to has the hub   *)
(* asset that leaves it, and the hub asset that leaves one pool reaches    *)
(* the other or is the protocol's fee.                                     *)
LEMMA SellResult ==
  ASSUME NEW i \in PoolState, NEW o \in PoolState, NEW amount \in Nat \ {0},
         NEW assetFee \in 0..PERMILL, NEW protocolFee \in 0..PERMILL,
         NEW slip \in TradeSlipFees \cup {None},
         CalculateSell(i, o, amount, assetFee, protocolFee, slip).ok
  PROVE  LET r == CalculateSell(i, o, amount, assetFee, protocolFee, slip)
         IN  /\ r.in \in Nat /\ r.hubIn \in Nat /\ r.out \in Nat /\ r.hubOut \in Nat
             /\ r.extra \in Nat /\ r.assetFee \in Nat /\ r.protocolFee \in Nat
             /\ r.hubIn <= i.hub /\ r.hubOut + r.protocolFee = r.hubIn
<1> DEFINE r     == CalculateSell(i, o, amount, assetFee, protocolFee, slip)
           hubIn == (amount * i.hub) \div (i.reserve + amount)
           leg   == HubLeg(hubIn, protocolFee, slip)
           gross == (o.reserve * leg.net) \div (o.hub + leg.net)
           out   == AmountWithoutFee(gross, assetFee)
<1>1. /\ i.hub \in Nat /\ i.reserve \in Nat /\ o.hub \in Nat /\ o.reserve \in Nat
      /\ i.reserve + amount \in Nat \ {0}
  BY DEF PoolState
<1>2. o.hub # 0 /\ leg.ok
  BY DEF CalculateSell, Rejected
<1>3. hubIn \in Nat /\ hubIn <= i.hub
  <2>1. amount * i.hub \in Nat /\ amount * i.hub <= (i.reserve + amount) * i.hub
    BY <1>1, MulOrder
  <2> QED
    BY <1>1, <2>1, DivAtMost
<1>4. leg.fee \in Nat /\ leg.net \in Nat /\ leg.fee + leg.net = hubIn
  <2> HIDE DEF hubIn
  <2> QED
    BY <1>2, <1>3, HubLegSplits
<1> HIDE DEF hubIn, leg
<1>5. gross \in Nat
  <2>1. o.reserve * leg.net \in Nat /\ o.hub + leg.net \in Nat \ {0}
    BY <1>1, <1>2, <1>4, MulOrder
  <2> QED
    BY <2>1, DivRoundsDown
<1> HIDE DEF gross
<1>6. out \in Nat /\ out <= gross
  <2>1. PERMILL - assetFee \in 0..PERMILL
    BY ScaleAssumption
  <2> QED
    BY <2>1, <1>5, MulFloorPart DEF AmountWithoutFee
<1> HIDE DEF out
<1>7. ExtraHub(assetFee, o.hub, leg.net) \in Nat
  BY <1>1, <1>2, <1>4, ExtraHubNat, Zenon
<1>8. r = [ok |-> TRUE, in |-> amount, hubIn |-> hubIn, out |-> out, hubOut |-> leg.net,
           extra |-> ExtraHub(assetFee, o.hub, leg.net),
           assetFee |-> gross - out, protocolFee |-> leg.fee]
  BY <1>2 DEF CalculateSell, hubIn, leg, gross, out
<1> HIDE DEF r
<1>9. gross - out \in Nat
  BY <1>5, <1>6
<1>10. /\ r.in \in Nat /\ r.hubIn \in Nat /\ r.out \in Nat /\ r.hubOut \in Nat
       /\ r.extra \in Nat /\ r.assetFee \in Nat /\ r.protocolFee \in Nat
       /\ r.hubIn <= i.hub /\ r.hubOut + r.protocolFee = r.hubIn
  BY <1>3, <1>4, <1>6, <1>7, <1>8, <1>9
<1> QED
  BY <1>10 DEF r

(* The fee of a purchase is an amount.                                     *)
LEMMA FeeForBuyNat ==
  ASSUME NEW fee \in 0..PERMILL, NEW amount \in Nat
  PROVE  CalculateFeeAmountForBuy(fee, amount) \in Nat
<1>1. PERMILL \in Nat /\ PERMILL - fee \in Nat /\ fee * amount \in Nat
  BY ScaleAssumption, MulOrder
<1>2. fee # PERMILL => (fee * amount) \div (PERMILL - fee) \in Nat
  BY <1>1, DivRoundsDown
<1> QED
  BY <1>1, <1>2 DEF CalculateFeeAmountForBuy

(* The inversion behind a purchase gives an amount of hub asset or fails.  *)
LEMMA HubNeededNat ==
  ASSUME NEW net \in Nat, NEW pf \in 0..PERMILL, NEW slip
  PROVE  HubNeeded(net, pf, slip) \in Nat \cup {None}
<1>1. \A x : ToBalance(x) \in Nat \cup {None}
  BY DEF ToBalance
<1>2. CASE slip # None
  BY <1>1, <1>2 DEF HubNeeded
<1>3. CASE slip = None
  <2>1. PERMILL \in Nat /\ FIXED \in Nat /\ PERMILL - pf \in 0..PERMILL
    BY ScaleAssumption
  <2>2. pf # PERMILL => FromPermill(PERMILL - pf) \in Nat \ {0}
    BY <2>1, FromPermillPart
  <2>3. net * FIXED \in Nat
    BY <2>1, MulOrder
  <2>4. pf # PERMILL => (net * FIXED) \div FromPermill(PERMILL - pf) \in Nat
    BY <2>2, <2>3, DivRoundsDown
  <2> QED
    BY <1>3, <2>4 DEF HubNeeded
<1> QED
  BY <1>2, <1>3

(* A purchase: as for a sale.                                              *)
LEMMA BuyResult ==
  ASSUME NEW i \in PoolState, NEW o \in PoolState, NEW amount \in Nat \ {0},
         NEW assetFee \in 0..PERMILL, NEW protocolFee \in 0..PERMILL,
         NEW slip \in TradeSlipFees \cup {None},
         None \notin Nat,
         CalculateBuy(i, o, amount, assetFee, protocolFee, slip).ok
  PROVE  LET r == CalculateBuy(i, o, amount, assetFee, protocolFee, slip)
         IN  /\ r.in \in Nat /\ r.hubIn \in Nat /\ r.out \in Nat /\ r.hubOut \in Nat
             /\ r.extra \in Nat /\ r.assetFee \in Nat /\ r.protocolFee \in Nat
             /\ r.hubIn <= i.hub /\ r.hubOut + r.protocolFee = r.hubIn
<1> DEFINE r     == CalculateBuy(i, o, amount, assetFee, protocolFee, slip)
           noFee == AmountWithoutFee(o.reserve, assetFee)
           net   == (o.hub * amount) \div (noFee - amount) + 1
           hubIn == HubNeeded(net, protocolFee, slip)
           leg   == HubLeg(hubIn, protocolFee, slip)
<1>1. i.hub \in Nat /\ i.reserve \in Nat /\ o.hub \in Nat /\ o.reserve \in Nat
  BY DEF PoolState
<1>2. ~(noFee <= amount) /\ o.hub # 0 /\ hubIn # None /\ ~(hubIn >= i.hub) /\ leg.ok
  BY DEF CalculateBuy, Rejected
<1>3. noFee \in Nat
  <2>1. PERMILL - assetFee \in 0..PERMILL
    BY ScaleAssumption
  <2> QED
    BY <2>1, <1>1, MulFloorPart DEF AmountWithoutFee
<1>4. r = [ok |-> TRUE, in |-> AmountIn(i, hubIn), hubIn |-> hubIn,
           out |-> amount, hubOut |-> leg.net, extra |-> ExtraHub(assetFee, o.hub, leg.net),
           assetFee |-> CalculateFeeAmountForBuy(assetFee, amount), protocolFee |-> leg.fee]
  BY <1>2 DEF CalculateBuy
<1> HIDE DEF r, noFee
<1>5. net \in Nat
  <2>1. o.hub * amount \in Nat /\ noFee - amount \in Nat \ {0}
    BY <1>1, <1>2, <1>3, MulOrder
  <2> QED
    BY <2>1, DivRoundsDown
<1> HIDE DEF net
<1>6. hubIn \in Nat /\ hubIn < i.hub
  BY <1>1, <1>2, <1>5, HubNeededNat
<1> HIDE DEF hubIn
<1>7. leg.fee \in Nat /\ leg.net \in Nat /\ leg.fee + leg.net = hubIn
  BY <1>2, <1>6, HubLegSplits
<1> HIDE DEF leg
<1>8. AmountIn(i, hubIn) \in Nat
  <2>1. i.reserve * hubIn \in Nat /\ i.hub - hubIn \in Nat \ {0}
    BY <1>1, <1>6, MulOrder
  <2>2. (i.reserve * hubIn) \div (i.hub - hubIn) \in Nat
    BY <2>1, DivRoundsDown
  <2> QED
    BY <2>2 DEF AmountIn
<1>9. ExtraHub(assetFee, o.hub, leg.net) \in Nat /\ CalculateFeeAmountForBuy(assetFee, amount) \in Nat
  BY <1>1, <1>2, <1>7, ExtraHubNat, FeeForBuyNat, Zenon
<1>10. /\ r.in \in Nat /\ r.hubIn \in Nat /\ r.out \in Nat /\ r.hubOut \in Nat
       /\ r.extra \in Nat /\ r.assetFee \in Nat /\ r.protocolFee \in Nat
       /\ r.hubIn <= i.hub /\ r.hubOut + r.protocolFee = r.hubIn
  BY <1>1, <1>4, <1>6, <1>7, <1>8, <1>9
<1> QED
  BY <1>10 DEF r

(* Trades with the hub asset itself.                                       *)
LEMMA SellHubResult ==
  ASSUME NEW o \in PoolState, NEW amount \in Nat, NEW assetFee \in 0..PERMILL,
         NEW slip \in HubTradeSlipFees \cup {None},
         CalculateSellHub(o, amount, assetFee, slip).ok
  PROVE  LET r == CalculateSellHub(o, amount, assetFee, slip)
         IN  r.out \in Nat /\ r.hubOut \in Nat /\ r.extra \in Nat /\ r.assetFee \in Nat
<1> DEFINE r   == CalculateSellHub(o, amount, assetFee, slip)
           fee == IF slip = None THEN 0
                  ELSE CalculateSlipFeeAmount(slip.outQ0, slip.outDelta, amount, slip.max, amount)
           eff   == amount - fee
           gross == (o.reserve * eff) \div (o.hub + eff)
           out   == AmountWithoutFee(gross, assetFee)
<1>1. o.hub \in Nat /\ o.reserve \in Nat
  BY DEF PoolState
<1>2. o.hub # 0 /\ ~(eff < 0)
  BY DEF CalculateSellHub, Rejected
<1>3. fee \in Nat
  <2>1. slip # None => slip.outQ0 \in Nat /\ slip.outDelta \in Int /\ slip.max \in 0..PERMILL
    BY DEF HubTradeSlipFees
  <2>2. ASSUME slip # None
        PROVE  CalculateSlipFeeAmount(slip.outQ0, slip.outDelta, amount, slip.max, amount) \in Nat
    <3>1. slip.outQ0 \in Nat /\ slip.outDelta \in Int /\ slip.max \in 0..PERMILL /\ amount \in Int
      BY <2>1, <2>2
    <3> QED
      BY <3>1, SlipFeeAmountNat, Zenon
  <2> QED
    BY <2>2
<1>4. r = [ok |-> TRUE, out |-> out, hubOut |-> amount, extra |-> ExtraHub(assetFee, o.hub, eff),
           assetFee |-> gross - out]
  BY DEF CalculateSellHub, Rejected
<1> HIDE DEF r, fee
<1>5. eff \in Nat
  BY <1>2, <1>3
<1> HIDE DEF eff
<1>6. gross \in Nat
  <2>1. o.reserve * eff \in Nat /\ o.hub + eff \in Nat \ {0}
    BY <1>1, <1>2, <1>5, MulOrder
  <2> QED
    BY <2>1, DivRoundsDown
<1> HIDE DEF gross
<1>7. out \in Nat /\ out <= gross
  <2>1. PERMILL - assetFee \in 0..PERMILL
    BY ScaleAssumption
  <2> QED
    BY <2>1, <1>6, MulFloorPart DEF AmountWithoutFee
<1> HIDE DEF out
<1>8. ExtraHub(assetFee, o.hub, eff) \in Nat /\ gross - out \in Nat
  BY <1>1, <1>2, <1>5, <1>6, <1>7, ExtraHubNat
<1>9. r.out \in Nat /\ r.hubOut \in Nat /\ r.extra \in Nat /\ r.assetFee \in Nat
  BY <1>4, <1>7, <1>8
<1> QED
  BY <1>9 DEF r

(* And the purchase.                                                       *)
LEMMA BuyForHubResult ==
  ASSUME NEW o \in PoolState, NEW amount \in Nat, NEW assetFee \in 0..PERMILL, NEW slip,
         None \notin Nat,
         CalculateBuyForHub(o, amount, assetFee, slip).ok
  PROVE  LET r == CalculateBuyForHub(o, amount, assetFee, slip)
         IN  r.out \in Nat /\ r.hubOut \in Nat /\ r.extra \in Nat /\ r.assetFee \in Nat
<1> DEFINE r     == CalculateBuyForHub(o, amount, assetFee, slip)
           left  == AmountWithoutFee(o.reserve, assetFee) - amount
           net   == (o.hub * amount) \div left + 1
           gross == IF slip = None THEN net
                    ELSE ToBalance(InvertBuySideSlip(net, slip.outQ0, slip.outDelta, slip.max))
           extra == MulFloor(assetFee, (o.hub + net) * amount) \div left
<1>1. o.hub \in Nat /\ o.reserve \in Nat
  BY DEF PoolState
<1>2. ~(left <= 0) /\ gross # None
  BY DEF CalculateBuyForHub, Rejected
<1>3. left \in Int
  <2>1. PERMILL - assetFee \in 0..PERMILL
    BY ScaleAssumption
  <2>2. AmountWithoutFee(o.reserve, assetFee) \in Nat
    BY <2>1, <1>1, MulFloorPart DEF AmountWithoutFee
  <2> QED
    BY <2>2
<1>4. r = [ok |-> TRUE, out |-> amount, hubOut |-> gross, extra |-> extra,
           assetFee |-> CalculateFeeAmountForBuy(assetFee, amount)]
  BY DEF CalculateBuyForHub, Rejected
<1> HIDE DEF r, left
<1>5. left \in Nat \ {0}
  BY <1>2, <1>3
<1>6. net \in Nat
  <2>1. o.hub * amount \in Nat
    BY <1>1, MulOrder
  <2> QED
    BY <2>1, <1>5, DivRoundsDown
<1> HIDE DEF net
<1>7. gross \in Nat
  BY <1>2, <1>6 DEF ToBalance
<1> HIDE DEF gross
<1>8. extra \in Nat
  <2>1. (o.hub + net) * amount \in Nat
    BY <1>1, <1>6, MulOrder
  <2>2. MulFloor(assetFee, (o.hub + net) * amount) \in Nat
    BY <2>1, MulFloorPart
  <2> QED
    BY <2>2, <1>5, DivRoundsDown
<1> HIDE DEF extra
<1>9. r.out \in Nat /\ r.hubOut \in Nat /\ r.extra \in Nat /\ r.assetFee \in Nat
  BY <1>4, <1>7, <1>8, FeeForBuyNat
<1> QED
  BY <1>9 DEF r

(* Added liquidity: both amounts are natural numbers, and the new shares   *)
(* are no more than the liquidity's part of the reserve.                   *)
LEMMA AddLiquidityResult ==
  ASSUME NEW s \in PoolState, NEW amount \in Nat, CalculateAddLiquidity(s, amount).ok
  PROVE  LET r == CalculateAddLiquidity(s, amount)
         IN  r.hub \in Nat /\ r.shares \in Nat /\ s.reserve * r.shares <= s.shares * amount
<1>1. s.hub \in Nat /\ s.reserve \in Nat /\ s.shares \in Nat
  BY DEF PoolState
<1>2. s.reserve # 0
  BY DEF CalculateAddLiquidity, Rejected
<1>3. MulInt(Price(s), amount) \in Nat
  BY <1>1, <1>2, FromRationalNat, MulIntNat, Zenon DEF Price
<1>4. s.shares * amount \in Nat
  BY <1>1, MulOrder
<1>5. /\ (s.shares * amount) \div s.reserve \in Nat
      /\ s.reserve * ((s.shares * amount) \div s.reserve) <= s.shares * amount
  BY <1>1, <1>2, <1>4, DivRoundsDown, Zenon
<1> QED
  BY <1>2, <1>3, <1>5 DEF CalculateAddLiquidity

(* The withdrawal fee is at most the whole.                                *)
LEMMA WithdrawalFeePart ==
  ASSUME NEW spot \in Nat, NEW oracle \in Nat, NEW min \in 0..PERMILL
  PROVE  CalculateWithdrawalFee(spot, oracle, min) \in 0..FIXED
<1> DEFINE rate == (Abs(spot - oracle) * FIXED) \div oracle
<1>1. FIXED \in Nat /\ FromPermill(min) \in 0..FIXED
  BY ScaleAssumption, FromPermillPart
<1>5. CASE oracle = 0
  BY <1>1, <1>5 DEF CalculateWithdrawalFee
<1> SUFFICES ASSUME oracle # 0
             PROVE  CalculateWithdrawalFee(spot, oracle, min) \in 0..FIXED
  BY <1>5
<1>2. Abs(spot - oracle) \in Nat
  BY AbsNat
<1>3. rate \in Nat
  <2>1. Abs(spot - oracle) * FIXED \in Nat
    BY <1>1, <1>2, MulOrder
  <2> QED
    BY <2>1, DivRoundsDown
<1>4. CalculateWithdrawalFee(spot, oracle, min) =
        IF rate < FromPermill(min) THEN FromPermill(min) ELSE IF rate > FIXED THEN FIXED ELSE rate
  BY DEF CalculateWithdrawalFee
<1> HIDE DEF rate
<1> QED
  BY <1>1, <1>3, <1>4

(* A position as the withdrawal sees it.                                   *)
IsPosition(p) ==
  p.price[1] \in Nat /\ p.price[2] \in Nat \ {0} /\ p.amount \in Nat /\ p.shares \in Nat

(* The value of a position is positive.                                    *)
LEMMA PositionValueNat ==
  ASSUME NEW s \in PoolState, NEW p, IsPosition(p)
  PROVE  PositionValue(s, p) \in Nat \ {0} /\ FromRational(p.price[1], p.price[2]) \in Nat
<1>1. s.reserve \in Nat
  BY DEF PoolState
<1>2. FromRational(p.price[1], p.price[2]) \in Nat
  BY FromRationalNat DEF IsPosition
<1>3. MulInt(FromRational(p.price[1], p.price[2]), s.reserve) \in Nat
  BY <1>1, <1>2, MulIntNat, Zenon
<1> QED
  BY <1>2, <1>3 DEF PositionValue

(* A withdrawal: all amounts are natural numbers; the pool has what leaves *)
(* it; every share withdrawn is burned or becomes the protocol's; the      *)
(* reserve that leaves is no more than the part of the shares burned.      *)
LEMMA RemoveLiquidityResult ==
  ASSUME NEW s \in PoolState, NEW shares \in Nat, NEW p, IsPosition(p), NEW fee \in 0..FIXED,
         CalculateRemoveLiquidity(s, shares, p, fee).ok,
         CalculateRemoveLiquidity(s, shares, p, fee).shares <= s.shares
  PROVE  LET r == CalculateRemoveLiquidity(s, shares, p, fee)
         IN  /\ r.reserve \in Nat /\ r.hub \in Nat /\ r.shares \in Nat /\ r.protocolShares \in Nat
             /\ r.lpHub \in Nat /\ r.amount \in Nat
             /\ r.reserve <= s.reserve /\ r.hub <= s.hub
             /\ r.shares + r.protocolShares = shares
             /\ s.shares * r.reserve <= s.reserve * r.shares
             /\ shares <= p.shares => r.amount <= p.amount
<1> DEFINE r       == CalculateRemoveLiquidity(s, shares, p, fee)
           pxr     == PositionValue(s, p)
           at      == FromRational(p.price[1], p.price[2])
           b       == DeltaB(s, shares, p)
           ds      == shares - b
           gone    == (s.reserve * ds) \div s.shares
           hubGone == (gone * s.hub) \div s.reserve
           earned  == HubTransferred(s, ds, p)
           amount  == (shares * p.amount) \div p.shares
           left    == FIXED - fee
<1>1. s.hub \in Nat /\ s.reserve \in Nat /\ s.shares \in Nat
  BY DEF PoolState
<1>2. /\ s.reserve # 0 /\ s.shares # 0 /\ p.shares # 0
      /\ ~(Price(s) < at /\ pxr < s.hub) /\ ~(Price(s) > at /\ pxr > s.hub) /\ ~(b > shares)
  BY DEF CalculateRemoveLiquidity, Rejected
<1>3. /\ r.reserve = MulInt(left, gone) /\ r.hub = MulInt(left, hubGone)
      /\ r.shares = ds /\ r.protocolShares = b /\ r.lpHub = MulInt(left, earned) /\ r.amount = amount
  BY Zenon DEF CalculateRemoveLiquidity, Rejected
<1>4. pxr \in Nat \ {0} /\ at \in Nat /\ Price(s) \in Nat
  BY <1>1, <1>2, PositionValueNat, FromRationalNat DEF Price
<1>5. b \in Nat
  <2>1. CASE ~(Price(s) < at)
    BY <2>1 DEF DeltaB
  <2>2. CASE Price(s) < at
    <3>1. pxr - s.hub \in Nat /\ pxr + s.hub \in Nat \ {0}
      BY <1>1, <1>2, <1>4, <2>2
    <3>2. (pxr - s.hub) * shares \in Nat
      BY <3>1, MulOrder
    <3>3. ((pxr - s.hub) * shares) \div (pxr + s.hub) \in Nat
      BY <3>1, <3>2, DivRoundsDown
    <3>4. b = ((pxr - s.hub) * shares) \div (pxr + s.hub) + 1
      BY <2>2 DEF DeltaB
    <3> HIDE DEF b, pxr
    <3> QED
      BY <3>3, <3>4
  <2> QED
    BY <2>1, <2>2
<1>6. ds \in Nat /\ ds + b = shares /\ ds <= s.shares
  <2> HIDE DEF b
  <2> QED
    BY <1>2, <1>3, <1>5
<1>7. earned \in Nat
  <2> HIDE DEF ds
  <2>1. CASE ~(Price(s) > at)
    BY <2>1 DEF HubTransferred
  <2>2. CASE Price(s) > at
    <3>1. s.hub - pxr \in Nat /\ s.hub + pxr \in Nat \ {0}
      BY <1>1, <1>2, <1>4, <2>2
    <3>2. s.hub * (s.hub - pxr) \in Nat
      BY <1>1, <3>1, MulOrder
    <3> DEFINE per == (s.hub * (s.hub - pxr)) \div (s.hub + pxr)
    <3>3. per \in Nat
      BY <3>1, <3>2, DivRoundsDown
    <3>4. earned = (per * ds) \div s.shares
      BY <2>2 DEF HubTransferred
    <3> HIDE DEF per, earned
    <3>5. per * ds \in Nat
      BY <1>6, <3>3, MulOrder
    <3> QED
      BY <1>1, <1>2, <3>4, <3>5, DivRoundsDown
  <2> QED
    BY <2>1, <2>2
<1> HIDE DEF r, pxr, at, b, ds, earned
<1>8. gone \in Nat /\ gone <= s.reserve /\ s.shares * gone <= s.reserve * ds
  <2>1. s.reserve * ds \in Nat /\ s.reserve * ds <= s.shares * s.reserve
    BY <1>1, <1>6, MulOrder
  <2> QED
    BY <1>1, <1>2, <2>1, DivAtMost, DivRoundsDown, Zenon
<1> HIDE DEF gone
<1>9. hubGone \in Nat /\ hubGone <= s.hub
  <2>1. gone * s.hub \in Nat /\ gone * s.hub <= s.reserve * s.hub
    BY <1>1, <1>8, MulOrder
  <2> QED
    BY <1>1, <1>2, <2>1, DivAtMost
<1> HIDE DEF hubGone
<1>10. amount \in Nat /\ (shares <= p.shares => amount <= p.amount)
  <2>1. p.amount \in Nat /\ p.shares \in Nat \ {0}
    BY <1>2 DEF IsPosition
  <2>2. shares * p.amount \in Nat
    BY <2>1, MulOrder
  <2>3. shares <= p.shares => shares * p.amount <= p.shares * p.amount
    BY <2>1, MulOrder
  <2> QED
    BY <2>1, <2>2, <2>3, DivAtMost, DivRoundsDown
<1> HIDE DEF amount
<1>11. left \in 0..FIXED
  BY ScaleAssumption
<1> HIDE DEF left
<1>12. /\ MulInt(left, gone) \in Nat /\ MulInt(left, gone) <= gone
       /\ MulInt(left, hubGone) \in Nat /\ MulInt(left, hubGone) <= hubGone
       /\ MulInt(left, earned) \in Nat
  BY <1>7, <1>8, <1>9, <1>11, MulIntPart
<1>13. s.shares * r.reserve <= s.reserve * r.shares
  <2>1. s.shares * r.reserve <= s.shares * gone /\ s.shares * r.reserve \in Nat
    BY <1>1, <1>3, <1>8, <1>12, MulOrder
  <2>2. s.shares * gone \in Nat /\ s.reserve * ds \in Nat
    BY <1>1, <1>6, <1>8, MulOrder
  <2> QED
    BY <1>3, <1>8, <2>1, <2>2
<1>14. /\ r.reserve \in Nat /\ r.hub \in Nat /\ r.shares \in Nat /\ r.protocolShares \in Nat
       /\ r.lpHub \in Nat /\ r.amount \in Nat
       /\ r.reserve <= s.reserve /\ r.hub <= s.hub
       /\ r.shares + r.protocolShares = shares
       /\ shares <= p.shares => r.amount <= p.amount
  BY <1>1, <1>3, <1>5, <1>6, <1>8, <1>9, <1>10, <1>12
<1> QED
  BY <1>13, <1>14 DEF r

(* At a price above the pool's, now < at, the value of the reserve r,      *)
(* rounded up, is at least its hub reserve h.                              *)
LEMMA ValueAbove ==
  ASSUME NEW r \in Nat \ {0}, NEW h \in Nat \ {0}, NEW f \in Nat \ {0},
         NEW at \in Nat, NEW now \in Nat, NEW w \in Nat,
         h * f < r * now + r, at * r < f * w + f, now < at
  PROVE  h <= w + 1
<1> SUFFICES ASSUME w + 1 < h PROVE FALSE
  OBVIOUS
<1>1. (now + 1) * r <= at * r
  BY MulOrder
<1>2. (now + 1) * r = r * now + r
  OBVIOUS
<1>3. f * (w + 1) <= f * h
  BY MulOrder
<1>4. f * (w + 1) = f * w + f
  OBVIOUS
<1>5. f * h = h * f
  OBVIOUS
<1>6. h * f \in Nat /\ at * r \in Nat /\ f * w \in Nat /\ r * now \in Nat
  BY MulOrder
<1> QED
  BY <1>1, <1>2, <1>3, <1>4, <1>5, <1>6

(* And at a lower price it is at most that.                                *)
LEMMA ValueBelow ==
  ASSUME NEW r \in Nat \ {0}, NEW h \in Nat \ {0}, NEW f \in Nat \ {0},
         NEW at \in Nat, NEW now \in Nat, NEW w \in Nat,
         r * now <= h * f, f * w <= at * r, now > at
  PROVE  w + 1 <= h
<1> SUFFICES ASSUME h <= w PROVE FALSE
  OBVIOUS
<1>1. (at + 1) * r <= now * r
  BY MulOrder
<1>2. (at + 1) * r = at * r + r /\ now * r = r * now
  OBVIOUS
<1>3. f * h <= f * w
  BY MulOrder
<1>4. f * h = h * f
  OBVIOUS
<1>5. h * f \in Nat /\ at * r \in Nat /\ f * w \in Nat /\ r * now \in Nat
  BY MulOrder
<1> QED
  BY <1>1, <1>2, <1>3, <1>4, <1>5

(* Every withdrawal of shares that exist is defined, at every price and    *)
(* fee, as long as the asset has reserves: none of the checked operations  *)
(* of calculate_remove_liquidity_state_changes fails, whichever way the    *)
(* price moved and however it was rounded.                                 *)
THEOREM RemovalDefined ==
  ASSUME NEW s \in PoolState, NEW shares \in Nat \ {0}, NEW p, IsPosition(p), NEW fee,
         s.hub > 0, s.reserve > 0, shares <= p.shares, shares <= s.shares
  PROVE  /\ CalculateRemoveLiquidity(s, shares, p, fee).ok
         /\ CalculateRemoveLiquidity(s, shares, p, fee).shares <= s.shares
<1> DEFINE at  == FromRational(p.price[1], p.price[2])
           now == Price(s)
           w   == MulInt(at, s.reserve)
           pxr == PositionValue(s, p)
           b   == DeltaB(s, shares, p)
<1>1. /\ s.hub \in Nat \ {0} /\ s.reserve \in Nat \ {0} /\ s.shares \in Nat \ {0}
      /\ p.shares \in Nat \ {0} /\ p.price[2] # 0 /\ FIXED \in Nat \ {0}
  BY ScaleAssumption DEF PoolState, IsPosition
<1>2. at \in Nat /\ now \in Nat /\ pxr \in Nat
  BY <1>1, PositionValueNat, FromRationalNat DEF Price
<1>3. pxr = w + 1
  BY DEF PositionValue
<1>4. s.reserve * now <= s.hub * FIXED /\ s.hub * FIXED < s.reserve * now + s.reserve
  <2>1. s.hub * FIXED \in Nat
    BY <1>1, MulOrder
  <2> QED
    BY <1>1, <2>1, DivRoundsDown, Zenon DEF Price, FromRational
<1>5. w \in Nat /\ FIXED * w <= at * s.reserve /\ at * s.reserve < FIXED * w + FIXED
  <2>1. at * s.reserve \in Nat
    BY <1>1, <1>2, MulOrder
  <2> QED
    BY <1>1, <2>1, DivRoundsDown, Zenon DEF MulInt
<1> HIDE DEF at, now, w, pxr
<1>6. now < at => s.hub <= pxr
  BY <1>1, <1>2, <1>3, <1>4, <1>5, ValueAbove, Zenon
<1>7. now > at => pxr <= s.hub
  BY <1>1, <1>2, <1>3, <1>4, <1>5, ValueBelow
<1>8. b \in Nat /\ b <= shares
  <2>1. b = IF now < at THEN ((pxr - s.hub) * shares) \div (pxr + s.hub) + 1 ELSE 0
    BY DEF DeltaB, now, at, pxr
  <2> HIDE DEF b
  <2>2. CASE ~(now < at)
    BY <2>1, <2>2
  <2>3. CASE now < at
    <3> DEFINE n == pxr - s.hub
               d == pxr + s.hub
    <3>1. n \in Nat /\ d \in Nat \ {0} /\ n + 1 <= d
      BY <1>1, <1>2, <1>6, <2>3
    <3>2. b = (n * shares) \div d + 1
      BY <2>1, <2>3
    <3> HIDE DEF n, d
    <3>3. (n + 1) * shares <= d * shares /\ n * shares \in Nat /\ d * shares \in Nat
      <4>1. n + 1 \in Nat /\ n <= n + 1 /\ d \in Nat /\ shares \in Nat
        BY <3>1
      <4> QED
        BY <3>1, <4>1, MulOrder
    <3>4. (n + 1) * shares = n * shares + shares
      BY <3>1
    <3>5. n * shares < d * shares
      BY <3>3, <3>4
    <3>6. (n * shares) \div d \in Nat /\ (n * shares) \div d < shares
      BY <3>1, <3>3, <3>5, DivBelow
    <3> QED
      BY <3>2, <3>6
  <2> QED
    BY <2>2, <2>3
<1> HIDE DEF b
<1>9. ~(now < at /\ pxr < s.hub) /\ ~(now > at /\ pxr > s.hub) /\ ~(b > shares)
  BY <1>1, <1>2, <1>6, <1>7, <1>8
<1>10. /\ CalculateRemoveLiquidity(s, shares, p, fee).ok
       /\ CalculateRemoveLiquidity(s, shares, p, fee).shares = shares - b
  BY <1>1, <1>9 DEF CalculateRemoveLiquidity, now, at, pxr, b
<1> QED
  BY <1>1, <1>8, <1>10
=============================================================================
