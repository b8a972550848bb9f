---------------------------- MODULE OmnipoolMath ----------------------------
(***************************************************************************)
(* The arithmetic of the Omnipool (math/src/omnipool): what a trade, a     *)
(* deposit of liquidity and a withdrawal change in the state of an asset.  *)
(*                                                                         *)
(* All quantities are integers and every division rounds as in the code.   *)
(* The two denominators of the fixed-point types are parameters: PERMILL   *)
(* stands for the 10^6 parts of a Permill and FIXED for the 10^18 of a     *)
(* FixedU128.  A calculation that returns None in the code, because of a   *)
(* checked operation, gives Rejected here.                                 *)
(***************************************************************************)
EXTENDS Integers

CONSTANTS None,     \* the absent value of an Option
          PERMILL,  \* the parts of the whole in a Permill
          FIXED     \* the denominator of a FixedU128

ASSUME ScaleAssumption == /\ PERMILL \in Nat \ {0}
                          /\ FIXED \in Nat \ {0}
                          /\ FIXED % PERMILL = 0

Rejected == [ok |-> FALSE]

MulFloor(parts, x) == (parts * x) \div PERMILL

FromPermill(parts) == parts * (FIXED \div PERMILL)

FromRational(n, d) == (n * FIXED) \div d

MulInt(fixed, x) == (fixed * x) \div FIXED

(* to_balance!: what is no Balance becomes None.                           *)
ToBalance(x) == IF x \in Nat THEN x ELSE None

Abs(x) == IF x < 0 THEN -x ELSE x

(* The integer square root, found to within 32 first.                      *)
IntegerSqrt(n) ==
  LET k == CHOOSE k \in 0..(n \div 1024) : (32 * k) * (32 * k) <= n /\ n < (32 * (k + 1)) * (32 * (k + 1))
  IN  CHOOSE r \in (32 * k)..(32 * k + 31) : r * r <= n /\ n < (r + 1) * (r + 1)

AmountWithoutFee(amount, fee) == MulFloor(PERMILL - fee, amount)

-----------------------------------------------------------------------------
(* The slip fee, which grows with the hub asset that a block moves into or *)
(* out of one asset's pool: q0 is the hub reserve when the block first     *)
(* touched the asset and the deltas are signed.                            *)

SlipRateExceedsCap(cumulative, denom, max) == denom # 0 /\ Abs(cumulative) * PERMILL > max * denom

(* A mutant: the sum of the flows is not checked.                          *)
SlipAlwaysDefined(q0, prior, delta, base) == TRUE

SlipIsDefined(q0, prior, delta, base) == q0 = 0 \/ base = 0 \/ q0 + prior + delta > 0

CalculateSlipFeeAmount(q0, prior, delta, max, base) ==
  LET cumulative == prior + delta
      denom      == q0 + cumulative
  IN  IF q0 = 0 \/ base = 0 \/ denom <= 0 THEN 0
      ELSE IF SlipRateExceedsCap(cumulative, denom, max) THEN MulFloor(max, base)
      ELSE (Abs(cumulative) * base) \div denom

InvertBuySideSlipUncapped(net, l, c) ==
  LET s     == l + c
      case1 == (net * s) \div (l - net) + 1
      b     == l + 2 * c - net
      root  == IntegerSqrt(b * b + 8 * net * s)
  IN  IF s <= 0 \/ net >= l THEN None
      ELSE IF c > 0 \/ case1 >= Abs(c) THEN case1
      ELSE IF l + 2 * c < 0 THEN None
      ELSE IF b >= 0 THEN (2 * net * s) \div (b + root) + 1
      ELSE (root - b) \div 4 + 1

(* A mutant: the slip fee is looked up for the net amount.                 *)
BuySideTaken(net, l, c, max) == net + CalculateSlipFeeAmount(l, c, net, max, net)

InvertBuySideSlip(net, l, c, max) ==
  LET gross == InvertBuySideSlipUncapped(net, l, c)
  IN  IF gross # None /\ ~SlipRateExceedsCap(c + gross, l + c + gross, max) THEN gross
      ELSE IF max = PERMILL THEN None
      ELSE (net * PERMILL) \div (PERMILL - max)

(* The root with the flow still against the block's (u <= c), and the one  *)
(* past it.                                                                *)
SellSideOpposing(gross, pf, l, c) ==
  LET s    == l + c
      b    == (PERMILL - pf) * s + (gross - c) * PERMILL
      root == IntegerSqrt(b * b + 4 * pf * gross * s * PERMILL)
  IN  1 + IF pf = 0 THEN (gross * s) \div (gross + l)
          ELSE IF b >= 0 THEN (2 * gross * s * PERMILL) \div (b + root)
          ELSE (root - b) \div (2 * pf)

SellSideFollowing(gross, pf, l, c) ==
  LET s     == l + c
      a     == 2 * PERMILL - pf
      b     == (PERMILL - pf) * s + (gross + c) * PERMILL
      disc  == b * b - 4 * a * gross * s * PERMILL
  IN  IF b < 0 \/ disc < 0 THEN None ELSE (b - IntegerSqrt(disc)) \div (2 * a) + 1

InvertSellSideFeesUncapped(gross, pf, l, c) ==
  IF l + c < 0 THEN None
  ELSE IF c > 0 /\ SellSideOpposing(gross, pf, l, c) <= c THEN SellSideOpposing(gross, pf, l, c)
  ELSE SellSideFollowing(gross, pf, l, c)

InvertSellSideFees(gross, pf, l, c, max) ==
  LET u == InvertSellSideFeesUncapped(gross, pf, l, c)
  IN  IF u # None /\ l + c - u < 0 THEN None
      ELSE IF u # None /\ ~SlipRateExceedsCap(c - u, l + c - u, max) THEN u
      ELSE IF PERMILL <= pf + max THEN None
      ELSE (gross * PERMILL) \div (PERMILL - pf - max)

-----------------------------------------------------------------------------
(* Trades.  i and o are the states of the asset sold and of the asset      *)
(* bought; slip is None or one of these: both sides' q0 and delta, or only *)
(* the bought side's, and the cap.                                         *)
TradeSlipFees == [inQ0 : Nat, inDelta : Int, outQ0 : Nat, outDelta : Int, max : 0..PERMILL]

HubTradeSlipFees == [outQ0 : Nat, outDelta : Int, max : 0..PERMILL]

(* The hub asset on its way from one pool to the other: the protocol fee   *)
(* and the slip fees of both sides are taken from it.                      *)
HubLeg(hubIn, pf, slip) ==
  LET pfAmount == MulFloor(pf, hubIn)
      slipSell == IF slip = None THEN 0
                  ELSE CalculateSlipFeeAmount(slip.inQ0, slip.inDelta, -hubIn, slip.max, hubIn)
      gross    == hubIn - pfAmount - slipSell
      slipBuy  == IF slip = None THEN 0
                  ELSE CalculateSlipFeeAmount(slip.outQ0, slip.outDelta, gross, slip.max, gross)
  IN  [ok  |-> /\ slip # None => /\ SlipIsDefined(slip.inQ0, slip.inDelta, -hubIn, hubIn)
                                 /\ SlipIsDefined(slip.outQ0, slip.outDelta, gross, gross)
               /\ gross >= 0 /\ gross - slipBuy >= 0,
       fee |-> pfAmount + slipSell + slipBuy,
       net |-> gross - slipBuy]

(* The hub asset minted for the asset fee that stays in the pool.          *)
ExtraHub(fee, q, d) == MulFloor(fee, ((q + d) * d) \div q)

CalculateSell(i, o, amount, assetFee, protocolFee, slip) ==
  LET hubIn == (amount * i.hub) \div (i.reserve + amount)
      leg   == HubLeg(hubIn, protocolFee, slip)
      gross == (o.reserve * leg.net) \div (o.hub + leg.net)
      out   == AmountWithoutFee(gross, assetFee)
  IN  IF o.hub = 0 \/ ~leg.ok THEN Rejected
      ELSE [ok |-> TRUE, in |-> amount, hubIn |-> hubIn, out |-> out, hubOut |-> leg.net,
            extra |-> ExtraHub(assetFee, o.hub, leg.net),
            assetFee |-> gross - out, protocolFee |-> leg.fee]

CalculateFeeAmountForBuy(fee, amount) ==
  IF fee = 0 THEN 0 ELSE IF fee = PERMILL THEN amount
  ELSE (fee * amount) \div (PERMILL - fee) + 1

(* The hub asset that must leave the pool of the asset sold, for net to    *)
(* reach the pool of the asset bought.                                     *)
HubNeeded(net, pf, slip) ==
  IF slip = None
  THEN IF pf = PERMILL THEN None ELSE (net * FIXED) \div FromPermill(PERMILL - pf)
  ELSE LET gross == ToBalance(InvertBuySideSlip(net, slip.outQ0, slip.outDelta, slip.max))
       IN  IF gross = None THEN None
           ELSE ToBalance(InvertSellSideFees(gross, pf, slip.inQ0, slip.inDelta, slip.max))

AmountIn(i, hubIn) == (i.reserve * hubIn) \div (i.hub - hubIn) + 1

CalculateBuy(i, o, amount, assetFee, protocolFee, slip) ==
  LET noFee == AmountWithoutFee(o.reserve, assetFee)
      net   == (o.hub * amount) \div (noFee - amount) + 1
      hubIn == HubNeeded(net, protocolFee, slip)
      leg   == HubLeg(hubIn, protocolFee, slip)
  IN  IF noFee <= amount \/ o.hub = 0 THEN Rejected
      ELSE IF hubIn = None THEN Rejected
      ELSE IF hubIn >= i.hub \/ ~leg.ok THEN Rejected
      ELSE [ok |-> TRUE, in |-> AmountIn(i, hubIn), hubIn |-> hubIn,
            out |-> amount, hubOut |-> leg.net, extra |-> ExtraHub(assetFee, o.hub, leg.net),
            assetFee |-> CalculateFeeAmountForBuy(assetFee, amount), protocolFee |-> leg.fee]

(* Trades that pay with the hub asset itself: only the side of the asset   *)
(* bought is there.                                                        *)
CalculateSellHub(o, amount, assetFee, slip) ==
  LET fee == IF slip = None THEN 0
             ELSE CalculateSlipFeeAmount(slip.outQ0, slip.outDelta, amount, slip.max, amount)
      eff   == amount - fee
      gross == (o.reserve * eff) \div (o.hub + eff)
      out   == AmountWithoutFee(gross, assetFee)
  IN  IF \/ o.hub = 0 \/ eff < 0
         \/ slip # None /\ ~SlipIsDefined(slip.outQ0, slip.outDelta, amount, amount)
      THEN Rejected
      ELSE [ok |-> TRUE, out |-> out, hubOut |-> amount, extra |-> ExtraHub(assetFee, o.hub, eff),
            assetFee |-> gross - out]

CalculateBuyForHub(o, amount, assetFee, slip) ==
  LET left  == AmountWithoutFee(o.reserve, assetFee) - amount
      net   == (o.hub * amount) \div left + 1
      gross == IF slip = None THEN net
               ELSE ToBalance(InvertBuySideSlip(net, slip.outQ0, slip.outDelta, slip.max))
  IN  IF left <= 0 THEN Rejected
      ELSE IF gross = None THEN Rejected
      ELSE IF gross < net THEN Rejected
      ELSE [ok |-> TRUE, out |-> amount, hubOut |-> gross,
            extra |-> MulFloor(assetFee, (o.hub + net) * amount) \div left,
            assetFee |-> CalculateFeeAmountForBuy(assetFee, amount)]

(* What is left of the minted hub asset when others took part of the fee.  *)
ExtraAfterFeeTaken(extra, taken, fee) == IF fee = 0 THEN extra ELSE extra - (taken * extra) \div fee

-----------------------------------------------------------------------------
(* Liquidity.  s is the state of the asset.                                *)

Price(s) == FromRational(s.hub, s.reserve)

(* A mutant: the new shares are rounded up.                                *)
AddLiquidityRoundedUp(s, amount) ==
  IF s.reserve = 0 THEN Rejected
  ELSE [ok |-> TRUE, hub |-> MulInt(Price(s), amount), shares |-> (s.shares * amount) \div s.reserve + 1]

CalculateAddLiquidity(s, amount) ==
  IF s.reserve = 0 THEN Rejected
  ELSE [ok |-> TRUE, hub |-> MulInt(Price(s), amount), shares |-> (s.shares * amount) \div s.reserve]

CalculateWithdrawalFee(spot, oracle, min) ==
  LET rate == (Abs(spot - oracle) * FIXED) \div oracle
  IN  IF oracle = 0 THEN FromPermill(min)
      ELSE IF rate < FromPermill(min) THEN FromPermill(min) ELSE IF rate > FIXED THEN FIXED ELSE rate

(* A mutant: the value of the position below, rounded up twice.            *)
PositionValueRoundedTwice(s, position) ==
  MulInt(FromRational(position.price[1], position.price[2]), s.reserve) + 2

(* The position's price times the reserve, rounded up.                     *)
PositionValue(s, position) == MulInt(FromRational(position.price[1], position.price[2]), s.reserve) + 1

(* The shares that stay with the protocol when the price fell below the    *)
(* position's.                                                             *)
DeltaB(s, shares, position) ==
  LET pxr == PositionValue(s, position)
  IN  IF Price(s) < FromRational(position.price[1], position.price[2])
      THEN ((pxr - s.hub) * shares) \div (pxr + s.hub) + 1 ELSE 0

(* The hub asset that the position earned when the price rose above its.   *)
HubTransferred(s, deltaShares, position) ==
  LET pxr == PositionValue(s, position)
  IN  IF Price(s) > FromRational(position.price[1], position.price[2])
      THEN (((s.hub * (s.hub - pxr)) \div (s.hub + pxr)) * deltaShares) \div s.shares ELSE 0

CalculateRemoveLiquidity(s, shares, position, fee) ==
  LET deltaB      == DeltaB(s, shares, position)
      deltaShares == shares - deltaB
      pxr         == PositionValue(s, position)
      current     == Price(s)
      at          == FromRational(position.price[1], position.price[2])
      reserve     == (s.reserve * deltaShares) \div s.shares
      hub         == (reserve * s.hub) \div s.reserve
  IN  IF s.reserve = 0 \/ s.shares = 0 \/ position.price[2] = 0 \/ position.shares = 0 THEN Rejected
      ELSE IF (current < at /\ pxr < s.hub) \/ (current > at /\ pxr > s.hub) \/ deltaB > shares
           THEN Rejected
      ELSE [ok |-> TRUE,
            reserve |-> MulInt(FIXED - fee, reserve), hub |-> MulInt(FIXED - fee, hub),
            shares |-> deltaShares, protocolShares |-> deltaB,
            lpHub |-> MulInt(FIXED - fee, HubTransferred(s, deltaShares, position)),
            amount |-> (shares * position.amount) \div position.shares]
=============================================================================
