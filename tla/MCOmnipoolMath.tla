--------------------------- MODULE MCOmnipoolMath ---------------------------
(***************************************************************************)
(* The trade and liquidity formulas of the Omnipool, checked on every      *)
(* combination of small pool states, amounts, fees and slip fee states.    *)
(* A state of this module is one set of inputs.                            *)
(***************************************************************************)
EXTENDS OmnipoolMath

CONSTANTS Reserves,    \* reserves of the assets
          HubReserves, \* hub reserves of the assets
          Amounts,     \* amounts traded or deposited
          Fees,        \* asset and protocol fees, in parts of PERMILL
          Caps,        \* slip fee caps, in parts of PERMILL
          Flows,       \* hub asset that the block moved before the trade
          Doubled      \* whether that flow may exceed the hub reserve it began with

MCFlows == {-7, 0, 3, 9}

VARIABLES in, out, amount, assetFee, protocolFee, slip, \* the inputs
          sell, buy, sellHub, buyForHub                   \* what each trade changes

vars == <<in, out, amount, assetFee, protocolFee, slip, sell, buy, sellHub, buyForHub>>

States == [reserve : Reserves, hub : HubReserves]

(* The slip fee state before the trade.  The hub reserves at the start of  *)
(* the block are not tied to the ones at the trade, since liquidity may    *)
(* have been added or removed in between, but no pool has lost more hub    *)
(* asset than it had.  Unless Doubled, the block did not double the hub    *)
(* reserve of the asset sold.                                              *)
Slips ==
  {None} \cup {s \in [inQ0 : HubReserves, inDelta : Flows, outQ0 : HubReserves, outDelta : Flows, max : Caps] :
                 /\ s.inQ0 + s.inDelta > 0 /\ s.outQ0 + s.outDelta > 0
                 /\ Doubled \/ s.inDelta < s.inQ0}

Init == /\ in \in States
        /\ out \in States
        /\ amount \in Amounts
        /\ assetFee \in Fees
        /\ protocolFee \in Fees
        /\ slip \in Slips
        /\ sell = CalculateSell(in, out, amount, assetFee, protocolFee, slip)
        /\ buy = CalculateBuy(in, out, amount, assetFee, protocolFee, slip)
        /\ sellHub = CalculateSellHub(out, amount, assetFee, slip)
        /\ buyForHub = CalculateBuyForHub(out, amount, assetFee, slip)

Next == UNCHANGED vars

Spec == Init /\ [][Next]_vars

-----------------------------------------------------------------------------
(* The most that process_trade_fee lets others take out of the asset fee.  *)
Taken(result) == IF result.assetFee = 0 THEN 0 ELSE result.assetFee - 1

(* On the side of the asset sold the product of the reserve and the hub    *)
(* reserve never falls.                                                    *)
InputCurveKept ==
  \A r \in {sell, buy} :
    r.ok => (in.reserve + r.in) * (in.hub - r.hubIn) >= in.reserve * in.hub

(* On the side of the asset bought it does not fall either, even before    *)
(* the hub asset minted for the fee is added and when others take all they *)
(* may of the asset fee.                                                   *)
OutputCurveKept ==
  \A r \in {sell, buy, sellHub, buyForHub} :
    r.ok => (out.reserve - r.out - Taken(r)) * (out.hub + r.hubOut) >= out.reserve * out.hub

(* What reaches the pool of the asset bought, computed forwards from the   *)
(* hub asset that the inversions ask for, is what the amount bought needs. *)
BuyCollectsEnough ==
  buy.ok =>
    buy.hubOut > (out.hub * amount) \div (AmountWithoutFee(out.reserve, assetFee) - amount)

(* No trade lowers the product of reserve and hub reserve on either side   *)
(* (calculate_sell_state_changes, calculate_buy_state_changes and those of *)
(* trades with the hub asset), though ensure_trade_invariant looks at the  *)
(* asset sold only; and the inversions behind a buy (invert_buy_side_slip, *)
(* invert_sell_side_fees) ask for enough.                                  *)
TradesKeepCurves == InputCurveKept /\ OutputCurveKept /\ BuyCollectsEnough

(* The comment of invert_sell_side_fees: it finds the hub asset u that     *)
(* must be sold for the given amount to be left after the protocol fee and *)
(* the slip fee of the pool sold to.                                       *)
SellSideInverted ==
  slip # None =>
    LET u == InvertSellSideFees(amount, protocolFee, slip.inQ0, slip.inDelta, slip.max)
    IN  u # None => u - MulFloor(protocolFee, u)
                      - CalculateSlipFeeAmount(slip.inQ0, slip.inDelta, -u, slip.max, u) >= amount
=============================================================================
