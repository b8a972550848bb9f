------------------------------ MODULE XYKMath ------------------------------
(***************************************************************************)
(* The formulas of a constant product pool (math/src/xyk).                 *)
(***************************************************************************)
EXTENDS Integers

CONSTANTS FeeNumerator, FeeDenominator    \* GetExchangeFee

CalculateOutGivenIn(inReserve, outReserve, amountIn) == (outReserve * amountIn) \div (inReserve + amountIn)

CalculateInGivenOut(outReserve, inReserve, amountOut) == (inReserve * amountOut) \div (outReserve - amountOut) + 1

CalculateLiquidityIn(aReserve, bReserve, amount) == (amount * bReserve) \div aReserve + 1

(* A mutant: what leaves the pool is rounded up.                           *)
LiquidityOutRoundedUp(assetReserve, amount, liquidity) == (amount * assetReserve + liquidity - 1) \div liquidity

CalculateLiquidityOut(assetReserve, amount, liquidity) == (amount * assetReserve) \div liquidity

CalculateShares(assetReserve, amount, issuance) == (issuance * amount) \div assetReserve

CalculateFee(amount) == (amount \div FeeDenominator) * FeeNumerator
=============================================================================
