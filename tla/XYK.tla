-------------------------------- MODULE XYK --------------------------------
(***************************************************************************)
(* A constant product pool (pallets/xyk): one pair of assets, whose pool   *)
(* account, total liquidity and share token come and go with the pool.     *)
(* The pool account is an ordinary account, so anybody may also send       *)
(* tokens to it.                                                           *)
(***************************************************************************)
EXTENDS XYKMath, FiniteSets, Functions

CONSTANTS
  Accounts,           \* accounts that may hold shares
  Traders,            \* accounts that call the pallet
  MinPoolLiquidity, MinTradingLimit, MaxInRatio, MaxOutRatio,
  Amounts,            \* amounts given to the calls
  InitialBalance      \* balance of each trader in each asset

VARIABLES
  reserve,            \* balance of the pool account in each asset
  totalLiquidity,     \* TotalLiquidity; zero when the pool does not exist
  shares,             \* balance of each account in the share token
  balance             \* balance of each trader in each asset

vars == <<reserve, totalLiquidity, shares, balance>>

Assets == {"A", "B"}
Other(a) == IF a = "A" THEN "B" ELSE "A"

Init ==
  /\ reserve = [a \in Assets |-> 0]
  /\ totalLiquidity = 0
  /\ shares = [u \in Accounts |-> 0]
  /\ balance = [u \in Traders |-> [a \in Assets |-> InitialBalance]]

\* ShareToken has an entry for the pair exactly while there is liquidity.
Exists == totalLiquidity > 0

----------------------------------------------------------------------------
(* The calls *)

\* What u gives to the pool, or takes out of it where negative, in both assets.
Move(u, given) ==
  /\ \A a \in Assets : balance[u][a] >= given[a] /\ reserve[a] + given[a] >= 0
  /\ balance' = [balance EXCEPT ![u] = [a \in Assets |-> @[a] - given[a]]]
  /\ reserve' = [a \in Assets |-> reserve[a] + given[a]]

\* The shares are the amount of the asset with the smaller id, "A" here.
CreatePool(u, amountA, amountB) ==
  /\ amountA >= MinPoolLiquidity /\ amountB >= MinPoolLiquidity
  /\ ~Exists
  /\ Move(u, [a \in Assets |-> IF a = "A" THEN amountA ELSE amountB])
  /\ shares' = [shares EXCEPT ![u] = @ + amountA]
  /\ totalLiquidity' = amountA

\* do_add_liquidity: u names the amount of asset a, the pool that of the other one.
AddLiquidity(u, a, amount) ==
  LET amountB == CalculateLiquidityIn(reserve[a], reserve[Other(a)], amount)
      added == CalculateShares(reserve[a], amount, totalLiquidity)
  IN  /\ Exists
      /\ amount >= MinTradingLimit
      /\ added > 0
      /\ shares[u] + added >= MinPoolLiquidity
      /\ Move(u, [x \in Assets |-> IF x = a THEN amount ELSE amountB])
      /\ shares' = [shares EXCEPT ![u] = @ + added]
      /\ totalLiquidity' = totalLiquidity + added

\* do_remove_liquidity; the pool is destroyed with its last share.
RemoveLiquidity(u, amount) ==
  /\ amount > 0
  /\ Exists
  /\ totalLiquidity >= amount
  /\ shares[u] >= amount
  /\ shares[u] - amount >= MinPoolLiquidity \/ shares[u] = amount
  /\ Move(u, [a \in Assets |-> -CalculateLiquidityOut(reserve[a], amount, totalLiquidity)])
  /\ shares' = [shares EXCEPT ![u] = @ - amount]
  /\ totalLiquidity' = totalLiquidity - amount

\* validate_sell and execute_sell: the fee is withheld from what the pool gives.
Sell(u, assetIn, amount) ==
  LET assetOut == Other(assetIn)
      amountOut == CalculateOutGivenIn(reserve[assetIn], reserve[assetOut], amount)
      paidOut == amountOut - CalculateFee(amountOut)
  IN  /\ amount >= MinTradingLimit
      /\ Exists
      /\ amount <= reserve[assetIn] \div MaxInRatio
      /\ amountOut <= reserve[assetOut] \div MaxOutRatio
      /\ reserve[assetOut] > amountOut
      /\ Move(u, [a \in Assets |-> IF a = assetIn THEN amount ELSE -paidOut])
      /\ UNCHANGED <<shares, totalLiquidity>>

\* validate_buy and execute_buy: the fee is added to what the trader gives.
Buy(u, assetOut, amount) ==
  LET assetIn == Other(assetOut)
      price == CalculateInGivenOut(reserve[assetOut], reserve[assetIn], amount)
  IN  /\ amount >= MinTradingLimit
      /\ Exists
      /\ reserve[assetOut] > amount
      /\ amount <= reserve[assetOut] \div MaxOutRatio
      /\ price <= reserve[assetIn] \div MaxInRatio
      /\ Move(u, [a \in Assets |-> IF a = assetIn THEN price + CalculateFee(price) ELSE -amount])
      /\ UNCHANGED <<shares, totalLiquidity>>

\* A plain transfer to the pool account.
Donate(u, a, amount) ==
  /\ Move(u, [x \in Assets |-> IF x = a THEN amount ELSE 0])
  /\ UNCHANGED <<shares, totalLiquidity>>

Next ==
  \E u \in Traders, amount \in Amounts :
    \/ \E amountB \in Amounts : CreatePool(u, amount, amountB)
    \/ \E a \in Assets : AddLiquidity(u, a, amount)
    \/ RemoveLiquidity(u, amount)
    \/ \E a \in Assets : Sell(u, a, amount)
    \/ \E a \in Assets : Buy(u, a, amount)
    \/ \E a \in Assets : Donate(u, a, amount)

Spec == Init /\ [][Next]_vars

----------------------------------------------------------------------------
(* Properties *)

\* No call lets the product of what stands behind one share of each asset fall: providers are not
\* diluted by another's deposit or exit, and no order of trades takes value from the pool.
ShareValueKept ==
  (totalLiquidity > 0 /\ totalLiquidity' > 0) =>
    reserve'["A"] * reserve'["B"] * totalLiquidity * totalLiquidity
      >= reserve["A"] * reserve["B"] * totalLiquidity' * totalLiquidity'
=============================================================================
