--------------------------- MODULE RouteExecutor ----------------------------
(***************************************************************************)
(* Trades along a route of pools (pallets/route-executor).  The tokens     *)
(* pass through the router's own account: a sale sells at each hop all     *)
(* that the account holds, a purchase computes the amounts of all hops     *)
(* before the first one is executed.  A call that fails has no effect.     *)
(* The balances are those of pallet-currencies, shared with OTC and the    *)
(* settlement of orders; a pool is an account like any other.              *)
(***************************************************************************)
EXTENDS Integers, XYKMath, SequencesExt

CONSTANTS
  None,           \* no value, or an error
  Accounts,
  Assets          \* a set of numbers: asset ids are ordered

VARIABLE balance  \* of each account in each asset

Holds(wallets, u, asset, amount) == wallets[u][asset] >= amount

\* A transfer of what the payer holds.
Pay(wallets, asset, from, to, amount) ==
  IF from = to THEN wallets
  ELSE [wallets EXCEPT ![from][asset] = @ - amount, ![to][asset] = @ + amount]

-----------------------------------------------------------------------------

CONSTANTS
  Router,               \* router_account
  Pools,                \* pool accounts, each with the set of its assets: a function
  DefaultPool,          \* DefaultRoutePoolType
  OraclePools,          \* pools the oracle has a price of
  MAX_NUMBER_OF_TRADES,
  MinTradingLimit, MaxInRatio, MaxOutRatio, ReferenceShare

VARIABLE routes         \* Routes: of each ordered pair of assets, or None

Trade(pool, in, out) == [pool |-> pool, in |-> in, out |-> out]
Pair(in, out) == [in |-> in, out |-> out]

IsOrdered(pair) == pair.in <= pair.out
Flipped(x) == [x EXCEPT !.in = x.out, !.out = x.in]
OrderedPair(pair) == IF IsOrdered(pair) THEN pair ELSE Flipped(pair)
InverseRoute(route) == Reverse([i \in DOMAIN route |-> Flipped(route[i])])

OrderedPairs == {pair \in [in : Assets, out : Assets] : pair.in < pair.out}

RouterInit == routes = [pair \in OrderedPairs |-> None]

GetRoute(pair) ==
  LET stored == routes[OrderedPair(pair)]
  IN  IF stored = None THEN <<Trade(DefaultPool, pair.in, pair.out)>>
      ELSE IF IsOrdered(pair) THEN stored ELSE InverseRoute(stored)

GetRouteOrDefault(pair, route) == IF route # <<>> THEN route ELSE GetRoute(pair)

EnsureRouteSize(route) == Len(route) <= MAX_NUMBER_OF_TRADES

EnsureRouteArguments(pair, route) ==
  /\ route # <<>>
  /\ pair.in = route[1].in
  /\ pair.out = Last(route).out
  /\ \A i \in 1..(Len(route) - 1) : route[i].out = route[i + 1].in

----------------------------------------------------------------------------
(* The pools as the router uses them: each one is a constant product pool *)

Supports(trade) == trade.pool \in DOMAIN Pools /\ trade.in # trade.out /\ {trade.in, trade.out} \subseteq Pools[trade.pool]

\* What a pool gives or takes before its fee; None where it has no answer.
GrossOut(wallets, trade, amount) ==
  LET reserve == wallets[trade.pool]
      out == CalculateOutGivenIn(reserve[trade.in], reserve[trade.out], amount)
  IN  IF Supports(trade) /\ reserve[trade.out] > out THEN out ELSE None

GrossIn(wallets, trade, amount) ==
  LET reserve == wallets[trade.pool]
  IN  IF Supports(trade) /\ reserve[trade.out] > amount /\ amount >= MinTradingLimit
      THEN CalculateInGivenOut(reserve[trade.out], reserve[trade.in], amount) ELSE None

AfterFee(out) == IF out = None THEN None ELSE out - CalculateFee(out)
WithFee(in) == IF in = None THEN None ELSE in + CalculateFee(in)

\* calculate_out_given_in and calculate_in_given_out.
OutGivenIn(wallets, trade, amount) == AfterFee(GrossOut(wallets, trade, amount))
InGivenOut(wallets, trade, amount) == WithFee(GrossIn(wallets, trade, amount))

\* The router trades with one pool.
Swap(wallets, trade, in, out) == Pay(Pay(wallets, trade.in, Router, trade.pool, in), trade.out, trade.pool, Router, out)

ExecuteSell(wallets, trade, amount, out) ==
  IF /\ out # None
     /\ amount >= MinTradingLimit
     /\ amount <= wallets[trade.pool][trade.in] \div MaxInRatio
     /\ out <= wallets[trade.pool][trade.out] \div MaxOutRatio
  THEN Swap(wallets, trade, amount, AfterFee(out)) ELSE None

ExecuteBuy(wallets, trade, amount, limit, in) ==
  IF /\ in # None
     /\ WithFee(in) <= limit
     /\ Holds(wallets, Router, trade.in, WithFee(in))
     /\ amount <= wallets[trade.pool][trade.out] \div MaxOutRatio
     /\ in <= wallets[trade.pool][trade.in] \div MaxInRatio
  THEN Swap(wallets, trade, WithFee(in), amount) ELSE None

----------------------------------------------------------------------------
(* What a route is expected to give *)

\* The amounts of a sale: the first one, then what each hop gives; None from an error on.
SellTradeAmounts(wallets, route, amount) ==
  LET amounts[i \in 0..Len(route)] ==
        IF i = 0 THEN amount
        ELSE IF amounts[i - 1] = None THEN None ELSE OutGivenIn(wallets, route[i], amounts[i - 1])
  IN  amounts

\* The amounts of a purchase: what each hop takes, then what the last one gives.
BuyTradeAmounts(wallets, route, amount) ==
  LET amounts[i \in 1..(Len(route) + 1)] ==
        IF i = Len(route) + 1 THEN amount
        ELSE IF amounts[i + 1] = None THEN None ELSE InGivenOut(wallets, route[i], amounts[i + 1])
  IN  amounts

ExpectedAmountOut(wallets, route, amount) == SellTradeAmounts(wallets, route, amount)[Len(route)]

----------------------------------------------------------------------------
(* Trades *)

(* A mutant: a hop sells what the sale started with, not what the one      *)
(* before gave.                                                            *)
SellFirstAmount(wallets, route, amount) ==
  FoldLeft(LAMBDA w, trade : IF w = None THEN None
                             ELSE IF w[Router][trade.in] < amount THEN None
                             ELSE ExecuteSell(w, trade, amount, GrossOut(w, trade, amount)),
           wallets, route)

\* The hops of a sale: each one sells all that the router holds; None is an error.
SellHops(wallets, route, amount) ==
  FoldLeft(LAMBDA w, trade : IF w = None THEN None
                             ELSE ExecuteSell(w, trade, w[Router][trade.in], GrossOut(w, trade, w[Router][trade.in])),
           wallets, route)

\* The hops of a purchase, each for the amounts computed beforehand.
BuyHops(wallets, route, amounts) ==
  LET after[i \in 0..Len(route)] ==
        IF i = 0 THEN wallets
        ELSE IF after[i - 1] = None THEN None
        ELSE ExecuteBuy(after[i - 1], route[i], amounts[i + 1], amounts[i],
                       GrossIn(after[i - 1], route[i], amounts[i + 1]))
  IN  after[Len(route)]

\* All that the router holds of the bought asset goes to the trader.
PayOut(wallets, who, asset) == Pay(wallets, asset, Router, who, wallets[Router][asset])

\* do_sell on the given balances; None is an error.
Sold(wallets, who, pair, amount, minOut, route) ==
  IF /\ pair.in # pair.out
     /\ EnsureRouteSize(route)
     /\ EnsureRouteArguments(pair, route)
     /\ Holds(wallets, who, pair.in, amount)
  THEN LET after == SellHops(Pay(wallets, pair.in, who, Router, amount), route, amount)
       IN  IF after = None THEN None
           ELSE IF after[Router][pair.out] < minOut THEN None ELSE PayOut(after, who, pair.out)
  ELSE None

Bought(wallets, who, pair, amount, maxIn, route) ==
  IF pair.in # pair.out /\ EnsureRouteSize(route) /\ EnsureRouteArguments(pair, route)
  THEN LET amounts == BuyTradeAmounts(wallets, route, amount)
       IN  IF amounts[1] = None THEN None
           ELSE IF amounts[1] > maxIn \/ ~Holds(wallets, who, pair.in, amounts[1]) THEN None
           ELSE LET after == BuyHops(Pay(wallets, pair.in, who, Router, amounts[1]), route, amounts)
                IN  IF after = None THEN None ELSE PayOut(after, who, pair.out)
  ELSE None

\* A call that succeeds, with the balances it leaves.
Succeeds(wallets) == wallets # None /\ balance' = wallets

Sell(who, pair, amount, minOut, route) ==
  /\ Succeeds(Sold(balance, who, pair, amount, minOut, GetRouteOrDefault(pair, route)))
  /\ UNCHANGED routes

SellAll(who, pair, minOut, route) == Sell(who, pair, balance[who][pair.in], minOut, route)

Buy(who, pair, amount, maxIn, route) ==
  /\ Succeeds(Bought(balance, who, pair, amount, maxIn, GetRouteOrDefault(pair, route)))
  /\ UNCHANGED routes

----------------------------------------------------------------------------
(* The routes kept on chain *)

\* 1% of what the first pool holds of the sold asset.
ReferenceAmountIn(route) == balance[route[1].pool][route[1].in] \div ReferenceShare

\* The amounts to compare routes by, one for each direction; None where a direction gives no answer.
ValidatedAmounts(route, there, back, out, outBack) ==
  IF out # None /\ outBack # None THEN <<there, back>>
  ELSE IF outBack # None /\ ExpectedAmountOut(balance, route, outBack) # None THEN <<outBack, back>>
  ELSE IF out # None /\ ExpectedAmountOut(balance, InverseRoute(route), out) # None THEN <<there, out>>
  ELSE None

ValidateRoute(route) ==
  LET inverse == InverseRoute(route)
      there == ReferenceAmountIn(route)
      back == ReferenceAmountIn(inverse)
  IN  ValidatedAmounts(route, there, back, ExpectedAmountOut(balance, route, there), ExpectedAmountOut(balance, inverse, back))

\* The new route gives more than the old one, there and back.
BetterThan(new, old, amounts) ==
  LET there == ExpectedAmountOut(balance, new, amounts[1])
      back == ExpectedAmountOut(balance, InverseRoute(new), amounts[2])
  IN  /\ there # None /\ back # None
      /\ there > ExpectedAmountOut(balance, old, amounts[1])
      /\ back > ExpectedAmountOut(balance, InverseRoute(old), amounts[2])

InsertRoute(pair, route) ==
  routes' = [routes EXCEPT ![OrderedPair(pair)] = IF IsOrdered(pair) THEN route ELSE InverseRoute(route)]

SetRoute(pair, route) ==
  LET new == IF IsOrdered(pair) THEN route ELSE InverseRoute(route)
      old == GetRoute(OrderedPair(pair))
  IN  /\ EnsureRouteSize(route)
      /\ EnsureRouteArguments(pair, route)
      /\ \A i \in DOMAIN route : route[i].pool \in OraclePools
      /\ \E amounts \in {ValidateRoute(old)} :
           IF amounts = None THEN ValidateRoute(new) # None ELSE BetterThan(new, old, amounts)
      /\ InsertRoute(pair, route)
      /\ UNCHANGED balance

\* Governance stores a route without any comparison.
ForceInsertRoute(pair, route) ==
  /\ InsertRoute(pair, route)
  /\ UNCHANGED balance

----------------------------------------------------------------------------
(* Properties *)

\* No pool is visited twice.
Simple(route) == \A i, j \in DOMAIN route : i # j => route[i].pool # route[j].pool

\* Whatever the router's account has been left with, a sale along a route that visits no pool twice gives
\* at least what calculate_sell_trade_amounts promised, and exactly that when the account held nothing.
PaysAtLeastTheQuote(who, pair, amount, route) ==
  LET after == Sold(balance, who, pair, amount, 0, route)
      got == after[who][pair.out] - balance[who][pair.out]
      quote == ExpectedAmountOut(balance, route, amount)
  IN  after # None =>
        IF \A a \in Assets : balance[Router][a] = 0 THEN got = quote ELSE got >= quote

\* A purchase along such a route takes from the trader what calculate_buy_trade_amounts promised, gives
\* the amount asked for and whatever the router held of it, and leaves the rest of the router's account as
\* it was: the amounts computed before the first hop are right for the later ones.
BuysExactly(who, pair, amount, route) ==
  LET after == Bought(balance, who, pair, amount, balance[who][pair.in], route)
  IN  after # None =>
        /\ after[who][pair.in] = balance[who][pair.in] - BuyTradeAmounts(balance, route, amount)[1]
        /\ after[who][pair.out] = balance[who][pair.out] + amount + balance[Router][pair.out]
        /\ \A a \in Assets \ {pair.out} : after[Router][a] = balance[Router][a]

\* Whichever way a pair is asked for, the route on chain leads from the one asset to the other.
RoutesConnect == \A pair \in OrderedPairs : \A p \in {pair, Flipped(pair)} : EnsureRouteArguments(p, GetRoute(p))
=============================================================================
