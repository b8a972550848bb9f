-------------------------------- MODULE OTC ---------------------------------
(***************************************************************************)
(* Orders over the counter (pallets/otc).  The maker's side of an order is *)
(* held in a named reserve while the order is open; takers fill it, whole  *)
(* or in parts, at the price of the order less a fee.  A call that fails   *)
(* has no effect.                                                          *)
(***************************************************************************)
EXTENDS RouteExecutor, FiniteSets

CONSTANTS
  OrderIds,         \* 0..n, the orders of an instance
  FeeReceiver, Fee, PERMILL,
  MinOrderAmount    \* existential deposit times the multiplier

VARIABLES
  orders,           \* Orders: a record or None for each id
  reserved,         \* the named reserve of each account in each asset
  nextOrderId,
  placed            \* history: each order as it was placed, and what its owner gave and received

otcVars == <<orders, reserved, nextOrderId, placed>>

OTCInit ==
  /\ orders = [id \in OrderIds |-> None]
  /\ reserved = [u \in Accounts |-> [a \in Assets |-> 0]]
  /\ nextOrderId = 0
  /\ placed = [id \in OrderIds |-> None]

CalculateOrderFee(amount) == (Fee * amount + PERMILL - 1) \div PERMILL

\* An order that can be taken: neither side of it is dust.
Sizeable(amountIn, amountOut) ==
  /\ amountIn >= MinOrderAmount
  /\ amountOut - CalculateOrderFee(amountOut) >= MinOrderAmount

PlaceOrder(owner, assetIn, assetOut, amountIn, amountOut, partial) ==
  LET order == [owner |-> owner, assetIn |-> assetIn, assetOut |-> assetOut,
                amountIn |-> amountIn, amountOut |-> amountOut, partial |-> partial]
  IN  /\ nextOrderId \in OrderIds
      /\ Sizeable(amountIn, amountOut)
      /\ Holds(balance, owner, assetOut, amountOut)
      /\ balance' = [balance EXCEPT ![owner][assetOut] = @ - amountOut]
      /\ reserved' = [reserved EXCEPT ![owner][assetOut] = @ + amountOut]
      /\ orders' = [orders EXCEPT ![nextOrderId] = order]
      /\ placed' = [placed EXCEPT ![nextOrderId] = [order |-> order, given |-> 0, received |-> 0]]
      /\ nextOrderId' = nextOrderId + 1

\* The history of an order follows what its owner really has, reserved or not.
Recorded(id) ==
  LET order == orders[id]
      gain(a) == (balance'[order.owner][a] + reserved'[order.owner][a]) - (balance[order.owner][a] + reserved[order.owner][a])
  IN  placed' = [placed EXCEPT ![id].given = @ - gain(order.assetOut), ![id].received = @ + gain(order.assetIn)]

(* A mutant: the maker's part is rounded up.                               *)
PartialAmountRoundedUp(order, amountIn) == (order.amountOut * amountIn + order.amountIn - 1) \div order.amountIn

PartialAmountOut(order, amountIn) == (order.amountOut * amountIn) \div order.amountIn

Rest(order, amountIn, amountOut) == [order EXCEPT !.amountIn = @ - amountIn, !.amountOut = @ - amountOut]

\* ensure_remaining_order_valid.
RestValid(order, amountIn, amountOut) ==
  /\ amountIn <= order.amountIn
  /\ amountOut <= order.amountOut
  /\ Sizeable(order.amountIn - amountIn, order.amountOut - amountOut)

\* The maker's tokens leave the reserve: the taker gets them less the fee.
Released(wallets, order, filler, amountOut) ==
  LET fee == CalculateOrderFee(amountOut)
      unreserved == [wallets EXCEPT ![order.owner][order.assetOut] = @ + amountOut]
  IN  Pay(Pay(unreserved, order.assetOut, order.owner, filler, amountOut - fee), order.assetOut, order.owner, FeeReceiver, fee)

\* The reserve after a release; unreserve_named fails where there is too little.
Unreserve(order, amount) ==
  /\ reserved[order.owner][order.assetOut] >= amount
  /\ reserved' = [reserved EXCEPT ![order.owner][order.assetOut] = @ - amount]

\* execute_order: the taker pays first.
ExecuteOrder(id, order, who, amountIn, amountOut) ==
  /\ Holds(balance, who, order.assetIn, amountIn)
  /\ Unreserve(order, amountOut)
  /\ balance' = Released(Pay(balance, order.assetIn, who, order.owner, amountIn), order, who, amountOut)
  /\ Recorded(id)
  /\ UNCHANGED nextOrderId

PartialFillOrder(who, id, amountIn) ==
  LET order == orders[id]
  IN  /\ order # None
      /\ order.partial
      /\ \E amountOut \in {PartialAmountOut(order, amountIn)} :
           /\ RestValid(order, amountIn, amountOut)
           /\ ExecuteOrder(id, order, who, amountIn, amountOut)
           /\ orders' = [orders EXCEPT ![id] = Rest(order, amountIn, amountOut)]

FillOrder(who, id) ==
  /\ orders[id] # None
  /\ ExecuteOrder(id, orders[id], who, orders[id].amountIn, orders[id].amountOut)
  /\ orders' = [orders EXCEPT ![id] = None]

CancelOrder(who, id) ==
  /\ orders[id] # None
  /\ orders[id].owner = who
  /\ Unreserve(orders[id], orders[id].amountOut)
  /\ balance' = [balance EXCEPT ![who][orders[id].assetOut] = @ + orders[id].amountOut]
  /\ orders' = [orders EXCEPT ![id] = None]
  /\ Recorded(id)
  /\ UNCHANGED nextOrderId

\* fill_order_with_deferred_delivery: the filler gets the maker's tokens, Delivered(wallets, amount) is
\* what its callback makes of the balances (None on an error), and only then does the filler pay.
AmountOutOf(order, amountIn) ==
  IF amountIn = order.amountIn THEN order.amountOut ELSE PartialAmountOut(order, amountIn)

FillWithDeferredDelivery(id, filler, amountIn, Delivered(_, _)) ==
  LET order == orders[id]
      amountOut == AmountOutOf(order, amountIn)
      delivered == Delivered(Released(balance, order, filler, amountOut), amountOut - CalculateOrderFee(amountOut))
  IN  IF /\ order # None
         /\ amountIn <= order.amountIn
         /\ amountIn # order.amountIn => order.partial /\ RestValid(order, amountIn, amountOut)
         /\ reserved[order.owner][order.assetOut] >= amountOut
         /\ delivered # None
      THEN IF Holds(delivered, filler, order.assetIn, amountIn)
           THEN Pay(delivered, order.assetIn, filler, order.owner, amountIn) ELSE None
      ELSE None

\* What the deferred fill leaves of the order.
OrderAfter(order, amountIn) ==
  IF amountIn = order.amountIn THEN None ELSE Rest(order, amountIn, PartialAmountOut(order, amountIn))

----------------------------------------------------------------------------
(* Properties *)

OpenOrders == {id \in OrderIds : orders[id] # None}

\* What the pallet holds in reserve for an account is what its open orders still offer: after any mix of
\* partial fills, settlements and cancellations the maker can get every token back, and no more.
ReservesMatchOrders ==
  \A u \in Accounts, a \in Assets :
    reserved[u][a] =
      FoldFunctionOnSet(LAMBDA order, sum : order.amountOut + sum, 0, orders,
                        {id \in OpenOrders : orders[id].owner = u /\ orders[id].assetOut = a})

\* No sequence of partial fills leaves an order too small to be placed.
OpenOrdersSizeable == \A id \in OpenOrders : Sizeable(orders[id].amountIn, orders[id].amountOut)

\* However an order is cut into pieces, filled or settled, its owner has been paid at least its price for
\* what they gave up, fees and rounding included.
MakerPriceKept ==
  \A id \in 0..(nextOrderId - 1) :
    placed[id].given * placed[id].order.amountIn <= placed[id].received * placed[id].order.amountOut

-----------------------------------------------------------------------------
(***************************************************************************)
(* The settlement of orders against the pools                              *)
(* (pallets/otc-settlements), with the two pallets it works on.  The       *)
(* pallet takes the maker's tokens, sells them along the route on chain,   *)
(* pays the maker from what they brought and keeps the difference for the  *)
(* treasury, all in one call.                                              *)
(* Anybody may trade, fill or cancel between the moment an off-chain       *)
(* worker picks an order and an amount and the block that has its call, so *)
(* the call comes with any amount.                                         *)
(***************************************************************************)

CONSTANTS
  Settler,                  \* account_id of the pallet
  ProfitReceiver, MinProfitPercentage,
  Makers, Traders, Amounts,
  Offers,                   \* new orders: [in, out, amountIn, amountOut, partial]
  UserRoutes,               \* the routes that callers name
  Wealth,                   \* initial balances
  RouterCost, Budget        \* bounds: the cost of a call to the router, and of all calls

VARIABLE spent              \* cost of the calls so far

vars == <<balance, routes, otcVars, spent>>

Init ==
  /\ balance = Wealth
  /\ RouterInit
  /\ OTCInit
  /\ spent = 0

EnsureMinProfit(order, profit) == profit >= (MinProfitPercentage * order.amountIn) \div PERMILL

\* The callback: the settlement sells all it got, for at least what it owes the maker.
Delivered(order, amountIn, wallets, amountOut) ==
  LET sold == Sold(wallets, Settler, Pair(order.assetOut, order.assetIn), amountOut, 1,
                   GetRoute(Pair(order.assetOut, order.assetIn)))
  IN  IF sold = None THEN None
      ELSE IF sold[Settler][order.assetIn] - balance[Settler][order.assetIn] < amountIn THEN None
      ELSE sold

\* settle_otc as it runs in a block.
SettleOtcOrder(id, amount) ==
  LET order == orders[id]
      filled == FillWithDeferredDelivery(id, Settler, amount, LAMBDA w, out : Delivered(order, amount, w, out))
      profit(wallets) == wallets[Settler][order.assetIn] - balance[Settler][order.assetIn]
      settled(wallets) == Pay(wallets, order.assetIn, Settler, ProfitReceiver, profit(wallets))
  IN  /\ order # None
      /\ order.partial \/ order.amountIn = amount
      /\ \E wallets \in {filled} :
           /\ wallets # None
           /\ profit(wallets) >= 0
           /\ EnsureMinProfit(order, profit(wallets))
           /\ \A a \in {order.assetIn, order.assetOut} : settled(wallets)[Settler][a] = balance[Settler][a]
           /\ balance' = settled(wallets)
      /\ Unreserve(order, AmountOutOf(order, amount))
      /\ orders' = [orders EXCEPT ![id] = OrderAfter(order, amount)]
      /\ Recorded(id)
      /\ UNCHANGED <<nextOrderId, routes>>

EndsOf(route) == Pair(route[1].in, Last(route).out)

RouterCall ==
  /\ \/ \E who \in Traders, named \in UserRoutes, amount \in Amounts : \E route \in {named, <<>>} :
          \/ Sell(who, EndsOf(named), amount, 1, route)
          \/ Buy(who, EndsOf(named), amount, balance[who][named[1].in], route)
     \/ \E who \in Traders, named \in UserRoutes : SellAll(who, EndsOf(named), 1, named)
     \/ \E route \in UserRoutes : SetRoute(EndsOf(route), route)
     \/ \E route \in UserRoutes : ForceInsertRoute(EndsOf(route), route)
  /\ UNCHANGED otcVars
  /\ spent' = spent + RouterCost

OTCCall ==
  /\ \/ \E who \in Makers, offer \in Offers :
          PlaceOrder(who, offer.in, offer.out, offer.amountIn, offer.amountOut, offer.partial)
     \/ \E who \in Traders, id \in OrderIds : FillOrder(who, id)
     \/ \E who \in Makers, id \in OrderIds : CancelOrder(who, id)
     \/ \E who \in Traders, id \in OrderIds, amount \in Amounts : PartialFillOrder(who, id, amount)
  /\ UNCHANGED routes
  /\ spent' = spent + 1

SettlementCall ==
  /\ \E id \in OrderIds : orders[id] # None /\ \E amount \in Amounts \cup {orders[id].amountIn} : SettleOtcOrder(id, amount)
  /\ spent' = spent + 1

Next == spent < Budget /\ (RouterCall \/ OTCCall \/ SettlementCall)

Spec == Init /\ [][Next]_vars

----------------------------------------------------------------------------
(* Properties *)

\* Routes of simple shape that the quotes are checked on: those that callers name and those on chain.
QuotedRoutes == {route \in UserRoutes \cup {GetRoute(pair) : pair \in OrderedPairs} : Simple(route)}

\* Every quote of the router is honoured, whatever trades, fills and settlements went before.
QuotesHonoured ==
  \A who \in Traders, route \in QuotedRoutes, amount \in Amounts :
    /\ PaysAtLeastTheQuote(who, EndsOf(route), amount, route)
    /\ BuysExactly(who, EndsOf(route), amount, route)
=============================================================================
