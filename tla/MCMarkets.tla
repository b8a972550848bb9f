----------------------------- MODULE MCMarkets -----------------------------
(***************************************************************************)
(* Markets that do not act on each other: the stable pool with the Hollar  *)
(* stability module, OTC orders with the router and their settlement, the  *)
(* EMA oracle and the bootstrapping pools.  `market` says which of them a  *)
(* behaviour is about; the variables of the others are None.               *)
(* A behaviour of the stable pool begins before the pool exists, or with a *)
(* funded pool whose reserves are out of balance and a pallet that sold    *)
(* eight Hollar at par: states that longer sequences of calls lead to.     *)
(***************************************************************************)
EXTENDS HSM, TLC

CONSTANTS alice, bob, treasury, router, settler, omnipool, xyk, feed

VARIABLES
  market,
  routes, orders, reserved, nextOrderId, placed, spent,               \* orders
  accumulator, oracles, whitelisted, external, authorized, reports,   \* oracle
  poolData, feeCollectorWithAsset, lock, held, raised, relay, steps   \* sales

stableOnly == <<poolVars, target, reserve, shares, blockVars, calls, hsmVars>>
ordersOnly == <<routes, orders, reserved, nextOrderId, placed, spent>>
oracleOnly == <<accumulator, oracles, whitelisted, external, authorized, reports>>
salesOnly == <<poolData, feeCollectorWithAsset, lock, held, raised, relay, steps>>
marketVars == <<market, stableOnly, ordersOnly, oracleOnly, salesOnly, block, balance>>

----------------------------------------------------------------------------
(* The stable pool *)

MCScale == <<1, 1>>
OneToOne == <<<<1, 1>>, <<1, 1>>>>
MCPegPrices == <<{<<1, 1>>}, {<<1, 1>>, <<3, 2>>}>>
MCCoefficients == {<<1, 1>>}
MCTradabilityStates == {{"buy"}}

PlainPool == [reserves |-> <<90, 10>>, pegs |-> None]
PeggedPool == [reserves |-> <<12, 60>>, pegs |-> [current |-> OneToOne, updatedAt |-> 0, maxUpdate |-> 1]]

Running ==
  /\ \E seed \in {PlainPool, PeggedPool} : reserve = seed.reserves /\ pegInfo = seed.pegs
  /\ pool = [initial |-> 2, final |-> 2, initialBlock |-> 0, finalBlock |-> 0, fee |-> 10]
  /\ target = OneToOne
  /\ issuance = CalculateD(reserve, 2, target) - 2
  /\ shares \in {[u \in Users |-> IF u = v THEN issuance ELSE 0] : v \in Users}
  /\ snapshot = None /\ blockFee = None
  /\ tradability = [a \in Assets |-> Operations]
  /\ balance = [u \in Users |-> [a \in Assets |-> InitialBalance]]
  /\ block = 1 /\ calls = 0
  /\ collateral \in Infos /\ holding = 8 /\ received = 0 /\ profit = 0
  /\ net = 8 /\ buybacks = 0 /\ tradedAt = {<<1, 1>>} /\ opening = reserve

----------------------------------------------------------------------------
(* Orders and routes *)

Holding(a1, a2, a3) == [a \in 1..3 |-> <<a1, a2, a3>>[a]]
Wealth ==
  (alice :> Holding(30, 60, 0)) @@ (bob :> Holding(40, 0, 20)) @@ (omnipool :> Holding(200, 210, 190)) @@
  (xyk :> Holding(900, 945, 0)) @@ (settler :> Holding(3, 3, 0)) @@
  [u \in {router, treasury} |-> Holding(0, 0, 0)]

Trade(venue, in, out) == [pool |-> venue, in |-> in, out |-> out]
Offer(in, out, amountIn, amountOut, partial) ==
  [in |-> in, out |-> out, amountIn |-> amountIn, amountOut |-> amountOut, partial |-> partial]

Otc == INSTANCE OTC WITH
  Accounts <- DOMAIN Wealth, Assets <- 1..3, Router <- router,
  Pools <- (omnipool :> {1, 2, 3}) @@ (xyk :> {1, 2}), DefaultPool <- omnipool, OraclePools <- {omnipool, xyk},
  MAX_NUMBER_OF_TRADES <- 3, MinTradingLimit <- 2, MaxInRatio <- 3, MaxOutRatio <- 3, ReferenceShare <- 10,
  FeeNumerator <- 1, FeeDenominator <- 10, OrderIds <- {0, 1}, FeeReceiver <- treasury, Fee <- 5, PERMILL <- 100,
  MinOrderAmount <- 5, Settler <- settler, ProfitReceiver <- treasury, MinProfitPercentage <- 4,
  Makers <- {alice}, Traders <- {bob}, Amounts <- {7, 12},
  Offers <- {Offer(1, 2, 20, 30, TRUE), Offer(1, 2, 15, 11, FALSE), Offer(3, 1, 9, 22, TRUE)},
  UserRoutes <- {<<Trade(xyk, 1, 2)>>, <<Trade(xyk, 2, 1)>>, <<Trade(xyk, 1, 2), Trade(omnipool, 2, 3)>>,
                 <<Trade(omnipool, 3, 2), Trade(xyk, 2, 1)>>,
                 <<Trade(xyk, 1, 2), Trade(xyk, 2, 1), Trade(omnipool, 1, 3)>>, <<Trade(xyk, 1, 3)>>},
  RouterCost <- 2, Budget <- 4

----------------------------------------------------------------------------
(* The oracle *)

Smoothing(p) == IF p = "Short" THEN [n |-> 1, d |-> 2] ELSE [n |-> 1, d |-> 4]

Ema == INSTANCE EmaOracle WITH
  LastBlock <- "LastBlock", Periods <- {"LastBlock", "Short", "Day"}, Keys <- [src : {omnipool, feed}, pair : {1}],
  Internal <- {omnipool}, Accounts <- {alice}, ExternalPrices <- {2048},
  Reports <- {[price |-> 1024, volume |-> 2048, shares |-> None], [price |-> 3072, volume |-> 0, shares |-> 1024]},
  MaxUniqueEntries <- 1, MaxBlock <- 5, MaxReports <- 3

----------------------------------------------------------------------------
(* The bootstrapping pools *)

Sale(assets, collector) ==
  [owner |-> alice, start |-> None, end |-> None, assets |-> assets, initial_weight |-> 90, final_weight |-> 17,
   fee |-> <<1, 3>>, fee_collector |-> collector, repay_target |-> 2]
NoChange ==
  [owner |-> None, start |-> None, end |-> None, initial_weight |-> None, final_weight |-> None, fee |-> None,
   fee_collector |-> None, repay_target |-> None]
Change(collector, start, end) == [NoChange EXCEPT !.fee_collector = collector, !.start = start, !.end = end]

Lbp == INSTANCE LBP WITH
  Tokens <- 1..3, Owners <- {alice, bob}, Collectors <- {treasury, settler},
  NewPools <- {Sale(<<1, 2>>, treasury), Sale(<<1, 3>>, treasury), Sale(<<1, 3>>, settler), Sale(<<2, 1>>, treasury)},
  Updates <- {Change(None, 1, 3), Change(None, 2, 3), Change(settler, None, None), Change(treasury, 2, 4),
              Change(None, 3, None), [NoChange EXCEPT !.owner = bob, !.final_weight = 98]},
  Liquidity <- 9, TradeAmounts <- {3}, MinPoolLiquidity <- 5, MaxInRatio <- 3, MaxOutRatio <- 3,
  RepayFee <- <<1, 2>>, MAX_WEIGHT <- 100, MAX_SALE_DURATION <- 3, MaxRelayBlock <- 4, MaxSteps <- 5

----------------------------------------------------------------------------

NoStable ==
  /\ pool = None /\ pegInfo = None /\ target = None /\ reserve = None /\ issuance = None /\ tradability = None
  /\ snapshot = None /\ blockFee = None /\ shares = None /\ calls = None /\ collateral = None /\ holding = None
  /\ received = None /\ profit = None /\ net = None /\ buybacks = None /\ tradedAt = None /\ opening = None
NoOrders ==
  /\ routes = None /\ orders = None /\ reserved = None /\ nextOrderId = None /\ placed = None /\ spent = None
NoOracle ==
  /\ accumulator = None /\ oracles = None /\ whitelisted = None /\ external = None /\ authorized = None /\ reports = None

NoSales ==
  /\ poolData = None /\ feeCollectorWithAsset = None /\ lock = None /\ held = None /\ raised = None
  /\ relay = None /\ steps = None

OnStable == market = "stable"
OnOrders == market = "orders"
OnOracle == market = "oracle"
OnSales == market = "sales"

MarketInit ==
  \/ OnStable /\ NoOrders /\ NoOracle /\ NoSales /\ ((Init /\ HSMInit) \/ Running)
  \/ OnOrders /\ Otc!Init /\ NoStable /\ NoOracle /\ NoSales /\ block = None
  \/ OnOracle /\ Ema!Init /\ NoStable /\ NoOrders /\ NoSales /\ balance = None
  \/ OnSales /\ Lbp!LBPInit /\ NoStable /\ NoOrders /\ NoOracle /\ block = None /\ balance = None

MarketNext ==
  \/ OnStable /\ HSMNext /\ UNCHANGED <<market, ordersOnly, oracleOnly, salesOnly>>
  \/ OnOrders /\ Otc!Next /\ UNCHANGED <<market, stableOnly, oracleOnly, salesOnly, block>>
  \/ OnOracle /\ Ema!Next /\ UNCHANGED <<market, stableOnly, ordersOnly, salesOnly, balance>>
  \/ OnSales /\ Lbp!LBPNext /\ UNCHANGED <<market, stableOnly, ordersOnly, oracleOnly, block, balance>>

MarketSpec == MarketInit /\ [][MarketNext]_marketVars

Symmetry == Permutations(Users)

----------------------------------------------------------------------------

(* What is issued is backed.  The shares that prices are computed from are *)
(* the ones the holders have (ensure_issuance_in_sync), and no call leaves *)
(* shares in a pool that lost a reserve; the D that they are priced by is  *)
(* never below the exact one (calculate_d).  The collateral of the         *)
(* stability module pays for the Hollar it minted, but for less than one   *)
(* unit for each time it bought Hollar back, and in a block it buys back   *)
(* no more than the imbalance that the block began with allows.            *)
IssuedIsBacked == OnStable => SharesBacked /\ DNotBelowExact /\ CollateralBacksHollar /\ BuybackWithinLimit

(* Every call of a block is priced with the pegs and the fee of the first, *)
(* the snapshot that others price against stays the same throughout it     *)
(* (initial_pool_snapshot), and while amplification and pegs stay no call  *)
(* lets D per share fall.                                                  *)
StablePoolKept == [][OnStable => PriceOfBlockKept /\ SnapshotKept /\ ShareValueKept]_marketVars

(* A trade through a route pays and costs what its pools quoted, in every  *)
(* state that trades and orders reach (do_sell, buy), and a stored route   *)
(* leads from the first asset of its pair to the second.                   *)
QuotesHonoured == OnOrders => Otc!QuotesHonoured /\ Otc!RoutesConnect

(* However orders are filled in parts, settled and cancelled: what makers  *)
(* have reserved is exactly what their open orders offer, nobody gives     *)
(* more for what came in than at the order's price, and no open order is   *)
(* too small to be filled (ensure_min_order_amount).                       *)
OrdersKept == OnOrders => Otc!ReservesMatchOrders /\ Otc!MakerPriceKept /\ Otc!OpenOrdersSizeable

(* The oracle, which updates an average only when a pool is active or      *)
(* somebody reads, tells what one that updates in every block would.       *)
ImplementsEveryBlock ==
  /\ OnOracle => Ema!EveryBlock!Init
  /\ [][OnOracle => [Ema!EveryBlock!Next]_(Ema!EveryBlock!vars)]_marketVars

(* From its first to its last block a sale keeps its pool and its terms    *)
(* (update_pool_data, remove_liquidity).  No two sales ever share a        *)
(* collector in the same asset, and the lock of a collector is what its    *)
(* pool raised: a new collector takes over before anything is raised, and  *)
(* the lock ends with the pool (execute_trade, remove_liquidity).  The     *)
(* weights stay on the line between the first and the last ones            *)
(* (calculate_linear_weights).                                             *)
SalesConsistent == Lbp!CollectorsMatchPools /\ Lbp!LocksMatchSales /\ Lbp!WeightsOnTheLine
SalesKept == [][OnSales => Lbp!TermsKept /\ SalesConsistent']_marketVars
=============================================================================
