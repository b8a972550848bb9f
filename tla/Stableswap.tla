----------------------------- MODULE Stableswap -----------------------------
(***************************************************************************)
(* The formulas of stable pools (math/src/stableswap), on integers and     *)
(* with the rounding of the code.  Reserves are sequences of amounts, pegs *)
(* are sequences of <<numerator, denominator>>, fees are in units of       *)
(* 1 / PERMILL.  None stands for the Option's None.  Scale[i] is what one  *)
(* unit of asset i is in the precision the formulas work with, 10 to the   *)
(* 18 minus its decimals in the code.                                      *)
(***************************************************************************)
EXTENDS Integers, Sequences, FiniteSets

CONSTANTS
  None,
  PERMILL,            \* Permill::ACCURACY
  PERBILL,            \* Perbill::ACCURACY
  Scale,
  D_ITERATIONS,
  Y_ITERATIONS

LOCAL INSTANCE SequencesExt
LOCAL INSTANCE Functions

Total(s) == FoldSeq(LAMBDA x, sum : x + sum, 0, s)
Diff(a, b) == IF a > b THEN a - b ELSE b - a

\* normalize_value, to the target precision and back; up is one more even where the division is exact.
NormalizeReserves(reserves) == [i \in 1 .. Len(reserves) |-> reserves[i] * Scale[i]]
BackDown(asset, amount) == amount \div Scale[asset]
BackUp(asset, amount) == IF Scale[asset] = 1 THEN amount ELSE amount \div Scale[asset] + 1

PegReserves(reserves, pegs) == [i \in 1 .. Len(reserves) |-> (reserves[i] * pegs[i][1]) \div pegs[i][2]]

\* The reserves in ascending order, without the zero ones.
Positive(xp) == SortSeq(SelectSeq(xp, LAMBDA v : v > 0), LAMBDA a, b : a < b)
SomeButNotAllZero(xp) == Len(Positive(xp)) \notin {0, Len(xp)}

\* Equal to the previous value, or one above it: never below.
HasConverged(v0, v1) == v1 = v0 \/ v1 = v0 + 1

CalculateAnn(n, amplification) == amplification * n

----------------------------------------------------------------------------
(* Newton's method for D and for one reserve *)

\* d * (d / (n * x_1)) * ... * (d / (n * x_k))
Spread(xp, n, d) == FoldLeft(LAMBDA acc, v : (acc * d) \div (v * n), d, xp)

DNext(xp, n, ann, d, dp) == ((ann * Total(xp) + dp * n) * d) \div ((ann - 1) * d + (n + 1) * dp) + 2

RECURSIVE DNewton(_, _, _, _)
RECURSIVE DConverge(_, _, _, _, _)

DNewton(xp, ann, d, left) ==
  IF left = 0 THEN d ELSE DConverge(xp, ann, d, DNext(xp, Len(xp), ann, d, Spread(xp, Len(xp), d)), left)
DConverge(xp, ann, d, next, left) ==
  IF HasConverged(d, next) THEN next ELSE DNewton(xp, ann, next, left - 1)

\* calculate_d_internal, of normalized and pegged reserves: all are zero, or none is.
DInternal(xp, amplification) ==
  IF SomeButNotAllZero(xp) THEN None
  ELSE IF Total(xp) = 0 THEN 0
  ELSE DNewton(Positive(xp), CalculateAnn(Len(xp), amplification), Total(xp), D_ITERATIONS)

CalculateD(reserves, amplification, pegs) ==
  DInternal(PegReserves(NormalizeReserves(reserves), pegs), amplification)

RECURSIVE YNewton(_, _, _, _)
RECURSIVE YConverge(_, _, _, _, _)

\* b is what the code has, less d; None where the code's subtraction or division fails.
YNewton(y, b, c, left) ==
  IF left = 0 THEN y
  ELSE IF 2 * y + b <= 0 THEN None
  ELSE YConverge(y, (y * y + c) \div (2 * y + b) + 2, b, c, left)
YConverge(y, next, b, c, left) ==
  IF HasConverged(y, next) THEN next ELSE YNewton(next, b, c, left - 1)

YOf(xp, n, ann, d) ==
  YNewton(d, Total(xp) + d \div ann - d, (Spread(xp, n, d) * d) \div (ann * n), Y_ITERATIONS)

Unpegged(y, peg) == IF y = None THEN None ELSE (y * peg[2]) \div peg[1]

YOfOthers(others, d, amplification, peg) ==
  IF SomeButNotAllZero(others) THEN None
  ELSE Unpegged(YOf(Positive(others), Len(Positive(others)) + 1, CalculateAnn(Len(Positive(others)) + 1, amplification), d), peg)

\* calculate_y_internal: the reserve of `omit` that goes with the other ones at the invariant d.
YInternal(reserves, omit, d, amplification, pegs) ==
  YOfOthers(RemoveAt(PegReserves(reserves, pegs), omit), d, amplification, pegs[omit])

YGivenD(reserves, omit, d, amplification, pegs) ==
  IF d = None THEN None ELSE YInternal(reserves, omit, d, amplification, pegs)

----------------------------------------------------------------------------
(* Trades: the amount for the trader, before and after the fee *)

Less1(amount) == IF amount = 0 THEN 0 ELSE amount - 1

\* y is the new reserve of the asset bought, of the asset sold.
AmountOut(reserves, out, y) ==
  IF y = None THEN None
  ELSE IF y > reserves[out] * Scale[out] THEN None ELSE Less1(BackDown(out, reserves[out] * Scale[out] - y))
AmountIn(reserves, in, y) ==
  IF y = None THEN None
  ELSE IF y < reserves[in] * Scale[in] THEN None ELSE BackUp(in, y - reserves[in] * Scale[in]) + 1

CalculateOutGivenIn(reserves, in, out, amountIn, amplification, pegs) ==
  AmountOut(reserves, out,
            YGivenD(NormalizeReserves([reserves EXCEPT ![in] = @ + amountIn]), out,
                    CalculateD(reserves, amplification, pegs), amplification, pegs))

CalculateInGivenOut(reserves, in, out, amountOut, amplification, pegs) ==
  IF amountOut > reserves[out] THEN None
  ELSE AmountIn(reserves, in,
                YGivenD(NormalizeReserves([reserves EXCEPT ![out] = @ - amountOut]), in,
                        CalculateD(reserves, amplification, pegs), amplification, pegs))

LessFee(amount, fee) == IF amount = None THEN None ELSE amount - (amount * fee) \div PERMILL
PlusFee(amount, fee) == IF amount = None THEN None ELSE amount + (amount * fee + PERMILL - 1) \div PERMILL

CalculateOutGivenInWithFee(reserves, in, out, amountIn, amplification, fee, pegs) ==
  LessFee(CalculateOutGivenIn(reserves, in, out, amountIn, amplification, pegs), fee)
CalculateInGivenOutWithFee(reserves, in, out, amountOut, amplification, fee, pegs) ==
  PlusFee(CalculateInGivenOut(reserves, in, out, amountOut, amplification, pegs), fee)

----------------------------------------------------------------------------
(* Liquidity *)

\* The part of an imbalance that the liquidity fee takes: fee * n / (4 * (n - 1)).
LiquidityFee(n, fee, diff) == (diff * fee * n) \div (PERMILL * 4 * (n - 1))

\* The updated reserves less the fee on their distance from the initial ones taken to d1.
Charge(reserve, charged) == IF charged > reserve THEN 0 ELSE reserve - charged
AdjustedReserves(initial, updated, d0, d1, fee) ==
  [i \in 1 .. Len(updated) |->
     Charge(updated[i], LiquidityFee(Len(updated), fee, Diff(updated[i], (d1 * initial[i]) \div d0)))]

\* The shares for the way from d0 to the D of the reserves after the fee.
SharesUpTo(adjusted, d0, issuance) ==
  IF adjusted = None THEN None
  ELSE IF adjusted < d0 THEN None ELSE (issuance * (adjusted - d0)) \div d0

SharesForReserves(initial, updated, d0, d1, amplification, issuance, fee, pegs) ==
  IF d1 < d0 THEN None
  ELSE IF issuance = 0 THEN d1
  ELSE IF d0 = 0 THEN None
  ELSE SharesUpTo(CalculateD(AdjustedReserves(initial, updated, d0, d1, fee), amplification, pegs), d0, issuance)

\* The code's margin for a D that is rounded up.
Below(d) == IF d = None THEN None ELSE d - 2

CalculateShares(initial, updated, amplification, issuance, fee, pegs) ==
  LET d0 == CalculateD(initial, amplification, pegs)
      d1 == Below(CalculateD(updated, amplification, pegs))
  IN  IF d0 = None \/ d1 = None THEN None
      ELSE SharesForReserves(initial, updated, d0, d1, amplification, issuance, fee, pegs)

SharesDownTo(adjusted, d0, issuance) ==
  IF adjusted = None THEN None
  ELSE IF adjusted > d0 THEN None ELSE (issuance * (d0 - adjusted)) \div d0 + 1

SharesForLess(initial, updated, d0, d1, amplification, issuance, fee, pegs) ==
  IF d0 \in {0, None} \/ d1 = None THEN None
  ELSE SharesDownTo(CalculateD(AdjustedReserves(initial, updated, d0, d1, fee), amplification, pegs), d0, issuance)

CalculateSharesForAmount(reserves, asset, amount, amplification, issuance, fee, pegs) ==
  LET updated == [reserves EXCEPT ![asset] = @ - amount]
  IN  IF amount > reserves[asset] THEN None
      ELSE SharesForLess(reserves, updated, CalculateD(reserves, amplification, pegs),
                         CalculateD(updated, amplification, pegs), amplification, issuance, fee, pegs)

CalculateLiquidityOut(reserve, shares, issuance) == (reserve * shares) \div issuance

\* Every reserve less the fee on its distance from its part of d1, and y in the place of its own part
\* for `asset`; None where a subtraction of the code fails.
Part(reserve, d0, d1) == (reserve * d1) \div d0
Distances(xp, asset, d0, d1, y) ==
  [i \in 1 .. Len(xp) |-> IF i = asset THEN Part(xp[i], d0, d1) - y ELSE xp[i] - Part(xp[i], d0, d1)]
ReducedBy(xp, distances, fee) ==
  IF \E i \in 1 .. Len(xp) : distances[i] < 0 THEN None
  ELSE [i \in 1 .. Len(xp) |-> xp[i] - LiquidityFee(Len(xp), fee, distances[i])]
Negated(distances) == [i \in 1 .. Len(distances) |-> -distances[i]]

\* What a withdrawal gives and what a deposit takes: y without the fee, y1 with it.
Withdrawn(xp, asset, y, reduced, y1) ==
  IF y1 = None THEN None
  ELSE IF reduced[asset] < y1 \/ xp[asset] - y < reduced[asset] - y1 THEN None
  ELSE BackDown(asset, reduced[asset] - y1)
Deposited(asset, y, reduced, y1) ==
  IF y1 = None THEN None
  ELSE IF y1 < reduced[asset] \/ y < reduced[asset] \/ y1 < y THEN None
  ELSE BackUp(asset, y1 - reduced[asset])

WithdrawnAt(xp, asset, d1, y, reduced, amplification, pegs) ==
  IF reduced = None THEN None
  ELSE IF \E i \in 1 .. Len(xp) : reduced[i] < 0 THEN None
  ELSE Withdrawn(xp, asset, y, reduced, YInternal(reduced, asset, d1, amplification, pegs))
DepositedAt(xp, asset, d1, y, reduced, amplification, pegs) ==
  IF reduced = None THEN None
  ELSE IF \E i \in 1 .. Len(xp) : reduced[i] < 0 THEN None
  ELSE Deposited(asset, y, reduced, YInternal(reduced, asset, d1, amplification, pegs))

WithdrawnForD(xp, asset, d0, d1, y, amplification, fee, pegs) ==
  IF y = None THEN None
  ELSE WithdrawnAt(xp, asset, d1, y, ReducedBy(xp, Distances(xp, asset, d0, d1, y), fee), amplification, pegs)
DepositedForD(xp, asset, d0, d1, y, amplification, fee, pegs) ==
  IF y = None THEN None
  ELSE DepositedAt(xp, asset, d1, y, ReducedBy(xp, Negated(Distances(xp, asset, d0, d1, y)), fee), amplification, pegs)

WithdrawnFrom(xp, asset, d0, d1, amplification, fee, pegs) ==
  WithdrawnForD(xp, asset, d0, d1, YInternal(xp, asset, d1, amplification, pegs), amplification, fee, pegs)
DepositedFrom(xp, asset, d0, d1, amplification, fee, pegs) ==
  DepositedForD(xp, asset, d0, d1, YInternal(xp, asset, d1, amplification, pegs), amplification, fee, pegs)

CalculateWithdrawOneAsset(reserves, shares, asset, issuance, amplification, fee, pegs) ==
  LET d0 == CalculateD(reserves, amplification, pegs)
  IN  IF shares = 0 \/ shares > issuance \/ d0 \in {0, None} THEN None
      ELSE WithdrawnFrom(NormalizeReserves(reserves), asset, d0, d0 - (shares * d0) \div issuance, amplification, fee, pegs)

CalculateAddOneAsset(reserves, shares, asset, issuance, amplification, fee, pegs) ==
  LET d0 == CalculateD(reserves, amplification, pegs)
  IN  IF shares = 0 \/ shares > issuance \/ d0 \in {0, None} THEN None
      ELSE DepositedFrom(NormalizeReserves(reserves), asset, d0, d0 + (shares * d0) \div issuance, amplification, fee, pegs)

----------------------------------------------------------------------------
(* Amplification and pegs over time *)

CalculateAmplification(initial, final, initialBlock, finalBlock, now) ==
  LET step == (Diff(final, initial) * (now - initialBlock)) \div (finalBlock - initialBlock)
  IN  IF now < initialBlock \/ finalBlock <= initialBlock THEN initial
      ELSE IF now >= finalBlock THEN final
      ELSE IF final > initial THEN initial + step ELSE initial - step

Above(p, q) == p[1] * q[2] > q[1] * p[2]

\* How far a peg is from its target, and how far it may move, as parts of the peg.
PegDistance(current, target) == <<Diff(target[1] * current[2], current[1] * target[2]), current[1] * target[2]>>
MaxPegMove(blocks, maxUpdate) == <<maxUpdate * blocks, PERBILL>>

PegMove(distance, most) == IF Above(distance, most) THEN most ELSE distance

NewPeg(current, target, blocks, maxUpdate) ==
  LET most == MaxPegMove(blocks, maxUpdate)
  IN  IF ~ Above(PegDistance(current, target), most) THEN target
      ELSE IF Above(target, current) THEN <<current[1] * (most[2] + most[1]), current[2] * most[2]>>
      ELSE <<current[1] * (most[2] - most[1]), current[2] * most[2]>>

\* calculate_target_fee: twice how far the pegs moved apart in one block, if that is above the fee.
\* factors[i] is one plus the signed move per block of peg i.
FeeForMoves(top, bottom, fee) ==
  LET apart == (2 * PERMILL * (top[1] * bottom[2] - bottom[1] * top[2])) \div (bottom[1] * top[2])
  IN  IF apart > PERMILL THEN PERMILL ELSE IF apart > fee THEN apart ELSE fee
CalculateTargetFee(factors, fee) ==
  LET Factors == {factors[i] : i \in 1 .. Len(factors)} \cup {<<1, 1>>}
  IN  FeeForMoves(CHOOSE r \in Factors : \A s \in Factors : ~ Above(s, r),
                  CHOOSE r \in Factors : \A s \in Factors : ~ Above(r, s), fee)

MoveFactor(move, blocks, up) == <<move[2] * blocks + (IF up THEN move[1] ELSE -move[1]), move[2] * blocks>>

\* The trade fee and the pegs `blocks` after the last update.
PegsAfter(current, target, blocks, maxUpdate, fee) ==
  [fee |-> CalculateTargetFee(
             [i \in 1 .. Len(current) |->
                MoveFactor(PegMove(PegDistance(current[i], target[i]), MaxPegMove(blocks, maxUpdate)),
                           blocks, Above(target[i], current[i]))], fee),
   pegs |-> [i \in 1 .. Len(current) |-> NewPeg(current[i], target[i], blocks, maxUpdate)]]

\* recalculate_pegs
RecalculatePegs(current, updatedAt, target, now, maxUpdate, fee) ==
  PegsAfter(current, target, IF now - updatedAt < 1 THEN 1 ELSE now - updatedAt, maxUpdate, fee)

-----------------------------------------------------------------------------
(***************************************************************************)
(* One pool of the stableswap pallet, from its creation to its removal,    *)
(* with the prices of the formulas above.  Its two assets are 1 and 2, its *)
(* reserves are the balances of the pool's account.  A call that the code  *)
(* refuses leaves the storage as it was and is no step.                    *)
(***************************************************************************)

CONSTANTS
  Users,
  InitialBalance,        \* of each asset, for each user
  MinTradingLimit,
  MinPoolLiquidity,
  Amplifications,        \* T::AmplificationRange
  Fees, Amounts, ShareAmounts, MaxPegUpdates,
  PegPrices,             \* what the peg sources of each asset may answer
  TradabilityStates,     \* subsets of Operations that the authority may set
  MaxBlock,              \* bound on the number of blocks
  MaxCalls               \* bound on the number of calls

Assets == {1, 2}
Other(asset) == 3 - asset
Operations == {"sell", "buy", "add", "remove"}

VARIABLES
  pool,         \* Pools: None or [initial, final, initialBlock, finalBlock, fee]
  pegInfo,      \* PoolPegs: None or [current, updatedAt, maxUpdate]
  target,       \* what the peg sources answer, per asset
  reserve,      \* balances of the pool's account
  issuance,     \* ShareIssuance
  tradability,  \* AssetTradability
  snapshot,     \* PoolSnapshots: None or [amplification, fee, blockFee, reserves, pegs, issuance]
  blockFee,     \* BlockFee
  shares,       \* balances of the share token
  balance,      \* the users' balances
  block,
  calls         \* calls made so far

poolVars == <<pool, pegInfo, issuance, tradability>>
moneyVars == <<reserve, shares, balance>>
blockVars == <<snapshot, blockFee>>
vars == <<poolVars, target, moneyVars, blockVars, block, calls>>

----------------------------------------------------------------------------
(* Amplification, pegs, fee and snapshot of the block *)

Amplification == CalculateAmplification(pool.initial, pool.final, pool.initialBlock, pool.finalBlock, block)

(* A mutant: every call asks the peg sources again.                        *)
PegsOfThisCall ==
  IF pegInfo = None THEN [fee |-> pool.fee, pegs |-> <<<<1, 1>>, <<1, 1>>>>]
  ELSE RecalculatePegs(pegInfo.current, pegInfo.updatedAt, target, block, pegInfo.maxUpdate, pool.fee)

\* get_updated_pegs: with the pegs of an earlier call in this block if there was one.
UpdatedPegs ==
  IF pegInfo = None THEN [fee |-> pool.fee, pegs |-> <<<<1, 1>>, <<1, 1>>>>]
  ELSE IF pegInfo.updatedAt = block
  THEN [fee |-> IF blockFee = None THEN pool.fee ELSE blockFee, pegs |-> pegInfo.current]
  ELSE RecalculatePegs(pegInfo.current, pegInfo.updatedAt, target, block, pegInfo.maxUpdate, pool.fee)

\* What a call is priced with.
TermsOf(updated) == [amplification |-> Amplification, fee |-> updated.fee, pegs |-> updated.pegs]
Terms == TermsOf(UpdatedPegs)

\* update_and_return_pegs_and_trade_fee
StorePegs(terms) ==
  /\ pegInfo' = IF pegInfo = None THEN None ELSE [pegInfo EXCEPT !.current = terms.pegs, !.updatedAt = block]
  /\ blockFee' = IF pegInfo = None THEN blockFee ELSE terms.fee

CreateSnapshot(terms) == [amplification |-> terms.amplification, fee |-> pool.fee, blockFee |-> terms.fee,
                          reserves |-> reserve, pegs |-> terms.pegs, issuance |-> issuance]
InitialPoolSnapshot(terms) == IF snapshot = None THEN CreateSnapshot(terms) ELSE snapshot
SaveSnapshot(terms) == snapshot' = InitialPoolSnapshot(terms)

\* The result of a formula, if it has one.
Some(result) == {result} \ {None}

DOf(terms, reserves) == CalculateD(reserves, terms.amplification, terms.pegs)

\* ensure_trade_invariant, after the transfers; the pegs of the check are the ones just stored.
TradeInvariant(terms, before, after) ==
  \E d0 \in Some(DOf(terms, before)), d1 \in Some(DOf(terms, after)) : d1 >= d0

\* ensure_add_liquidity_invariant: the value of a share does not fall.  The code compares in FixedU128.
AddInvariant(terms, before, after, issuanceAfter) ==
  \E d0 \in Some(DOf(terms, before)), d1 \in Some(DOf(terms, after)) :
    d1 >= d0 /\ (issuance = 0 \/ d1 * issuance >= d0 * issuanceAfter)

\* ensure_remove_liquidity_invariant
RemoveInvariant(terms, before, after, issuanceAfter) ==
  \E d0 \in Some(DOf(terms, before)), d1 \in Some(DOf(terms, after)) :
    d1 <= d0 /\ (issuanceAfter # 0 => issuance # 0 /\ d1 * issuance >= d0 * issuanceAfter)

Allowed(asset, operation) == operation \in tradability[asset]

----------------------------------------------------------------------------
(* The authority's calls *)

NewPool(amplification, fee) == [initial |-> amplification, final |-> amplification,
                                initialBlock |-> block, finalBlock |-> block, fee |-> fee]

CreatePool(amplification, fee) ==
  /\ pool = None
  /\ amplification \in Amplifications
  /\ pool' = NewPool(amplification, fee)
  /\ UNCHANGED <<pegInfo, target, issuance, tradability, moneyVars, blockVars, block>>

CreatePoolWithPegs(amplification, fee, maxUpdate) ==
  /\ pool = None
  /\ amplification \in Amplifications
  /\ pool' = NewPool(amplification, fee)
  /\ pegInfo' = [current |-> target, updatedAt |-> block, maxUpdate |-> maxUpdate]
  /\ UNCHANGED <<target, issuance, tradability, moneyVars, blockVars, block>>

UpdatePoolFee(fee) ==
  /\ pool # None
  /\ pool' = [pool EXCEPT !.fee = fee]
  /\ UNCHANGED <<pegInfo, target, issuance, tradability, moneyVars, blockVars, block>>

UpdateAmplification(final, startBlock, endBlock) ==
  /\ pool # None
  /\ endBlock > startBlock /\ startBlock >= block
  /\ Amplification # final
  /\ final \in Amplifications
  /\ pool' = [pool EXCEPT !.initial = Amplification, !.final = final,
                          !.initialBlock = startBlock, !.finalBlock = endBlock]
  /\ UNCHANGED <<pegInfo, target, issuance, tradability, moneyVars, blockVars, block>>

SetAssetTradableState(asset, state) ==
  /\ pool # None
  /\ tradability' = [tradability EXCEPT ![asset] = state]
  /\ UNCHANGED <<pool, pegInfo, target, issuance, moneyVars, blockVars, block>>

UpdatePoolMaxPegUpdate(maxUpdate) ==
  /\ pool # None /\ pegInfo # None
  /\ pegInfo' = [pegInfo EXCEPT !.maxUpdate = maxUpdate]
  /\ UNCHANGED <<pool, target, issuance, tradability, moneyVars, blockVars, block>>

\* A new peg source, with another answer than the old one.
UpdateAssetPegSource(asset, price) ==
  /\ pool # None /\ pegInfo # None
  /\ target' = [target EXCEPT ![asset] = price]
  /\ UNCHANGED <<poolVars, moneyVars, blockVars, block>>

----------------------------------------------------------------------------
(* Trades *)

SellResult(terms, in, amountIn) ==
  CalculateOutGivenInWithFee(reserve, in, Other(in), amountIn, terms.amplification, terms.fee, terms.pegs)
BuyResult(terms, out, amountOut) ==
  CalculateInGivenOutWithFee(reserve, Other(out), out, amountOut, terms.amplification, terms.fee, terms.pegs)

Traded(terms, in, amountIn, amountOut) ==
  /\ Allowed(in, "sell") /\ Allowed(Other(in), "buy")
  /\ reserve' = [reserve EXCEPT ![in] = @ + amountIn, ![Other(in)] = @ - amountOut]
  /\ TradeInvariant(terms, reserve, reserve')
  /\ StorePegs(terms)
  /\ SaveSnapshot(terms)
  /\ UNCHANGED <<pool, target, issuance, tradability, shares, block>>

\* The pool's side of a sell for amountOut, and of a buy for amountIn.
PoolSell(terms, in, amountIn, amountOut) ==
  /\ amountIn >= MinTradingLimit
  /\ reserve[1] > 0 /\ reserve[2] > 0
  /\ Traded(terms, in, amountIn, amountOut)
PoolBuy(terms, out, amountIn, amountOut) ==
  /\ amountOut >= MinTradingLimit
  /\ reserve[out] > amountOut /\ reserve[Other(out)] > 0
  /\ Traded(terms, Other(out), amountIn, amountOut)

Pay(who, asset, amount) == [balance EXCEPT ![who][asset] = @ - amount]
Swap(who, in, amountIn, amountOut) ==
  /\ balance[who][in] >= amountIn
  /\ balance' = [balance EXCEPT ![who] = [a \in Assets |-> IF a = in THEN @[a] - amountIn ELSE @[a] + amountOut]]

Sell(terms, who, in, amountIn) ==
  \E amountOut \in Some(SellResult(terms, in, amountIn)) :
    PoolSell(terms, in, amountIn, amountOut) /\ Swap(who, in, amountIn, amountOut)
Buy(terms, who, out, amountOut) ==
  \E amountIn \in Some(BuyResult(terms, out, amountOut)) :
    PoolBuy(terms, out, amountIn, amountOut) /\ Swap(who, Other(out), amountIn, amountOut)

----------------------------------------------------------------------------
(* Liquidity *)

MintShares(who, amount) ==
  /\ issuance' = issuance + amount
  /\ shares' = [shares EXCEPT ![who] = @ + amount]

BurnShares(who, amount) ==
  /\ issuance >= amount /\ shares[who] >= amount
  /\ issuance' = issuance - amount
  /\ shares' = [shares EXCEPT ![who] = @ - amount]

\* do_add_liquidity: amounts[a] = 0 if asset a is not among the ones provided.  What the account of a
\* pool without shares already holds counts as the first provider's.
AddLiquidity(terms, who, amounts) ==
  \E initial \in {IF issuance = 0 THEN <<0, 0>> ELSE reserve}, updated \in {[a \in Assets |-> reserve[a] + amounts[a]]} :
  \E minted \in Some(CalculateShares(initial, updated, terms.amplification, issuance, terms.fee, terms.pegs)) :
    /\ \A a \in Assets : amounts[a] > 0 =>
         Allowed(a, "add") /\ amounts[a] >= MinTradingLimit /\ balance[who][a] >= amounts[a]
    /\ \A a \in Assets : updated[a] > 0
    /\ minted > 0
    /\ shares[who] + minted >= MinPoolLiquidity
    /\ MintShares(who, minted)
    /\ reserve' = updated
    /\ balance' = [balance EXCEPT ![who] = [a \in Assets |-> @[a] - amounts[a]]]
    /\ AddInvariant(terms, initial, updated, issuance')
    /\ StorePegs(terms)
    /\ SaveSnapshot(terms)
    /\ UNCHANGED <<pool, target, tradability, block>>

\* do_add_liquidity_shares
AddLiquidityShares(terms, who, asset, minted) ==
  \E amount \in Some(CalculateAddOneAsset(reserve, minted, asset, issuance, terms.amplification, terms.fee, terms.pegs)) :
    /\ Allowed(asset, "add")
    /\ \A a \in Assets : reserve[a] > 0
    /\ amount > 0
    /\ shares[who] + minted >= MinPoolLiquidity
    /\ balance[who][asset] >= amount
    /\ MintShares(who, minted)
    /\ reserve' = [reserve EXCEPT ![asset] = @ + amount]
    /\ balance' = Pay(who, asset, amount)
    /\ AddInvariant(terms, reserve, reserve', issuance')
    /\ StorePegs(terms)
    /\ SaveSnapshot(terms)
    /\ UNCHANGED <<pool, target, tradability, block>>

\* The shares leave for `amount` of one asset, in both calls that withdraw one asset.
WithdrawOne(terms, who, asset, burned, amount) ==
  /\ Allowed(asset, "remove")
  /\ BurnShares(who, burned)
  /\ amount <= reserve[asset]
  /\ reserve' = [reserve EXCEPT ![asset] = @ - amount]
  /\ balance' = Pay(who, asset, -amount)
  /\ RemoveInvariant(terms, reserve, reserve', issuance')
  /\ StorePegs(terms)
  /\ SaveSnapshot(terms)
  /\ UNCHANGED <<pool, target, tradability, block>>

\* do_remove_liquidity_one_asset
RemoveLiquidityOneAsset(terms, who, asset, burned) ==
  \E amount \in Some(CalculateWithdrawOneAsset(reserve, burned, asset, issuance, terms.amplification, terms.fee, terms.pegs)) :
    /\ burned > 0 /\ shares[who] >= burned
    /\ issuance = burned \/ issuance - burned >= MinPoolLiquidity
    /\ amount > 0
    /\ WithdrawOne(terms, who, asset, burned, amount)

WithdrawAssetAmount(terms, who, asset, amount) ==
  \E burned \in Some(CalculateSharesForAmount(reserve, asset, amount, terms.amplification, issuance, terms.fee, terms.pegs)) :
    amount > 0 /\ WithdrawOne(terms, who, asset, burned, amount)

\* remove_liquidity: in proportion, at no price, so the pegs are not stored; the last shares take the
\* pool with them, but not what the block remembers of it.
RemoveLiquidity(terms, who, burned) ==
  LET last == burned = issuance
  IN  /\ burned > 0 /\ shares[who] >= burned
      /\ \A a \in Assets : Allowed(a, "remove")
      /\ shares' = [shares EXCEPT ![who] = @ - burned]
      /\ issuance' = issuance - burned
      /\ \E out \in {[a \in Assets |-> IF last THEN reserve[a] ELSE CalculateLiquidityOut(reserve[a], burned, issuance)]} :
           /\ reserve' = [a \in Assets |-> reserve[a] - out[a]]
           /\ balance' = [balance EXCEPT ![who] = [a \in Assets |-> @[a] + out[a]]]
      /\ pool' = IF last THEN None ELSE pool
      /\ pegInfo' = IF last THEN None ELSE pegInfo
      /\ tradability' = IF last THEN [a \in Assets |-> Operations] ELSE tradability
      /\ last \/ RemoveInvariant(terms, reserve, reserve', issuance')
      /\ SaveSnapshot(terms)
      /\ UNCHANGED <<target, blockFee, block>>

\* A transfer of `amount` to the pool's account, external.
Donate(who, asset, amount) ==
  /\ balance[who][asset] >= amount
  /\ reserve' = [reserve EXCEPT ![asset] = @ + amount]
  /\ balance' = Pay(who, asset, amount)
  /\ UNCHANGED <<poolVars, target, shares, blockVars, block>>

\* on_finalize, and the next block begins.
NewBlock ==
  /\ block < MaxBlock
  /\ block' = block + 1
  /\ snapshot' = None
  /\ blockFee' = None
  /\ UNCHANGED <<poolVars, target, moneyVars>>

----------------------------------------------------------------------------

Init ==
  /\ pool = None /\ pegInfo = None /\ snapshot = None /\ blockFee = None
  /\ target \in {t \in [Assets -> UNION {PegPrices[a] : a \in Assets}] : \A a \in Assets : t[a] \in PegPrices[a]}
  /\ reserve = <<0, 0>> /\ issuance = 0
  /\ tradability = [a \in Assets |-> Operations]
  /\ shares = [u \in Users |-> 0]
  /\ balance = [u \in Users |-> [a \in Assets |-> InitialBalance]]
  /\ block = 0 /\ calls = 0

AuthorityStep ==
  \/ \E a \in Amplifications, f \in Fees : CreatePool(a, f) \/ (\E m \in MaxPegUpdates : CreatePoolWithPegs(a, f, m))
  \/ \E f \in Fees : UpdatePoolFee(f)
  \/ \E a \in Amplifications, from, to \in 0 .. MaxBlock : UpdateAmplification(a, from, to)
  \/ \E a \in Assets, s \in TradabilityStates : SetAssetTradableState(a, s)
  \/ \E m \in MaxPegUpdates : UpdatePoolMaxPegUpdate(m)
  \/ \E a \in Assets : \E p \in PegPrices[a] : UpdateAssetPegSource(a, p)

UserStep ==
  /\ pool # None
  /\ \E terms \in {Terms}, who \in Users :
       \/ \E a \in Assets, x \in Amounts : \/ Sell(terms, who, a, x)
                                           \/ Buy(terms, who, a, x)
                                           \/ WithdrawAssetAmount(terms, who, a, x)
                                           \/ Donate(who, a, x)
       \/ \E x, y \in Amounts \cup {0} : x + y > 0 /\ AddLiquidity(terms, who, <<x, y>>)
       \/ \E a \in Assets, s \in ShareAmounts : \/ AddLiquidityShares(terms, who, a, s)
                                                \/ RemoveLiquidityOneAsset(terms, who, a, s)
       \/ \E s \in ShareAmounts \cup {shares[who]} : RemoveLiquidity(terms, who, s)

Next ==
  \/ calls < MaxCalls /\ calls' = calls + 1 /\ (AuthorityStep \/ UserStep)
  \/ NewBlock /\ UNCHANGED calls

Spec == Init /\ [][Next]_vars

----------------------------------------------------------------------------
(* Properties *)

(* The issuance that prices are computed from is the number of shares the  *)
(* holders have (ensure_issuance_in_sync), and shares stand for something: *)
(* no call leaves shares in a pool that lost one of its reserves.          *)
SharesBacked ==
  /\ issuance = SumFunctionOnSet(shares, Users)
  /\ issuance > 0 => pool # None /\ (\A a \in Assets : reserve[a] > 0)
  /\ pool = None => reserve = <<0, 0>> /\ pegInfo = None

(* Every call of a block is priced with the pegs and the fee of the first  *)
(* one, whatever the oracles and the authority do in between: as long as   *)
(* the pool lives, a stored peg changes only with the first priced call of *)
(* a later block.                                                          *)
PriceOfBlockKept ==
  (block' = block /\ pegInfo # None /\ pegInfo' # None /\ pegInfo.updatedAt = block) =>
    /\ pegInfo'.current = pegInfo.current
    /\ blockFee # None => blockFee' = blockFee

\* The exact invariant of the two pegged reserves is at most d.
Cubic(xp, ann, d) == d * d * d + (ann - 1) * 4 * xp[1] * xp[2] * d - ann * (xp[1] + xp[2]) * 4 * xp[1] * xp[2]
ExactDAtMost(xp, amplification, d) == Cubic(xp, CalculateAnn(2, amplification), d) >= 0
Pegged(pegs) == PegReserves(NormalizeReserves(reserve), pegs)

(* The D that the code computes is never below the exact one, as the       *)
(* comment in calculate_d_internal promises for pegged reserves of 2.      *)
DNotBelowExact ==
  pool # None => \A terms \in {Terms} : \A xp \in {Pegged(terms.pegs)} :
    (xp[1] >= 2 /\ xp[2] >= 2) => ExactDAtMost(xp, terms.amplification, DOf(terms, reserve))

(* The state that others price against (initial_pool_snapshot) stays the   *)
(* same throughout a block: no trade, deposit or withdrawal moves it, be   *)
(* it the first one of the block or not.  Only a transfer to the pool's    *)
(* account before the first call can, and the authority.                   *)
SnapshotKept ==
  (/\ pool # None /\ pool' = pool /\ block' = block /\ target' = target
   /\ pegInfo # None => pegInfo'.maxUpdate = pegInfo.maxUpdate
   /\ snapshot # None \/ snapshot' # None)
  => snapshot' = InitialPoolSnapshot(Terms)

(* What the shares stand for: while amplification and pegs stay, no call   *)
(* lets D per share fall, neither a trade, nor adding or withdrawing       *)
(* liquidity in whatever form, nor a transfer to the pool's account.       *)
ShareValueKept ==
  (/\ issuance > 0 /\ issuance' > 0
   /\ block' = block /\ target' = target /\ pool' = pool)
  => \A terms \in {Terms} : \A d \in Some(DOf(terms, reserve)) : DOf(terms, reserve') * issuance >= d * issuance'
=============================================================================
