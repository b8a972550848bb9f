# Verification of the Hydration node

TLA+ models of the Hydration parachain: pallets of the runtime, the formulas
they use, and two workers of the node. TLC checks them on small instances;
TLAPS proves part of what is checked for every value of the constants. Paths are
relative to the root of the repository.

`PROJECT.json` holds the exact correspondence: `map` gives the source lines of
every definition, `runs` the TLC runs, `mutants` for each property a plausible
bug that its run detects, `hazards` what is hard to test in this code and the
property that watches it, `theorems` what is proved.

Run everything from this directory: `tlc -config X.cfg M` for a run of
`PROJECT.json`, `tlapm M.tla` for the proofs of a module.

## 1. The system

Hydration is a Substrate parachain. A block runs the `on_initialize` hooks of
all pallets, the extrinsics one after another, and the `on_finalize` hooks. A
call that fails is rolled back whole, and so is every function marked
`#[transactional]`. So there are no threads in the runtime; what makes it hard
is the order of the calls of many users, governance and other chains within and
across blocks, values kept for a block or a window while the state they were
computed from moves on, hooks through which one pallet changes another's state
in the middle of a call, best-effort steps whose failure is ignored, and integer
arithmetic with a rounding in every formula. The node itself has threads and
async tasks beside the chain, which can be interrupted anywhere.

How the parts interact. The Omnipool reports every trade and liquidity change to
the oracle and to the circuit breaker (`runtime/adapters/src/lib.rs`) and splits
its fees among fee processor, referrals and staking. Every deposit of a token
goes through the issuance fuse and every withdrawal and transfer through the
withdraw limit (`runtime/hydradx/src/assets.rs`, `circuit_breaker.rs`,
`xcm.rs`); the first holding of an insufficient asset pays a deposit there. DCA,
OTC settlement and liquidation trade through the route executor, which trades on
any of the pools. The Hollar stability module trades with a Stableswap pool and
measures its block limits against the pool's snapshot. Liquidity mining locks
positions of the Omnipool and shares of XYK pools. Democracy decides what
staking and GIGAHDX reward.

## 2. Modules

In all of them a call that returns an error is no step, as the runtime rolls it
back; where an error is ignored by its caller (the result of `note_egress` in
`process_message`, a failed execution in DCA, a failed conversion in `on_idle`)
the action keeps what was done before it. Integers keep the width and the
roundings that matter. Definitions whose comment says "Mutant" belong to no
specification.

| Module | Models |
|---|---|
| `BlockLimits` | circuit breaker: limits per asset and block, with the reserves the Omnipool reports |
| `DepositFuse` | circuit breaker: issuance fuse of one asset |
| `WithdrawFuse` | circuit breaker: global withdraw limit, with the currency hooks, XCM accounting and fees |
| `AssetRegistry` | asset registry, and the bonds, which register assets and are issued and redeemed |
| `InsufficientAssets` | deposits for insufficient assets, with bans and EVM bindings |
| `DCA` | schedules: planning, execution, retries, budgets and reserves |
| `Democracy` | proposals, referenda, votes, delegations, locks, vetoes |
| `OmnipoolMath`, `Omnipool` | `math/src/omnipool` and the pallet |
| `Stableswap`, `HSM` | the stable pool with its D and Y iterations, and the Hollar stability module on top of it |
| `XYKMath`, `XYK` | the constant-product pool |
| `LBP` | bootstrapping pools: terms, weights, collectors and repayment locks |
| `RouteExecutor`, `OTC` | balances, trades along a route, stored routes; orders and their settlement against a route |
| `EmaOracle`, `EmaEveryBlock` | the oracle that skips idle blocks, and the one it implements |
| `LiquidityMining`, `FarmPurses` | farms, deposits and rewards, and what a farm promises |
| `OmnipoolLiquidityMining`, `XYKLiquidityMining` | the two front ends composed with the engine |
| `Staking`, `GigaHdx` | staking positions; GIGAHDX with referendum rewards and liquidations |
| `FeeProcessor` | the split of trade fees, with the referrals |
| `LiquidationWorker`, `MappingSync` | the two workers of the node |
| `Option` | `None`, and a value or its default |
| `MC...` | instances and properties that join several components |
| `...Proofs`, `OmnipoolAccounting`, `SumTheorems` | proofs, section 5 |

State and actions, where they are not the pallet's storage and calls one to one:

- `BlockLimits`: an action is one call of the Omnipool with the reports the
  adapter makes for it, an operation exempt from the limits, a governance call,
  or `OnFinalize`. `blockStart` and `unlimited` are history.
- `WithdrawFuse`: a message is opened, withdraws, deposits, and ends with the
  noting of its net egress; a fee is withdrawn and settled with the fuse switched
  off. `observed` is the net egress noted since some block that is chosen freely,
  so that an invariant about it is an invariant about every window.
- `DepositFuse`: `Deposit` is the mint with `on_deposit` after it. `usable` and
  `cap` record what a period left usable and the highest limit in force in it.
- `AssetRegistry`: names are values with one name per pair of asset and maturity
  for the bonds; symbols, existential deposits, rate limits and the code check of
  ERC-20 assets are left out. Bonds ignore existential deposits.
- `InsufficientAssets`: `ledger` holds the balances, the references of the
  accounts, the counter and the lock; `net` is what the treasury collected less
  what it refunded. Dusting and `set_balance` are left out, HDX is not limited,
  and one unit of any other asset pays a deposit.
- `DCA`: `NewBlock` takes the list of the block; each scheduled id is then
  executed once, in any order (the code shuffles it). Prices, trades and the
  random draws are nondeterministic. Blocks are numbered from the current one:
  the pallet uses block numbers only through their distance from it and their
  remainder modulo the rounding of first executions, which is `now`. Without that
  no liveness could be checked.
- `Democracy`: the scheduler is the set `agenda`; whether a removal of a vote is
  wanted by the staking hook is a choice. A removed referendum frees its winners.
  Reserves look at the free balance only, as the code does.
- `Omnipool`: one action per call and per branch of `sell` and `buy`. Other
  pallets appear as choices: dynamic fees, the part of the asset fee that others
  take, oracle prices, a refusal by the circuit breaker or the price barrier,
  whether the deposit fuse reserves minted hub asset. When others take a fee in
  an aToken (`ATokens`), the transfer may take more than they report
  (`Overdrafts`), as much as `process_trade_fee` lets pass; every other transfer
  is exact. An oracle price is a `FixedU128`, so a tiny positive one is zero.
- `XYKLiquidityMining`: the owner of a farm is an account outside the model; the
  existential deposit they pay for an insufficient reward currency arrives in
  the pot.
- `Stableswap`, `HSM`: one pool of two assets; peg sources answer anything of a
  small set. The flash loan of the arbitrage is exact.
- `LBP`: the power function of the price is left open, a trade moves any amount;
  funds, events and spot prices are left out.
- `RouteExecutor`, `OTC`: pools are constant-product and ignore existential
  deposits; governance stores routes of the pair it names.
- `EmaOracle`: values are multiples on which the smoothing is exact; liquidity,
  ages, genesis entries and the registry half of the whitelist are left out.
- `Staking`: a position is named by its owner, time counts in periods, payable
  percentage and slash are parameters, vesting and external claims are zero, the
  lock for unsuccessful votes is left out. `GigaHdx`: the money market is
  external and supplies exactly in the instance. A liquidation is one step, as
  the runtime runs it; inside it a seizure is a transfer or, under a lock of any
  pallet, a slash, and each vote the rest of the stake does not back is removed
  or, where that fails, skipped. `Sustained` are the accounts a slash may take
  the last ED of. `skipped` and `slashes` are history.
- `FeeProcessor`: the pot has no existential deposit of its own; conversions in
  `on_idle` come one at a time. Transfers whose failure the code swallows
  succeed, and nobody sends tokens to the pot directly.
- `LiquidationWorker`: the chain is a line of best blocks, health factors have
  three classes, prices and times are abstracted. The thread may be gone from the
  start, when it cannot read its first timestamp; the task then sends to nobody.
  `deferred` is history: the borrowers reported with a block whose market data
  could not be fetched. `MappingSync`: any tree of blocks; a stop or a failed
  write may come between the two writes of a block. `sync_blocks` calls
  `sync_one_block` up to a limit and has no state of its own.

## 3. Runs

Components that share no storage share a run: a variable of the MC module
(`part`, `market`, `front`, `pallet`, `worker`) says which of them a behaviour is
about, and the others do not move.

| Run | Properties | What they say |
|---|---|---|
| `circuit_breaker` | CountersExplainReserve, ReserveWithinEnvelope, UsableWithinLimit, LockdownHoldsSupply | the counters account for each reserve's change in the block and the reserve stays within the stored limits; a period leaves at most its limit usable, and the usable supply does not grow in a lockdown |
| `assets` | WindowBound, PlainMessageAccounted, FrozenInLockdown, DepositsAccounted, RegistryIndexed, BondsBacked | the net egress of a window is under twice the limit; a message that only moves assets can be accounted; a lockdown freezes the accumulator; lock, counter and references stand for the same deposits; indexes lead to the asset that carries the key; every bond is backed |
| `block_start` | SchedulesConsistent, BudgetsBacked, VotesCounted, WinnersStayLocked | every live schedule is planned exactly once and removal is total; reserves cover budgets, which are all that is spent; tallies are what the votes and delegations come to and no referendum is forgotten; winners and delegators stay locked |
| `dca_liveness` | BudgetedSchedulesEnd | a schedule with a budget is completed or terminated |
| `omnipool_math` | TradesKeepCurves | no trade lowers the curve of the pool sold to or bought from; the inversions behind a buy collect enough |
| `omnipool_trades` | HubReservesBacked, CurvesKept | the hub asset held equals the hub reserves; no trade of a sequence lowers a curve, but that of an aToken the fee tolerance may lower |
| `omnipool_liquidity` | SharesAccounted, PositionsCanExit, SlipDenominatorPositive, SharesNotDiluted | positions and protocol hold all shares; every position can be withdrawn; the flow of a block never exhausts the snapshot of the slip fee; no call that mints or burns shares lowers the reserve behind those that remain |
| `markets` | IssuedIsBacked, StablePoolKept, QuotesHonoured, OrdersKept, ImplementsEveryBlock, SalesKept | shares and Hollar stay backed, buy-backs within the block's limit; a block has one price and one snapshot, D per share never falls; routes deliver their quotes; orders keep price and reserve through partial fills; the oracle implements `EmaEveryBlock`; a sale keeps its terms, its collector and its lock |
| `liquidity_mining` | FarmRewardsCovered, DepositsKept, FarmsKeepTheirPurses, XykShareValueNeverFalls | the pot covers what is owed; what is locked is held until the last farm is left and the counters agree; the engine implements `FarmPurses`; no call of the pool lowers the value of a share |
| `rewards` | StakesBacked, RewardsCovered, FeesAccounted, ShareValuesKept | locks, stakes and market positions agree, and balances cover the locks, the recipient's of seizures up to an ED per slash; a vote is backed unless a liquidation skipped it; pots cover what may be claimed, once; fees that wait will be sold; no claim lowers what others hold |
| `node` | SendsLimited, NobodyForgotten, NoGapsUnlessTorn, WorkersFinish | one transaction per user and block within the capacity; every borrower is visited, one reported without market data after the next block that has it; a mapped block has a mapped parent or one that is still to come, except where a round was torn; both workers finish their work, the sync down to that place |

`omnipool_sell_inversion` ends in a violation, the one entry of `findings`: when
a block has doubled the hub reserve of the asset sold, `invert_sell_side_fees`
may return a root of the wrong branch, and then does not invert the fees as its
comment says. `omnipool_math` shows that below that inflow it collects enough.

Other places where code and documentation differ, seen while translating the
code; the models follow the code:

- Circuit breaker: an operation over the withdraw limit fails and triggers no
  lockdown (`lib.rs:447`); deposits of a fee lower the accumulator although
  egress accounting is said to be skipped (`lib.rs:352`, the hook in
  `runtime/hydradx/src/circuit_breaker.rs:72`); after a lowered limit a deposit
  may reserve more than it brings (`README.md:28`, `fuses/issuance.rs:154`);
  `lockdown_asset` stops no deposit of an asset without a limit
  (`fuses/issuance.rs:54`).
- DCA: a schedule without a start block is planned two blocks ahead
  (`README.md:11`).
- Omnipool: `set_slip_fee` accepts a cap of 90%, the comment of its error says
  50% (`lib.rs:455`); a safe withdrawal pays the dynamic withdrawal fee
  (`lib.rs:696`); `try_state` compares the free balance of hub asset, without
  what the fuse reserved (`lib.rs:1660`); the snapshot of HDX may include fees of
  the same block (`lib.rs:270`, `lib.rs:1907`); up to 10 units more than the
  fee allowed may leave the pool, for aTokens (`lib.rs:2327`), although what was
  taken is said to equal what was reported (`lib.rs:2332`): the curve of an
  aToken may fall by that much per trade, and the pool accounts for the reported
  fee.
- Stableswap: `calculate_d` can exceed the exact D by more than 2
  (`math/src/stableswap/math.rs:143`); a uniform removal may fail its own ratio
  check (`lib.rs:2123`); snapshot and fee of a block survive the removal and new
  creation of a pool in it, and a transfer to the pool before its first call
  changes the snapshot.
- HSM: the buy-back price is divided by (1 - fee) (`lib.rs:458`).
- Liquidity mining: the first deposit in the period of creation keeps a zero
  accumulator (`lib.rs:1699`); `remove_stake` may fail with fractional
  multipliers (`types.rs:182`).
- GIGAHDX: a full exit may lower the exchange rate by its rounding dust
  (`lib.rs:883`); `giga_unstake` is limited by `MaxPendingUnstakes`
  (`lib.rs:390`); of a seizure that a lock forbids as a transfer up to an ED may
  stay unpaid while stake and lock of the recipient grow by all of it
  (`lib.rs:1001`); a vote that a liquidation cannot remove is skipped and then
  counts more than the stake behind it.
- Fee processor: held slices can be distributed again (`lib.rs:74`).
- Route executor: `set_route` compares calculated amounts, it does not dry-run
  (`lib.rs:292`); a buy through the same pool twice may leave tokens in the
  router's account.
- Democracy: a veto of a permanently blacklisted proposal replaces the entry by
  one with a cool-off (`lib.rs:843`).
- Liquidation worker: an oracle update taken inside a pass may be replaced before
  its prices are applied, and a late report may remove a user whose second
  transaction is still out. A borrower reported with a block whose market data
  cannot be fetched is not visited before a later block brings them, and the
  users liquidated in the block before stay excluded until then
  (`liquidation_worker.rs:998`). A thread that cannot read its first timestamp
  ends, and the node runs on without it (`liquidation_worker.rs:660`).
- Mapping sync: when the node stops, or a write fails, after a block is mapped and
  before its tips are written, nobody returns to the parent of that block
  (`mapping_sync.rs:220`): what lies below and was not mapped yet stays
  unmapped, unless another branch leads there. `NoGapsUnlessTorn` and `WorkersFinish` say that this is the only gap.

### Bounds and why they are enough

- `circuit_breaker`: two assets, one of which receives the fees; reserves of 8
  with defaults of 1/2 and 1/4 give limits of 4 and 2, which amounts of 2 reach
  exactly and exceed within five operations; a ratio of 0/1 exercises the
  validation. The fuse has an ordinary and a whitelisted account, limits 1 and 3
  and periods of two within five blocks: two periods and a lockdown.
- `assets`: a native, a priced and an unpriced asset, an ordinary and an egress
  account; amounts 1 and 3 against a limit of 4 and a window of 2: two windows, a
  partial decay, a lockdown that ends. Deposits: a user, a pallet and the router,
  two tokens, four calls, enough for a payment that ends the payer's other
  holding. Registry: four calls over ids up to 4, two names besides those of the
  bonds, two locations: bonds of bonds, renamings onto a bond's name.
- `block_start`: two schedules out of three templates, one per block, so that
  every second planning meets a full block; budgets of about two executions;
  a horizon of five blocks. Democracy: two voters, two referenda, two public
  proposals, five blocks, three calls from the empty state and four from one
  with two running referenda; an electorate of 130 in which seven ayes just fail.
- `dca_liveness`: no second try for a full block, which keeps the graph small.
- `omnipool_math`: every combination of the sets in `OmnipoolMath.cfg`, flows of
  both signs and caps that bind; `PERMILL` = 20 and `FIXED` = 1000 make roundings
  larger in proportion than in production.
- `omnipool_*`: HDX and two assets with unequal prices and reserves of 24 to 40;
  three trades, or four calls of any kind with liquidity that exceeds the
  reserves. In the trades a tolerance of 2 (10 in the code) with overdrafts of 0, 2
  and 4 has transfers that are exact, tolerated and refused; in the run of all
  calls others take no fee, so small it is, and the oracle prices include
  zero, for which the withdrawal fee is the minimum, and one below
  the pools' prices. Three assets are the fewest for a trade that pays its fee into a
  third pool; four calls suffice to add, trade, withdraw in part and whole.
- `markets`: a pool before its creation, and running ones out of balance with
  eight Hollar sold; three calls in two blocks. Three assets, two venues, six
  routes, three offers within a budget of four, in which a router trade costs
  two. Two sources, five blocks and three reports, with two smoothing factors.
  Four sales that compete for collectors, six updates, five steps.
- `liquidity_mining`: no farm, or two farms on one pool; two users and two
  positions, three periods, six (Omnipool) or five (XYK) calls.
- `rewards`: two users, one of whom lives on without HDX; five starting states
  for GIGAHDX that put an open referendum, a legacy stake, a short horizon or two
  slashes in reach, with up to two seizures that are slashes or skip a vote
  (`mishaps`); an ED of 1; two trade fees; four staking calls over two periods.
- `node`: three users, three blocks and an oracle update; a tree of four blocks,
  three changes of the best block and one stop.

Symmetry is used on users, positions and voters, which the models treat alike;
no run with symmetry checks a liveness property. The runs without a deadlock
check have a bound on calls after which nothing can happen.

### Fairness

- `dca_liveness`: blocks keep coming (`WF` of `NewBlock`: consensus produces
  them); a block executes the schedules it took (`WF`: `on_initialize` is a loop
  without early exit); a schedule that comes up infinitely often is attempted
  infinitely often (`SF` of `ExecuteAttempt` per schedule: the bump to the next
  block is drawn at random anew each time).
- `node`: the worker thread and the notification of blocks make progress
  (`WF`: a loop in a thread of its own, and an async task the executor polls), and
  so does the mapping sync (`WF` of `SyncOneBlock`: it is polled on a timer).
- No user, governance or chain event is fair.

## 4. Refinements

- The oracle updates a smoothed value only when a pool is active or somebody
  reads it, with the smoothing raised to the number of missed blocks.
  `EmaEveryBlock` updates in every block; the mapping reads a value as the oracle
  would answer now. `ImplementsEveryBlock` checks the step simulation.
- `FarmPurses` says what farms promise: a purse per farm, out of which no more is
  paid than was put in, and which is empty when the farm is gone.
  `FarmsKeepTheirPurses` maps the farm's account and its share of the common pot
  to the purse.

## 5. Proofs

Theorems hold for every value of the constants that satisfies the named
assumptions (`AssetsAssumption`, `RatioAssumption`, `FuseAssumption`,
`DepositsAssumption`, `RegistryAssumption`, `BondsAssumption`,
`OmnipoolAssumption` and so on). They say that sets of amounts contain amounts,
that sets of accounts and assets are finite, that ratios have positive
denominators, that fees are parts of the whole, and that `None` is not a value;
`OmnipoolAssumption` also says that the tokens the pool starts with are distinct
and that there is an id for the position of each. TLC evaluates them in every
run of the module.

| Module | Theorem | Property |
|---|---|---|
| `CircuitBreakerProofs` | CountersCorrect, EnvelopeHolds | CountersExplainReserve, ReserveWithinEnvelope |
| | DepositsWithinLimit, LockdownHolds | UsableWithinLimit, LockdownHoldsSupply |
| `WithdrawFuseProofs` | WindowBounded, PlainMessagesAccounted, LockdownFreezes | WindowBound, PlainMessageAccounted, FrozenInLockdown |
| `AssetsProofs` | IndexesAgree, BondsAreBacked | RegistryIndexed, BondsBacked |
| | DepositsAreAccounted | DepositsAccounted |
| `OmnipoolMathProofs` | RemovalDefined | the core of PositionsCanExit |
| `OmnipoolProofs` | TypeCorrect, NobodyDiluted | SharesNotDiluted |
| `OmnipoolAccounting` | HubIsBacked, SharesAreAccounted, EveryoneCanExit, SlipStaysDefined | HubReservesBacked, SharesAccounted, PositionsCanExit, SlipDenominatorPositive |
| `NodeProofs` | LimitsKept, NoGaps | SendsLimited, NoGapsUnlessTorn |

The inductive invariants, and why they are needed:

- Block limits (`IInv` of `CircuitBreakerProofs`): the envelope is not inductive;
  the induction needs that the counters explain the reserve and that each stored
  entry passed its check (`LimitsRespected`).
- Issuance fuse (`FuseIInv`): what is usable is covered by the growth the fuse
  sees (`GrowthCovers`), and the limit it uses is one the period had (`CapCovers`).
- Withdraw limit (`IInv` of `WithdrawFuseProofs`): what was noted since the
  observation began is still in the accumulator or has decayed, and the decay
  over a time t is at most (limit - 1) * t / window (`NetExplained`); over one
  window that gives twice the limit. The pre-check covered all withdrawals of the
  message (`WithdrawalsVouched`), so the net amount can be noted.
- Registry and bonds (`BondsSound`): ids above the sequence are unused
  (`IdsFresh`), so that a registration in sequence meets no asset that was
  registered by choice; an id without an asset is no bond, and what is no bond is
  not issued (`BondsFresh`), so that a new bond is in no sum yet; the two maps of
  the bonds are inverse to each other (`BondsKeyed`). Governance may rename a
  bond's asset or change its type, which is why the keys, not the names, carry
  the argument. An issue or a redemption changes one summand of one asset's sum.
- Deposits (`DepositsSound`): the books hold for the ledger at every step *inside*
  a call (`Books`), since paying one deposit may end another holding of the payer,
  whose refund changes lock and counter before the new deposit is locked. The
  invariant adds to the property that the deposits of all accounts, the
  references that stand for EVM addresses taken out, sum up to the counter
  (`AllDeposits`): with the coverage of every holder that makes the counter at
  least one whenever a covered holding ends, so the refund is exactly one
  existential deposit and no saturating subtraction cuts off. What the treasury
  collected exceeds the lock by as much after a refund as before it.
- Omnipool (`Accounts`): positions have ids below the next one (`FreshIds`), so
  that a new position overwrites none; the flow of a block is zero until its
  snapshot is taken, and the snapshot exceeds what was taken out since
  (`SlipSound`): a trade takes less hub asset than the pool has, and the
  calculations refuse one for which the denominator would not be positive
  (`CalculationsCheckSlip`). Each call changes the hub reserves by what it mints,
  burns or moves, and the shares by those of one position. `EveryoneCanExit`
  follows from the sum of the positions' shares, of which each is a part, and
  from `RemovalDefined`, which bounds the roundings of the withdrawal on either
  side of the position's price.
- Liquidation worker and mapping sync (`IInv`, `SyncIInv` of `NodeProofs`): who
  was sent a transaction is on the list of liquidated users, which is cleared
  only with the block (`Recorded`); every tip of the sync and the block in hand
  is a known block, and a parent that is not mapped is still among the tips or in
  hand (`Known`, `Kept`).

`SumTheorems` has the facts about sums that these proofs rest on: a sum changes
by the change of one summand, is monotone, is zero for zeros and at least each
of its natural summands. The induction rules of the library take a predicate as
a parameter, which the provers cannot instantiate, so the proofs argue by a
smallest counterexample: a non-empty family of subsets of a finite set has a
minimal member.

## 6. Only model-checked

- Liveness: `BudgetedSchedulesEnd`, `WorkersFinish`. The prover has no rules for
  fairness and `ENABLED`.
- `CurvesKept`, `TradesKeepCurves`: products of several rounded quotients and
  integer square roots. They do not hold for all values: beyond the inflow of
  `omnipool_sell_inversion` a buy may collect too little.
- Everything about `Stableswap`, whose iterations are recursive operators, and
  about `HSM`, which uses it (`IssuedIsBacked`, `StablePoolKept`).
- `NobodyForgotten`: adding the borrowers of a message is a fold over its list, and
  what a fold returns for every list needs an induction over data.
- The two refinements of section 4: the oracle's needs powers of the smoothing
  factor, an induction over the missed blocks; the farms' needs the sums over
  entries of quantities that several roundings relate.
- `SchedulesConsistent`, `BudgetsBacked`, `VotesCounted`, `WinnersStayLocked`,
  `QuotesHonoured`, `OrdersKept`, `SalesKept`, `FarmRewardsCovered`,
  `DepositsKept`, `XykShareValueNeverFalls`, `StakesBacked`, `RewardsCovered`,
  `FeesAccounted`, `ShareValuesKept`: safety properties without a proof so far.

## 7. Not modelled

- Within the modelled pallets: events, weights, benchmarks, migrations, and the
  informational functions (spot prices, TVL). Slippage limits of users only
  refuse calls. `set_pool_contract` and `set_flash_minter` store an address.
- Ledgers (orml-tokens, pallet-balances), the XCM executor, the EVM with its
  contracts, consensus and networking are libraries or not in the repository;
  the models have what the code in it relies on.
- Dynamic fees, dynamic EVM fee: one formula over oracle values; models that use
  their results allow any. Signet, dispenser, dispatcher, broadcast, collator
  rewards, duster, NFT, claims, transaction pause, parameters, genesis history,
  relay chain info: single calls or stored values without a protocol of several
  steps. The XCM rate limiter is not part of the workspace any more.
- The worker of the OTC settlements, the reorganisation handling, RPC and
  transaction parsing of the liquidation worker; announcements and header pruning
  of the mapping sync.
- Runtime assembly, precompiles, scraper and build helpers: wiring, encoding and
  I/O. Most of the repository's lines are these, generated weights, mocks and
  tests, and integration tests.
