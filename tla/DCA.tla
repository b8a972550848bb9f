-------------------------------- MODULE DCA --------------------------------
(***************************************************************************)
(* pallet-dca: schedules of repeated orders.                               *)
(*                                                                         *)
(* A schedule is created with a budget, which is reserved on its owner,    *)
(* and planned for a block.  on_initialize takes the schedules planned for *)
(* the block one by one: it bumps one to the next block, or charges a fee, *)
(* trades, and plans the next execution, plans a retry, or removes the     *)
(* schedule and returns what is left of the budget.                        *)
(*                                                                         *)
(* The pallet uses block numbers only by their distance from the current   *)
(* block and by their remainder modulo RoundTo, so blocks are numbered     *)
(* from the current one here (which is 0), and `now' is the remainder.     *)
(* All orders sell the same asset; a failing call is no step.              *)
(***************************************************************************)
EXTENDS Integers, Sequences, FiniteSets, Functions

CONSTANTS
  Accounts,            \* the owners of schedules
  Root,                \* TerminateOrigin
  Templates,           \* the schedules that may be created
  StartBlocks,         \* the values of start_execution_block
  Fees,                \* the fees of an execution in the sold asset
  BuyCosts,            \* what a buy order may cost
  InitialFree,         \* the balance of an account at the start
  Leftovers,           \* reserves a removed schedule may have left behind
  FeeMultiplier,       \* FEE_MULTIPLIER_FOR_MIN_TRADE_LIMIT
  MinimalPeriod, MinimumTradingLimit, MinBudget,
  MaxSchedulePerBlock,
  MaxReschedules,      \* MAX_NUMBER_OF_RETRY_FOR_RESCHEDULING
  RetryPeriod,         \* the blocks of the short oracle period
  RoundTo,             \* first executions are rounded up to a multiple of it
  MaxDelay,            \* the largest delay in blocks (u32)
  MaxExtraGas,         \* MAX_EXTRA_GAS
  MaxId,               \* the number of schedule ids (u32)
  Horizon,             \* bound: the farthest block a schedule is planned for
  None                 \* the absent value of an Option

Ids == 0 .. MaxId - 1
Future == 1 .. Horizon

ASSUME DCAAssumption ==
  /\ MaxId \in Nat /\ Horizon \in Nat /\ RoundTo \in Nat \ {0}
  /\ MaxSchedulePerBlock \in Nat \ {0} /\ MaxReschedules \in Nat
  /\ RetryPeriod \in Nat \ {0} /\ MaxDelay \in Nat /\ MaxExtraGas \in Nat
  /\ MinimalPeriod \in Nat \ {0} /\ MinimumTradingLimit \in Nat /\ MinBudget \in Nat
  /\ FeeMultiplier \in Nat /\ InitialFree \in Nat /\ Leftovers \subseteq Nat
  /\ Fees \subseteq Nat \ {0} /\ BuyCosts \subseteq Nat \ {0}
  /\ StartBlocks \subseteq Int \cup {None}
  /\ Templates \subseteq [owner : Accounts, kind : {"Sell", "Buy"}, amount : Nat,
                          period : Nat, total : Nat, maxRetries : Nat]
  /\ Root \notin Accounts /\ None \notin Int \cup Templates

VARIABLES
  now,             \* the current block modulo RoundTo
  pending,         \* the ids on_initialize has yet to execute in this block
  nextId,          \* ScheduleIdSequencer
  schedules,       \* Schedules
  ownership,       \* ScheduleOwnership
  remaining,       \* RemainingAmounts
  retries,         \* RetriesOnError
  executionBlock,  \* ScheduleExecutionBlock
  idsPerBlock,     \* ScheduleIdsPerBlock
  extraGas,        \* ScheduleExtraGas
  free, reserved,  \* the free balance and the named reserve of each account
  (* history variables *)
  credit,          \* the total of each schedule with a budget, less what its
                   \* executions have cost the owner
  sinceTrade,      \* the blocks since its last trade, up to Horizon
  stuck            \* the part of the reserve that no schedule left

books == <<nextId, schedules, ownership, remaining, retries, extraGas>>
plan == <<executionBlock, idsPerBlock>>
money == <<free, reserved>>
history == <<credit, sinceTrade, stuck>>
vars == <<now, pending, books, plan, money, history>>

Least(x, y) == IF x < y THEN x ELSE y

IsRolling(schedule) == schedule.total = 0

-----------------------------------------------------------------------------
(* Planning.                                                               *)

IsFull(b) == Len(idsPerBlock[b]) >= MaxSchedulePerBlock

(* The blocks find_next_free_block looks at in its first k + 1 rounds: the *)
(* delay after round i is drawn from 2^i .. 2^(i+1) - 1.                   *)
Probes(b, k) ==
  {probe \in [0 .. k -> b .. Least(b + 2 ^ (k + 1), Horizon)] :
     /\ probe[0] = b
     /\ \A i \in 1 .. k : probe[i] - probe[i - 1] \in 2 ^ (i - 1) .. 2 ^ i - 1}

(* The blocks find_next_free_block may return.                             *)
FreeBlocks(b) ==
  {next \in b .. Horizon :
     \E k \in 0 .. MaxReschedules : \E probe \in Probes(b, k) :
       /\ probe[k] = next /\ ~IsFull(next)
       /\ \A i \in 0 .. k - 1 : IsFull(probe[i])}

(* NoFreeBlockFound.                                                       *)
NoFreeBlock(b) ==
  \E probe \in Probes(b, MaxReschedules) : \A i \in 0 .. MaxReschedules : IsFull(probe[i])

(* Mutant: the block that was asked for is recorded, not the one found.    *)
PlanRecordsRequest(id, b) ==
  \E next \in FreeBlocks(b) :
    /\ idsPerBlock' = [idsPerBlock EXCEPT ![next] = Append(@, id)]
    /\ executionBlock' = [executionBlock EXCEPT ![id] = b]

(* plan_schedule_for_block.                                                *)
PlanScheduleForBlock(id, b) ==
  \E next \in FreeBlocks(b) :
    /\ idsPerBlock' = [idsPerBlock EXCEPT ![next] = Append(@, id)]
    /\ executionBlock' = [executionBlock EXCEPT ![id] = next]

(* get_first_execution_block.                                              *)
FirstExecutionBlock(start) ==
  IF start = None THEN 2
  ELSE LET number == IF start > 2 THEN start ELSE 2
       IN number + ((RoundTo - ((now + number) % RoundTo)) % RoundTo)

-----------------------------------------------------------------------------
(* The money of a schedule: the owner's balances and what is left of the   *)
(* budget.                                                                 *)

Purse(id) ==
  [free |-> free[schedules[id].owner], reserved |-> reserved[schedules[id].owner],
   left |-> remaining[id]]

(* unallocate_amount: nothing to do for a rolling schedule.                *)
CanUnallocate(id, purse, x) ==
  IsRolling(schedules[id]) \/ (x <= purse.left /\ x <= purse.reserved)

(* Mutant: the reserve is released but the budget is not reduced.          *)
UnallocateReserveOnly(id, purse, x) ==
  IF IsRolling(schedules[id]) THEN purse
  ELSE [free |-> purse.free + x, reserved |-> purse.reserved - x, left |-> purse.left]

Unallocate(id, purse, x) ==
  IF IsRolling(schedules[id]) THEN purse
  ELSE [free |-> purse.free + x, reserved |-> purse.reserved - x, left |-> purse.left - x]

Pay(purse, x) == [purse EXCEPT !.free = @ - x]

(* get_transaction_fee: a price of the weight, which grows with extra gas. *)
TransactionFees(id) == {fee + extraGas[id] : fee \in Fees}

(* take_transaction_fee_from_user.  The whole fee is unallocated; paying   *)
(* it in a currency that is swapped may cost less.                         *)
Charged(id) ==
  LET fees == {fee \in TransactionFees(id) : CanUnallocate(id, Purse(id), fee)}
      purse(fee) == Unallocate(id, Purse(id), fee)
  IN UNION {{Pay(purse(fee), paid) : paid \in 1 .. Least(fee, purse(fee).free)} : fee \in fees}

(* try_unreserve_all.                                                      *)
UnreserveAll(purse) ==
  LET x == Least(purse.left, purse.reserved)
  IN [free |-> purse.free + x, reserved |-> purse.reserved - x, left |-> 0]

-----------------------------------------------------------------------------
(* What an execution does to the storages of a schedule.                   *)

SetPurse(id, purse) ==
  /\ free' = [free EXCEPT ![schedules[id].owner] = purse.free]
  /\ reserved' = [reserved EXCEPT ![schedules[id].owner] = purse.reserved]

(* What leaves the owner's account is taken from the credit.               *)
Debit(id, purse) ==
  credit' = IF IsRolling(schedules[id]) THEN credit
            ELSE [credit EXCEPT ![id] =
                    @ - (Purse(id).free + Purse(id).reserved) + (purse.free + purse.reserved)]

(* remove_schedule_from_storages.                                          *)
RemoveScheduleFromStorages(id) ==
  /\ schedules' = [schedules EXCEPT ![id] = None]
  /\ ownership' = ownership \ {<<schedules[id].owner, id>>}
  /\ remaining' = [remaining EXCEPT ![id] = None]
  /\ retries' = [retries EXCEPT ![id] = 0]
  /\ executionBlock' = [executionBlock EXCEPT ![id] = None]
  /\ extraGas' = [extraGas EXCEPT ![id] = 0]

(* terminate_schedule and complete_schedule, which differ in their event.  *)
EndSchedule(id, purse) ==
  /\ SetPurse(id, UnreserveAll(purse))
  /\ Debit(id, purse)
  /\ RemoveScheduleFromStorages(id)
  /\ UNCHANGED <<nextId, idsPerBlock>>

(* A schedule that stays is planned for block b or later; one for which no *)
(* free block is found is terminated.                                      *)
Replan(id, purse, b, tries, gas) ==
  \/ /\ PlanScheduleForBlock(id, b)
     /\ SetPurse(id, purse)
     /\ Debit(id, purse)
     /\ remaining' = [remaining EXCEPT ![id] = purse.left]
     /\ retries' = [retries EXCEPT ![id] = tries]
     /\ extraGas' = [extraGas EXCEPT ![id] = gas]
     /\ UNCHANGED <<nextId, schedules, ownership>>
  \/ NoFreeBlock(b) /\ EndSchedule(id, purse)

(* The retries of a schedule are counted, and the delay has to fit a u32.  *)
MayRetry(id) ==
  retries[id] < schedules[id].maxRetries /\ RetryPeriod * 2 ^ retries[id] <= MaxDelay

(* Mutant: the retries are not counted.                                    *)
RetryUncounted(id, purse, gas) ==
  \/ MayRetry(id) /\ Replan(id, purse, RetryPeriod * 2 ^ retries[id], retries[id], gas)
  \/ ~MayRetry(id) /\ EndSchedule(id, purse)

(* retry_schedule; a schedule that cannot be retried is terminated.        *)
RetrySchedule(id, purse, gas) ==
  \/ MayRetry(id) /\ Replan(id, purse, RetryPeriod * 2 ^ retries[id], retries[id] + 1, gas)
  \/ ~MayRetry(id) /\ EndSchedule(id, purse)

(* increment_extra_gas.                                                    *)
IncrementedExtraGas(id) ==
  IF schedules[id].maxRetries = 0 THEN extraGas[id]
  ELSE Least(extraGas[id] + MaxExtraGas \div schedules[id].maxRetries, MaxExtraGas)

-----------------------------------------------------------------------------
(* The outcomes of an execution.                                           *)

(* The schedule is bumped to the next block, which costs nothing.          *)
Bump(id) ==
  Replan(id, Purse(id), 1, retries[id], extraGas[id]) /\ UNCHANGED sinceTrade

(* The fee cannot be taken: for want of budget, funds or a price.          *)
FailFee(id) == EndSchedule(id, Purse(id)) /\ UNCHANGED sinceTrade

(* Swapping the fee runs out of gas: nothing is charged.                   *)
FeeOutOfGas(id) ==
  RetrySchedule(id, Purse(id), IncrementedExtraGas(id)) /\ UNCHANGED sinceTrade

(* The price is unstable, or the trade fails with an error that is to be   *)
(* retried, perhaps after running out of gas: only the fee is charged.     *)
FailAndRetry(id) ==
  /\ \E purse \in Charged(id), gas \in {extraGas[id], IncrementedExtraGas(id)} :
       RetrySchedule(id, purse, gas)
  /\ UNCHANGED sinceTrade

(* The trade fails with any other error, or a rolling schedule is out of   *)
(* funds.                                                                  *)
FailTrade(id) ==
  /\ \E purse \in Charged(id) : EndSchedule(id, purse)
  /\ UNCHANGED sinceTrade

(* The amounts a trade may take in: a sell order takes no more than the    *)
(* budget has left.                                                        *)
AmountsIn(id, purse) ==
  IF schedules[id].kind = "Sell" THEN {Least(purse.left, schedules[id].amount)} ELSE BuyCosts

(* Whether the budget is worth another execution; of a buy order only the  *)
(* cost of the next trade and its fee, the leftover is returned.           *)
WorthReplanning(id, purse, fee, next) ==
  /\ purse.left >= fee * FeeMultiplier
  /\ purse.left >= MinimumTradingLimit
  /\ schedules[id].kind = "Buy" /\ ~IsRolling(schedules[id]) => purse.left >= next + fee

(* replan_or_complete: the schedule is also ended when the next fee or     *)
(* trade has no price.                                                     *)
ReplanOrComplete(id, purse) ==
  \/ EndSchedule(id, purse)
  \/ \E fee \in TransactionFees(id), next \in BuyCosts :
       /\ WorthReplanning(id, purse, fee, next)
       /\ Replan(id, purse, schedules[id].period, 0, extraGas[id])

ExecuteTrade(id) ==
  /\ \E charged \in Charged(id) : \E amount \in AmountsIn(id, charged) :
       LET purse == Unallocate(id, charged, amount)
       IN /\ CanUnallocate(id, charged, amount)
          /\ amount <= purse.free
          /\ ReplanOrComplete(id, Pay(purse, amount))
  /\ sinceTrade' = [sinceTrade EXCEPT ![id] = 0]

(* What an execution does unless it is bumped.                             *)
Attempt(id) ==
  FailFee(id) \/ FeeOutOfGas(id) \/ FailAndRetry(id) \/ FailTrade(id) \/ ExecuteTrade(id)

-----------------------------------------------------------------------------
Init ==
  /\ now = 0
  /\ pending = <<>>
  /\ nextId = 0
  /\ schedules = [id \in Ids |-> None]
  /\ ownership = {}
  /\ remaining = [id \in Ids |-> None]
  /\ retries = [id \in Ids |-> 0]
  /\ executionBlock = [id \in Ids |-> None]
  /\ idsPerBlock = [b \in Future |-> <<>>]
  /\ extraGas = [id \in Ids |-> 0]
  /\ free = [who \in Accounts |-> InitialFree]
  /\ reserved \in [Accounts -> Leftovers]
  /\ credit = [id \in Ids |-> 0]
  /\ sinceTrade = [id \in Ids |-> Horizon]
  /\ stuck = reserved

(* A new block begins: every planned block is one block closer, and        *)
(* on_initialize takes the ids planned for this one; it skips an id that   *)
(* has no schedule.                                                        *)
NewBlock ==
  /\ pending = <<>>
  /\ now' = (now + 1) % RoundTo
  /\ pending' = SelectSeq(idsPerBlock[1], LAMBDA id : schedules[id] # None)
  /\ idsPerBlock' = [b \in Future |-> IF b < Horizon THEN idsPerBlock[b + 1] ELSE <<>>]
  /\ executionBlock' = [id \in Ids |-> IF executionBlock[id] = None THEN None
                                       ELSE executionBlock[id] - 1]
  /\ sinceTrade' = [id \in Ids |-> Least(sinceTrade[id] + 1, Horizon)]
  /\ UNCHANGED <<books, money, credit, stuck>>

Without(ids, i) == SubSeq(ids, 1, i - 1) \o SubSeq(ids, i + 1, Len(ids))

(* on_initialize executes the ids it took in a random order.               *)
Take(id) ==
  /\ \E i \in 1 .. Len(pending) : pending[i] = id /\ pending' = Without(pending, i)
  /\ UNCHANGED <<now, stuck>>

ExecuteBump(id) == Take(id) /\ Bump(id)
ExecuteAttempt(id) == Take(id) /\ Attempt(id)

(* The budget a new schedule reserves: of a rolling one, two trades.       *)
ReserveAmount(schedule, amountIn, fee) ==
  IF IsRolling(schedule) THEN 2 * (amountIn + fee) ELSE schedule.total

(* schedule.                                                               *)
Schedule(schedule, start) ==
  \E fee \in Fees,
     amountIn \in IF schedule.kind = "Sell" THEN {schedule.amount} ELSE BuyCosts :
    LET amount == ReserveAmount(schedule, amountIn, fee)
        who == schedule.owner
    IN
    /\ pending = <<>>
    /\ schedule.period >= MinimalPeriod
    /\ amountIn >= fee * FeeMultiplier /\ amountIn >= MinimumTradingLimit
    /\ amount >= MinBudget /\ 2 * (amountIn + fee) <= amount
    /\ nextId \in Ids
    /\ amount <= free[who]
    /\ nextId' = nextId + 1
    /\ schedules' = [schedules EXCEPT ![nextId] = schedule]
    /\ ownership' = ownership \cup {<<who, nextId>>}
    /\ remaining' = [remaining EXCEPT ![nextId] = amount]
    /\ retries' = [retries EXCEPT ![nextId] = 0]
    /\ free' = [free EXCEPT ![who] = @ - amount]
    /\ reserved' = [reserved EXCEPT ![who] = @ + amount]
    /\ PlanScheduleForBlock(nextId, FirstExecutionBlock(start))
    /\ credit' = [credit EXCEPT ![nextId] = schedule.total]
    /\ UNCHANGED <<now, pending, extraGas, sinceTrade, stuck>>

(* terminate, by the owner or TerminateOrigin, who may name the block the  *)
(* schedule is planned for.                                                *)
Terminate(who, id, block) ==
  LET b == IF block = None THEN executionBlock[id] ELSE block
  IN
  /\ pending = <<>>
  /\ schedules[id] # None
  /\ who = Root \/ who = schedules[id].owner
  /\ SetPurse(id, UnreserveAll(Purse(id)))
  /\ \E i \in 1 .. Len(idsPerBlock[b]) :
       /\ idsPerBlock[b][i] = id
       /\ \A j \in 1 .. i - 1 : idsPerBlock[b][j] # id
       /\ idsPerBlock' = [idsPerBlock EXCEPT ![b] = Without(@, i)]
  /\ RemoveScheduleFromStorages(id)
  /\ UNCHANGED <<now, pending, nextId, history>>

(* unlock_reserves.                                                        *)
UnlockReserves(who) ==
  /\ pending = <<>>
  /\ \A id \in Ids : <<who, id>> \notin ownership
  /\ reserved[who] # 0
  /\ free' = [free EXCEPT ![who] = @ + reserved[who]]
  /\ reserved' = [reserved EXCEPT ![who] = 0]
  /\ stuck' = [stuck EXCEPT ![who] = 0]
  /\ UNCHANGED <<now, pending, books, plan, credit, sinceTrade>>

Next ==
  \/ NewBlock
  \/ \E id \in Ids : ExecuteBump(id)
  \/ \E id \in Ids : ExecuteAttempt(id)
  \/ \E schedule \in Templates, start \in StartBlocks : Schedule(schedule, start)
  \/ \E who \in Accounts \cup {Root}, id \in Ids, block \in Future \cup {None} :
       Terminate(who, id, block)
  \/ \E who \in Accounts : UnlockReserves(who)

(* Blocks keep coming, a block executes what it has taken, and no schedule *)
(* is bumped for ever: the bump is drawn anew each time.                   *)
Fairness ==
  /\ WF_vars(NewBlock)
  /\ WF_vars(\E id \in Ids : ExecuteBump(id) \/ ExecuteAttempt(id))
  /\ \A id \in Ids : SF_vars(ExecuteAttempt(id))

Spec == Init /\ [][Next]_vars
FairSpec == Spec /\ Fairness

-----------------------------------------------------------------------------
Live(id) == schedules[id] # None

TypeOK ==
  /\ now \in 0 .. RoundTo - 1
  /\ pending \in Seq(Ids)
  /\ nextId \in 0 .. MaxId
  /\ schedules \in [Ids -> Templates \cup {None}]
  /\ ownership \subseteq Accounts \X Ids
  /\ remaining \in [Ids -> Nat \cup {None}]
  /\ retries \in [Ids -> Nat]
  /\ executionBlock \in [Ids -> 0 .. Horizon \cup {None}]
  /\ idsPerBlock \in [Future -> Seq(Ids)]
  /\ extraGas \in [Ids -> 0 .. MaxExtraGas]
  /\ free \in [Accounts -> Nat] /\ reserved \in [Accounts -> Nat]
  /\ credit \in [Ids -> Int] /\ sinceTrade \in [Ids -> 0 .. Horizon]
  /\ stuck \in [Accounts -> Nat]

Occurrences(ids, id) == Cardinality({i \in 1 .. Len(ids) : ids[i] = id})

(* The places where a schedule waits: the block being executed (0) and the *)
(* blocks it is planned for.                                               *)
Waiting(id) ==
  IF \E i \in 1 .. Len(pending) : pending[i] = id THEN {0} ELSE {}
  \cup {b \in Future : \E i \in 1 .. Len(idsPerBlock[b]) : idsPerBlock[b][i] = id}

\* A live schedule waits in the block that ScheduleExecutionBlock names and nowhere else; no block lists a
\* schedule twice, more schedules than it may execute, or one that was removed.
PlannedExactlyOnce ==
  /\ \A id \in Ids : Waiting(id) = IF Live(id) THEN {executionBlock[id]} ELSE {}
  /\ \A b \in Future : /\ Len(idsPerBlock[b]) <= MaxSchedulePerBlock
                       /\ \A id \in Ids : Occurrences(idsPerBlock[b], id) <= 1

\* A schedule that was completed or terminated, and one not yet created, has no entry in any storage.
RemovedTotally ==
  /\ \A id \in Ids : ~Live(id) => /\ remaining[id] = None /\ retries[id] = 0
                                  /\ extraGas[id] = 0 /\ executionBlock[id] = None
  /\ ownership = {<<schedules[id].owner, id>> : id \in {id \in Ids : Live(id)}}

\* A trade never follows a trade of the same schedule within its period.
TradesSpaced ==
  \A id \in Ids : Live(id) =>
    sinceTrade[id] + executionBlock[id] >= Least(schedules[id].period, Horizon)

(***************************************************************************)
(* A live schedule is planned exactly once, and no sooner than its period  *)
(* after its last trade, whatever bumps, retries and full blocks come      *)
(* between; of a schedule that was completed or terminated, by the chain   *)
(* or by a call, nothing is left.  A schedule that is in no list is never  *)
(* executed again and its budget stays reserved; one in two lists trades   *)
(* twice (plan_schedule_for_block, terminate, on_initialize).              *)
(***************************************************************************)
SchedulesConsistent == PlannedExactlyOnce /\ RemovedTotally /\ TradesSpaced

\* The named reserve of an owner is what the budgets of the live schedules have left, besides what was
\* stuck before.
ReserveBacksBudgets ==
  \A who \in Accounts :
    reserved[who] = stuck[who] + SumFunctionOnSet(remaining, {id \in Ids : Live(id) /\ schedules[id].owner = who})

\* What a schedule with a budget has not taken from its owner is still there to be returned.
SpendsOnlyTheBudget ==
  \A id \in Ids :
    credit[id] >= IF Live(id) /\ ~IsRolling(schedules[id]) THEN remaining[id] ELSE 0

(***************************************************************************)
(* The schedules of an owner share a named reserve and none draws on       *)
(* another's part: the reserve is exactly what their budgets have left,    *)
(* and all the fees, retries, failed and successful trades of a schedule,  *)
(* the last one included, take no more than its budget (schedule,          *)
(* unallocate_amount, take_transaction_fee_from_user, terminate).          *)
(***************************************************************************)
BudgetsBacked == ReserveBacksBudgets /\ SpendsOnlyTheBudget

(***************************************************************************)
(* A schedule with a budget ends: every attempt spends a fee or a retry,   *)
(* so it is completed or terminated and the rest of the budget returned.   *)
(***************************************************************************)
BudgetedSchedulesEnd ==
  \A id \in Ids : (Live(id) /\ ~IsRolling(schedules[id])) ~> ~Live(id)
=============================================================================
