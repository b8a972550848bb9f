------------------------- MODULE LiquidationWorker -------------------------
(***************************************************************************)
(* The liquidation worker of the node: an async task that forwards new     *)
(* best blocks and oracle transactions through a channel, and a thread     *)
(* that goes through the borrowers and sends liquidation transactions.     *)
(*                                                                         *)
(* The two share only the channel, so a step of the thread is one receive  *)
(* and what the thread does until the next one.  The chain is external:    *)
(* which users borrow or are liquidated in a block, what a health factor   *)
(* is, whether a runtime call answers, are arbitrary.  A health factor is  *)
(* 0 (to be calculated), 1 (at most one) or 2 (above one).                 *)
(***************************************************************************)
EXTENDS Integers, SequencesExt

CONSTANTS
  Users,             \* the addresses that may borrow
  InitialLists,      \* the lists of borrowers the node may start with
  Borrows,           \* the sequences of borrowers a block may report
  Liquidations,      \* the sets of users a block may liquidate
  Capacities,        \* the values calculate_max_number_of_liquidations_in_block may have
  MaxBlocks,         \* bound: the last block
  MaxUpdates         \* bound: the oracle updates

ASSUME CapacitiesAssumption == Capacities \subseteq Nat

VARIABLES
  best,              \* the best block
  current_hash,      \* the block whose events the task reads next
  channel,           \* worker_channel: the messages on their way
  updates,           \* how many oracle updates were seen
  connected,         \* the sending half of the channel exists
  (* the thread *)
  pc,                \* "recv", "match": top of the main loop, "loop": before borrower index, "wait": in recv();
                     \* "gone": the thread returned before its main loop
  current_task, index, header, borrowers,
  borrowers_c,       \* the copy that a pass iterates over
  borrowers_list,    \* the copy for the RPC
  liquidated_users, tx_waitlist,
  max_transactions,  \* fixed by the configuration and the weights of the build
  (* history variables *)
  sent,              \* the users of the transactions sent in this block
  examined,          \* the users looked at since the last block or price
  deferred,          \* the users new to the list since the money market was last fetched
  reported           \* the users whose borrowing was read from a block

notifierVars == <<best, current_hash, updates, connected, reported, max_transactions>>
listVars == <<header, borrowers, borrowers_c, borrowers_list, liquidated_users, tx_waitlist>>
controlVars == <<pc, current_task, index>>
historyVars == <<sent, examined, deferred>>
vars == <<notifierVars, channel, listVars, controlVars, historyVars>>

NewBlock(number, borrows, liquidated) ==
  [type |-> "Block", number |-> number, borrows |-> borrows, liquidated |-> liquidated]
OracleUpdate == [type |-> "OracleUpdate"]

UsersOf(list) == {list[i].user : i \in DOMAIN list}

-----------------------------------------------------------------------------
(* The list of borrowers.                                                  *)

\* sort_by(health_factor), which keeps the order of equal ones.
Sorted(list) ==
  SelectSeq(list, LAMBDA b : b.hf = 0) \o SelectSeq(list, LAMBDA b : b.hf = 1) \o SelectSeq(list, LAMBDA b : b.hf = 2)

WithHealthFactor(list, user, hf) ==
  [i \in DOMAIN list |-> IF list[i].user = user THEN [list[i] EXCEPT !.hf = hf] ELSE list[i]]

\* One turn of the loop of add_new_borrowers.
AddNewBorrower(list, user) ==
  IF user \in UsersOf(list) THEN WithHealthFactor(list, user, 0)
  ELSE <<[user |-> user, hf |-> 0]>> \o list

AddNewBorrowers(list, new) == Sorted(FoldLeft(AddNewBorrower, list, new))

-----------------------------------------------------------------------------
\* The thread gives up at once when it cannot read the timestamp of its first block.
Init ==
  /\ best = 1 /\ current_hash = 1
  /\ channel = <<>> /\ updates = 0 /\ connected = TRUE /\ reported = {}
  /\ \E list \in InitialLists : borrowers = Sorted(list)
  /\ borrowers_c = borrowers /\ borrowers_list = <<>>
  /\ header = 1 /\ max_transactions \in Capacities /\ liquidated_users = <<>> /\ tx_waitlist = {}
  /\ pc \in {"recv", "gone"} /\ current_task = "WaitForNewTransaction" /\ index = 1
  /\ sent = <<>> /\ examined = Users /\ deferred = {}

\* The chain imports a new best block.
ImportBlock ==
  /\ best < MaxBlocks
  /\ best' = best + 1
  /\ UNCHANGED <<current_hash, updates, connected, reported, max_transactions, channel, listVars, controlVars, historyVars>>

\* send(), whose result the task ignores: nothing arrives once the receiver is dropped.
SendMessage(m) == channel' = IF pc = "gone" THEN channel ELSE Append(channel, m)

(* run: a new best block.  The events that go with it are those of the     *)
(* block before, current_hash; none when they cannot be read.              *)
NotifyBlock ==
  /\ connected /\ current_hash < best
  /\ \E borrows \in Borrows, liquidated \in Liquidations :
       /\ SendMessage(NewBlock(current_hash + 1, borrows, liquidated))
       /\ reported' = reported \cup ToSet(borrows)
  /\ current_hash' = current_hash + 1
  /\ UNCHANGED <<best, updates, connected, max_transactions, listVars, controlVars, historyVars>>

\* run: an oracle transaction enters the transaction pool.
NotifyTransaction ==
  /\ connected /\ updates < MaxUpdates
  /\ updates' = updates + 1
  /\ SendMessage(OracleUpdate)
  /\ UNCHANGED <<best, current_hash, connected, reported, max_transactions, listVars, controlVars, historyVars>>

\* run: the notification streams are exhausted, the task ends.
EndOfStreams ==
  /\ connected
  /\ connected' = FALSE
  /\ UNCHANGED <<best, current_hash, updates, reported, max_transactions, channel, listVars, controlVars, historyVars>>

-----------------------------------------------------------------------------
(* The thread receives a message.                                          *)

(* Mutant: the money market is fetched before the new borrowers are added. *)
FetchBeforeAdding(m) ==
  \E fetched \in BOOLEAN :
    /\ header' = m.number
    /\ IF fetched
       THEN /\ borrowers' = AddNewBorrowers(borrowers, m.borrows)
            /\ tx_waitlist' = tx_waitlist \ m.liquidated
            /\ borrowers_c' = borrowers' /\ borrowers_list' = borrowers' /\ liquidated_users' = <<>>
            /\ deferred' = {}
       ELSE UNCHANGED <<borrowers, tx_waitlist, borrowers_c, borrowers_list, liquidated_users, deferred>>
    /\ sent' = <<>> /\ examined' = {}

(* process_new_block, which returns early when the data of the money       *)
(* market cannot be fetched.                                               *)
ProcessNewBlock(m) ==
  \E fetched \in BOOLEAN :
    /\ header' = m.number
    /\ borrowers' = AddNewBorrowers(borrowers, m.borrows)
    /\ tx_waitlist' = tx_waitlist \ m.liquidated
    /\ IF fetched
       THEN /\ borrowers_c' = borrowers' /\ borrowers_list' = borrowers' /\ liquidated_users' = <<>>
            /\ deferred' = {}
       ELSE /\ UNCHANGED <<borrowers_c, borrowers_list, liquidated_users>>
            /\ deferred' = deferred \cup (ToSet(m.borrows) \ UsersOf(borrowers))
    /\ sent' = <<>> /\ examined' = {}

\* A message decides the next task, whichever of the three places receives it.
Receive ==
  /\ channel # <<>>
  /\ channel' = Tail(channel)
  /\ IF Head(channel).type = "Block"
     THEN ProcessNewBlock(Head(channel)) /\ current_task' = "LiquidateAll"
     ELSE current_task' = "OracleUpdate" /\ UNCHANGED <<listVars, historyVars>>

\* match current_task: an oracle update begins with the new prices.
Begin(task) ==
  /\ pc' = IF task = "WaitForNewTransaction" THEN "wait" ELSE "loop"
  /\ index' = 1
  /\ examined' = IF task = "OracleUpdate" THEN {} ELSE examined

Exit ==
  /\ current_task' = "Exited"
  /\ UNCHANGED <<channel, listVars, pc, index, historyVars>>

\* The top of the main loop: try_recv, then the task.
TopOfLoop ==
  /\ pc = "recv" /\ current_task # "Exited"
  /\ \/ Receive /\ pc' = "match" /\ UNCHANGED index
     \/ /\ channel = <<>> /\ connected
        /\ Begin(current_task)
        /\ UNCHANGED <<channel, current_task, listVars, sent, deferred>>
     \/ channel = <<>> /\ ~connected /\ Exit

StartTask ==
  /\ pc = "match"
  /\ Begin(current_task)
  /\ UNCHANGED <<channel, current_task, listVars, sent, deferred>>

\* recv() of WaitForNewTransaction.
AwaitMessage ==
  /\ pc = "wait" /\ current_task # "Exited"
  /\ \/ Receive /\ pc' = "recv" /\ UNCHANGED index
     \/ channel = <<>> /\ ~connected /\ Exit

\* A message that arrives during a pass ends the pass.
Interrupted ==
  /\ pc = "loop" /\ index <= Len(borrowers_c)
  /\ Receive
  /\ pc' = "recv" /\ UNCHANGED index

TaskAfterPass == IF current_task = "OracleUpdate" THEN "LiquidateAll" ELSE "WaitForNewTransaction"

EndOfPass ==
  /\ pc = "loop" /\ index > Len(borrowers_c)
  /\ current_task' = TaskAfterPass
  /\ pc' = "recv" /\ UNCHANGED index
  /\ UNCHANGED <<channel, listVars, historyVars>>

-----------------------------------------------------------------------------
(* try_liquidate.                                                          *)

(* Mutant: only the waitlist is looked at.                                 *)
SkippedAsWaiting(user) == current_task = "OracleUpdate" /\ user \in tx_waitlist

Skipped(user) ==
  \/ user \in ToSet(liquidated_users)
  \/ current_task = "OracleUpdate" /\ user \in tx_waitlist

BlockFull == Len(liquidated_users) >= max_transactions

\* What the runtime calls find out: nothing, a healthy user, no liquidation option, an option.
Findings == {"failed", "healthy", "no option", "option"}

HealthFactorAfter(user, finding) ==
  CASE finding = "failed"    -> borrowers
    [] finding = "healthy"   -> WithHealthFactor(borrowers, user, 2)
    [] finding = "no option" -> WithHealthFactor(borrowers, user, 1)
    [] finding = "option"    -> WithHealthFactor(borrowers, user, 0)

\* A user on the waitlist gets a second transaction only when the dry run of it succeeds.
DryRunNeeded(user) == current_task = "LiquidateAll" /\ user \in tx_waitlist

Send(user) ==
  /\ liquidated_users' = Append(liquidated_users, user)
  /\ tx_waitlist' = tx_waitlist \cup {user}
  /\ sent' = Append(sent, user)

TryLiquidate(user) ==
  IF Skipped(user) THEN UNCHANGED <<listVars, historyVars>>
  ELSE \E finding \in Findings, dryRun \in BOOLEAN :
    /\ borrowers' = HealthFactorAfter(user, finding)
    /\ examined' = examined \cup {user}
    /\ IF finding = "option" /\ ~BlockFull /\ (DryRunNeeded(user) => dryRun)
       THEN Send(user)
       ELSE UNCHANGED <<liquidated_users, tx_waitlist, sent>>
    /\ UNCHANGED <<header, borrowers_c, borrowers_list, deferred>>

NextBorrower ==
  /\ pc = "loop" /\ index <= Len(borrowers_c)
  /\ channel = <<>>
  /\ TryLiquidate(borrowers_c[index].user)
  /\ index' = index + 1
  /\ UNCHANGED <<channel, pc, current_task>>

Worker ==
  /\ TopOfLoop \/ StartTask \/ AwaitMessage \/ Interrupted \/ NextBorrower \/ EndOfPass
  /\ UNCHANGED notifierVars

Next == ImportBlock \/ NotifyBlock \/ NotifyTransaction \/ EndOfStreams \/ Worker

Spec == Init /\ [][Next]_vars

(* The thread runs on a pool of its own and blocks only in recv(); the     *)
(* task is polled by the executor whenever a stream has an item.           *)
FairSpec == Spec /\ WF_vars(Worker) /\ WF_vars(NotifyBlock)

-----------------------------------------------------------------------------
\* A user appears once among those sent a transaction.
OncePerBlock == \A i, j \in DOMAIN sent : sent[i] = sent[j] => i = j

\* The weight left for liquidations holds all of them.
BlockCapacity == Len(sent) <= max_transactions

(***************************************************************************)
(* In one block a user is sent at most one transaction and all the passes  *)
(* together no more than fit, although a block has a pass of its own and   *)
(* another pair of passes after every oracle update, and although the list *)
(* that says so outlives the block when the money market cannot be fetched.*)
(***************************************************************************)
SendsLimited == OncePerBlock /\ BlockCapacity

\* The thread waits only when every borrower was examined after the last block or price it took in, or
\* has a transaction out.  The exception are users first reported with a block whose money market could
\* not be fetched: no pass visits them before a later block brings a fetch that succeeds.
SweepComplete ==
  current_task = "WaitForNewTransaction" =>
    UsersOf(borrowers) \subseteq examined \cup ToSet(liquidated_users) \cup deferred

\* A user whose borrowing was read from a block is on the list or in a message on its way.
EveryBorrowerKnown ==
  reported \subseteq UsersOf(borrowers) \cup
    UNION {ToSet(channel[i].borrows) : i \in {k \in DOMAIN channel : channel[k].type = "Block"}}

(***************************************************************************)
(* While there is a thread no borrower is forgotten: whoever was reported  *)
(* is on the list, also when the money market could not be fetched for the *)
(* block that brought the report, and everybody on it was looked at before *)
(* the thread waits, except the newcomers of blocks without a money market *)
(* (process_new_block, liquidation_worker).                                *)
(***************************************************************************)
NobodyForgotten == pc # "gone" => EveryBorrowerKnown /\ SweepComplete

(***************************************************************************)
(* Once blocks and updates stop coming the thread, if it started, is done  *)
(* with the best block and waits; once the streams have ended it has ended *)
(* as well.                                                                *)
(***************************************************************************)
Settles ==
  <>[](CASE pc = "gone" -> channel = <<>>
         [] pc # "gone" /\ connected -> pc = "wait" /\ header = best /\ channel = <<>>
         [] OTHER -> current_task = "Exited")
=============================================================================
