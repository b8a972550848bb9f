----------------------------- MODULE MappingSync -----------------------------
(***************************************************************************)
(* The node's worker that maps Substrate blocks to Ethereum blocks and     *)
(* transactions.  It walks from the newest block towards genesis, one      *)
(* block at a time, and keeps in its database the blocks it has mapped and *)
(* a stack of blocks to continue from.  The two are written one after the  *)
(* other, while blocks are imported and the node may stop.                 *)
(*                                                                         *)
(* The worker's timer lets it run at any time; sync_blocks, which repeats  *)
(* a round until one has mapped a block, up to a limit, has no state of    *)
(* its own.  What is remembered of a block for subscribers, and what they  *)
(* are told, is not modelled.                                              *)
(***************************************************************************)
EXTENDS Integers, Sequences, SequencesExt

CONSTANTS
  MaxBlockId,     \* bound: the blocks of the tree; 0 is genesis
  MaxSwitches,    \* bound: how often the best block changes
  MaxStops        \* bound: how often the worker is stopped inside a round

VARIABLES
  parent, number, best_hash,   \* the blocks of the node: external
  synced,                 \* frontier_backend.mapping(): the blocks mapped
  tips,                   \* frontier_backend.meta(): current_syncing_tips
  phase, op, rest,        \* the round: operating_header and the tips below it
  torn,                   \* history: the blocks mapped in a round that did not write its tips
  switches, stops

syncVars == <<parent, number, best_hash, synced, tips, phase, op, rest, torn, switches, stops>>
blockTree == <<parent, number, best_hash, switches>>

Blocks == DOMAIN parent
Unknown == -1
Leaves == {b \in Blocks : \A c \in Blocks : parent[c] # b}

-----------------------------------------------------------------------------
\* A database that is still empty, at a node that has genesis.
SyncInit ==
  /\ parent = [b \in {0} |-> Unknown] /\ number = [b \in {0} |-> 0] /\ best_hash = 0
  /\ synced = {} /\ tips = <<>>
  /\ phase = "idle" /\ op = Unknown /\ rest = <<>>
  /\ torn = {} /\ switches = 0 /\ stops = 0

Import(p) ==
  LET b == Cardinality(Blocks)
  IN /\ b <= MaxBlockId
     /\ parent' = [c \in Blocks \cup {b} |-> IF c \in Blocks THEN parent[c] ELSE p]
     /\ number' = [c \in Blocks \cup {b} |-> IF c \in Blocks THEN number[c] ELSE number[p] + 1]
     /\ UNCHANGED <<best_hash, synced, tips, phase, op, rest, torn, switches, stops>>

\* The best block never moves to a lower one.
NewBest(b) ==
  /\ switches < MaxSwitches /\ switches' = switches + 1
  /\ b # best_hash /\ number[b] >= number[best_hash]
  /\ best_hash' = b
  /\ UNCHANGED <<parent, number, synced, tips, phase, op, rest, torn, stops>>

\* Mutant: only the tips are followed.
TipsOnly(stack) == stack

\* SyncStrategy::Parachain: the best block is tried first.
WithBest(stack) == IF best_hash \in synced THEN stack ELSE Append(stack, best_hash)

(* The first half of sync_one_block: the tips, the leaves when there are   *)
(* none, and of them the last that is not mapped yet (fetch_header).       *)
Fetch ==
  /\ phase = "idle"
  /\ \E leaves \in {s \in [1 .. Cardinality(Leaves) -> Leaves] : Leaves = Range(s)} :
       LET stack == WithBest(IF tips = <<>> THEN leaves ELSE tips)
           unsynced == {i \in DOMAIN stack : stack[i] \notin synced}
       IN \/ /\ unsynced = {}
             /\ tips' = <<>> /\ UNCHANGED <<phase, op, rest>>
          \/ \E last \in unsynced :
               /\ \A i \in unsynced : i <= last
               /\ op' = stack[last] /\ rest' = SubSeq(stack, 1, last - 1)
               /\ phase' = "found" /\ UNCHANGED tips
  /\ UNCHANGED <<blockTree, synced, torn, stops>>

\* Whatever ends a round, nothing of it is kept but what was written.
EndRound == phase' = "idle" /\ op' = Unknown /\ rest' = <<>>

(* A block above the best one has to wait; the round leaves no trace.      *)
TooHigh ==
  /\ phase = "found" /\ op # 0 /\ number[op] > number[best_hash]
  /\ EndRound
  /\ UNCHANGED <<blockTree, synced, tips, torn, stops>>

(* sync_block, sync_genesis_block.                                         *)
SyncBlock ==
  /\ phase = "found" /\ (op = 0 \/ number[op] <= number[best_hash])
  /\ synced' = synced \cup {op}
  /\ phase' = "mapped"
  /\ UNCHANGED <<blockTree, tips, op, rest, torn, stops>>

\* Mutant: the walk ends with the block.
TipsWithoutParent == rest

TipsAfter == IF op = 0 THEN rest ELSE Append(rest, parent[op])

WriteTips ==
  /\ phase = "mapped"
  /\ tips' = TipsAfter
  /\ EndRound
  /\ UNCHANGED <<blockTree, synced, torn, stops>>

(* The node stops, or the database refuses a write.                        *)
Stop ==
  /\ phase # "idle" /\ stops < MaxStops
  /\ stops' = stops + 1
  /\ torn' = IF phase = "mapped" THEN torn \cup {op} ELSE torn
  /\ EndRound
  /\ UNCHANGED <<blockTree, synced, tips>>

SyncOneBlock == Fetch \/ TooHigh \/ SyncBlock \/ WriteTips

SyncNext ==
  \/ \E b \in Blocks : Import(b) \/ NewBest(b)
  \/ SyncOneBlock
  \/ Stop

SyncFairness == WF_syncVars(SyncOneBlock)

SyncSpec == SyncInit /\ [][SyncNext]_syncVars /\ SyncFairness

-----------------------------------------------------------------------------
\* What lies below a mapped block is mapped or will be returned to, except below a block after which the
\* worker was stopped between its two writes: nobody returns to the parent of that one.
NoGapsUnlessTorn ==
  \A b \in synced \ ({0} \cup torn) :
    parent[b] \in synced \cup Range(tips) \/ (phase = "mapped" /\ op = b)

\* The chain of a block down to genesis, or to the first block where a round was torn.
ChainToTear[b \in Blocks] == IF b = 0 \/ b \in torn THEN {b} ELSE {b} \cup ChainToTear[parent[b]]

\* The whole chain of the best block is mapped, down to where a round was torn if one was.
BestChainMapped == ChainToTear[best_hash] \subseteq synced
=============================================================================
