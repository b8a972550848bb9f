------------------------------- MODULE MCNode -------------------------------
(***************************************************************************)
(* Small instances of the two workers of the node, which share nothing:    *)
(* `worker` says which of them a behaviour is about, and the other one     *)
(* does not move.                                                          *)
(***************************************************************************)
EXTENDS LiquidationWorker, MappingSync

CONSTANTS ann, bob, eve

VARIABLE worker

MCUsers == {ann, bob, eve}
MCLists == {<<[user |-> ann, hf |-> 1], [user |-> bob, hf |-> 2]>>}
MCBorrows == {<<>>, <<eve>>}
MCLiquidations == {{}, {ann}}

nodeVars == <<vars, syncVars, worker>>

NodeInit ==
  /\ Init /\ SyncInit
  /\ worker \in {"liquidation", "mapping"}

NodeNext ==
  \/ worker = "liquidation" /\ Next /\ UNCHANGED <<syncVars, worker>>
  \/ worker = "mapping" /\ SyncNext /\ UNCHANGED <<vars, worker>>

NodeSpec ==
  /\ NodeInit /\ [][NodeNext]_nodeVars
  /\ WF_nodeVars(worker = "liquidation" /\ Worker /\ UNCHANGED <<syncVars, worker>>)
  /\ WF_nodeVars(worker = "liquidation" /\ NotifyBlock /\ UNCHANGED <<syncVars, worker>>)
  /\ WF_nodeVars(worker = "mapping" /\ SyncOneBlock /\ UNCHANGED <<vars, worker>>)

-----------------------------------------------------------------------------
(* Once blocks and updates stop coming, the liquidation thread, if it      *)
(* could start, is done with the best block and waits, or has ended with   *)
(* the streams; and the whole chain of the best block is mapped, through   *)
(* forks and changes of the best block in the middle of the walk.  A round *)
(* that was torn between its two writes costs what lies below its block    *)
(* and nothing else.                                                       *)
WorkersFinish ==
  /\ (worker = "liquidation") => Settles
  /\ (worker = "mapping") => <>[]BestChainMapped
=============================================================================
