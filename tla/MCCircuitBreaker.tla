-------------------------- MODULE MCCircuitBreaker --------------------------
(***************************************************************************)
(* Small instance of the circuit breaker's block limits and of its         *)
(* issuance fuse.  The two share no storage: `part` says which of them a   *)
(* behaviour is about, and the other one stays as it was at genesis.       *)
(***************************************************************************)
EXTENDS BlockLimits, DepositFuse

CONSTANT MaxOps   \* bound: the calls and block ends of a behaviour of BlockLimits

VARIABLES part, ops

MCAmounts == {2}
MCFees == {0, 1}
MCRatios == {<<1, 1>>, <<0, 1>>}
MCDefaultTrade == <<1, 2>>
MCDefaultLiquidity == <<1, 4>>

mcVars == <<vars, fuseVars, part, ops>>

MCInit ==
  /\ Init /\ FuseInit
  /\ ops = 0
  /\ part \in {"block limits", "issuance fuse"}
  /\ part = "block limits" => limit = None

MCNext ==
  \/ /\ part = "block limits" /\ ops < MaxOps
     /\ Next
     /\ ops' = ops + 1
     /\ UNCHANGED <<part, fuseVars>>
  \/ /\ part = "block limits" /\ ops = MaxOps
     /\ UNCHANGED mcVars
  \/ /\ part = "issuance fuse"
     /\ FuseNext
     /\ UNCHANGED <<vars, part, ops>>

MCSpec == MCInit /\ [][MCNext]_mcVars
=============================================================================
