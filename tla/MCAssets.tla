------------------------------ MODULE MCAssets ------------------------------
(***************************************************************************)
(* Small instances of three parts that concern assets and share no         *)
(* storage: the withdraw fuse, the deposits of insufficient assets, and    *)
(* the asset registry with the bonds.  `part` says which of them a         *)
(* behaviour is about; the others stay as they were at genesis.            *)
(*                                                                         *)
(* Of the withdraw fuse: an external asset worth two HDX units per three,  *)
(* one nothing prices, and HDX itself, which governance may include as a   *)
(* local or an external asset.                                             *)
(***************************************************************************)
EXTENDS WithdrawFuse, InsufficientAssets, AssetRegistry

CONSTANTS
  hdx, dot, aca, nameOfHdx, otherName,
  MaxDepositOps, MaxRegistryOps   \* bounds: the calls of a behaviour

VARIABLES part, ops

MCRegistryCategory == [a \in Assets |-> IF a = hdx THEN None ELSE "External"]
MCPrice == [a \in Assets |-> IF a = dot THEN <<3, 2>> ELSE None]
MCParams == {[limit |-> 4, window |-> 2]}
MCAssetNames == {nameOfHdx, otherName} \cup ((0 .. MaxAssetId) \X Maturities)
MCNewAssets ==
  {[name |-> otherName, asset_type |-> "Token", is_sufficient |-> FALSE, decimals |-> None],
   [name |-> <<0, 1>>, asset_type |-> "Token", is_sufficient |-> TRUE, decimals |-> 12]}
MCUpdates ==
  {u \in [name : {nameOfHdx, otherName, <<0, 1>>, None}, asset_type : {"Token", "Bond", None},
          is_sufficient : BOOLEAN \cup {None}, decimals : {12, None}] :
     Cardinality({f \in DOMAIN u : u[f] # None}) <= 1}

registryVars == <<registry, bondVars>>
mcVars == <<vars, depositVars, registryVars, part, ops>>

MCInit ==
  /\ Init /\ DepositsInit /\ BondsInit
  /\ ops = 0
  /\ part \in {"withdraw fuse", "deposits", "registry"}
  /\ part # "deposits" => isSufficient = {}

MCNext ==
  \/ part = "withdraw fuse" /\ Next /\ UNCHANGED <<depositVars, registryVars, part, ops>>
  \/ /\ part = "deposits" /\ ops < MaxDepositOps /\ ops' = ops + 1
     /\ DepositsNext /\ UNCHANGED <<vars, registryVars, part>>
  \/ /\ part = "registry" /\ ops < MaxRegistryOps
     /\ BondsNext
     /\ ops' = IF moment' = moment THEN ops + 1 ELSE ops
     /\ UNCHANGED <<vars, depositVars, part>>
  \/ part # "withdraw fuse" /\ UNCHANGED mcVars

MCSpec == MCInit /\ [][MCNext]_mcVars
=============================================================================
