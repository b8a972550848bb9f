---------------------- MODULE OmnipoolLiquidityMining ----------------------
(***************************************************************************)
(* Liquidity mining for Omnipool positions: the pallet's calls on top of   *)
(* the engine of LiquidityMining.  A user locks the NFT of an Omnipool     *)
(* position with the pallet and gets the NFT of a deposit; whoever holds   *)
(* the deposit claims its rewards and gets the position when the last      *)
(* entry is withdrawn.  join_farms and exit_farms are sequences of these   *)
(* calls in one transaction.                                               *)
(***************************************************************************)
EXTENDS LiquidityMining

CONSTANTS
  Users,
  Positions,         \* Omnipool position NFTs
  PositionAsset,     \* asset of each position
  PositionShares,    \* shares of each position
  PalletAccount      \* account of the liquidity mining pallet

CONSTANTS
  PositionValues,    \* values of a position in the hub asset, at the oracle's price
  MaxCalls           \* bound on the number of calls

VARIABLES
  positionOwner,     \* owner of each position NFT
  omniPositionId,    \* OmniPositionId: the position locked for a deposit
  depositOwner,      \* owner of each deposit NFT, None when it is not minted
  calls              \* number of calls so far

nftVars == <<positionOwner, omniPositionId, depositOwner>>
vars == <<lmVars, nftVars, calls>>

Init ==
  /\ LMInit
  /\ positionOwner \in [Positions -> Users]
  /\ omniPositionId = [d \in DepositIds |-> None]
  /\ depositOwner = [d \in DepositIds |-> None]
  /\ calls = 0

\* do_deposit_shares and lock_lp_position
DepositShares(u, p, y, value, price) ==
  LET d == depositSequencer + 1
  IN  /\ positionOwner[p] = u
      /\ DepositLpShares(y, PositionAsset[p], PositionShares[p], value, price)
      /\ positionOwner' = [positionOwner EXCEPT ![p] = PalletAccount]
      /\ omniPositionId' = [omniPositionId EXCEPT ![d] = p]
      /\ depositOwner' = [depositOwner EXCEPT ![d] = u]

RedepositShares(u, d, y, value, price) ==
  /\ depositOwner[d] = u
  /\ positionOwner[omniPositionId[d]] = PalletAccount
  /\ RedepositLpShares(d, y, value, price)
  /\ UNCHANGED nftVars

\* The front end refuses a claim of nothing, and one that went to the treasury.
ClaimDepositRewards(u, d, y, price) ==
  /\ depositOwner[d] = u
  /\ ClaimRewards(d, y, price)
  /\ paidOut' # paidOut
  /\ UNCHANGED nftVars

(* A mutant: the first exit unlocks the position.                          *)
UnlockAtFirstExit(u, d, y, price) ==
  /\ depositOwner[d] = u
  /\ positionOwner[omniPositionId[d]] = PalletAccount
  /\ WithdrawLpShares(d, y, price)
  /\ positionOwner' = [positionOwner EXCEPT ![omniPositionId[d]] = u]
  /\ UNCHANGED <<omniPositionId, depositOwner>>

\* withdraw_shares and unlock_lp_postion
WithdrawShares(u, d, y, price) ==
  /\ depositOwner[d] = u
  /\ positionOwner[omniPositionId[d]] = PalletAccount
  /\ WithdrawLpShares(d, y, price)
  /\ IF deposit'[d] = None
     THEN /\ positionOwner' = [positionOwner EXCEPT ![omniPositionId[d]] = u]
          /\ omniPositionId' = [omniPositionId EXCEPT ![d] = None]
          /\ depositOwner' = [depositOwner EXCEPT ![d] = None]
     ELSE UNCHANGED nftVars

\* The holder of an NFT may give it away.
TransferDeposit(u, v, d) ==
  /\ depositOwner[d] = u
  /\ depositOwner' = [depositOwner EXCEPT ![d] = v]
  /\ UNCHANGED <<lmVars, positionOwner, omniPositionId>>

ProviderStep ==
  \/ \E u \in Users, p \in Positions, y \in FarmIds, value \in PositionValues, price \in OracleAnswers :
       DepositShares(u, p, y, value, price)
  \/ \E u \in Users, d \in DepositIds, y \in FarmIds, value \in PositionValues, price \in OracleAnswers :
       RedepositShares(u, d, y, value, price)
  \/ \E u \in Users, d \in DepositIds, y \in FarmIds, price \in OracleAnswers : ClaimDepositRewards(u, d, y, price)
  \/ \E u \in Users, d \in DepositIds, y \in FarmIds, price \in OracleAnswers : WithdrawShares(u, d, y, price)
  \/ \E u, v \in Users, d \in DepositIds : TransferDeposit(u, v, d)

\* This front end offers update_global_farm, and not the engine's price adjustment call.
OwnerStep ==
  /\ \/ OwnerCalls(Pools, 0)
     \/ \E g \in FarmIds, n \in PlannedPeriods, yield \in YieldsPerPeriod, price \in OracleAnswers :
          UpdateGlobalFarm(g, n, yield, MinDeposit, price)
  /\ UNCHANGED nftVars

Next ==
  \/ /\ calls < MaxCalls
     /\ calls' = calls + 1
     /\ ProviderStep \/ OwnerStep
  \/ NewBlock /\ UNCHANGED <<nftVars, calls>>

Spec == Init /\ [][Next]_vars

\* The pallet holds a position exactly while one deposit stands for it, and that deposit has an owner
\* and a record: no position is stranded with the pallet and none is released while it earns rewards.
PositionsLocked ==
  /\ \A p \in Positions :
       LET locks == {d \in DepositIds : omniPositionId[d] = p}
       IN  /\ Cardinality(locks) <= 1
           /\ (positionOwner[p] = PalletAccount) <=> (locks # {})
           /\ \A d \in locks : deposit[d] # None /\ deposit[d].pool = PositionAsset[p]
  /\ \A d \in DepositIds : (deposit[d] # None) <=> (depositOwner[d] # None)
  /\ \A d \in LiveDeposits : omniPositionId[d] # None
=============================================================================
