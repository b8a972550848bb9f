------------------------- MODULE MCLiquidityMining -------------------------
(***************************************************************************)
(* The liquidity mining engine under its two front ends.  `front` says     *)
(* which of the two a behaviour is about; the variables of the other one   *)
(* are None.  A behaviour begins with no farm, or with two running ones,   *)
(* and with no XYK pool, or with one whose shares a user holds.            *)
(***************************************************************************)
EXTENDS LiquidityMining, TLC

CONSTANTS
  Users, Positions, PalletAccount, PositionValues, OmnipoolCalls,
  MinPoolLiquidity, MinTradingLimit, MaxInRatio, MaxOutRatio,
  FeeNumerator, FeeDenominator, Amounts, InitialBalance, IsSufficient, XykCalls

VARIABLES
  front, calls, depositOwner,
  positionOwner, omniPositionId,              \* of OmnipoolLiquidityMining
  reserve, totalLiquidity, shares, balance    \* of XYKLiquidityMining

omnipoolVars == <<positionOwner, omniPositionId>>
xykVars == <<reserve, totalLiquidity, shares, balance>>
vars == <<lmVars, front, calls, depositOwner, omnipoolVars, xykVars>>

Omnipool == INSTANCE OmnipoolLiquidityMining WITH
  PositionAsset <- [p \in Positions |-> "a"], PositionShares <- [p \in Positions |-> 2], MaxCalls <- OmnipoolCalls

Xyk == INSTANCE XYKLiquidityMining WITH
  Accounts <- Users \cup {PalletAccount}, ShareValues <- PositionValues, MaxCalls <- XykCalls

OnOmnipool == front = "omnipool"
OnXyk == front = "xyk"

MCCurves == {[initial |-> 5, scale |-> 1]}

\* Two global farms with a yield farm each, for the same pool.
FarmsRunning ==
  /\ block = 1
  /\ globalFarm = [g \in FarmIds |->
       IF g > 2 THEN None
       ELSE [NewGlobalFarm(13, 3, 1, 10, MinDeposit, FIXED) EXCEPT !.liveYieldFarms = 1, !.totalYieldFarms = 1]]
  /\ yieldFarm = [y \in FarmIds |->
       IF y \in {3, 4} THEN NewYieldFarm(y - 2, "a", 1, FIXED, [initial |-> 5, scale |-> 1]) ELSE None]
  /\ activeYieldFarm = [pg \in Pools \X FarmIds |-> IF pg[2] <= 2 THEN pg[2] + 2 ELSE None]
  /\ deposit = [d \in DepositIds |-> None]
  /\ farmSequencer = 4 /\ depositSequencer = 0
  /\ farmAccount = [g \in FarmIds |-> IF g <= 2 THEN 13 ELSE 0]
  /\ pot = IF OnXyk /\ ~IsSufficient THEN 2 * ED ELSE 0
  /\ paidOut = 0

PoolOf(u) ==
  /\ reserve = [a \in {"A", "B"} |-> 6] /\ totalLiquidity = 6
  /\ shares = [v \in Users \cup {PalletAccount} |-> IF v = u THEN 6 ELSE 0]
  /\ balance = [v \in Users |-> [a \in {"A", "B"} |-> InitialBalance]]

Init ==
  /\ front \in {"omnipool", "xyk"}
  /\ \/ LMInit /\ calls = 0
     \/ FarmsRunning /\ calls = 2
  /\ depositOwner = [d \in DepositIds |-> None]
  /\ \/ /\ OnOmnipool
        /\ positionOwner \in [Positions -> Users] /\ omniPositionId = [d \in DepositIds |-> None]
        /\ reserve = None /\ totalLiquidity = None /\ shares = None /\ balance = None
     \/ /\ OnXyk
        /\ Xyk!Pool!Init \/ \E u \in Users : PoolOf(u)
        /\ positionOwner = None /\ omniPositionId = None

Next ==
  \/ OnOmnipool /\ Omnipool!Next /\ UNCHANGED <<front, xykVars>>
  \/ OnXyk /\ Xyk!Next /\ UNCHANGED <<front, omnipoolVars>>

Spec == Init /\ [][Next]_vars

Symmetry == {p @@ q : p \in Permutations(Users), q \in Permutations(Positions)}

----------------------------------------------------------------------------
(* What was deposited is held by the pallet until the last farm is left,   *)
(* be it a position or shares, and the counters of the farms agree with    *)
(* the stored farms and entries, so that neither a farm nor an entry is    *)
(* ever orphaned (lock_lp_position, unlock_lp_postion, lock_lp_tokens,     *)
(* unlock_lp_tokens, withdraw_lp_shares, terminate_yield_farm).            *)
DepositsKept ==
  /\ CountsAgree
  /\ OnOmnipool => Omnipool!PositionsLocked
  /\ OnXyk => Xyk!DepositsAreShares

(* No call of the XYK pool lowers what stands behind one of its shares,    *)
(* those included that liquidity mining locked.                            *)
XykShareValueNeverFalls == [][OnXyk => Xyk!Pool!ShareValueKept]_vars
=============================================================================
