---------------------------- MODULE DepositFuse ----------------------------
(***************************************************************************)
(* The issuance fuse of pallet-circuit-breaker, for one asset.             *)
(*                                                                         *)
(* Every deposit reports to IssuanceIncreaseFuse after it has been minted. *)
(* The fuse compares the growth of the total issuance in the running       *)
(* period with the limit the asset registry holds for the asset, reserves  *)
(* on the depositor what exceeds it, and puts the asset into lockdown for  *)
(* a period.  Anyone may release the reserve once the lockdown is over.    *)
(***************************************************************************)
EXTENDS Integers, Functions, FiniteSets, Option

CONSTANTS
  Accounts,        \* the accounts that receive deposits
  LockWhitelist,   \* DepositLockWhitelist: the router account
  DepositAmounts,  \* the amounts of a deposit or a burn
  Limits,          \* the values the registry may hold as xcm_rate_limit
  Period,          \* the number of blocks of a period
  MaxSupply,       \* the largest value of the Balance type
  MaxBlock         \* bound: the last block

Supply == 0 .. MaxSupply
Block == 0 .. MaxBlock

ASSUME DepositAssumption ==
  /\ IsFiniteSet(Accounts)
  /\ MaxSupply \in Nat /\ MaxBlock \in Nat /\ Period \in Nat \ {0}
  /\ LockWhitelist \subseteq Accounts
  /\ DepositAmounts \subseteq Supply \ {0} /\ Limits \subseteq Supply

Locked(until) == [status |-> "Locked", until |-> until]
Unlocked(at, base) == [status |-> "Unlocked", at |-> at, issuance |-> base]
LockdownStatus ==
  [status : {"Locked"}, until : Nat]
    \cup [status : {"Unlocked"}, at : Block, issuance : Supply]

ASSUME LockdownAssumption == None \notin LockdownStatus \cup Supply

VARIABLES
  block,          \* the current block
  limit,          \* xcm_rate_limit in the registry: a Balance or None
  lockdownState,  \* AssetLockdownState: a LockdownStatus or None
  issuance,       \* the total issuance of the asset
  free,           \* the free balance of each account
  reserved,       \* the named reserve "depositc" of each account
  (* history variables *)
  usable,         \* what deposits, less burns, left usable in this period,
                  \* no lower than -MaxSupply
  cap             \* the highest limit in force in this period

balances == <<issuance, free, reserved>>
fuseVars == <<block, limit, lockdownState, balances, usable, cap>>

-----------------------------------------------------------------------------
(* The decision of the fuse.                                               *)

(* Mutant: the last block of a lockdown does not count.                    *)
ClassifyOneBlockShort ==
  IF lockdownState = None THEN "InitialDeposit"
  ELSE IF lockdownState.status = "Locked"
  THEN IF lockdownState.until > block + 1 THEN "LockdownActive" ELSE "LockdownExpired"
  ELSE IF lockdownState.at + Period <= block THEN "PeriodExpired" ELSE "WithinPeriod"

(* classify_state.                                                         *)
ClassifyState ==
  IF lockdownState = None THEN "InitialDeposit"
  ELSE IF lockdownState.status = "Locked"
  THEN IF lockdownState.until > block THEN "LockdownActive" ELSE "LockdownExpired"
  ELSE IF lockdownState.at + Period <= block THEN "PeriodExpired" ELSE "WithinPeriod"

Saturating(x) == IF x < 0 THEN 0 ELSE x

(* The handlers see the issuance with the deposit included.                *)
NewIssuance(amount) == issuance + amount

(* What the deposit exceeds the limit by, zero when it does not: the       *)
(* amount to_lock of handle_limit_reset, handle_lockdown_expired and       *)
(* handle_within_period.                                                   *)
Excess(amount) ==
  IF ClassifyState = "WithinPeriod"
  THEN Saturating(NewIssuance(amount) - (lockdownState.issuance + limit))
  ELSE Saturating(amount - limit)

(* process_deposit_action: what is reserved on the depositor.              *)
ToLock(amount) ==
  IF limit = None THEN 0
  ELSE IF ClassifyState = "LockdownActive" THEN amount
  ELSE Excess(amount)

(* do_lock_deposit fails for a whitelisted account, and when the depositor *)
(* does not have the balance that is to be reserved.                       *)
CanLockDeposit(who, amount) ==
  /\ ToLock(amount) > 0 => who \notin LockWhitelist
  /\ ToLock(amount) <= free[who] + amount

(* Mutant: the deposit that opens a period is not counted in it.           *)
BaselineAfterDeposit(amount) == NewIssuance(amount)

(* do_reset_deposit_limits: the baseline of the period a deposit opens.    *)
Baseline(amount) == Saturating(NewIssuance(amount) - amount)

(* AssetLockdownState after the deposit.                                   *)
StateAfterDeposit(amount) ==
  CASE limit = None -> lockdownState
    [] limit # None /\ ClassifyState = "LockdownActive" -> lockdownState
    [] limit # None /\ ClassifyState # "LockdownActive" /\ Excess(amount) > 0 ->
         Locked(block + Period)
    [] OTHER -> IF ClassifyState = "WithinPeriod" THEN lockdownState
                ELSE Unlocked(block, Baseline(amount))

-----------------------------------------------------------------------------
FuseInit ==
  /\ block = 0
  /\ limit \in Limits \cup {None}
  /\ lockdownState = None
  /\ issuance = 0
  /\ free = [who \in Accounts |-> 0]
  /\ reserved = [who \in Accounts |-> 0]
  /\ usable = 0
  /\ cap = 0

(* The history variable usable stops at -MaxSupply.                       *)
Floor(x) == IF x < 0 - MaxSupply THEN 0 - MaxSupply ELSE x

(* A period begins with the first deposit after the last one ran out.      *)
OpensPeriod == ClassifyState \in {"InitialDeposit", "PeriodExpired", "LockdownExpired"}

(***************************************************************************)
(* on_deposit, after the amount was minted.                                *)
(***************************************************************************)
Deposit(who, amount) ==
  LET locked == ToLock(amount)
      counted == IF limit = None THEN 0 ELSE amount - locked
  IN
  /\ NewIssuance(amount) <= MaxSupply
  /\ CanLockDeposit(who, amount)
  /\ issuance' = NewIssuance(amount)
  /\ free' = [free EXCEPT ![who] = @ + amount - locked]
  /\ reserved' = [reserved EXCEPT ![who] = @ + locked]
  /\ lockdownState' = StateAfterDeposit(amount)
  /\ IF limit # None /\ OpensPeriod
     THEN usable' = Floor(counted) /\ cap' = limit
     ELSE usable' = Floor(usable + counted) /\ UNCHANGED cap
  /\ UNCHANGED <<block, limit>>

(* A withdrawal burns the amount: the ledger asks for the balance and      *)
(* takes it from the issuance, which is the sum of all balances.           *)
Burn(who, amount) ==
  /\ amount <= free[who] /\ amount <= issuance
  /\ issuance' = issuance - amount
  /\ free' = [free EXCEPT ![who] = @ - amount]
  /\ usable' = Floor(usable - amount)
  /\ UNCHANGED <<block, limit, lockdownState, reserved, cap>>

(* release_deposit.                                                        *)
ReleaseDeposit(who) ==
  /\ ClassifyState # "LockdownActive"
  /\ reserved[who] # 0
  /\ free' = [free EXCEPT ![who] = @ + reserved[who]]
  /\ reserved' = [reserved EXCEPT ![who] = 0]
  /\ UNCHANGED <<block, limit, lockdownState, issuance, usable, cap>>

(* lockdown_asset, for any block the authority chooses.                    *)
LockdownAsset(until) ==
  /\ lockdownState' = Locked(until)
  /\ UNCHANGED <<block, limit, balances, usable, cap>>

(* force_lift_lockdown: a new period begins with the current issuance.     *)
ForceLiftLockdown ==
  /\ lockdownState # None
  /\ lockdownState.status = "Locked"
  /\ lockdownState' = Unlocked(block, Baseline(0))
  /\ usable' = 0
  /\ cap' = IF limit = None THEN 0 ELSE limit
  /\ UNCHANGED <<block, limit, balances>>

(* update of the asset registry: the limit may change but not vanish.      *)
SetXcmRateLimit(value) ==
  /\ limit' = value
  /\ cap' = IF value > cap THEN value ELSE cap
  /\ UNCHANGED <<block, lockdownState, balances, usable>>

NewBlock ==
  /\ block < MaxBlock
  /\ block' = block + 1
  /\ UNCHANGED <<limit, lockdownState, balances, usable, cap>>

FuseNext ==
  \/ \E who \in Accounts, x \in DepositAmounts : Deposit(who, x)
  \/ \E who \in Accounts, x \in DepositAmounts : Burn(who, x)
  \/ \E who \in Accounts : ReleaseDeposit(who)
  \/ \E until \in Block : LockdownAsset(until)
  \/ ForceLiftLockdown
  \/ \E value \in Limits : SetXcmRateLimit(value)
  \/ NewBlock

FuseSpec == FuseInit /\ [][FuseNext]_fuseVars

-----------------------------------------------------------------------------
FuseTypeOK ==
  /\ block \in Block
  /\ limit \in Supply \cup {None}
  /\ lockdownState \in LockdownStatus \cup {None}
  /\ issuance \in Supply
  /\ free \in [Accounts -> Nat]
  /\ reserved \in [Accounts -> Nat]
  /\ usable \in (0 - MaxSupply) .. MaxSupply
  /\ cap \in Supply

(***************************************************************************)
(* Whatever the deposits, burns, lockdowns and limit changes of a period,  *)
(* what its deposits leave usable, net of burns, stays within the highest  *)
(* limit in force in it: no order of deposits adds up to more.             *)
(***************************************************************************)
UsableWithinLimit == usable <= cap

(***************************************************************************)
(* While an asset with a limit is in lockdown its usable supply only       *)
(* shrinks: deposits are reserved whole and the reserves stay put.         *)
(***************************************************************************)
LockdownActive == lockdownState # None /\ lockdownState.status = "Locked"
                  /\ lockdownState.until > block
TotalFree == SumFunctionOnSet(free, Accounts)

LockdownHoldsSupply == [][limit # None /\ LockdownActive => TotalFree' <= TotalFree]_fuseVars
=============================================================================
