---------------------------- MODULE WithdrawFuse ----------------------------
(***************************************************************************)
(* The global withdraw limit of pallet-circuit-breaker with the runtime    *)
(* hooks that feed it.                                                     *)
(*                                                                         *)
(* Value that leaves the chain is converted to HDX and added to an         *)
(* accumulator that decays linearly over a window; an operation that would *)
(* lift it to the limit fails.  An inbound XCM message is accounted as a   *)
(* whole: its withdrawals and deposits go to a buffer, and the net amount  *)
(* is noted when the message has been processed.  Transaction fees are     *)
(* withdrawn with the fuse switched off.                                   *)
(***************************************************************************)
EXTENDS Integers, Option

CONSTANTS
  Assets,            \* the registered assets
  NativeAsset,       \* HDX, the reference currency
  RegistryCategory,  \* "External" or None, from the asset type in the registry
  Price,             \* price of an asset: <<numerator, denominator>> or None
  Accounts,          \* the accounts that appear in transfers and deposits
  Treasury,          \* the receiver of the transaction fees
  Amounts,           \* the amounts an operation may move
  Params,            \* the [limit, window] records governance may set
  Lockdowns,         \* the timestamps governance may set a lockdown to
  PolicyAssets,      \* the assets whose category governance may override
  PolicyAccounts,    \* the accounts governance may mark as egress
  Accuracy,          \* the number of parts of a Perbill
  MaxBalance,        \* the largest value of the Balance type
  MaxTime            \* bound: the last timestamp

Categories == {"External", "Local"}
Balance == 0 .. MaxBalance
Time == 0 .. MaxTime

ASSUME FuseAssumption ==
  /\ MaxBalance \in Nat /\ MaxTime \in Nat /\ Accuracy \in Nat \ {0}
  /\ NativeAsset \in Assets /\ Treasury \in Accounts
  /\ PolicyAssets \subseteq Assets /\ PolicyAccounts \subseteq Accounts
  /\ RegistryCategory \in [Assets -> {"External", None}]
  /\ Price \in [Assets -> ((Nat \ {0}) \X (Nat \ {0})) \cup {None}]
  /\ Amounts \subseteq Balance \ {0}
  /\ Params \subseteq [limit : Nat, window : Nat]
  /\ Lockdowns \subseteq Nat
  /\ None \notin (Params \cup Nat \cup Categories \cup (Nat \X Nat))

VARIABLES
  now,                     \* the timestamp of the current block
  globalWithdrawLimit,     \* GlobalWithdrawLimitConfig
  accumulator,             \* WithdrawLimitAccumulator: [current, last]
  lockdownUntil,           \* WithdrawLockdownUntil
  egressAccounts,          \* EgressAccounts
  assetOverrides,          \* GlobalAssetOverrides
  xcmBuffer,               \* XcmEgressBuffer: [withdrawn, deposited] or None
  pendingFee,              \* the fee of the extrinsic in progress, or None
  (* history variables *)
  plainMessage,            \* the message so far did no more than move assets
                           \* in and out of its holding
  observed                 \* the net egress noted since some block, or None

policy == <<egressAccounts, assetOverrides>>
governed == <<globalWithdrawLimit, lockdownUntil, policy>>
vars == <<now, globalWithdrawLimit, accumulator, lockdownUntil, policy,
          xcmBuffer, pendingFee, plainMessage, observed>>

-----------------------------------------------------------------------------
(* What is accounted, and in which amount.                                 *)

Saturating(x) == IF x < 0 THEN 0 ELSE x
Min(x, y) == IF x < y THEN x ELSE y

(* convert_to_hdx: rounded up; fails for an asset that nothing prices.     *)
Convertible(a) == a = NativeAsset \/ Price[a] # None
ConvertToHdx(a, amount) ==
  IF a = NativeAsset THEN amount
  ELSE (amount * Price[a][2] + Price[a][1] - 1) \div Price[a][1]

(* global_asset_category: the override wins over the registry.             *)
GlobalAssetCategory(a) ==
  IF assetOverrides[a] # None THEN assetOverrides[a] ELSE RegistryCategory[a]

(* should_account_withdraw_operation of a withdrawal with the fuse active. *)
ShouldAccountWithdraw(a) == GlobalAssetCategory(a) # None

(* should_account_deposit_operation.                                       *)
ShouldAccountDeposit(a, who) ==
  \/ GlobalAssetCategory(a) = "External"
  \/ GlobalAssetCategory(a) = "Local" /\ who \in egressAccounts

IsLockdownAt(time) == lockdownUntil # None /\ time < lockdownUntil

(* try_to_decay_withdraw_limit_accumulator: the accumulator afterwards.    *)
Decayed(acc) ==
  IF globalWithdrawLimit = None \/ globalWithdrawLimit.window < 1
     \/ now = acc.last \/ IsLockdownAt(now)
  THEN acc
  ELSE LET window == globalWithdrawLimit.window
           dt == Min(now - acc.last, window)
       IN [current |-> acc.current
             - (acc.current * ((dt * Accuracy) \div window)) \div Accuracy,
           last |-> now]

-----------------------------------------------------------------------------
(* The two entry points of the accumulator.                                *)

LimitApplies == globalWithdrawLimit # None /\ globalWithdrawLimit.window >= 1

(* Mutant: the increment may reach any value the Balance type can hold.    *)
NoLimitCheck(amount) ==
  globalWithdrawLimit # None =>
    /\ ~IsLockdownAt(now)
    /\ LimitApplies => Decayed(accumulator).current + amount <= MaxBalance

(* note_egress returns Ok.                                                 *)
CanNoteEgress(amount) ==
  globalWithdrawLimit # None =>
    /\ ~IsLockdownAt(now)
    /\ LimitApplies =>
         /\ Decayed(accumulator).current + amount <= MaxBalance
         /\ Decayed(accumulator).current + amount < globalWithdrawLimit.limit

Observe(change) ==
  observed' = IF observed = None THEN None
              ELSE [observed EXCEPT !.net = @ + change]

NoteEgress(amount) ==
  /\ CanNoteEgress(amount)
  /\ IF LimitApplies
     THEN /\ accumulator' = [current |-> Decayed(accumulator).current + amount,
                             last |-> now]
          /\ Observe(amount)
     ELSE UNCHANGED <<accumulator, observed>>

(* Mutant: an inflow lowers the accumulator whether or not it is locked.   *)
NoteDepositAlways(amount) ==
  LET before == Decayed(accumulator).current
      after == Saturating(before - amount)
  IN /\ accumulator' = [current |-> after, last |-> now]
     /\ Observe(after - before)

(* note_deposit.                                                           *)
NoteDeposit(amount) ==
  IF IsLockdownAt(now) THEN UNCHANGED <<accumulator, observed>>
  ELSE LET before == Decayed(accumulator).current
           after == Saturating(before - amount)
       IN /\ accumulator' = [current |-> after, last |-> now]
          /\ Observe(after - before)

-----------------------------------------------------------------------------
Init ==
  /\ now = 0
  /\ globalWithdrawLimit = None
  /\ accumulator = [current |-> 0, last |-> 0]
  /\ lockdownUntil = None
  /\ egressAccounts = {}
  /\ assetOverrides = [a \in Assets |-> None]
  /\ xcmBuffer = None
  /\ pendingFee = None
  /\ plainMessage = TRUE
  /\ observed = None

(***************************************************************************)
(* A withdrawal, outside a message or by a call a message transacts:       *)
(* OnWithdrawHook.  Inside a message it goes to the buffer.                *)
(***************************************************************************)
OnWithdraw(a, amount) ==
  LET value == ConvertToHdx(a, amount)
  IN IF ~ShouldAccountWithdraw(a)
     THEN UNCHANGED <<accumulator, observed, xcmBuffer>>
     ELSE /\ Convertible(a)
          /\ IF xcmBuffer = None
             THEN NoteEgress(value) /\ UNCHANGED xcmBuffer
             ELSE /\ xcmBuffer' = [xcmBuffer EXCEPT
                       !.withdrawn = Min(@ + value, MaxBalance)]
                  /\ UNCHANGED <<accumulator, observed>>

Withdraw(a, amount) ==
  /\ OnWithdraw(a, amount)
  /\ plainMessage' = (plainMessage /\ xcmBuffer = None)
  /\ UNCHANGED <<now, governed, pendingFee>>

(* OnDepositHook.                                                          *)
Deposit(a, who, amount) ==
  LET value == ConvertToHdx(a, amount)
  IN
  /\ IF ~Convertible(a) THEN UNCHANGED <<accumulator, observed, xcmBuffer>>
     ELSE IF xcmBuffer = None
     THEN /\ IF ShouldAccountDeposit(a, who) THEN NoteDeposit(value)
             ELSE UNCHANGED <<accumulator, observed>>
          /\ UNCHANGED xcmBuffer
     ELSE /\ xcmBuffer' =
               IF GlobalAssetCategory(a) = None \/ who \in egressAccounts
               THEN xcmBuffer
               ELSE [xcmBuffer EXCEPT
                       !.deposited = Min(@ + value, MaxBalance)]
          /\ UNCHANGED <<accumulator, observed>>
  /\ UNCHANGED <<now, governed, pendingFee, plainMessage>>

(***************************************************************************)
(* OnTransferHook: a transfer to an egress account counts as egress, and   *)
(* the transfer of a local asset from one as ingress.  Neither goes to the *)
(* buffer of a message.                                                    *)
(***************************************************************************)
Transfer(a, from, to, amount) ==
  LET value == ConvertToHdx(a, amount)
      egress == to \in egressAccounts /\ from \notin egressAccounts
                /\ ShouldAccountWithdraw(a)
      ingress == from \in egressAccounts /\ to \notin egressAccounts
                 /\ GlobalAssetCategory(a) = "Local" /\ Convertible(a)
  IN
  /\ from # to
  /\ IF egress THEN Convertible(a) /\ NoteEgress(value)
     ELSE IF ingress THEN NoteDeposit(value)
     ELSE UNCHANGED <<accumulator, observed>>
  /\ plainMessage' = (plainMessage /\ (xcmBuffer = None \/ ~(egress \/ ingress)))
  /\ UNCHANGED <<now, governed, xcmBuffer, pendingFee>>

-----------------------------------------------------------------------------
(* An inbound XCM message: ProcessXcmWithBreaker and LocalAssetTransactor. *)

XcmBegin ==
  /\ xcmBuffer = None /\ pendingFee = None
  /\ xcmBuffer' = [withdrawn |-> 0, deposited |-> 0]
  /\ plainMessage' = TRUE
  /\ UNCHANGED <<now, governed, accumulator, pendingFee, observed>>

(* Mutant: what the message has withdrawn so far is not added.             *)
PrecheckAmountOnly(value) == CanNoteEgress(value)

(* ensure_xcm_withdraw_can_proceed: the check of note_egress for the value *)
(* on top of the withdrawals already buffered.                             *)
EnsureXcmWithdrawCanProceed(value) == CanNoteEgress(xcmBuffer.withdrawn + value)

(* WithdrawAsset: the pre-check, which decays the accumulator, and the     *)
(* withdrawal.  A failing instruction is rolled back.                      *)
XcmWithdraw(a, amount) ==
  LET value == ConvertToHdx(a, amount)
  IN
  /\ xcmBuffer # None
  /\ IF ~ShouldAccountWithdraw(a)
     THEN UNCHANGED <<accumulator, xcmBuffer>>
     ELSE /\ Convertible(a)
          /\ EnsureXcmWithdrawCanProceed(value)
          /\ accumulator' = Decayed(accumulator)
          /\ xcmBuffer' = [xcmBuffer EXCEPT
                             !.withdrawn = Min(@ + value, MaxBalance)]
  /\ UNCHANGED <<now, governed, pendingFee, plainMessage, observed>>

NetEgress == Saturating(xcmBuffer.withdrawn - xcmBuffer.deposited)

(* The message is done.  The result of note_egress is dropped: when it     *)
(* fails, only the decay it did before its check remains.                  *)
XcmEnd ==
  /\ xcmBuffer # None
  /\ IF NetEgress = 0 THEN UNCHANGED <<accumulator, observed>>
     ELSE \/ NoteEgress(NetEgress)
          \/ /\ ~CanNoteEgress(NetEgress)
             /\ accumulator' = Decayed(accumulator)
             /\ UNCHANGED observed
  /\ xcmBuffer' = None
  /\ plainMessage' = TRUE
  /\ UNCHANGED <<now, governed, pendingFee>>

-----------------------------------------------------------------------------
(* Transaction fees.  The fuse is switched off while the fee is withdrawn  *)
(* before the call, and while it is settled after it: the unused part is   *)
(* deposited back and the rest goes to the treasury.  Only the withdraw    *)
(* hook reads the switch.                                                  *)

FeeWithdraw(a, who, amount) ==
  /\ xcmBuffer = None /\ pendingFee = None
  /\ Convertible(a)
  /\ pendingFee' = [asset |-> a, who |-> who, amount |-> amount]
  /\ UNCHANGED <<now, governed, accumulator, xcmBuffer, plainMessage, observed>>

(* The inflow OnDepositHook sees when the fee is settled.                  *)
SettledInflow(refund) ==
  LET a == pendingFee.asset
      credit(who, x) == IF ShouldAccountDeposit(a, who) /\ x > 0
                        THEN ConvertToHdx(a, x) ELSE 0
  IN credit(pendingFee.who, refund)
       + credit(Treasury, pendingFee.amount - refund)

FeeSettle(refund) ==
  /\ xcmBuffer = None /\ pendingFee # None
  /\ refund \in 0 .. pendingFee.amount
  /\ IF Convertible(pendingFee.asset) /\ SettledInflow(refund) > 0
     THEN NoteDeposit(SettledInflow(refund))
     ELSE UNCHANGED <<accumulator, observed>>
  /\ pendingFee' = None
  /\ UNCHANGED <<now, governed, xcmBuffer, plainMessage>>

-----------------------------------------------------------------------------
(* on_finalize, on_initialize of the next block, which still sees the old  *)
(* timestamp, and the timestamp inherent.  An observation may begin here.  *)
NewBlock(dt) ==
  /\ xcmBuffer = None /\ pendingFee = None
  /\ now + dt <= MaxTime
  /\ lockdownUntil' = IF lockdownUntil # None /\ now >= lockdownUntil
                      THEN None ELSE lockdownUntil
  /\ now' = now + dt
  /\ \/ observed' = observed
     \/ LimitApplies /\ observed' = [since |-> now + dt, net |-> 0]
  /\ UNCHANGED <<globalWithdrawLimit, accumulator, policy, xcmBuffer,
                 pendingFee, plainMessage>>

(* Governance.  A change of the limit or a reset ends an observation.      *)
Governance == xcmBuffer = None /\ UNCHANGED <<now, xcmBuffer, pendingFee, plainMessage>>

SetGlobalWithdrawLimitParams(params) ==
  /\ Governance
  /\ globalWithdrawLimit' = params
  /\ observed' = None
  /\ UNCHANGED <<accumulator, lockdownUntil, policy>>

ResetWithdrawLockdown ==
  /\ Governance
  /\ accumulator' = [current |-> 0, last |-> now]
  /\ lockdownUntil' = None
  /\ observed' = None
  /\ UNCHANGED <<globalWithdrawLimit, policy>>

SetGlobalWithdrawLockdown(until) ==
  /\ Governance
  /\ lockdownUntil' = until
  /\ UNCHANGED <<globalWithdrawLimit, accumulator, policy, observed>>

AddEgressAccount(who) ==
  /\ Governance
  /\ egressAccounts' = egressAccounts \cup {who}
  /\ UNCHANGED <<globalWithdrawLimit, accumulator, lockdownUntil,
                 assetOverrides, observed>>

RemoveEgressAccount(who) ==
  /\ Governance
  /\ egressAccounts' = egressAccounts \ {who}
  /\ UNCHANGED <<globalWithdrawLimit, accumulator, lockdownUntil,
                 assetOverrides, observed>>

SetAssetCategory(a, category) ==
  /\ Governance
  /\ assetOverrides' = [assetOverrides EXCEPT ![a] = category]
  /\ UNCHANGED <<globalWithdrawLimit, accumulator, lockdownUntil,
                 egressAccounts, observed>>

Next ==
  \/ \E a \in Assets, x \in Amounts : Withdraw(a, x)
  \/ \E a \in Assets, who \in Accounts, x \in Amounts : Deposit(a, who, x)
  \/ \E a \in Assets, from, to \in Accounts, x \in Amounts :
       Transfer(a, from, to, x)
  \/ XcmBegin
  \/ \E a \in Assets, x \in Amounts : XcmWithdraw(a, x)
  \/ XcmEnd
  \/ \E a \in Assets, who \in Accounts, x \in Amounts : FeeWithdraw(a, who, x)
  \/ \E refund \in Amounts \cup {0} : FeeSettle(refund)
  \/ \E dt \in Time \ {0} : NewBlock(dt)
  \/ \E params \in Params : SetGlobalWithdrawLimitParams(params)
  \/ ResetWithdrawLockdown
  \/ \E until \in Lockdowns : SetGlobalWithdrawLockdown(until)
  \/ \E who \in PolicyAccounts : AddEgressAccount(who)
  \/ \E who \in PolicyAccounts : RemoveEgressAccount(who)
  \/ \E a \in PolicyAssets, c \in Categories \cup {None} : SetAssetCategory(a, c)

Spec == Init /\ [][Next]_vars

-----------------------------------------------------------------------------
TypeOK ==
  /\ now \in Time
  /\ globalWithdrawLimit \in [limit : Nat, window : Nat] \cup {None}
  /\ accumulator \in [current : Balance, last : 0 .. now]
  /\ lockdownUntil \in Nat \cup {None}
  /\ egressAccounts \subseteq Accounts
  /\ assetOverrides \in [Assets -> Categories \cup {None}]
  /\ xcmBuffer \in [withdrawn : Balance, deposited : Balance] \cup {None}
  /\ pendingFee \in [asset : Assets, who : Accounts, amount : Balance] \cup {None}
  /\ plainMessage \in BOOLEAN
  /\ observed \in [since : 0 .. now, net : Int] \cup {None}

(***************************************************************************)
(* However the withdrawals, deposits, messages and lockdowns fall, the net *)
(* egress noted in a span no longer than the window stays below twice the  *)
(* limit, as long as governance neither resets nor reconfigures it: what   *)
(* the decay of note_egress gives back in a window is below the limit.     *)
(***************************************************************************)
WindowBound ==
  observed # None /\ now - observed.since <= globalWithdrawLimit.window
    => observed.net <= Saturating(2 * (globalWithdrawLimit.limit - 1))

(***************************************************************************)
(* While a lockdown is active nothing but reset_withdraw_lockdown changes  *)
(* the accumulator: no egress is noted, no inflow makes room and no decay  *)
(* happens, whether in a message or outside.                               *)
(***************************************************************************)
FrozenInLockdown ==
  [][ IsLockdownAt(now) /\ accumulator' # accumulator => ResetWithdrawLockdown ]_vars

(***************************************************************************)
(* When a message only moved assets in and out of its holding, the net     *)
(* egress is accepted when it ends: process_message may ignore the result  *)
(* of note_egress because ensure_xcm_withdraw_can_proceed, which does not  *)
(* rely on the deposits, has vouched for it.                               *)
(***************************************************************************)
PlainMessageAccounted ==
  xcmBuffer # None /\ plainMessage => NetEgress = 0 \/ CanNoteEgress(NetEgress)
=============================================================================
