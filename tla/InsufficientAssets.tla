------------------------- MODULE InsufficientAssets -------------------------
(***************************************************************************)
(* The existential deposit of insufficient assets, which the runtime keeps *)
(* through the hooks of the token ledger.  Whoever lets an account hold an *)
(* insufficient asset for the first time pays a deposit to the treasury;   *)
(* a lock on the treasury's HDX, the counter in the asset registry and the *)
(* account's `sufficients` stand for it until the holding is gone.         *)
(*                                                                         *)
(* A balance of zero means that the account has no row for the asset.  HDX *)
(* is not limited: an account that cannot pay makes the call fail, which   *)
(* leaves no trace.  One unit of any other asset pays one deposit.         *)
(***************************************************************************)
EXTENDS Integers, FiniteSets, Functions

CONSTANTS
  Holders,        \* the accounts
  Router,         \* the account of the route executor
  Whitelist,      \* DusterWhitelist: accounts of pallets
  Tokens,         \* the assets other than HDX
  Native,         \* HDX
  ED,             \* the existential deposit of HDX
  InsufficientED, \* InsufficientEDinHDX: what is charged
  Moved,          \* the amounts of a transfer
  MaxHolding      \* bound: the balance of an account

ASSUME DepositsAssumption ==
  /\ IsFiniteSet(Holders) /\ IsFiniteSet(Tokens) /\ Native \notin Tokens
  /\ Router \in Holders /\ Whitelist \subseteq Holders
  /\ ED \in Nat \ {0} /\ InsufficientED \in Nat /\ InsufficientED >= ED
  /\ Moved \subseteq Nat \ {0} /\ MaxHolding \in Nat

VARIABLES
  ledger,       \* [balance, sufficients, counter: ExistentialDepositCounter, lock: "insuffED" on the
                \*  treasury, net: history, the deposits collected less those refunded]
  isSufficient, \* the assets that the registry calls sufficient
  banned,       \* BannedAssets
  bound         \* the accounts bound to an EVM address, which is worth one of their sufficients

depositVars == <<ledger, isSufficient, banned, bound>>

SaturatingSub(x, y) == IF x < y THEN 0 ELSE x - y

-----------------------------------------------------------------------------
(* OnKilledTokenAccount, RefundAndLockedEdCalculator.                      *)
Killed(s, who, asset) ==
  IF asset \in isSufficient \/ s.sufficients[who] = 0 THEN s
  ELSE LET refund == IF s.counter = 0 THEN 0 ELSE s.lock \div s.counter
       IN [s EXCEPT !.lock = SaturatingSub(@, refund), !.sufficients[who] = @ - 1,
                    !.counter = SaturatingSub(@, 1), !.net = @ - refund]

\* The ledger takes x from an account; a row that becomes empty is killed.
Taken(s, who, asset, x) ==
  LET t == [s EXCEPT !.balance[who][asset] = @ - x]
  IN IF t.balance[who][asset] = 0 THEN Killed(t, who, asset) ELSE t

NeedsDeposit(s, to, asset) == s.balance[to][asset] = 0 /\ asset \notin isSufficient

\* The deposit is paid in the account's fee asset, with which another of its holdings may end.
Paid(s, payer, fee) ==
  LET t == [s EXCEPT !.net = @ + InsufficientED]
  IN IF fee = Native THEN t ELSE Taken(t, payer, fee, 1)

(* Mutant: the lock is read before the payment.                            *)
LockOfBefore(s, t) == s.lock + ED

\* s before the payment, t after it.
ToLock(s, t) == t.lock + ED

(* on_funds.                                                               *)
OnFunds(s, asset, payer, to, fee) ==
  IF ~NeedsDeposit(s, to, asset) THEN s
  ELSE LET t == Paid(s, payer, fee)
       IN [t EXCEPT !.lock = ToLock(s, t), !.sufficients[to] = @ + 1, !.counter = @ + 1]

CanPay(s, asset, payer, to, fee) ==
  IF NeedsDeposit(s, to, asset) THEN fee # Native => s.balance[payer][fee] > 0 ELSE fee = Native

-----------------------------------------------------------------------------
DepositsInit ==
  /\ ledger = [balance |-> [who \in Holders |-> [a \in Tokens |-> 0]],
               sufficients |-> [who \in Holders |-> 0], counter |-> 0, lock |-> 0, net |-> 0]
  /\ isSufficient \in SUBSET Tokens
  /\ banned = {} /\ bound = {}

(* A deposit, after SufficiencyCheck::on_deposit.                          *)
DepositToken(asset, to, x, fee) ==
  /\ asset \notin banned
  /\ CanPay(ledger, asset, to, to, fee)
  /\ LET s == OnFunds(ledger, asset, to, to, fee)
     IN /\ s.balance[to][asset] + x <= MaxHolding
        /\ ledger' = [s EXCEPT !.balance[to][asset] = @ + x]
  /\ UNCHANGED <<isSufficient, banned, bound>>

(* A transfer, after SufficiencyCheck::on_transfer: nothing is asked of    *)
(* one to the router, and the receiver pays when a pallet is the sender.   *)
TransferToken(asset, from, to, x, fee) ==
  LET payer == IF from \in Whitelist THEN to ELSE from
      s == IF to = Router THEN ledger ELSE OnFunds(ledger, asset, payer, to, fee)
  IN
  /\ from # to
  /\ IF to = Router THEN fee = Native
     ELSE asset \notin banned /\ CanPay(ledger, asset, payer, to, fee)
  /\ s.balance[from][asset] >= x /\ s.balance[to][asset] + x <= MaxHolding
  /\ ledger' = Taken([s EXCEPT !.balance[to][asset] = @ + x], from, asset, x)
  /\ UNCHANGED <<isSufficient, banned, bound>>

WithdrawToken(asset, who, x) ==
  /\ ledger.balance[who][asset] >= x
  /\ ledger' = Taken(ledger, who, asset, x)
  /\ UNCHANGED <<isSufficient, banned, bound>>

(* update of the registry: an asset may become sufficient, never the       *)
(* opposite.                                                               *)
MakeSufficient(asset) ==
  /\ asset \notin isSufficient
  /\ isSufficient' = isSufficient \cup {asset}
  /\ UNCHANGED <<ledger, banned, bound>>

BanToken(asset) ==
  /\ asset \notin banned
  /\ banned' = banned \cup {asset}
  /\ UNCHANGED <<ledger, isSufficient, bound>>

UnbanToken(asset) ==
  /\ asset \in banned
  /\ banned' = banned \ {asset}
  /\ UNCHANGED <<ledger, isSufficient, bound>>

(* do_bind_evm_address, mark_as_evm_account.                               *)
BindEvmAddress(who) ==
  /\ who \notin bound
  /\ bound' = bound \cup {who}
  /\ ledger' = [ledger EXCEPT !.sufficients[who] = @ + 1]
  /\ UNCHANGED <<isSufficient, banned>>

DepositsNext ==
  \/ \E a \in Tokens, to \in Holders, x \in Moved, fee \in Tokens \cup {Native} : DepositToken(a, to, x, fee)
  \/ \E a \in Tokens, from, to \in Holders, x \in Moved, fee \in Tokens \cup {Native} :
       TransferToken(a, from, to, x, fee)
  \/ \E a \in Tokens, who \in Holders, x \in Moved : WithdrawToken(a, who, x)
  \/ \E a \in Tokens : MakeSufficient(a) \/ BanToken(a) \/ UnbanToken(a)
  \/ \E who \in Holders \ {Router} : BindEvmAddress(who)

DepositsSpec == DepositsInit /\ [][DepositsNext]_depositVars

-----------------------------------------------------------------------------
\* The lock on the treasury is one existential deposit for every deposit that was counted.
LockBacksRefunds == ledger.lock = ED * ledger.counter

\* Every deposit counted is a reference that keeps some account alive.
CounterMatchesAccounts ==
  SumFunctionOnSet(ledger.sufficients, Holders) = ledger.counter + Cardinality(bound)

\* The references of an account, without the one of an EVM address.
Deposits(s, who) == s.sufficients[who] - (IF who \in bound THEN 1 ELSE 0)
Held(s, who) == {a \in Tokens \ isSufficient : s.balance[who][a] > 0}

\* Whoever holds insufficient assets has a deposit for each of them; the router holds what it trades unpaid.
HoldersCovered ==
  \A who \in Holders \ {Router} : Cardinality(Held(ledger, who)) <= Deposits(ledger, who)

\* What the treasury collected covers what it refunded and still owes.
CollectedCoversRefunds == ledger.lock <= ledger.net

(***************************************************************************)
(* The books of the deposits agree.  A refund is neither more nor less     *)
(* than was locked, the counter and the accounts' references never drift   *)
(* apart, the end of one holding never takes the deposit of another, and   *)
(* the treasury is never out of pocket: also when paying for one holding   *)
(* ends another, whose refund changes the lock under way (on_funds,        *)
(* OnKilledTokenAccount, do_bind_evm_address).                             *)
(***************************************************************************)
DepositsAccounted ==
  LockBacksRefunds /\ CounterMatchesAccounts /\ HoldersCovered /\ CollectedCoversRefunds
=============================================================================
