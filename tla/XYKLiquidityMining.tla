------------------------- MODULE XYKLiquidityMining -------------------------
(***************************************************************************)
(* Liquidity mining for XYK pools: the pallet's calls on top of the engine *)
(* of LiquidityMining, composed with the pool of XYK whose share tokens    *)
(* the pallet locks.  The pool may be destroyed and created again while    *)
(* farms for it run; whoever holds shares may leave it at any time.        *)
(***************************************************************************)
EXTENDS LiquidityMining

CONSTANTS
  Users,
  PalletAccount,      \* account of the liquidity mining pallet
  Accounts, MinPoolLiquidity, MinTradingLimit, MaxInRatio, MaxOutRatio,   \* of XYK
  FeeNumerator, FeeDenominator, Amounts, InitialBalance,
  IsSufficient,       \* whether the reward currency is a sufficient asset
  ShareValues,        \* values of an amount of shares in the incentivized asset, by the oracle
  MaxCalls            \* bound on the number of calls

VARIABLES
  reserve, totalLiquidity, shares, balance,   \* of XYK
  depositOwner,       \* owner of each deposit NFT, None when it is not minted
  calls               \* number of calls so far

xykVars == <<reserve, totalLiquidity, shares, balance>>
vars == <<lmVars, xykVars, depositOwner, calls>>

Pool == INSTANCE XYK WITH Traders <- Users

\* The pair has one account, whether or not the pool exists at the moment.
PairId == CHOOSE pool \in Pools : TRUE

Init ==
  /\ LMInit
  /\ Pool!Init
  /\ depositOwner = [d \in DepositIds |-> None]
  /\ calls = 0

\* lock_lp_tokens and unlock_lp_tokens
TransferShares(from, to, amount) ==
  /\ shares[from] >= amount
  /\ shares' = [shares EXCEPT ![from] = @ - amount, ![to] = @ + amount]
  /\ UNCHANGED <<reserve, totalLiquidity, balance>>

\* do_deposit_shares
DepositShares(u, y, amount, value, price) ==
  /\ Pool!Exists
  /\ DepositLpShares(y, PairId, amount, value, price)
  /\ TransferShares(u, PalletAccount, amount)
  /\ depositOwner' = [depositOwner EXCEPT ![depositSequencer + 1] = u]

RedepositShares(u, d, y, value, price) ==
  /\ depositOwner[d] = u
  /\ Pool!Exists
  /\ RedepositLpShares(d, y, value, price)
  /\ UNCHANGED <<xykVars, depositOwner>>

ClaimDepositRewards(u, d, y, price) ==
  /\ depositOwner[d] = u
  /\ ClaimRewards(d, y, price)
  /\ paidOut' # paidOut
  /\ UNCHANGED <<xykVars, depositOwner>>

WithdrawShares(u, d, y, price) ==
  /\ depositOwner[d] = u
  /\ Pool!Exists
  /\ WithdrawLpShares(d, y, price)
  /\ IF deposit'[d] = None
     THEN /\ TransferShares(PalletAccount, u, deposit[d].shares)
          /\ depositOwner' = [depositOwner EXCEPT ![d] = None]
     ELSE UNCHANGED <<xykVars, depositOwner>>

\* This front end offers the engine's price adjustment call, and not update_global_farm.  The owner of
\* a new farm pays the existential deposit of an insufficient reward currency into the pot.
OwnerStep ==
  /\ \/ OwnerCalls(IF Pool!Exists THEN Pools ELSE {}, IF IsSufficient THEN 0 ELSE ED)
     \/ \E g \in FarmIds, adjustment \in PriceAdjustments, price \in OracleAnswers :
          UpdateGlobalFarmPriceAdjustment(g, adjustment, price)
  /\ UNCHANGED <<xykVars, depositOwner>>

ProviderStep ==
  \E u \in Users, y \in FarmIds, price \in OracleAnswers :
    \/ \E amount \in Amounts, value \in ShareValues : DepositShares(u, y, amount, value, price)
    \/ \E d \in DepositIds, value \in ShareValues : RedepositShares(u, d, y, value, price)
    \/ \E d \in DepositIds : ClaimDepositRewards(u, d, y, price)
    \/ \E d \in DepositIds : WithdrawShares(u, d, y, price)

Next ==
  \/ /\ calls < MaxCalls
     /\ calls' = calls + 1
     /\ \/ OwnerStep
        \/ ProviderStep
        \/ Pool!Next /\ UNCHANGED <<lmVars, depositOwner>>
  \/ NewBlock /\ UNCHANGED <<xykVars, depositOwner, calls>>

Spec == Init /\ [][Next]_vars

\* The pallet holds exactly the shares of its deposits, so every deposit can be given back; and the
\* pool of a deposit exists, without which withdraw_shares would refuse it: leaving the pool cannot
\* strand the shares of those who stay in a farm.
DepositsAreShares ==
  /\ shares[PalletAccount] = SumOver(MaxDepositId, LiveDeposits, LAMBDA d : deposit[d].shares)
  /\ LiveDeposits # {} => Pool!Exists
  /\ \A d \in DepositIds : (deposit[d] # None) <=> (depositOwner[d] # None)
=============================================================================
