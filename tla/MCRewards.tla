----------------------------- MODULE MCRewards -----------------------------
(***************************************************************************)
(* Three ways to earn with HDX: GIGAHDX with its rewards for votes and its *)
(* liquidations, trade fees shared by the fee processor and the referrals, *)
(* and the staking of HDX.  `part` says which of them a behaviour is       *)
(* about; the variables of the others are None.                            *)
(***************************************************************************)
EXTENDS Integers, Sequences, TLC

CONSTANTS
  None,
  u1, u2, treasury, r1, r2,     \* GIGAHDX and staking
  HDX, trader, referrer1        \* fees

VARIABLES
  part,
  block, stakes, pendingUnstakes, totalLocked, lock, free, reserved, gigapot, sthdx, atoken, legacy,
  status, voteRecords, ledger, income, mishaps, skipped, slashes,
  referralCodes, linkedAccounts, referrer, shares, assetRewards, referralsPending, referralsPot, wallet,
  pending, pot, hdx, dropped, fees,
  balance, period, staking, positions, votes, rewarded, credited, calls

\* Several parts have a variable of the same name.
gigahdxOnly == <<block, stakes, pendingUnstakes, totalLocked, free, reserved, gigapot, sthdx, atoken, legacy,
                 voteRecords, ledger, income, mishaps, skipped, slashes>>
feesOnly == <<referralCodes, linkedAccounts, referrer, shares, assetRewards, referralsPending, referralsPot, wallet,
              pending, hdx, dropped>>
stakingOnly == <<balance, period, staking, positions, votes, rewarded, credited, calls>>
shared == <<lock, status, pot, fees>>
vars == <<part, gigahdxOnly, feesOnly, stakingOnly, shared>>

----------------------------------------------------------------------------
(* GIGAHDX *)

Start(firstBlock, free1, free2, legacy1, open, fees1, failures) ==
  [block |-> firstBlock, free |-> (u1 :> free1) @@ (u2 :> free2) @@ (treasury :> 0),
   legacy |-> (u1 :> legacy1) @@ (u2 :> 0) @@ (treasury :> 0), open |-> open, income |-> fees1,
   mishaps |-> failures]

Giga == INSTANCE GigaHdx WITH
  Accounts <- {u1, u2, treasury}, Users <- {u1, u2}, LiquidationAccount <- treasury, Referenda <- {r1, r2},
  MinStake <- 2, CooldownPeriod <- 1, MaxPendingUnstakes <- 2, SupplyLosses <- {0}, MaxBlock <- 3,
  PERMILL <- 100, RewardPercentage <- 50, StakeAmounts <- {2, 3}, VoteAmounts <- {2, 3}, Convictions <- {100},
  LegacyRewards <- {1}, FeeShare <- 6, ED <- 1, Sustained <- {u2},
  Starts <- {Start(3, 2, 2, 0, {r1}, 1, 0), Start(3, 3, 0, 0, {r1, r2}, 0, 1), Start(1, 3, 0, 2, {}, 0, 1),
             Start(2, 2, 0, 0, {r1}, 1, 1), Start(2, 2, 0, 0, {r1}, 0, 2)}

----------------------------------------------------------------------------
(* Fees *)

VolumeOf(level) == <<0, 1, 5>>[level]
Share(toReferrer, toTrader) == [referrer |-> toReferrer, trader |-> toTrader]
RewardsOf(level) == <<Share(0, 0), Share(60, 40), Share(65, 35), Share(70, 30)>>[level + 1]
PercentageOf(receiver) == CASE receiver = "gigapot" -> 15 [] receiver = "rewards" -> 25 [] receiver = "staking" -> 5

Charges == INSTANCE FeeProcessor WITH
  Accounts <- {referrer1, trader}, Assets <- {"A"}, Codes <- {"c"}, MaxLevel <- 3, PERMILL <- 100,
  SeedNativeAmount <- 10, RegistrationFee <- 1, Receivers <- <<"gigapot", "rewards", "staking">>,
  ReferralsPercentage <- 5, ED <- 10, FeeAmounts <- {50, 100}, Prices <- {None, <<1, 2>>}, SalePrices <- {1},
  SaleFees <- {20}, RewardChoices <- {Share(0, 50)}, InitialWallet <- 2, MaxFees <- 2

----------------------------------------------------------------------------
(* Staking *)

PayablePercentage(points) == IF points <= 0 THEN 0 ELSE IF points <= 2 THEN <<40, 70>>[points] ELSE 90

Stk == INSTANCE Staking WITH
  Users <- {u1, u2}, Referenda <- {r1}, MinStake <- 2, UnclaimablePeriods <- 1, TimePointsPerPeriod <- 1,
  CurrentStakeWeight <- 2, MinSlash <- 2, MaxVotes <- 1, MaxPointsPerAction <- 5, TimePointsWeight <- 100,
  ActionPointsWeight <- 50, MaxMultiplier <- 6, FIX <- 10, StakeAmounts <- {3}, VoteAmounts <- {3},
  Convictions <- {6}, Fees <- {7}, InitialBalance <- 6, InitialPot <- 1, MaxPeriod <- 2, MaxFees <- 2, MaxCalls <- 4

----------------------------------------------------------------------------

NoGigahdx ==
  /\ block = None /\ stakes = None /\ pendingUnstakes = None /\ totalLocked = None /\ free = None /\ reserved = None
  /\ gigapot = None /\ sthdx = None /\ atoken = None /\ legacy = None /\ voteRecords = None /\ ledger = None /\ income = None
  /\ mishaps = None /\ skipped = None /\ slashes = None
NoFees ==
  /\ referralCodes = None /\ linkedAccounts = None /\ referrer = None /\ shares = None /\ assetRewards = None
  /\ referralsPending = None /\ referralsPot = None /\ wallet = None /\ pending = None /\ hdx = None /\ dropped = None
NoStaking ==
  /\ balance = None /\ period = None /\ staking = None /\ positions = None /\ votes = None /\ rewarded = None
  /\ credited = None /\ calls = None

OnGigahdx == part = "gigahdx"
OnFees == part = "fees"
OnStaking == part = "staking"

Init ==
  \/ OnGigahdx /\ Giga!Init /\ NoFees /\ NoStaking /\ pot = None /\ fees = None
  \/ OnFees /\ Charges!Init /\ NoGigahdx /\ NoStaking /\ lock = None /\ status = None
  \/ OnStaking /\ Stk!Init /\ NoGigahdx /\ NoFees

Next ==
  \/ OnGigahdx /\ Giga!Next /\ UNCHANGED <<part, feesOnly, stakingOnly, pot, fees>>
  \/ OnFees /\ Charges!Next /\ UNCHANGED <<part, gigahdxOnly, stakingOnly, lock, status>>
  \/ OnStaking /\ Stk!Next /\ UNCHANGED <<part, gigahdxOnly, feesOnly>>

Spec == Init /\ [][Next]_vars

----------------------------------------------------------------------------
(* A stake is locked with its owner and backs what was given for it.  The  *)
(* books of GIGAHDX agree with each other, with the money market, with the *)
(* locks and with what the accounts hold, in every order of stakes, exits, *)
(* cancellations and seizures, up to the ED by which each slash may leave  *)
(* the receiver of a seizure short; a vote that counts for rewards is      *)
(* backed by the voter's stake as long as it stands, unless a liquidation  *)
(* failed to remove it (do_stake, do_unstake, on_seize,                    *)
(* clear_conflicting_votes); and the lock of a staking position is its     *)
(* stake with the rewards locked in it (pallet-staking).                   *)
StakesBacked ==
  /\ OnGigahdx => Giga!StakesBacked /\ Giga!GigahdxMatchesMarket /\ Giga!VotesBacked
  /\ OnStaking => Stk!PositionsLocked

(* Every reward is covered by its pot and given once.  The pot of the      *)
(* referenda holds exactly what voters may claim and what is left in the   *)
(* pools, which count the voters who still have a record                   *)
(* (record_user_reward, claim_rewards); the staking pot holds all that     *)
(* positions may still be paid, no vote gives points twice and no position *)
(* owes any (update_rewards, claim, process_votes, on_remove_vote).        *)
RewardsCovered ==
  /\ OnGigahdx => Giga!RewardsCovered /\ Giga!VotersCounted
  /\ OnStaking => Stk!RewardsCovered /\ Stk!PointsNeverOwed /\ Stk!VotesCountOnce

(* A fee taken in another asset is marked for its conversion until it is   *)
(* sold, or its last conversion failed; the receivers together take no     *)
(* more of a fee than was charged, a slice is held back only while it      *)
(* could not be paid, and the shares minted for it add up                  *)
(* (process_trade_fee, convert, on_idle).                                  *)
FeesAccounted ==
  OnFees => /\ Charges!FeesWillBeSold /\ Charges!TakenWithinFees
            /\ Charges!HeldOnlyBelowED /\ Charges!SharesAddUp

(* No call lowers what the shares of others are worth: the exchange rate   *)
(* of GIGAHDX falls by no more than the rounding dust that a full exit     *)
(* takes from its own stake, and a claim of referral rewards leaves the    *)
(* value of the other shares as it was, up to rounding in their favour.    *)
ShareValuesKept == [][(OnGigahdx => Giga!RateKept) /\ (OnFees => Charges!ShareKept)]_vars
=============================================================================
