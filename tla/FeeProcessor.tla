---------------------------- MODULE FeeProcessor ----------------------------
(***************************************************************************)
(* Referral rewards (pallets/referrals): a part of a trade fee goes to the *)
(* pot of the pallet in the asset of the fee, and is recorded as shares of *)
(* the referrer and of the trader at the oracle's price.  Shares are paid  *)
(* in HDX out of what the pot holds above its seed.                        *)
(* Level 0 is Level::None, level 1 is Tier0, and so on.                    *)
(***************************************************************************)
EXTENDS Integers, Sequences, SequencesExt

CONSTANTS
  None, Accounts, HDX,
  Assets,                 \* other assets in which fees are taken
  Codes,
  MaxLevel,
  VolumeOf(_),            \* LevelVolumeAndRewardPercentages
  RewardsOf(_),
  PERMILL,
  SeedNativeAmount, RegistrationFee

VARIABLES
  referralCodes,          \* ReferralCodes
  linkedAccounts,         \* LinkedAccounts
  referrer,               \* Referrer
  shares,                 \* ReferrerShares, TraderShares and TotalShares
  assetRewards,           \* AssetRewards
  referralsPending,       \* PendingConversions
  referralsPot,           \* what the pot of the pallet holds of each asset
  wallet                  \* HDX of each account

referralsVars == <<referralCodes, linkedAccounts, referrer, shares, assetRewards, referralsPending, referralsPot, wallet>>

Levels == 0..MaxLevel

ReferralsInit(balances) ==
  /\ referralCodes = [c \in Codes |-> None]
  /\ linkedAccounts = [a \in Accounts |-> None]
  /\ referrer = [a \in Accounts |-> None]
  /\ shares = [referrer |-> [a \in Accounts |-> 0], trader |-> [a \in Accounts |-> 0], total |-> 0]
  /\ assetRewards = [s \in Assets \cup {HDX} |-> [l \in Levels |-> None]]
  /\ referralsPending = {}
  /\ referralsPot = [s \in Assets \cup {HDX} |-> IF s = HDX THEN SeedNativeAmount ELSE 0]
  /\ wallet = balances

\* register_code; ReferralAccounts is the inverse of ReferralCodes.
RegisterCode(who, code) ==
  /\ \A c \in Codes : referralCodes[c] # who
  /\ referralCodes[code] = None
  /\ wallet[who] > RegistrationFee
  /\ wallet' = [wallet EXCEPT ![who] = @ - RegistrationFee]
  /\ referralCodes' = [referralCodes EXCEPT ![code] = who]
  /\ referrer' = [referrer EXCEPT ![who] = [level |-> 1, total |-> 0]]
  /\ UNCHANGED <<linkedAccounts, shares, assetRewards, referralsPending, referralsPot>>

LinkCode(who, code) ==
  /\ referralCodes[code] # None
  /\ linkedAccounts[who] = None
  /\ referralCodes[code] # who
  /\ linkedAccounts' = [linkedAccounts EXCEPT ![who] = referralCodes[code]]
  /\ UNCHANGED <<referralCodes, referrer, shares, assetRewards, referralsPending, referralsPot, wallet>>

SetRewardPercentage(asset, level, rewards) ==
  /\ rewards.referrer + rewards.trader <= PERMILL
  /\ assetRewards' = [assetRewards EXCEPT ![asset][level] = rewards]
  /\ UNCHANGED <<referralCodes, linkedAccounts, referrer, shares, referralsPending, referralsPot, wallet>>

----------------------------------------------------------------------------
(* process_trade_fee *)

LevelOf(trader) == IF linkedAccounts[trader] = None THEN 0 ELSE referrer[linkedAccounts[trader]].level

Distribution(trader, asset) ==
  LET rewards == IF assetRewards[asset][LevelOf(trader)] = None THEN RewardsOf(LevelOf(trader))
                 ELSE assetRewards[asset][LevelOf(trader)]
  IN  IF linkedAccounts[trader] = None THEN [rewards EXCEPT !.referrer = 0] ELSE rewards

\* What the referrer and the trader get of an amount.
RewardSplit(trader, asset, amount) ==
  [referrer |-> (Distribution(trader, asset).referrer * amount) \div PERMILL,
   trader |-> (Distribution(trader, asset).trader * amount) \div PERMILL]

\* Amounts at a price, a pair of a numerator and a denominator.
Shares(amount, price) == (amount * price[1]) \div price[2]

SharesMinted(trader, split, price) ==
  LET forReferrer == IF linkedAccounts[trader] = None THEN 0 ELSE Shares(split.referrer, price)
      forTrader == Shares(split.trader, price)
  IN  [referrer |-> IF linkedAccounts[trader] = None THEN shares.referrer
                    ELSE [shares.referrer EXCEPT ![linkedAccounts[trader]] = @ + forReferrer],
       trader |-> [shares.trader EXCEPT ![trader] = @ + forTrader],
       total |-> shares.total + forReferrer + forTrader]

\* Takes its part of a fee of which it is offered `amount`; without a price it takes nothing.
ReferralsFee(trader, asset, split, price) ==
  IF price = None
    THEN UNCHANGED <<shares, referralsPending, referralsPot>>
    ELSE /\ shares' = SharesMinted(trader, split, price)
         /\ referralsPot' = [referralsPot EXCEPT ![asset] = @ + split.referrer + split.trader]
         /\ referralsPending' = IF split.referrer + split.trader > 0 /\ asset # HDX
                                  THEN referralsPending \cup {asset} ELSE referralsPending

----------------------------------------------------------------------------
(* claim_rewards *)

\* Level::increase
Increase[level \in Levels, volume \in Nat] ==
  IF level = MaxLevel \/ level = 0 \/ volume < VolumeOf(level + 1) THEN level ELSE Increase[level + 1, volume]

RewardReserve(pot) == IF pot[HDX] < SeedNativeAmount THEN 0 ELSE pot[HDX] - SeedNativeAmount

SharesTaken(who) ==
  [shares EXCEPT !.referrer[who] = 0, !.trader[who] = 0, !.total = @ - shares.referrer[who] - shares.trader[who]]

(* A mutant: shares are paid out of the seed as well.                      *)
PaidFromSeed(pot, amount) == (amount * (RewardReserve(pot) + SeedNativeAmount)) \div shares.total

Paid(pot, amount) == (amount * RewardReserve(pot)) \div shares.total

\* The claim itself, with what the pot holds after the conversions.
PayShares(who, pot) ==
  LET own == shares.referrer[who] + shares.trader[who]
  IN IF own = 0
       THEN referralsPot' = pot /\ UNCHANGED <<shares, wallet, referrer>>
       ELSE \E forReferrer \in {Paid(pot, shares.referrer[who])}, forTrader \in {Paid(pot, shares.trader[who])} :
            /\ forReferrer + forTrader <= RewardReserve(pot)
            /\ referralsPot' = [pot EXCEPT ![HDX] = @ - forReferrer - forTrader]
            /\ wallet' = [wallet EXCEPT ![who] = @ + forReferrer + forTrader]
            /\ shares' = SharesTaken(who)
            /\ referrer' = IF referrer[who] = None THEN referrer
                           ELSE [referrer EXCEPT ![who] =
                                   [level |-> Increase[@.level, @.total + forReferrer], total |-> @.total + forReferrer]]

-----------------------------------------------------------------------------
(***************************************************************************)
(* The split of trade fees (pallets/fee-processor), together with          *)
(* Referrals, its receiver of raw fees.  The rest of a fee waits in the    *)
(* pot of the pallet to be sold for HDX, which is shared between the other *)
(* receivers; what would leave an account below the existential deposit is *)
(* held back.  A sale in the Omnipool charges a fee in HDX that passes     *)
(* through the same pallet before the sale returns.                        *)
(***************************************************************************)

CONSTANTS
  Receivers,              \* the sequence of receivers paid in HDX
  PercentageOf(_),        \* of a receiver
  ReferralsPercentage,
  ED,                     \* existential deposit of HDX
  FeeAmounts,             \* fees of trades, as offered to the pallet
  Prices,                 \* of the oracle, or None
  SalePrices,             \* HDX for one unit in the Omnipool
  SaleFees,               \* the fee in HDX of a sale
  RewardChoices, InitialWallet, MaxFees

VARIABLES
  pending,                \* PendingConversions
  pot,                    \* what the pot holds of the assets other than HDX
  hdx,                    \* HDX of the pot, HeldFees and HDX of the receivers: see HdxBooks
  dropped,                \* history: assets whose last conversion failed
  fees                    \* history: fees offered and taken, and their number

vars == <<referralsVars, pending, pot, hdx, dropped, fees>>

HdxBooks == [pot : Nat, held : [Range(Receivers) -> Nat], balance : [Range(Receivers) -> Nat], ok : {TRUE}]

Init ==
  /\ ReferralsInit([a \in Accounts |-> InitialWallet])
  /\ pending = {} /\ dropped = {}
  /\ pot = [s \in Assets |-> 0]
  /\ hdx = [pot |-> 0, held |-> [r \in Range(Receivers) |-> 0],
            balance |-> [r \in Range(Receivers) |-> 0], ok |-> TRUE]
  /\ fees = [number |-> 0, offered |-> 0, taken |-> 0]

----------------------------------------------------------------------------
(* Distribution of HDX *)

ConvertPercentage == FoldLeft(LAMBDA sum, r : sum + PercentageOf(r), 0, Receivers)

Failed(books) == [books EXCEPT !.ok = FALSE]

\* One receiver's slice: paid with what is held for it, or held. A transfer that fails ends the loop.
PayReceiver(books, r, slice) ==
  LET total == books.held[r] + slice
  IN  IF ~books.ok \/ slice = 0 THEN books
      ELSE IF books.balance[r] + total < ED THEN [books EXCEPT !.held[r] = total]
      ELSE IF books.pot < total THEN Failed(books)
      ELSE [books EXCEPT !.pot = @ - total, !.balance[r] = @ + total, !.held[r] = 0]

DistributeProportionally(books, total) ==
  FoldLeft(LAMBDA b, r : PayReceiver(b, r, (total * PercentageOf(r)) \div ConvertPercentage), books, Receivers)

Take(amount) == (ConvertPercentage * amount) \div PERMILL

\* An HDX fee: taken into the pot and distributed at once.
HdxFee(books, amount) == DistributeProportionally([books EXCEPT !.pot = @ + Take(amount)], Take(amount))

----------------------------------------------------------------------------
(* process_trade_fee *)

\* What each raw receiver is offered.
Offered(amount) == (ReferralsPercentage * amount) \div PERMILL

(* A mutant: an asset that already waits in the pot is not marked again.   *)
MarkedOnce(asset) == IF pot[asset] = 0 THEN pending \cup {asset} ELSE pending

Marked(asset) == pending \cup {asset}

ProcessTradeFee(trader, asset, amount, price) ==
  \E split \in {RewardSplit(trader, asset, Offered(amount))}, take \in {Take(amount)} :
    /\ fees.number < MaxFees
    /\ ReferralsFee(trader, asset, split, price)
    /\ fees' = [number |-> fees.number + 1, offered |-> fees.offered + amount,
                taken |-> fees.taken + take + IF price = None THEN 0 ELSE split.referrer + split.trader]
    /\ IF asset = HDX
         THEN /\ hdx' = HdxFee(hdx, amount)
              /\ hdx'.ok
              /\ UNCHANGED <<pot, pending>>
         ELSE /\ pot' = [pot EXCEPT ![asset] = @ + take]
              /\ pending' = IF take > 0 THEN Marked(asset) ELSE pending
              /\ UNCHANGED hdx
    /\ dropped' = IF take > 0 THEN dropped \ {asset} ELSE dropped
    /\ UNCHANGED <<referralCodes, linkedAccounts, referrer, assetRewards, wallet>>

----------------------------------------------------------------------------
(* Conversions *)

\* The books after a sale of an amount for the pot, the fee of the sale first.
\* What was received is the difference of the balance before and after.
Converted(amount, price, fee) ==
  LET afterFee == HdxFee(hdx, fee)
      received == afterFee.pot - hdx.pot + amount * price
  IN  IF afterFee.ok THEN DistributeProportionally([afterFee EXCEPT !.pot = @ + amount * price], received)
      ELSE afterFee

\* The sale went through when it sold something and its fee could be processed.
Sells(amount, fee) == amount > 0 /\ HdxFee(hdx, fee).ok

\* convert, a transaction.
Convert(asset, price, fee) ==
  /\ Sells(pot[asset], fee)
  /\ hdx' = Converted(pot[asset], price, fee)
  /\ hdx'.ok
  /\ pot' = [pot EXCEPT ![asset] = 0]
  /\ pending' = pending \ {asset}
  /\ dropped' = dropped \ {asset}
  /\ UNCHANGED <<referralsVars, fees>>

\* One conversion of on_idle: an error after the sale does not undo what was done before it.
OnIdleConvert(asset, price, fee) ==
  /\ asset \in pending
  /\ Sells(pot[asset], fee)
  /\ hdx' = [Converted(pot[asset], price, fee) EXCEPT !.ok = TRUE]
  /\ pot' = [pot EXCEPT ![asset] = 0]
  /\ pending' = pending \ {asset}
  /\ UNCHANGED <<referralsVars, dropped, fees>>

\* The sale of on_idle failed: the entry is dropped until the next fee.
OnIdleConvertFails(asset) ==
  /\ asset \in pending
  /\ pending' = pending \ {asset}
  /\ dropped' = dropped \cup {asset}
  /\ UNCHANGED <<referralsVars, pot, hdx, fees>>

----------------------------------------------------------------------------
(* Conversions of the referrals *)

\* The pot of the referrals after selling the assets of a set.
ReferralsSold(sold, price) ==
  [s \in DOMAIN referralsPot |->
     IF s = HDX THEN referralsPot[HDX] + price * FoldFunctionOnSet(+, 0, referralsPot, sold)
     ELSE IF s \in sold THEN 0 ELSE referralsPot[s]]

\* Each sale pays its fee, one after the other.
FeesOfSales(sold, fee) == FoldLeft(LAMBDA books, s : HdxFee(books, fee), hdx, SetToSeq(sold))

ReferralsConvert(asset, price, fee) ==
  /\ referralsPot[asset] > 0
  /\ hdx' = HdxFee(hdx, fee)
  /\ hdx'.ok
  /\ referralsPot' = ReferralsSold({asset}, price)
  /\ referralsPending' = referralsPending \ {asset}
  /\ UNCHANGED <<referralCodes, linkedAccounts, referrer, shares, assetRewards, wallet, pending, pot, dropped, fees>>

\* claim_rewards tries to sell all that is pending; what fails is forgotten.
ClaimRewards(who, sold, price, fee) ==
  /\ sold \subseteq {s \in referralsPending : referralsPot[s] > 0}
  /\ hdx' = FeesOfSales(sold, fee)
  /\ hdx'.ok
  /\ referralsPending' = {}
  /\ PayShares(who, ReferralsSold(sold, price))
  /\ UNCHANGED <<referralCodes, linkedAccounts, assetRewards, pending, pot, dropped, fees>>

\* on_idle of the referrals.
ReferralsOnIdle(asset, price, fee) ==
  /\ asset \in referralsPending
  /\ referralsPending' = referralsPending \ {asset}
  /\ \/ /\ referralsPot' = ReferralsSold({asset}, price)
        /\ hdx' = HdxFee(hdx, fee)
        /\ hdx'.ok
     \/ UNCHANGED <<referralsPot, hdx>>
  /\ UNCHANGED <<referralCodes, linkedAccounts, referrer, shares, assetRewards, wallet, pending, pot, dropped, fees>>

----------------------------------------------------------------------------

ReferralsCall ==
  /\ \/ \E who \in Accounts, code \in Codes : RegisterCode(who, code) \/ LinkCode(who, code)
     \/ \E asset \in Assets, rewards \in RewardChoices : SetRewardPercentage(asset, 0, rewards)
  /\ UNCHANGED <<pending, pot, hdx, dropped, fees>>

Next ==
  \/ ReferralsCall
  \/ \E trader \in Accounts, asset \in Assets \cup {HDX}, amount \in FeeAmounts, price \in Prices :
       ProcessTradeFee(trader, asset, amount, IF asset = HDX THEN <<1, 1>> ELSE price)
  \/ \E asset \in Assets, price \in SalePrices, fee \in SaleFees :
       \/ Convert(asset, price, fee)
       \/ OnIdleConvert(asset, price, fee)
       \/ ReferralsConvert(asset, price, fee)
       \/ ReferralsOnIdle(asset, price, fee)
  \/ \E asset \in Assets : OnIdleConvertFails(asset)
  \/ \E who \in Accounts, sold \in SUBSET Assets, price \in SalePrices, fee \in SaleFees :
       ClaimRewards(who, sold, price, fee)

Spec == Init /\ [][Next]_vars

----------------------------------------------------------------------------
(* Properties *)

Sum(f) == FoldFunction(+, 0, f)

(* The total of the shares is their sum, so that the last holder to claim  *)
(* is paid all that the pot holds above its seed.                          *)
SharesAddUp == shares.total = Sum(shares.referrer) + Sum(shares.trader)

(* Fees that wait in the pot are marked for conversion unless their last   *)
(* conversion failed.                                                      *)
FeesWillBeSold == \A s \in Assets : pot[s] > 0 => s \in pending \cup dropped

(* All receivers together never take more than the fee.                    *)
TakenWithinFees == fees.taken <= fees.offered

(* Fees are held back for a receiver only while they could not be paid.    *)
HeldOnlyBelowED == \A r \in Range(Receivers) : hdx.held[r] > 0 => hdx.balance[r] + hdx.held[r] < ED

(* A claim leaves the others at least what their shares were worth.        *)
ShareKept ==
  shares'.total < shares.total =>
    RewardReserve(referralsPot') * shares.total >= RewardReserve(referralsPot) * shares'.total
=============================================================================
