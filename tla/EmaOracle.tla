----------------------------- MODULE EmaOracle -----------------------------
(***************************************************************************)
(* The EMA oracle (pallets/ema-oracle).  Reports of a block are collected  *)
(* in the accumulator and taken over at its end; an entry that got no      *)
(* report is left alone and brought up to date when it is next read or     *)
(* written, for all the blocks it missed at once.  Prices are multiples of *)
(* a scale large enough for every average to be exact.                     *)
(***************************************************************************)
EXTENDS Integers, FiniteSets

CONSTANTS
  None, LastBlock, Periods, Smoothing(_),
  Keys,                 \* records [src, pair]
  Internal,             \* InternalSources
  Accounts,
  Reports,              \* of trades and liquidity changes: [price, volume, shares]
  ExternalPrices,
  MaxUniqueEntries,
  MaxBlock, MaxReports  \* bounds

VARIABLES
  block,
  accumulator,          \* an entry for each key, or None
  oracles,              \* Oracles: an entry for each key and period, or None
  whitelisted,          \* WhitelistedAssets
  external,             \* ExternalSources
  authorized,           \* AuthorizedAccounts: pairs of a key and an account
  reports               \* number of reports so far

vars == <<block, accumulator, oracles, whitelisted, external, authorized, reports>>

Sources == {k.src : k \in Keys}
NoEntries == [p \in Periods |-> None]

Init ==
  /\ block = 1
  /\ accumulator = [k \in Keys |-> None]
  /\ oracles = [k \in Keys |-> NoEntries]
  /\ whitelisted = {} /\ external = {} /\ authorized = {}
  /\ reports = 0

----------------------------------------------------------------------------
(* Averages *)

WeightedAverage(prev, incoming, weight) ==
  IF incoming >= prev THEN prev + (weight.n * (incoming - prev)) \div weight.d
  ELSE prev - (weight.n * (prev - incoming)) \div weight.d

WeightedShares(prev, incoming, weight) ==
  IF incoming = None THEN None ELSE WeightedAverage(IF prev = None THEN 0 ELSE prev, incoming, weight)

Weighted(prev, incoming, weight) ==
  [price |-> WeightedAverage(prev.price, incoming.price, weight),
   volume |-> WeightedAverage(prev.volume, incoming.volume, weight),
   shares |-> WeightedShares(prev.shares, incoming.shares, weight),
   updatedAt |-> incoming.updatedAt]

(* A mutant: the weight of one block, however many were missed.            *)
SmoothingOfOne(smoothing, iterations) == smoothing

\* The weight of a value taken in several times.
ExpSmoothing(smoothing, iterations) ==
  [n |-> smoothing.d ^ iterations - (smoothing.d - smoothing.n) ^ iterations, d |-> smoothing.d ^ iterations]

----------------------------------------------------------------------------
(* Entries *)

FastForwardTo(entry, at) == [entry EXCEPT !.updatedAt = at, !.volume = 0]

\* calculate_new_by_integrating_incoming; None unless the new entry is of the very next block.
IntegrateIncoming(entry, period, incoming) ==
  IF incoming.updatedAt # entry.updatedAt + 1 THEN None
  ELSE IF period = LastBlock THEN incoming
  ELSE Weighted(entry, incoming, Smoothing(period))

\* calculate_current_from_outdated: what was missed is made up for in one step, with no volume.
CurrentFromOutdated(entry, period, latest) ==
  IF latest.updatedAt <= entry.updatedAt THEN None
  ELSE IF period = LastBlock THEN latest
  ELSE Weighted(entry, [latest EXCEPT !.volume = 0],
                ExpSmoothing(Smoothing(period), latest.updatedAt - entry.updatedAt))

\* last_block_oracle, of the entries of a key as they stand.
LastBlockOracle(entries, at) ==
  LET last == entries[LastBlock]
  IN  IF last = None THEN None ELSE IF last.updatedAt # at THEN FastForwardTo(last, at) ELSE last

OrKeep(new, old) == IF new = None THEN old ELSE new

\* An entry that lags behind the parent block is first brought up to it.
UpToParent(entries, period, parent) ==
  LET entry == entries[period]
      latest == LastBlockOracle(entries, parent)
  IN  IF parent > entry.updatedAt /\ latest # None THEN OrKeep(CurrentFromOutdated(entry, period, latest), entry)
      ELSE entry

UpdatedEntry(entries, period, incoming) ==
  IF entries[period] = None THEN incoming
  ELSE LET entry == UpToParent(entries, period, block - 1)
       IN  OrKeep(IntegrateIncoming(entry, period, incoming), entry)

\* All periods of a key take in the report of the block; the last block, which the others are brought up
\* to date with, comes last.
UpdatedEntries(entries, incoming) ==
  LET others == [p \in Periods |-> IF p = LastBlock THEN entries[p] ELSE UpdatedEntry(entries, p, incoming)]
  IN  [others EXCEPT ![LastBlock] = UpdatedEntry(others, LastBlock, incoming)]

----------------------------------------------------------------------------
(* Reports *)

Accumulated(entry, incoming) == IF entry = None THEN incoming ELSE [incoming EXCEPT !.volume = @ + entry.volume]

InternalEntries == {k \in Keys : accumulator[k] # None /\ k.src \in Internal}

\* Reports of internal sources need a place in the whitelist.
Listened(k) == k.src \in Internal => k \in whitelisted

\* on_entry: a new key of an internal source also needs a place in the block.
OnEntry(k, incoming) ==
  /\ reports < MaxReports
  /\ reports' = reports + 1
  /\ (k.src \in Internal /\ Listened(k) /\ accumulator[k] = None) => Cardinality(InternalEntries) < MaxUniqueEntries
  /\ accumulator' = IF Listened(k) THEN [accumulator EXCEPT ![k] = Accumulated(@, incoming)] ELSE accumulator
  /\ UNCHANGED <<block, oracles, whitelisted, external, authorized>>

\* A trade or a change of liquidity in a pool.
OnActivity(k, report) ==
  /\ k.src \in Internal
  /\ OnEntry(k, [price |-> report.price, volume |-> report.volume, shares |-> report.shares, updatedAt |-> block])

SetExternalOracle(who, k, price) ==
  /\ k.src \in external
  /\ <<k, who>> \in authorized
  /\ OnEntry(k, [price |-> price, volume |-> 0, shares |-> None, updatedAt |-> block])

----------------------------------------------------------------------------
(* Governance *)

AddOracle(k) ==
  /\ k \in whitelisted \/ Cardinality(whitelisted) < MaxUniqueEntries
  /\ whitelisted' = whitelisted \cup {k}
  /\ UNCHANGED <<block, accumulator, oracles, external, authorized, reports>>

\* Nothing is kept of a key.
Drop(gone) ==
  /\ accumulator' = [k \in Keys |-> IF k \in gone THEN None ELSE accumulator[k]]
  /\ oracles' = [k \in Keys |-> IF k \in gone THEN NoEntries ELSE oracles[k]]

RemoveOracle(k) ==
  /\ k \in whitelisted
  /\ whitelisted' = whitelisted \ {k}
  /\ Drop({k})
  /\ UNCHANGED <<block, external, authorized, reports>>

RegisterExternalSource(src) ==
  /\ src \notin external
  /\ external' = external \cup {src}
  /\ UNCHANGED <<block, accumulator, oracles, whitelisted, authorized, reports>>

RemoveExternalSource(src) ==
  /\ src \in external
  /\ external' = external \ {src}
  /\ authorized' = {a \in authorized : a[1].src # src}
  /\ Drop({k \in Keys : k.src = src})
  /\ UNCHANGED <<block, whitelisted, reports>>

AddAuthorizedAccount(k, who) ==
  /\ k.src \in external
  /\ authorized' = authorized \cup {<<k, who>>}
  /\ UNCHANGED <<block, accumulator, oracles, whitelisted, external, reports>>

RemoveAuthorizedAccount(k, who) ==
  /\ k.src \in external
  /\ authorized' = authorized \ {<<k, who>>}
  /\ UNCHANGED <<block, accumulator, oracles, whitelisted, external, reports>>

----------------------------------------------------------------------------

\* on_finalize, and the start of the next block.
OnFinalize ==
  /\ block < MaxBlock
  /\ block' = block + 1
  /\ oracles' = [k \in Keys |-> IF accumulator[k] = None THEN oracles[k] ELSE UpdatedEntries(oracles[k], accumulator[k])]
  /\ accumulator' = [k \in Keys |-> None]
  /\ UNCHANGED <<whitelisted, external, authorized, reports>>

Next ==
  \/ \E k \in Keys, report \in Reports : OnActivity(k, report)
  \/ \E k \in Keys, who \in Accounts, price \in ExternalPrices : SetExternalOracle(who, k, price)
  \/ \E k \in Keys : k.src \in Internal /\ AddOracle(k)
  \/ \E k \in Keys : RemoveOracle(k)
  \/ \E src \in Sources \ Internal : RegisterExternalSource(src)
  \/ \E src \in Sources : RemoveExternalSource(src)
  \/ \E k \in Keys, who \in Accounts : AddAuthorizedAccount(k, who)
  \/ \E k \in Keys, who \in Accounts : RemoveAuthorizedAccount(k, who)
  \/ OnFinalize

Spec == Init /\ [][Next]_vars

----------------------------------------------------------------------------
(* Properties *)

\* get_updated_entry: what a reader is told.
GetUpdatedEntry(k, period) ==
  LET entry == oracles[k][period]
      latest == LastBlockOracle(oracles[k], block - 1)
  IN  IF latest = None THEN None
      ELSE IF period = LastBlock THEN latest
      ELSE IF entry = None THEN None
      ELSE IF entry.updatedAt < block - 1 THEN CurrentFromOutdated(entry, period, latest) ELSE entry

ValueOf(entry) ==
  IF entry = None THEN None ELSE [price |-> entry.price, volume |-> entry.volume, shares |-> entry.shares]

EveryBlock == INSTANCE EmaEveryBlock WITH
  ema <- [k \in Keys |-> [p \in Periods |-> ValueOf(GetUpdatedEntry(k, p))]],
  reported <- [k \in Keys |-> ValueOf(accumulator[k])]

\* What readers are told is what an oracle that takes in a value in every block would tell them, however
\* long the pool was quiet and whatever was removed and added again.
ImplementsEveryBlock == EveryBlock!Spec

=============================================================================
