--------------------------- MODULE AssetRegistry ----------------------------
(***************************************************************************)
(* The asset registry: the assets by id, and the two indexes from names    *)
(* and from XCM locations back to ids.  Symbols, existential deposits and  *)
(* rate limits are left out: no index and no condition depends on them,    *)
(* and a name or a symbol that is refused leaves no trace.  The second     *)
(* part is the bonds pallet, which registers assets of its own.            *)
(***************************************************************************)
EXTENDS Integers, FiniteSets, Functions, Option

CONSTANTS
  AssetNames,           \* the names
  Locations,            \* the XCM locations
  Kinds,                \* AssetType; "External" is one of them
  DecimalPlaces,
  SequentialIdStartAt,  \* ids below it are given by governance
  MaxAssetId            \* u32::MAX

ASSUME RegistryAssumption ==
  /\ SequentialIdStartAt \in Nat \ {0} /\ MaxAssetId \in Nat
  /\ "External" \in Kinds
  /\ None \notin Nat \cup AssetNames \cup Locations \cup BOOLEAN \cup DecimalPlaces \cup Kinds

VARIABLES
  assets,          \* Assets
  assetIds,        \* AssetIds: name -> id
  assetLocations,  \* AssetLocations: id -> location
  locationAssets,  \* LocationAssets: location -> id
  nextAssetId,     \* NextAssetId
  bannedAssets     \* BannedAssets

registry == <<assets, assetIds, assetLocations, locationAssets, nextAssetId, bannedAssets>>

AssetIdSet == 0 .. MaxAssetId
Details == [name : AssetNames \cup {None}, asset_type : Kinds, is_sufficient : BOOLEAN,
            decimals : DecimalPlaces \cup {None}]

OrElse(new, old) == IF new = None THEN old ELSE new

-----------------------------------------------------------------------------
\* do_set_location, on the given locations; None where the caller sets none.
DoSetLocation(byId, byLocation, id, location) ==
  IF location = None
  THEN assetLocations' = byId /\ locationAssets' = byLocation
  ELSE /\ byLocation[location] = None
       /\ assetLocations' = [byId EXCEPT ![id] = location]
       /\ locationAssets' = [byLocation EXCEPT ![location] = id]

\* The id of a new asset: the selected one, or the next of the sequence.
NewId(selected, id) ==
  IF selected # None
  THEN /\ selected < SequentialIdStartAt /\ assets[selected] = None
       /\ id = selected
       /\ UNCHANGED nextAssetId
  ELSE /\ nextAssetId + SequentialIdStartAt <= MaxAssetId
       /\ id = nextAssetId + SequentialIdStartAt
       /\ nextAssetId' = nextAssetId + 1

(* do_register_asset, for register, register_external and the pallets that *)
(* create assets of their own.                                             *)
DoRegisterAsset(selected, details, location, id) ==
  /\ NewId(selected, id)
  /\ assets' = [assets EXCEPT ![id] = details]
  /\ IF details.name = None THEN UNCHANGED assetIds
     ELSE /\ assetIds[details.name] = None
          /\ assetIds' = [assetIds EXCEPT ![details.name] = id]
  /\ DoSetLocation(assetLocations, locationAssets, id, location)
  /\ UNCHANGED bannedAssets

Register(selected, details, location) ==
  \E id \in AssetIdSet : DoRegisterAsset(selected, details, location, id)

RegisterExternal(location) ==
  \E id \in AssetIdSet :
    DoRegisterAsset(None, [name |-> None, asset_type |-> "External", is_sufficient |-> FALSE,
                           decimals |-> None], location, id)

\* The index of names when an asset is renamed.
Rename(id, name) ==
  IF name = None THEN UNCHANGED assetIds
  ELSE /\ assetIds[name] = None
       /\ assetIds' = [n \in AssetNames |-> IF n = assets[id].name THEN None
                                            ELSE IF n = name THEN id ELSE assetIds[n]]

\* Mutant: the index keeps the old location.
OldLocationKept(id, location) ==
  DoSetLocation(IF location = None THEN assetLocations ELSE [assetLocations EXCEPT ![id] = None],
                locationAssets, id, location)

\* The two maps of locations when an asset is moved.
Relocate(id, location) ==
  IF location = None THEN UNCHANGED <<assetLocations, locationAssets>>
  ELSE DoSetLocation([assetLocations EXCEPT ![id] = None],
                     [l \in Locations |-> IF l = assetLocations[id] THEN None ELSE locationAssets[l]],
                     id, location)

(* update, by the registry's or the update origin; None leaves a field.    *)
Update(id, byRegistry, new, location) ==
  /\ assets[id] # None
  /\ Rename(id, new.name)
  /\ assets[id].is_sufficient => new.is_sufficient \in {None, TRUE}
  /\ new.decimals # None /\ assets[id].decimals # None => byRegistry
  /\ location # None => byRegistry
  /\ Relocate(id, location)
  /\ assets' = [assets EXCEPT ![id] = [f \in DOMAIN @ |-> OrElse(new[f], @[f])]]
  /\ UNCHANGED <<nextAssetId, bannedAssets>>

BanAsset(id) ==
  /\ assets[id] # None /\ id \notin bannedAssets
  /\ bannedAssets' = bannedAssets \cup {id}
  /\ UNCHANGED <<assets, assetIds, assetLocations, locationAssets, nextAssetId>>

UnbanAsset(id) ==
  /\ id \in bannedAssets
  /\ bannedAssets' = bannedAssets \ {id}
  /\ UNCHANGED <<assets, assetIds, assetLocations, locationAssets, nextAssetId>>

-----------------------------------------------------------------------------
\* Genesis: HDX, under its name.
RegistryInit(nativeName, nativeDecimals) ==
  /\ assets = [id \in AssetIdSet |->
                 IF id = 0 THEN [name |-> nativeName, asset_type |-> "Token", is_sufficient |-> TRUE,
                                 decimals |-> nativeDecimals]
                 ELSE None]
  /\ assetIds = [n \in AssetNames |-> IF n = nativeName THEN 0 ELSE None]
  /\ assetLocations = [id \in AssetIdSet |-> None]
  /\ locationAssets = [l \in Locations |-> None]
  /\ nextAssetId = 1
  /\ bannedAssets = {}

\* A name leads to the asset that carries it, and to no other.
NamesIndexed ==
  \A id \in AssetIdSet, n \in AssetNames :
    assetIds[n] = id <=> assets[id] # None /\ assets[id].name = n

\* Every location leads to the asset that is there, which knows its location.
LocationsIndexed ==
  \A id \in AssetIdSet, l \in Locations : locationAssets[l] = id <=> assetLocations[id] = l

-----------------------------------------------------------------------------
(***************************************************************************)
(* The bonds pallet on top of the asset registry: a bond is an asset that  *)
(* it registers for an underlying asset and a maturity.  Of the ledger     *)
(* only what matters to the pallet is kept: how much of each bond is       *)
(* issued and what the pallet's account holds.  Bonds move freely between  *)
(* the other accounts, the treasury included.                              *)
(***************************************************************************)

CONSTANTS
  NativeName, NativeDecimals,  \* of HDX
  NewAssets,                   \* the details with which governance registers an asset
  Updates,                     \* the changes of an update; None leaves a field
  IssuableKinds,               \* AssetTypeWhitelist
  Maturities,
  BondAmounts,
  MaxIssued,                   \* bound: the bonds issued of one kind
  MaxMoment                    \* bound: the time

ASSUME BondsAssumption ==
  /\ NativeName \in AssetNames /\ NativeDecimals \in DecimalPlaces \cup {None}
  /\ "Token" \in Kinds /\ "Bond" \in Kinds
  /\ NewAssets \subseteq Details
  /\ Updates \subseteq [name : AssetNames \cup {None}, asset_type : Kinds \cup {None},
                        is_sufficient : BOOLEAN \cup {None}, decimals : DecimalPlaces \cup {None}]
  /\ AssetIdSet \X Maturities \subseteq AssetNames   \* the name of a bond
  /\ None \notin Details \cup (AssetIdSet \X Maturities)
  /\ BondAmounts \subseteq Nat \ {0}

VARIABLES
  bondIds,    \* BondIds: <<asset, maturity>> -> bond
  bonds,      \* Bonds: bond -> <<asset, maturity>>
  issuance,   \* the total issuance of each bond
  backing,    \* the balances of the pallet's account
  moment      \* TimestampProvider::now

bondVars == <<bondIds, bonds, issuance, backing, moment>>

\* HDX is not held by the ledger whose hooks refuse banned assets.
Movable(asset) == asset = 0 \/ asset \notin bannedAssets

\* What the accounts other than the pallet's hold.
Circulating(bond) == issuance[bond] - backing[bond]

Found(asset, maturity) == bondIds[<<asset, maturity>>]

\* Mutant: the underlying asset is taken only when the bond is new.
TakenOnce(asset, maturity, x) ==
  backing' = IF bondIds[<<asset, maturity>>] # None THEN backing ELSE [backing EXCEPT ![asset] = @ + x]

\* The underlying asset moves from the treasury to the pallet's account.
TakeUnderlying(asset, maturity, x) ==
  /\ bonds[asset] # None => Circulating(asset) >= x
  /\ Movable(asset)
  /\ backing' = [backing EXCEPT ![asset] = @ + x]

(* issue; the name of a bond is made of its asset and its maturity.        *)
Issue(asset, x, maturity) ==
  \E bond \in AssetIdSet :
    /\ assets[asset] # None /\ assets[asset].asset_type \in IssuableKinds
    /\ IF Found(asset, maturity) # None
       THEN bond = Found(asset, maturity) /\ UNCHANGED <<registry, bonds, bondIds>>
       ELSE /\ maturity >= moment
            /\ DoRegisterAsset(None, [name |-> <<asset, maturity>>, asset_type |-> "Bond",
                                      is_sufficient |-> FALSE, decimals |-> None], None, bond)
            /\ bonds' = [bonds EXCEPT ![bond] = <<asset, maturity>>]
            /\ bondIds' = [bondIds EXCEPT ![<<asset, maturity>>] = bond]
    /\ TakeUnderlying(asset, maturity, x)
    /\ Movable(bond) /\ issuance[bond] + x <= MaxIssued
    /\ issuance' = [issuance EXCEPT ![bond] = @ + x]
    /\ UNCHANGED moment

Redeem(bond, x) ==
  /\ bonds[bond] # None
  /\ LET asset == bonds[bond][1]
     IN /\ moment >= bonds[bond][2]
        /\ Circulating(bond) >= x
        /\ issuance' = [issuance EXCEPT ![bond] = @ - x]
        /\ Movable(asset) /\ backing[asset] >= x
        /\ backing' = [backing EXCEPT ![asset] = @ - x]
  /\ UNCHANGED <<registry, bonds, bondIds, moment>>

Tick ==
  /\ moment < MaxMoment
  /\ moment' = moment + 1
  /\ UNCHANGED <<registry, bondIds, bonds, issuance, backing>>

-----------------------------------------------------------------------------
BondsInit ==
  /\ RegistryInit(NativeName, NativeDecimals)
  /\ bondIds = [key \in AssetIdSet \X Maturities |-> None]
  /\ bonds = [id \in AssetIdSet |-> None]
  /\ issuance = [id \in AssetIdSet |-> 0]
  /\ backing = [id \in AssetIdSet |-> 0]
  /\ moment = 0

Administer ==
  /\ \/ \E selected \in AssetIdSet \cup {None}, d \in NewAssets, l \in Locations \cup {None} :
          Register(selected, d, l)
     \/ \E l \in Locations : RegisterExternal(l)
     \/ \E id \in AssetIdSet, byRegistry \in BOOLEAN, u \in Updates, l \in Locations \cup {None} :
          Update(id, byRegistry, u, l)
     \/ \E id \in AssetIdSet : BanAsset(id) \/ UnbanAsset(id)
  /\ UNCHANGED bondVars

BondsNext ==
  \/ Administer
  \/ \E asset \in AssetIdSet, x \in BondAmounts, maturity \in Maturities : Issue(asset, x, maturity)
  \/ \E bond \in AssetIdSet, x \in BondAmounts : Redeem(bond, x)
  \/ Tick

BondsSpec == BondsInit /\ [][BondsNext]_<<registry, bondVars>>

-----------------------------------------------------------------------------
\* Every bond is found under its asset and maturity, and only there, and is an asset of the registry.
BondsIndexed ==
  \A bond \in AssetIdSet, asset \in AssetIdSet, maturity \in Maturities :
    bondIds[<<asset, maturity>>] = bond <=> bonds[bond] = <<asset, maturity>> /\ assets[bond] # None

(***************************************************************************)
(* Every index leads to the asset that carries the key and to no other:    *)
(* names, locations, and bonds by asset and maturity, through              *)
(* registrations by choice and in sequence, renamings and moves, and       *)
(* whatever governance does to the names and types of the bonds' assets    *)
(* (do_register_asset, do_set_location, update, issue).                    *)
(***************************************************************************)
RegistryIndexed == NamesIndexed /\ LocationsIndexed /\ BondsIndexed

(***************************************************************************)
(* The bonds pallet holds one unit of the underlying asset for every bond  *)
(* issued, of whatever maturity, bonds of bonds included (issue, redeem).  *)
(***************************************************************************)
BondsBacked ==
  \A asset \in AssetIdSet :
    backing[asset] = SumFunctionOnSet(issuance, {b \in AssetIdSet : bonds[b] # None /\ bonds[b][1] = asset})
=============================================================================
