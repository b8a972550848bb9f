---------------------------- MODULE AssetsProofs ----------------------------
(***************************************************************************)
(* Proofs about the asset registry, the bonds and the deposits of          *)
(* insufficient assets, for any number of assets, names, locations,        *)
(* maturities and accounts and after any number of calls.                  *)
(***************************************************************************)
EXTENDS AssetRegistry, InsufficientAssets, SumTheorems, TLAPS

-----------------------------------------------------------------------------
(* The asset registry.                                                     *)

RegistryTyped ==
  /\ assets \in [AssetIdSet -> Details \cup {None}]
  /\ assetIds \in [AssetNames -> AssetIdSet \cup {None}]
  /\ assetLocations \in [AssetIdSet -> Locations \cup {None}]
  /\ locationAssets \in [Locations -> AssetIdSet \cup {None}]
  /\ nextAssetId \in Nat

(* No asset has an id that the sequence is still to give out, and only an  *)
(* asset has a location.                                                   *)
IdsFresh ==
  \A id \in AssetIdSet :
    /\ id >= nextAssetId + SequentialIdStartAt => assets[id] = None
    /\ assets[id] = None => assetLocations[id] = None

RegistrySound == RegistryTyped /\ IdsFresh /\ NamesIndexed /\ LocationsIndexed

(* None is no asset, id, name or location.                                 *)
LEMMA NoneIsNothing ==
  /\ None \notin AssetIdSet /\ None \notin AssetNames /\ None \notin Locations /\ None \notin Details
  /\ None \notin AssetIdSet \X Maturities
<1>1. None \notin Nat /\ None \notin AssetNames /\ None \notin Locations
  BY RegistryAssumption, Zenon
<1>2. MaxAssetId \in Nat
  BY RegistryAssumption, Zenon
<1>3. None \notin AssetIdSet
  BY <1>1, <1>2 DEF AssetIdSet
<1> QED
  BY <1>1, <1>3, BondsAssumption, Zenon

(* The id of a new asset is one that no asset has.                         *)
LEMMA NewIdIsFresh ==
  ASSUME RegistryTyped, IdsFresh, NEW selected \in AssetIdSet \cup {None}, NEW id \in AssetIdSet, NewId(selected, id)
  PROVE  /\ assets[id] = None /\ assetLocations[id] = None
         /\ nextAssetId' \in Nat /\ nextAssetId' >= nextAssetId
         /\ ~ (id >= nextAssetId' + SequentialIdStartAt)
<1>1. nextAssetId \in Nat /\ SequentialIdStartAt \in Nat \ {0} /\ MaxAssetId \in Nat
  BY RegistryAssumption, Zenon DEF RegistryTyped
<1>2. CASE selected # None
  <2>1. selected < SequentialIdStartAt /\ assets[selected] = None /\ id = selected /\ nextAssetId' = nextAssetId
    BY <1>2, Zenon DEF NewId
  <2>2. assets[id] = None /\ assetLocations[id] = None
    BY <2>1, Zenon DEF IdsFresh
  <2>3. nextAssetId' \in Nat /\ nextAssetId' >= nextAssetId /\ ~ (id >= nextAssetId' + SequentialIdStartAt)
    BY <1>1, <2>1 DEF AssetIdSet
  <2> QED
    BY <2>2, <2>3, Zenon
<1>3. CASE selected = None
  <2>1. id = nextAssetId + SequentialIdStartAt /\ nextAssetId' = nextAssetId + 1
    BY <1>3, Zenon DEF NewId
  <2>2. id >= nextAssetId + SequentialIdStartAt
    BY <1>1, <2>1
  <2>3. assets[id] = None /\ assetLocations[id] = None
    BY <2>2, Zenon DEF IdsFresh
  <2>4. nextAssetId' \in Nat /\ nextAssetId' >= nextAssetId /\ ~ (id >= nextAssetId' + SequentialIdStartAt)
    BY <1>1, <2>1
  <2> QED
    BY <2>3, <2>4, Zenon
<1> QED
  BY <1>2, <1>3, Zenon

(* The ids after a later one come after an earlier one.                    *)
LEMMA LaterIds ==
  ASSUME NEW n \in Nat, NEW m \in Nat, m >= n, NEW j \in AssetIdSet, j >= m + SequentialIdStartAt
  PROVE  j >= n + SequentialIdStartAt
BY RegistryAssumption DEF AssetIdSet

(* do_set_location keeps the two maps inverse to each other, when the      *)
(* asset had no location and nothing led to it.                            *)
LEMMA LocationSet ==
  ASSUME NEW byId \in [AssetIdSet -> Locations \cup {None}], NEW byLocation \in [Locations -> AssetIdSet \cup {None}],
         \A j \in AssetIdSet, l \in Locations : byLocation[l] = j <=> byId[j] = l,
         NEW id \in AssetIdSet, byId[id] = None, NEW location \in Locations \cup {None},
         DoSetLocation(byId, byLocation, id, location)
  PROVE  /\ assetLocations' \in [AssetIdSet -> Locations \cup {None}]
         /\ locationAssets' \in [Locations -> AssetIdSet \cup {None}]
         /\ LocationsIndexed'
         /\ \A j \in AssetIdSet \ {id} : assetLocations'[j] = byId[j]
<1>1. CASE location = None
  BY <1>1, Zenon DEF DoSetLocation, LocationsIndexed, AssetIdSet
<1>2. CASE location # None
  <2>1. /\ location \in Locations /\ byLocation[location] = None
        /\ assetLocations' = [byId EXCEPT ![id] = location]
        /\ locationAssets' = [byLocation EXCEPT ![location] = id]
    BY <1>2, Zenon DEF DoSetLocation
  <2>2. /\ assetLocations' \in [AssetIdSet -> Locations \cup {None}]
        /\ locationAssets' \in [Locations -> AssetIdSet \cup {None}]
    BY <2>1, Zenon
  <2>3. \A j \in AssetIdSet : assetLocations'[j] = IF j = id THEN location ELSE byId[j]
    BY <2>1, Zenon
  <2>4. \A l \in Locations : locationAssets'[l] = IF l = location THEN id ELSE byLocation[l]
    BY <2>1, Zenon
  <2>5. ASSUME NEW j \in AssetIdSet, NEW l \in Locations
        PROVE  locationAssets'[l] = j <=> assetLocations'[j] = l
    <3>1. byLocation[l] = j <=> byId[j] = l
      BY Zenon
    <3>2. CASE j = id
      <4>1. assetLocations'[j] = location /\ byLocation[l] # j
        BY <2>3, <3>1, <3>2, NoneIsNothing, Zenon
      <4>2. locationAssets'[l] = j <=> l = location
        BY <2>4, <3>2, <4>1, Zenon
      <4> QED
        BY <4>1, <4>2, Zenon
    <3>3. CASE j # id
      <4>1. assetLocations'[j] = byId[j]
        BY <2>3, <3>3, Zenon
      <4>2. CASE l = location
        <5>1. byLocation[l] # j /\ locationAssets'[l] = id
          <6>1. byLocation[location] = None /\ None # j
            BY <2>1, NoneIsNothing, Zenon
          <6> QED
            BY <2>4, <4>2, <6>1
        <5> QED
          BY <3>1, <3>3, <4>1, <5>1, Zenon
      <4>3. CASE l # location
        BY <2>4, <3>1, <4>1, <4>3, Zenon
      <4> QED
        BY <4>2, <4>3, Zenon
    <3> QED
      BY <3>2, <3>3, Zenon
  <2>6. LocationsIndexed'
    BY <2>5, Zenon DEF LocationsIndexed, AssetIdSet
  <2> QED
    BY <2>2, <2>3, <2>6, Zenon
<1> QED
  BY <1>1, <1>2, Zenon

(* do_register_asset, whoever calls it.                                    *)
LEMMA RegisterKeepsRegistry ==
  ASSUME RegistrySound, NEW selected \in AssetIdSet \cup {None}, NEW details \in Details,
         NEW location \in Locations \cup {None}, NEW id \in AssetIdSet,
         DoRegisterAsset(selected, details, location, id)
  PROVE  /\ RegistrySound'
         /\ assets[id] = None /\ assets'[id] = details /\ \A j \in AssetIdSet \ {id} : assets'[j] = assets[j]
<1>0. RegistryTyped /\ IdsFresh /\ NamesIndexed /\ LocationsIndexed
  BY Zenon DEF RegistrySound
<1>1. /\ NewId(selected, id) /\ assets' = [assets EXCEPT ![id] = details]
      /\ DoSetLocation(assetLocations, locationAssets, id, location)
      /\ IF details.name = None THEN assetIds' = assetIds
         ELSE assetIds[details.name] = None /\ assetIds' = [assetIds EXCEPT ![details.name] = id]
  BY Zenon DEF DoRegisterAsset
<1>2. /\ assets[id] = None /\ assetLocations[id] = None /\ nextAssetId' \in Nat
      /\ nextAssetId' >= nextAssetId /\ ~ (id >= nextAssetId' + SequentialIdStartAt)
  BY <1>0, <1>1, NewIdIsFresh, Zenon
<1>3. /\ assetLocations' \in [AssetIdSet -> Locations \cup {None}]
      /\ locationAssets' \in [Locations -> AssetIdSet \cup {None}]
      /\ LocationsIndexed' /\ \A j \in AssetIdSet \ {id} : assetLocations'[j] = assetLocations[j]
  <2>1. /\ assetLocations \in [AssetIdSet -> Locations \cup {None}]
        /\ locationAssets \in [Locations -> AssetIdSet \cup {None}]
        /\ \A j \in AssetIdSet, l \in Locations : locationAssets[l] = j <=> assetLocations[j] = l
    BY <1>0, Zenon DEF RegistryTyped, LocationsIndexed
  <2> QED
    BY <1>1, <1>2, <2>1, LocationSet
<1>4. /\ assets' \in [AssetIdSet -> Details \cup {None}]
      /\ assets'[id] = details /\ \A j \in AssetIdSet \ {id} : assets'[j] = assets[j]
  BY <1>0, <1>1, Zenon DEF RegistryTyped
<1>5. details.name \in AssetNames \cup {None} /\ details # None
  BY NoneIsNothing, Zenon DEF Details
<1>6. /\ assetIds' \in [AssetNames -> AssetIdSet \cup {None}]
      /\ details.name # None => assetIds[details.name] = None
      /\ \A n \in AssetNames : assetIds'[n] = IF n = details.name THEN id ELSE assetIds[n]
  BY <1>0, <1>1, <1>5, NoneIsNothing, Zenon DEF RegistryTyped
<1>7. NamesIndexed'
  <2>1. ASSUME NEW j \in AssetIdSet, NEW n \in AssetNames
        PROVE  assetIds'[n] = j <=> assets'[j] # None /\ assets'[j].name = n
    <3>1. assetIds[n] = j <=> assets[j] # None /\ assets[j].name = n
      BY <1>0, Zenon DEF NamesIndexed
    <3>2. CASE j = id
      BY <1>2, <1>4, <1>5, <1>6, <3>1, <3>2, Zenon
    <3>3. CASE j # id
      <4>1. assets'[j] = assets[j]
        BY <1>4, <3>3, Zenon
      <4>2. CASE n = details.name
        <5>1. assetIds[n] = None /\ n # None /\ assetIds'[n] = id
          BY <1>6, <4>2, NoneIsNothing, Zenon
        <5> QED
          BY <3>1, <3>3, <4>1, <5>1, NoneIsNothing, Zenon
      <4>3. CASE n # details.name
        BY <1>6, <3>1, <4>1, <4>3, Zenon
      <4> QED
        BY <4>2, <4>3, Zenon
    <3> QED
      BY <3>2, <3>3, Zenon
  <2> QED
    BY <2>1, Zenon DEF NamesIndexed, AssetIdSet
<1>8. IdsFresh'
  <2>1. \A j \in AssetIdSet : j >= nextAssetId' + SequentialIdStartAt => j >= nextAssetId + SequentialIdStartAt
    <3>1. nextAssetId \in Nat /\ nextAssetId' \in Nat /\ nextAssetId' >= nextAssetId
      BY <1>0, <1>2, Zenon DEF RegistryTyped
    <3> QED
      BY <3>1, LaterIds, Zenon
  <2>2. \A j \in AssetIdSet : j >= nextAssetId' + SequentialIdStartAt => assets'[j] = None
    BY <1>0, <1>2, <1>4, <2>1, Zenon DEF IdsFresh
  <2>3. \A j \in AssetIdSet : assets'[j] = None => assetLocations'[j] = None
    BY <1>0, <1>3, <1>4, <1>5, Zenon DEF IdsFresh
  <2> QED
    BY <2>2, <2>3, Zenon DEF IdsFresh, AssetIdSet
<1> QED
  BY <1>2, <1>3, <1>4, <1>6, <1>7, <1>8, Zenon DEF RegistrySound, RegistryTyped, AssetIdSet, Details

(* The details of an asset that an update changes: None leaves a field.    *)
Updated(d, new) == [f \in DOMAIN d |-> OrElse(new[f], d[f])]

(* They are details again, with the new name if there is one.              *)
LEMMA UpdatedDetails ==
  ASSUME NEW d \in Details, NEW new \in Updates
  PROVE  /\ Updated(d, new) \in Details
         /\ Updated(d, new).name = IF new.name = None THEN d.name ELSE new.name
<1>1. new \in [name : AssetNames \cup {None}, asset_type : Kinds \cup {None},
               is_sufficient : BOOLEAN \cup {None}, decimals : DecimalPlaces \cup {None}]
  BY BondsAssumption, Zenon
<1> QED
  BY <1>1 DEF Updated, Details, OrElse

(* update: an asset may change its name, its location and its details.     *)
LEMMA UpdateKeepsRegistry ==
  ASSUME RegistrySound, NEW id \in AssetIdSet, NEW byRegistry \in BOOLEAN, NEW new \in Updates,
         NEW location \in Locations \cup {None}, Update(id, byRegistry, new, location)
  PROVE  RegistrySound' /\ \A j \in AssetIdSet : assets'[j] = None <=> assets[j] = None
<1>0. RegistryTyped /\ IdsFresh /\ NamesIndexed /\ LocationsIndexed
  BY Zenon DEF RegistrySound
<1> DEFINE d == assets[id]
           e == Updated(d, new)
<1>1. /\ d # None /\ Rename(id, new.name) /\ Relocate(id, location)
      /\ assets' = [assets EXCEPT ![id] = e] /\ nextAssetId' = nextAssetId
  BY Zenon DEF Update, Updated
<1>2. d \in Details
  BY <1>0, <1>1, Zenon DEF RegistryTyped
<1>3. e \in Details /\ e.name = (IF new.name = None THEN d.name ELSE new.name) /\ e # None
  <2> HIDE DEF d
  <2> QED
    BY <1>2, UpdatedDetails, NoneIsNothing, Zenon
<1>4. new.name \in AssetNames \cup {None}
  <2>1. new \in [name : AssetNames \cup {None}, asset_type : Kinds \cup {None},
                 is_sufficient : BOOLEAN \cup {None}, decimals : DecimalPlaces \cup {None}]
    BY BondsAssumption, Zenon
  <2> QED
    BY <2>1, Zenon
<1> HIDE DEF e
<1>5. /\ assets' \in [AssetIdSet -> Details \cup {None}]
      /\ assets'[id] = e /\ \A j \in AssetIdSet \ {id} : assets'[j] = assets[j]
  BY <1>0, <1>1, <1>3, Zenon DEF RegistryTyped
<1>6. \A j \in AssetIdSet : assets'[j] = None <=> assets[j] = None
  BY <1>1, <1>3, <1>5, Zenon
<1>7. assetIds' \in [AssetNames -> AssetIdSet \cup {None}] /\ NamesIndexed'
  <2>1. CASE new.name = None
    <3>1. assetIds' = assetIds /\ e.name = d.name
      BY <1>1, <1>3, <2>1, Zenon DEF Rename
    <3>2. ASSUME NEW j \in AssetIdSet, NEW n \in AssetNames
          PROVE  assetIds'[n] = j <=> assets'[j] # None /\ assets'[j].name = n
      <4>1. assetIds[n] = j <=> assets[j] # None /\ assets[j].name = n
        BY <1>0, Zenon DEF NamesIndexed
      <4>2. assets'[j].name = assets[j].name
        BY <1>5, <3>1, Zenon
      <4> QED
        BY <1>6, <3>1, <4>1, <4>2, Zenon
    <3> QED
      BY <1>0, <3>1, <3>2, Zenon DEF NamesIndexed, AssetIdSet, RegistryTyped
  <2>2. CASE new.name # None
    <3> DEFINE name == new.name
    <3>1. /\ name \in AssetNames /\ assetIds[name] = None /\ e.name = name
          /\ assetIds' = [n \in AssetNames |-> IF n = d.name THEN None ELSE IF n = name THEN id ELSE assetIds[n]]
      BY <1>1, <1>3, <1>4, <2>2, Zenon DEF Rename
    <3> HIDE DEF name, d
    <3>2. \A n \in AssetNames : assetIds'[n] = IF n = d.name THEN None ELSE IF n = name THEN id ELSE assetIds[n]
      BY <3>1, Zenon
    <3>3. assetIds' \in [AssetNames -> AssetIdSet \cup {None}]
      BY <1>0, <3>1, Zenon DEF RegistryTyped
    <3>4. ASSUME NEW j \in AssetIdSet, NEW n \in AssetNames
          PROVE  assetIds'[n] = j <=> assets'[j] # None /\ assets'[j].name = n
      <4>1. /\ assetIds[n] = j <=> assets[j] # None /\ assets[j].name = n
            /\ assetIds[n] = id <=> d # None /\ d.name = n
        BY <1>0, Zenon DEF NamesIndexed, d
      <4>2. None # j
        BY NoneIsNothing, Zenon
      <4>3. d.name # name
        <5>1. assetIds[name] = id <=> d # None /\ d.name = name
          BY <1>0, <3>1, Zenon DEF NamesIndexed, d
        <5> QED
          BY <1>1, <3>1, <5>1, NoneIsNothing, Zenon DEF d
      <4>4. CASE j = id
        <5>1. assets'[j] # None /\ assets'[j].name = name
          BY <1>3, <1>5, <3>1, <4>4, Zenon
        <5>2. CASE n = d.name
          BY <3>2, <4>2, <4>3, <5>1, <5>2, Zenon
        <5>3. CASE n = name
          BY <3>2, <4>3, <4>4, <5>1, <5>3, Zenon
        <5>4. CASE n # d.name /\ n # name
          BY <3>2, <4>1, <4>4, <5>1, <5>4, Zenon
        <5> QED
          BY <5>2, <5>3, <5>4, Zenon
      <4>5. CASE j # id
        <5>1. assets'[j] = assets[j]
          BY <1>5, <4>5, Zenon
        <5>2. CASE n = d.name
          <6>1. assetIds[n] = id /\ assetIds'[n] = None
            BY <1>1, <3>2, <4>1, <5>2, Zenon DEF d
          <6> QED
            BY <4>1, <4>2, <4>5, <5>1, <6>1, Zenon
        <5>3. CASE n = name
          <6>1. assetIds[n] = None /\ assetIds'[n] = id
            BY <3>1, <3>2, <4>3, <5>3, Zenon
          <6> QED
            BY <4>1, <4>2, <4>5, <5>1, <6>1, Zenon
        <5>4. CASE n # d.name /\ n # name
          BY <3>2, <4>1, <5>1, <5>4, Zenon
        <5> QED
          BY <5>2, <5>3, <5>4, Zenon
      <4> QED
        BY <4>4, <4>5, Zenon
    <3> QED
      BY <3>3, <3>4, Zenon DEF NamesIndexed, AssetIdSet
  <2> QED
    BY <2>1, <2>2, Zenon
<1>8. /\ assetLocations' \in [AssetIdSet -> Locations \cup {None}]
      /\ locationAssets' \in [Locations -> AssetIdSet \cup {None}]
      /\ LocationsIndexed' /\ \A j \in AssetIdSet \ {id} : assetLocations'[j] = assetLocations[j]
  <2>1. CASE location = None
    BY <1>0, <1>1, <2>1, Zenon DEF Relocate, LocationsIndexed, AssetIdSet, RegistryTyped
  <2>2. CASE location # None
    <3> DEFINE byId == [assetLocations EXCEPT ![id] = None]
               byLocation == [l \in Locations |-> IF l = assetLocations[id] THEN None ELSE locationAssets[l]]
    <3>1. DoSetLocation(byId, byLocation, id, location)
      BY <1>1, <2>2, Zenon DEF Relocate
    <3>2. /\ byId \in [AssetIdSet -> Locations \cup {None}] /\ byLocation \in [Locations -> AssetIdSet \cup {None}]
          /\ byId[id] = None /\ \A j \in AssetIdSet \ {id} : byId[j] = assetLocations[j]
          /\ \A l \in Locations : byLocation[l] = IF l = assetLocations[id] THEN None ELSE locationAssets[l]
      BY <1>0, Zenon DEF RegistryTyped
    <3> HIDE DEF byId, byLocation
    <3>3. ASSUME NEW j \in AssetIdSet, NEW l \in Locations
          PROVE  byLocation[l] = j <=> byId[j] = l
      <4>1. /\ locationAssets[l] = j <=> assetLocations[j] = l
            /\ locationAssets[l] = id <=> assetLocations[id] = l
        BY <1>0, Zenon DEF LocationsIndexed
      <4>2. None # j /\ None # l
        BY NoneIsNothing, Zenon
      <4>3. CASE j = id
        <5>1. byId[j] # l
          BY <3>2, <4>2, <4>3, Zenon
        <5>2. byLocation[l] # j
          BY <3>2, <4>1, <4>2, <4>3, Zenon
        <5> QED
          BY <5>1, <5>2, Zenon
      <4>4. CASE j # id
        <5>1. byId[j] = assetLocations[j]
          BY <3>2, <4>4, Zenon
        <5>2. CASE l = assetLocations[id]
          <6>1. byLocation[l] = None /\ locationAssets[l] = id
            BY <3>2, <4>1, <5>2, Zenon
          <6> QED
            BY <4>1, <4>2, <4>4, <5>1, <6>1, Zenon
        <5>3. CASE l # assetLocations[id]
          BY <3>2, <4>1, <5>1, <5>3, Zenon
        <5> QED
          BY <5>2, <5>3, Zenon
      <4> QED
        BY <4>3, <4>4, Zenon
    <3>4. /\ assetLocations' \in [AssetIdSet -> Locations \cup {None}]
          /\ locationAssets' \in [Locations -> AssetIdSet \cup {None}]
          /\ LocationsIndexed' /\ \A j \in AssetIdSet \ {id} : assetLocations'[j] = byId[j]
      BY <3>1, <3>2, <3>3, LocationSet
    <3> QED
      BY <3>2, <3>4, Zenon
  <2> QED
    BY <2>1, <2>2, Zenon
<1>9. IdsFresh'
  <2>1. ASSUME NEW j \in AssetIdSet
        PROVE  /\ j >= nextAssetId' + SequentialIdStartAt => assets'[j] = None
               /\ assets'[j] = None => assetLocations'[j] = None
    <3>1. /\ j >= nextAssetId + SequentialIdStartAt => assets[j] = None
          /\ assets[j] = None => assetLocations[j] = None
      BY <1>0, Zenon DEF IdsFresh
    <3>2. assets'[j] = None => j # id
      BY <1>3, <1>5, Zenon
    <3> QED
      BY <1>1, <1>6, <1>8, <3>1, <3>2, Zenon
  <2> QED
    BY <2>1, Zenon DEF IdsFresh, AssetIdSet
<1>10. nextAssetId' \in Nat
  BY <1>0, <1>1, Zenon DEF RegistryTyped
<1>11. RegistryTyped'
  BY <1>5, <1>7, <1>8, <1>10, Zenon DEF RegistryTyped, AssetIdSet, Details
<1> QED
  BY <1>6, <1>7, <1>8, <1>9, <1>11, Zenon DEF RegistrySound

-----------------------------------------------------------------------------
(* Bonds.                                                                  *)

BondsTyped ==
  /\ bondIds \in [AssetIdSet \X Maturities -> AssetIdSet \cup {None}]
  /\ bonds \in [AssetIdSet -> (AssetIdSet \X Maturities) \cup {None}]
  /\ issuance \in [AssetIdSet -> Nat] /\ backing \in [AssetIdSet -> Nat]

(* A bond is an asset of the registry, and only bonds are issued.          *)
BondsFresh ==
  \A b \in AssetIdSet :
    (assets[b] = None => bonds[b] = None) /\ (bonds[b] = None => issuance[b] = 0)

(* The two maps of the pallet are inverse to each other.                   *)
BondsKeyed ==
  \A b \in AssetIdSet, key \in AssetIdSet \X Maturities : bondIds[key] = b <=> bonds[b] = key

(* The inductive invariant.                                                *)
BondsSound == RegistrySound /\ BondsTyped /\ BondsFresh /\ BondsKeyed /\ BondsBacked

(* The bonds of an underlying asset.                                       *)
BondsOf(bs, asset) == {b \in AssetIdSet : bs[b] # None /\ bs[b][1] = asset}

(* The indexes follow from the inductive invariant.                        *)
LEMMA SoundIsIndexed == BondsSound => RegistryIndexed /\ BondsBacked
<1> SUFFICES ASSUME BondsSound PROVE BondsIndexed
  BY Zenon DEF BondsSound, RegistrySound, RegistryIndexed
<1> SUFFICES ASSUME NEW bond \in AssetIdSet, NEW asset \in AssetIdSet, NEW maturity \in Maturities
             PROVE  bondIds[<<asset, maturity>>] = bond <=> bonds[bond] = <<asset, maturity>> /\ assets[bond] # None
  BY Zenon DEF BondsIndexed
<1> DEFINE key == <<asset, maturity>>
<1>1. key \in AssetIdSet \X Maturities /\ key # None
  <2>1. key \in AssetIdSet \X Maturities
    OBVIOUS
  <2> QED
    BY <2>1, NoneIsNothing, Zenon
<1> HIDE DEF key
<1>2. (bondIds[key] = bond <=> bonds[bond] = key) /\ (assets[bond] = None => bonds[bond] = None)
  BY <1>1, Zenon DEF BondsSound, BondsKeyed, BondsFresh
<1>3. bondIds[key] = bond <=> bonds[bond] = key /\ assets[bond] # None
  BY <1>1, <1>2, Zenon
<1> QED
  BY <1>3, Zenon DEF key

(* What a change of the amount issued of one bond does to the amounts of   *)
(* sets of bonds.                                                          *)
IssuedMoved(f, g, bond) ==
  \A S \in SUBSET AssetIdSet :
    /\ SumFunctionOnSet(f, S) \in Nat
    /\ bond \in S => SumFunctionOnSet(g, S) = (SumFunctionOnSet(f, S) - f[bond]) + g[bond]
    /\ bond \notin S => SumFunctionOnSet(g, S) = SumFunctionOnSet(f, S)
    /\ bond \notin S => SumFunctionOnSet(g, S \cup {bond}) = g[bond] + SumFunctionOnSet(f, S)

(* It adds the difference to the sets with the bond and nothing to others. *)
LEMMA AmountMoved ==
  ASSUME NEW f \in [AssetIdSet -> Nat], NEW g \in [AssetIdSet -> Nat], NEW bond \in AssetIdSet,
         \A b \in AssetIdSet \ {bond} : g[b] = f[b]
  PROVE  IssuedMoved(f, g, bond)
<1> SUFFICES ASSUME NEW S \in SUBSET AssetIdSet
             PROVE  /\ SumFunctionOnSet(f, S) \in Nat
                    /\ bond \in S => SumFunctionOnSet(g, S) = (SumFunctionOnSet(f, S) - f[bond]) + g[bond]
                    /\ bond \notin S => SumFunctionOnSet(g, S) = SumFunctionOnSet(f, S)
                    /\ bond \notin S => SumFunctionOnSet(g, S \cup {bond}) = g[bond] + SumFunctionOnSet(f, S)
  BY Zenon DEF IssuedMoved
<1>1. IsFiniteSet(S)
  <2>1. IsFiniteSet(AssetIdSet)
    <3>1. 0 \in Int /\ MaxAssetId \in Int
      BY RegistryAssumption
    <3>2. IsFiniteSet(0 .. MaxAssetId)
      BY <3>1, FS_Interval, Zenon
    <3> QED
      BY <3>2, Zenon DEF AssetIdSet
  <2> QED
    BY <2>1, FS_Subset, Zenon
<1>2. \A b \in S : f[b] \in Nat /\ f[b] \in Int /\ g[b] \in Int
  OBVIOUS
<1>3. SumFunctionOnSet(f, S) \in Nat
  BY <1>1, <1>2, SumNat, Zenon
<1>4. ASSUME bond \in S PROVE SumFunctionOnSet(g, S) = (SumFunctionOnSet(f, S) - f[bond]) + g[bond]
  BY <1>1, <1>2, <1>4, SumChange
<1>5. ASSUME bond \notin S PROVE SumFunctionOnSet(g, S) = SumFunctionOnSet(f, S)
  <2>1. \A b \in S : g[b] = f[b]
    BY <1>5, Zenon
  <2> QED
    BY <1>1, <2>1, SumSame, Zenon
<1>6. ASSUME bond \notin S PROVE SumFunctionOnSet(g, S \cup {bond}) = g[bond] + SumFunctionOnSet(f, S)
  <2>1. \A b \in S \cup {bond} : g[b] \in Int
    OBVIOUS
  <2>2. SumFunctionOnSet(g, S \cup {bond}) = g[bond] + SumFunctionOnSet(g, S)
    BY <1>1, <1>6, <2>1, SumInsert, Zenon
  <2> QED
    BY <1>5, <1>6, <2>2, Zenon
<1> QED
  BY <1>3, <1>4, <1>5, <1>6, Zenon

(* The calls of the registry leave every bond an asset.                    *)
LEMMA AdministerKeepsBonds ==
  ASSUME BondsSound, Administer
  PROVE  BondsSound'
<1>0. RegistrySound /\ BondsTyped /\ BondsFresh /\ BondsKeyed /\ BondsBacked
  BY Zenon DEF BondsSound
<1>1. RegistrySound' /\ \A j \in AssetIdSet : assets'[j] = None => assets[j] = None
  <2>1. ASSUME NEW selected \in AssetIdSet \cup {None}, NEW d \in Details, NEW l \in Locations \cup {None},
               NEW id \in AssetIdSet, DoRegisterAsset(selected, d, l, id)
        PROVE  RegistrySound' /\ \A j \in AssetIdSet : assets'[j] = None => assets[j] = None
    <3>1. /\ RegistrySound' /\ assets[id] = None /\ \A j \in AssetIdSet \ {id} : assets'[j] = assets[j]
      BY <1>0, <2>1, RegisterKeepsRegistry
    <3> QED
      BY <3>1, Zenon
  <2>2. ASSUME NEW selected \in AssetIdSet \cup {None}, NEW d \in NewAssets, NEW l \in Locations \cup {None},
               Register(selected, d, l)
        PROVE  RegistrySound' /\ \A j \in AssetIdSet : assets'[j] = None => assets[j] = None
    <3>1. d \in Details
      BY BondsAssumption, Zenon
    <3> QED
      BY <2>1, <2>2, <3>1, Zenon DEF Register
  <2>3. ASSUME NEW l \in Locations, RegisterExternal(l)
        PROVE  RegistrySound' /\ \A j \in AssetIdSet : assets'[j] = None => assets[j] = None
    <3> DEFINE d == [name |-> None, asset_type |-> "External", is_sufficient |-> FALSE, decimals |-> None]
    <3>1. d \in Details
      BY RegistryAssumption, Zenon DEF Details
    <3>2. PICK id \in AssetIdSet : DoRegisterAsset(None, d, l, id)
      BY <2>3, Zenon DEF RegisterExternal
    <3>3. None \in AssetIdSet \cup {None} /\ l \in Locations \cup {None}
      BY Zenon
    <3> HIDE DEF d
    <3> QED
      BY <2>1, <3>1, <3>2, <3>3, Zenon
  <2>4. ASSUME NEW id \in AssetIdSet, NEW byRegistry \in BOOLEAN, NEW u \in Updates,
               NEW l \in Locations \cup {None}, Update(id, byRegistry, u, l)
        PROVE  RegistrySound' /\ \A j \in AssetIdSet : assets'[j] = None => assets[j] = None
    BY <1>0, <2>4, UpdateKeepsRegistry, Zenon
  <2>5. ASSUME NEW id \in AssetIdSet, BanAsset(id) \/ UnbanAsset(id)
        PROVE  RegistrySound' /\ \A j \in AssetIdSet : assets'[j] = None => assets[j] = None
    <3>1. UNCHANGED <<assets, assetIds, assetLocations, locationAssets, nextAssetId>>
      BY <2>5, Zenon DEF BanAsset, UnbanAsset
    <3>2. RegistryTyped'
      BY <1>0, <3>1, Zenon DEF RegistrySound, RegistryTyped, AssetIdSet, Details
    <3>3. IdsFresh' /\ NamesIndexed'
      BY <1>0, <3>1, Zenon DEF RegistrySound, IdsFresh, NamesIndexed, AssetIdSet
    <3>4. LocationsIndexed'
      BY <1>0, <3>1, Zenon DEF RegistrySound, LocationsIndexed, AssetIdSet
    <3> QED
      BY <3>1, <3>2, <3>3, <3>4, Zenon DEF RegistrySound
  <2> QED
    BY <2>2, <2>3, <2>4, <2>5, Zenon DEF Administer
<1>2. UNCHANGED <<bondIds, bonds, issuance, backing>>
  BY Zenon DEF Administer, bondVars
<1>3. BondsTyped' /\ BondsKeyed' /\ BondsBacked'
  <2>1. BondsTyped'
    BY <1>0, <1>2, Zenon DEF BondsTyped, AssetIdSet
  <2>2. BondsKeyed'
    BY <1>0, <1>2, Zenon DEF BondsKeyed, AssetIdSet
  <2>3. BondsBacked'
    BY <1>0, <1>2, Zenon DEF BondsBacked, AssetIdSet
  <2> QED
    BY <2>1, <2>2, <2>3, Zenon
<1>4. BondsFresh'
  BY <1>0, <1>1, <1>2, Zenon DEF BondsFresh, AssetIdSet
<1> QED
  BY <1>1, <1>3, <1>4, Zenon DEF BondsSound

(* An amount of one asset changes; the others stay.                        *)
LEMMA AmountChanged ==
  ASSUME NEW f \in [AssetIdSet -> Nat], NEW a \in AssetIdSet, NEW v \in Nat
  PROVE  LET g == [f EXCEPT ![a] = v]
         IN  g \in [AssetIdSet -> Nat] /\ g[a] = v /\ \A b \in AssetIdSet \ {a} : g[b] = f[b]
BY Zenon

(* A bond that is issued is, then, one of the bonds of its asset.          *)
LEMMA BondsOfChange ==
  ASSUME NEW bs, NEW cs, NEW bond \in AssetIdSet, NEW key, key # None, cs[bond] = key,
         bs[bond] = None \/ bs[bond] = key, \A b \in AssetIdSet \ {bond} : cs[b] = bs[b], NEW a
  PROVE  /\ key[1] = a => BondsOf(cs, a) = BondsOf(bs, a) \cup {bond}
         /\ key[1] # a => BondsOf(cs, a) = BondsOf(bs, a) /\ bond \notin BondsOf(bs, a)
<1>1. ASSUME NEW b \in AssetIdSet, b # bond PROVE b \in BondsOf(cs, a) <=> b \in BondsOf(bs, a)
  BY <1>1, Zenon DEF BondsOf
<1>2. bond \in BondsOf(cs, a) <=> key[1] = a
  BY Zenon DEF BondsOf
<1>3. key[1] # a => bond \notin BondsOf(bs, a)
  BY Zenon DEF BondsOf
<1>4. BondsOf(cs, a) \subseteq AssetIdSet /\ BondsOf(bs, a) \subseteq AssetIdSet
  BY Zenon DEF BondsOf
<1> QED
  BY <1>1, <1>2, <1>3, <1>4

(* issue: a bond of a maturity that exists, or a new one.                  *)
LEMMA IssueKeepsBonds ==
  ASSUME BondsSound, NEW asset \in AssetIdSet, NEW x \in BondAmounts, NEW maturity \in Maturities,
         Issue(asset, x, maturity)
  PROVE  BondsSound'
<1>0. RegistrySound /\ BondsTyped /\ BondsFresh /\ BondsKeyed /\ BondsBacked
  BY Zenon DEF BondsSound
<1> DEFINE key == <<asset, maturity>>
<1>1. PICK bond \in AssetIdSet :
        /\ IF bondIds[key] # None
           THEN bond = bondIds[key] /\ UNCHANGED <<registry, bonds, bondIds>>
           ELSE /\ DoRegisterAsset(None, [name |-> key, asset_type |-> "Bond",
                                          is_sufficient |-> FALSE, decimals |-> None], None, bond)
                /\ bonds' = [bonds EXCEPT ![bond] = key]
                /\ bondIds' = [bondIds EXCEPT ![key] = bond]
        /\ backing' = [backing EXCEPT ![asset] = @ + x]
        /\ issuance' = [issuance EXCEPT ![bond] = @ + x]
  BY Zenon DEF Issue, Found, TakeUnderlying
<1>2. key \in AssetIdSet \X Maturities /\ key[1] = asset
  OBVIOUS
<1>3. key # None /\ x \in Nat
  BY <1>2, NoneIsNothing, BondsAssumption, Zenon
<1> HIDE DEF key
<1>4. /\ issuance \in [AssetIdSet -> Nat] /\ backing \in [AssetIdSet -> Nat]
      /\ issuance[bond] \in Nat /\ backing[asset] \in Nat
  BY <1>0, Zenon DEF BondsTyped
<1>5. issuance[bond] + x \in Nat /\ backing[asset] + x \in Nat
  BY <1>3, <1>4
<1>6. /\ issuance' \in [AssetIdSet -> Nat] /\ issuance'[bond] = issuance[bond] + x
      /\ \A b \in AssetIdSet \ {bond} : issuance'[b] = issuance[b]
  BY <1>1, <1>4, <1>5, AmountChanged, Zenon
<1>7. /\ backing' \in [AssetIdSet -> Nat] /\ backing'[asset] = backing[asset] + x
      /\ \A b \in AssetIdSet \ {asset} : backing'[b] = backing[b]
  BY <1>1, <1>4, <1>5, AmountChanged, Zenon
<1>8. \A a \in AssetIdSet : backing[a] = SumFunctionOnSet(issuance, BondsOf(bonds, a)) /\ BondsOf(bonds, a) \in SUBSET AssetIdSet
  BY <1>0, Zenon DEF BondsBacked, BondsOf
<1>9. /\ RegistrySound' /\ BondsKeyed'
      /\ bondIds' \in [AssetIdSet \X Maturities -> AssetIdSet \cup {None}]
      /\ bonds' \in [AssetIdSet -> (AssetIdSet \X Maturities) \cup {None}]
      /\ \A b \in AssetIdSet : assets'[b] = None => bonds'[b] = None
      /\ bonds'[bond] = key
      /\ \A b \in AssetIdSet \ {bond} : bonds'[b] = bonds[b]
      /\ bonds[bond] = None \/ bonds[bond] = key
  <2>1. CASE bondIds[key] # None
    <3>1. bond = bondIds[key] /\ bonds' = bonds /\ bondIds' = bondIds
          /\ UNCHANGED <<assets, assetIds, assetLocations, locationAssets, nextAssetId>>
      BY <1>1, <2>1, Zenon DEF registry
    <3>2. bonds[bond] = key
      BY <1>0, <1>2, <3>1, Zenon DEF BondsKeyed
    <3>3. RegistryTyped'
      BY <1>0, <3>1, Zenon DEF RegistrySound, RegistryTyped, AssetIdSet, Details
    <3>4. IdsFresh' /\ NamesIndexed'
      BY <1>0, <3>1, Zenon DEF RegistrySound, IdsFresh, NamesIndexed, AssetIdSet
    <3>5. LocationsIndexed'
      BY <1>0, <3>1, Zenon DEF RegistrySound, LocationsIndexed, AssetIdSet
    <3>6. BondsKeyed'
      BY <1>0, <3>1, Zenon DEF BondsKeyed, AssetIdSet
    <3>7. RegistrySound'
      BY <3>3, <3>4, <3>5, Zenon DEF RegistrySound
    <3>8. \A b \in AssetIdSet : assets'[b] = None => bonds'[b] = None
      BY <1>0, <3>1, Zenon DEF BondsFresh
    <3> QED
      BY <1>0, <3>1, <3>2, <3>6, <3>7, <3>8, Zenon DEF BondsTyped
  <2>2. CASE bondIds[key] = None
    <3> DEFINE d == [name |-> key, asset_type |-> "Bond", is_sufficient |-> FALSE, decimals |-> None]
    <3>1. /\ DoRegisterAsset(None, d, None, bond)
          /\ bonds' = [bonds EXCEPT ![bond] = key] /\ bondIds' = [bondIds EXCEPT ![key] = bond]
      BY <1>1, <2>2, Zenon
    <3>2. d \in Details
      <4>1. key \in AssetNames /\ "Bond" \in Kinds
        BY <1>2, BondsAssumption, Zenon
      <4> QED
        BY <4>1, Zenon DEF Details
    <3>3. None \in AssetIdSet \cup {None} /\ None \in Locations \cup {None}
      BY Zenon
    <3> HIDE DEF d
    <3>4. /\ RegistrySound' /\ assets[bond] = None /\ assets'[bond] = d
          /\ \A j \in AssetIdSet \ {bond} : assets'[j] = assets[j]
      BY <1>0, <3>1, <3>2, <3>3, RegisterKeepsRegistry
    <3>5. bonds[bond] = None /\ d # None
      BY <1>0, <3>2, <3>4, NoneIsNothing, Zenon DEF BondsFresh
    <3>6. /\ bonds' \in [AssetIdSet -> (AssetIdSet \X Maturities) \cup {None}]
          /\ bonds'[bond] = key /\ \A b \in AssetIdSet \ {bond} : bonds'[b] = bonds[b]
      BY <1>0, <1>2, <3>1, Zenon DEF BondsTyped
    <3>7. /\ bondIds' \in [AssetIdSet \X Maturities -> AssetIdSet \cup {None}]
          /\ bondIds'[key] = bond /\ \A k \in (AssetIdSet \X Maturities) \ {key} : bondIds'[k] = bondIds[k]
      BY <1>0, <1>2, <3>1, Zenon DEF BondsTyped
    <3>8. ASSUME NEW b \in AssetIdSet, NEW k \in AssetIdSet \X Maturities
          PROVE  bondIds'[k] = b <=> bonds'[b] = k
      <4>1. bondIds[k] = b <=> bonds[b] = k
        BY <1>0, Zenon DEF BondsKeyed
      <4>2. None # b /\ None # k
        BY NoneIsNothing, Zenon
      <4>3. CASE k = key /\ b = bond
        BY <3>6, <3>7, <4>3, Zenon
      <4>4. CASE k = key /\ b # bond
        <5>1. bondIds'[k] = bond /\ bonds'[b] = bonds[b] /\ bondIds[k] = None
          BY <2>2, <3>6, <3>7, <4>4, Zenon
        <5> QED
          BY <4>1, <4>2, <4>4, <5>1, Zenon
      <4>5. CASE k # key /\ b = bond
        <5>1. bondIds'[k] = bondIds[k] /\ bonds'[b] = key /\ bonds[b] = None
          BY <3>5, <3>6, <3>7, <4>5, Zenon
        <5> QED
          BY <4>1, <4>2, <4>5, <5>1, Zenon
      <4>6. CASE k # key /\ b # bond
        BY <3>6, <3>7, <4>1, <4>6, Zenon
      <4> QED
        BY <4>3, <4>4, <4>5, <4>6, Zenon
    <3>9. BondsKeyed'
      BY <3>8, Zenon DEF BondsKeyed, AssetIdSet
    <3>10. \A b \in AssetIdSet : assets'[b] = None => bonds'[b] = None
      BY <1>0, <3>4, <3>5, <3>6, Zenon DEF BondsFresh
    <3> QED
      BY <3>4, <3>5, <3>6, <3>7, <3>9, <3>10, Zenon
  <2> QED
    BY <2>1, <2>2, Zenon
<1>10. BondsFresh'
  <2>1. \A b \in AssetIdSet : bonds'[b] = None => issuance'[b] = 0
    BY <1>0, <1>3, <1>6, <1>9, Zenon DEF BondsFresh
  <2> QED
    BY <1>9, <2>1, Zenon DEF BondsFresh, AssetIdSet
<1>11. BondsBacked'
  <2>1. ASSUME NEW a \in AssetIdSet
        PROVE  backing'[a] = SumFunctionOnSet(issuance', BondsOf(bonds', a))
    <3> DEFINE S == BondsOf(bonds, a)
               f == issuance
               g == issuance'
    <3>1. /\ SumFunctionOnSet(f, S) \in Nat
          /\ bond \in S => SumFunctionOnSet(g, S) = (SumFunctionOnSet(f, S) - f[bond]) + g[bond]
          /\ bond \notin S => SumFunctionOnSet(g, S) = SumFunctionOnSet(f, S)
          /\ bond \notin S => SumFunctionOnSet(g, S \cup {bond}) = g[bond] + SumFunctionOnSet(f, S)
      <4>1. S \in SUBSET AssetIdSet
        BY <1>8, Zenon
      <4>2. IssuedMoved(f, g, bond)
        BY <1>4, <1>6, AmountMoved
      <4> QED
        BY <4>1, <4>2, Zenon DEF IssuedMoved
    <3>2. CASE a = asset
      <4>1. BondsOf(bonds', a) = S \cup {bond}
        <5> DEFINE bs == bonds
                   cs == bonds'
        <5>1. key # None /\ cs[bond] = key /\ (bs[bond] = None \/ bs[bond] = key) /\ key[1] = a
              /\ \A b \in AssetIdSet \ {bond} : cs[b] = bs[b]
          BY <1>2, <1>3, <1>9, <3>2, Zenon
        <5> HIDE DEF bs, cs
        <5>2. BondsOf(cs, a) = BondsOf(bs, a) \cup {bond}
          BY <5>1, BondsOfChange
        <5> QED
          BY <5>2, Zenon DEF bs, cs
      <4>2. bond \notin S => issuance[bond] = 0
        <5>1. bond \notin S => bonds[bond] = None
          BY <1>2, <1>3, <1>9, <3>2, Zenon DEF BondsOf
        <5> QED
          BY <1>0, <5>1, Zenon DEF BondsFresh
      <4>3. backing[a] = SumFunctionOnSet(f, S) /\ backing'[a] = backing[a] + x
        BY <1>7, <1>8, <3>2, Zenon
      <4> HIDE DEF S
      <4>4. CASE bond \in S
        <5>1. S \cup {bond} = S
          BY <4>4, Zenon
        <5>2. SumFunctionOnSet(g, S) = backing'[a]
          BY <1>3, <1>4, <1>6, <3>1, <4>3, <4>4
        <5> QED
          BY <4>1, <5>1, <5>2, Zenon
      <4>5. CASE bond \notin S
        <5>1. SumFunctionOnSet(g, S \cup {bond}) = backing'[a]
          BY <1>3, <1>4, <1>6, <3>1, <4>2, <4>3, <4>5
        <5> QED
          BY <4>1, <5>1, Zenon
      <4> QED
        BY <4>4, <4>5, Zenon
    <3>3. CASE a # asset
      <4>1. BondsOf(bonds', a) = S /\ bond \notin S
        BY <1>2, <1>3, <1>9, <3>3, BondsOfChange
      <4>2. backing'[a] = SumFunctionOnSet(f, S)
        BY <1>7, <1>8, <3>3, Zenon
      <4> QED
        BY <3>1, <4>1, <4>2, Zenon
    <3> QED
      BY <3>2, <3>3, Zenon
  <2> QED
    BY <2>1, Zenon DEF BondsBacked, BondsOf, AssetIdSet
<1>12. BondsTyped'
  BY <1>6, <1>7, <1>9, Zenon DEF BondsTyped, AssetIdSet
<1> QED
  BY <1>9, <1>10, <1>11, <1>12, Zenon DEF BondsSound

(* redeem, of part of a bond or all of it.                                 *)
LEMMA RedeemKeepsBonds ==
  ASSUME BondsSound, NEW bond \in AssetIdSet, NEW x \in BondAmounts, Redeem(bond, x)
  PROVE  BondsSound'
<1>0. RegistrySound /\ BondsTyped /\ BondsFresh /\ BondsKeyed /\ BondsBacked
  BY Zenon DEF BondsSound
<1> DEFINE asset == bonds[bond][1]
<1>1. /\ bonds[bond] # None /\ issuance[bond] - backing[bond] >= x /\ backing[asset] >= x
      /\ issuance' = [issuance EXCEPT ![bond] = @ - x] /\ backing' = [backing EXCEPT ![asset] = @ - x]
      /\ UNCHANGED <<bonds, bondIds>>
      /\ UNCHANGED <<assets, assetIds, assetLocations, locationAssets, nextAssetId>>
  BY Zenon DEF Redeem, Circulating, registry
<1>2. asset \in AssetIdSet
  <2>1. bonds[bond] \in AssetIdSet \X Maturities
    BY <1>0, <1>1, Zenon DEF BondsTyped
  <2> QED
    BY <2>1
<1>3. /\ issuance \in [AssetIdSet -> Nat] /\ backing \in [AssetIdSet -> Nat] /\ x \in Nat
      /\ issuance[bond] \in Nat /\ backing[bond] \in Nat /\ backing[asset] \in Nat
  <2>1. x \in Nat
    BY BondsAssumption, Zenon
  <2> HIDE DEF asset
  <2> QED
    BY <1>0, <1>2, <2>1, Zenon DEF BondsTyped
<1>4. asset = bonds[bond][1]
  OBVIOUS
<1> HIDE DEF asset
<1>5. issuance[bond] - x \in Nat /\ backing[asset] - x \in Nat
  BY <1>1, <1>3
<1>6. /\ issuance' \in [AssetIdSet -> Nat] /\ issuance'[bond] = issuance[bond] - x
      /\ \A b \in AssetIdSet \ {bond} : issuance'[b] = issuance[b]
  BY <1>1, <1>3, <1>5, AmountChanged, Zenon
<1>7. /\ backing' \in [AssetIdSet -> Nat] /\ backing'[asset] = backing[asset] - x
      /\ \A b \in AssetIdSet \ {asset} : backing'[b] = backing[b]
  BY <1>1, <1>2, <1>3, <1>5, AmountChanged, Zenon
<1>8. RegistrySound'
  <2>1. RegistryTyped'
    BY <1>0, <1>1, Zenon DEF RegistrySound, RegistryTyped, AssetIdSet, Details
  <2>2. IdsFresh' /\ NamesIndexed'
    BY <1>0, <1>1, Zenon DEF RegistrySound, IdsFresh, NamesIndexed, AssetIdSet
  <2>3. LocationsIndexed'
    BY <1>0, <1>1, Zenon DEF RegistrySound, LocationsIndexed, AssetIdSet
  <2> QED
    BY <2>1, <2>2, <2>3, Zenon DEF RegistrySound
<1>9. BondsTyped'
  BY <1>0, <1>1, <1>6, <1>7, Zenon DEF BondsTyped, AssetIdSet
<1>10. BondsKeyed'
  BY <1>0, <1>1, Zenon DEF BondsKeyed, AssetIdSet
<1>11. BondsFresh'
  BY <1>0, <1>1, <1>6, Zenon DEF BondsFresh, AssetIdSet
<1>12. BondsBacked'
  <2>0. IssuedMoved(issuance, issuance', bond)
    BY <1>3, <1>6, AmountMoved
  <2>1. ASSUME NEW a \in AssetIdSet
        PROVE  backing'[a] = SumFunctionOnSet(issuance', BondsOf(bonds, a))
    <3> DEFINE S == BondsOf(bonds, a)
               f == issuance
               g == issuance'
    <3>0. backing[a] = SumFunctionOnSet(f, S) /\ S \in SUBSET AssetIdSet
      BY <1>0, Zenon DEF BondsBacked, BondsOf
    <3>1. bond \in S <=> a = asset
      BY <1>1, <1>4, Zenon DEF BondsOf
    <3> HIDE DEF S
    <3>2. /\ SumFunctionOnSet(f, S) \in Nat
          /\ bond \in S => SumFunctionOnSet(g, S) = (SumFunctionOnSet(f, S) - f[bond]) + g[bond]
          /\ bond \notin S => SumFunctionOnSet(g, S) = SumFunctionOnSet(f, S)
          /\ bond \notin S => SumFunctionOnSet(g, S \cup {bond}) = g[bond] + SumFunctionOnSet(f, S)
      BY <2>0, <3>0, Zenon DEF IssuedMoved
    <3>3. CASE a = asset
      <4>1. SumFunctionOnSet(g, S) = (backing[a] - issuance[bond]) + (issuance[bond] - x) /\ backing'[a] = backing[a] - x
        BY <1>6, <1>7, <3>0, <3>1, <3>2, <3>3, Zenon
      <4>2. SumFunctionOnSet(g, S) = backing'[a]
        BY <1>3, <3>3, <4>1
      <4> QED
        BY <4>2, Zenon DEF S
    <3>4. CASE a # asset
      BY <1>7, <3>0, <3>1, <3>2, <3>4, Zenon DEF S
    <3> QED
      BY <3>3, <3>4, Zenon
  <2> QED
    BY <1>1, <2>1, Zenon DEF BondsBacked, BondsOf, AssetIdSet
<1> QED
  BY <1>8, <1>9, <1>10, <1>11, <1>12, Zenon DEF BondsSound

(* Genesis.                                                                *)
LEMMA BondsInitSound == BondsInit => BondsSound
<1> SUFFICES ASSUME BondsInit PROVE BondsSound
  OBVIOUS
<1> DEFINE hdx == [name |-> NativeName, asset_type |-> "Token", is_sufficient |-> TRUE, decimals |-> NativeDecimals]
<1>1. /\ assets = [id \in AssetIdSet |-> IF id = 0 THEN hdx ELSE None]
      /\ assetIds = [n \in AssetNames |-> IF n = NativeName THEN 0 ELSE None]
      /\ assetLocations = [id \in AssetIdSet |-> None] /\ locationAssets = [l \in Locations |-> None]
      /\ nextAssetId = 1
  BY Zenon DEF BondsInit, RegistryInit
<1>2. /\ bondIds = [key \in AssetIdSet \X Maturities |-> None] /\ bonds = [id \in AssetIdSet |-> None]
      /\ issuance = [id \in AssetIdSet |-> 0] /\ backing = [id \in AssetIdSet |-> 0]
  BY Zenon DEF BondsInit
<1>3. hdx \in Details /\ hdx.name = NativeName
  BY BondsAssumption, Zenon DEF Details
<1> HIDE DEF hdx
<1>4. hdx # None /\ NativeName \in AssetNames
  BY <1>3, NoneIsNothing, BondsAssumption, Zenon
<1>5. /\ 0 \in AssetIdSet /\ 1 \in Nat /\ 0 \in Nat
      /\ \A id \in AssetIdSet : id >= 1 + SequentialIdStartAt => id # 0
  BY RegistryAssumption DEF AssetIdSet
<1>6. RegistryTyped
  BY <1>1, <1>3, <1>4, <1>5, Zenon DEF RegistryTyped
<1>7. IdsFresh /\ LocationsIndexed
  BY <1>1, <1>5, NoneIsNothing, Zenon DEF IdsFresh, LocationsIndexed
<1>8. NamesIndexed
  <2>1. ASSUME NEW id \in AssetIdSet, NEW n \in AssetNames
        PROVE  assetIds[n] = id <=> assets[id] # None /\ assets[id].name = n
    <3>1. None # id
      BY NoneIsNothing, Zenon
    <3>2. CASE id = 0
      <4>1. assets[id] = hdx
        BY <1>1, <3>2, Zenon
      <4> QED
        BY <1>1, <1>3, <1>4, <3>1, <3>2, <4>1, Zenon
    <3>3. CASE id # 0
      BY <1>1, <3>1, <3>3, Zenon
    <3> QED
      BY <3>2, <3>3, Zenon
  <2> QED
    BY <2>1, Zenon DEF NamesIndexed
<1>9. BondsTyped
  BY <1>2, <1>5, Zenon DEF BondsTyped
<1>10. BondsFresh /\ BondsKeyed
  BY <1>2, NoneIsNothing, Zenon DEF BondsFresh, BondsKeyed
<1>11. BondsBacked
  <2>1. ASSUME NEW a \in AssetIdSet
        PROVE  backing[a] = SumFunctionOnSet(issuance, BondsOf(bonds, a))
    <3>1. BondsOf(bonds, a) = {} /\ backing[a] = 0
      BY <1>2, Zenon DEF BondsOf
    <3> QED
      BY <3>1, SumEmpty, Zenon
  <2> QED
    BY <2>1, Zenon DEF BondsBacked, BondsOf
<1> QED
  BY <1>6, <1>7, <1>8, <1>9, <1>10, <1>11, Zenon DEF BondsSound, RegistrySound

(* Every step of the registry and of the bonds.                            *)
LEMMA BondsStep ==
  ASSUME BondsSound, [BondsNext]_<<registry, bondVars>>
  PROVE  BondsSound'
<1>1. CASE BondsNext
  <2>1. ASSUME Tick PROVE BondsSound'
    <3>1. UNCHANGED <<registry, bondIds, bonds, issuance, backing>>
      BY <2>1, Zenon DEF Tick
    <3> QED
      BY <3>1 DEF BondsSound, RegistrySound, RegistryTyped, IdsFresh, NamesIndexed, LocationsIndexed, registry,
                  BondsTyped, BondsFresh, BondsKeyed, BondsBacked
  <2> QED
    BY <1>1, <2>1, AdministerKeepsBonds, IssueKeepsBonds, RedeemKeepsBonds, Zenon DEF BondsNext
<1>2. CASE UNCHANGED <<registry, bondVars>>
  BY <1>2 DEF BondsSound, RegistrySound, RegistryTyped, IdsFresh, NamesIndexed, LocationsIndexed, registry, bondVars,
              BondsTyped, BondsFresh, BondsKeyed, BondsBacked
<1> QED
  BY <1>1, <1>2, Zenon

(* Names, locations, and pairs of asset and maturity always lead to the    *)
(* asset that carries them and to no other, for any ids, names, locations  *)
(* and maturities.                                                         *)
THEOREM IndexesAgree == BondsSpec => []RegistryIndexed
<1>1. BondsInit => BondsSound
  BY BondsInitSound, Zenon
<1>2. BondsSound /\ [BondsNext]_<<registry, bondVars>> => BondsSound'
  BY BondsStep, Zenon
<1>3. BondsSound => RegistryIndexed
  BY SoundIsIndexed, Zenon
<1> QED
  BY <1>1, <1>2, <1>3, PTL DEF BondsSpec

(* The pallet always holds the underlying asset of every bond, for any     *)
(* assets, maturities and amounts, also of bonds of bonds.                 *)
THEOREM BondsAreBacked == BondsSpec => []BondsBacked
<1>1. BondsInit => BondsSound
  BY BondsInitSound, Zenon
<1>2. BondsSound /\ [BondsNext]_<<registry, bondVars>> => BondsSound'
  BY BondsStep, Zenon
<1>3. BondsSound => BondsBacked
  BY SoundIsIndexed, Zenon
<1> QED
  BY <1>1, <1>2, <1>3, PTL DEF BondsSpec

-----------------------------------------------------------------------------
(* The deposits of insufficient assets.                                    *)

Ledgers == [balance : [Holders -> [Tokens -> Nat]], sufficients : [Holders -> Nat],
            counter : Nat, lock : Nat, net : Int]

(* The deposits of all accounts.                                           *)
AllDeposits(s) == SumFunctionOnSet([h \in Holders |-> Deposits(s, h)], Holders)

(* What holds of the ledger between any two steps of a call.               *)
Books(s) ==
  /\ s \in Ledgers
  /\ s.lock = ED * s.counter
  /\ SumFunctionOnSet(s.sufficients, Holders) = s.counter + Cardinality(bound)
  /\ AllDeposits(s) = s.counter
  /\ \A h \in Holders \ {Router} : Cardinality(Held(s, h)) <= Deposits(s, h)

(* The inductive invariant.                                                *)
DepositsSound ==
  /\ Books(ledger) /\ ledger.lock <= ledger.net
  /\ isSufficient \in SUBSET Tokens /\ bound \in SUBSET (Holders \ {Router})

(* The holdings of an account are finitely many.                           *)
LEMMA HeldFinite ==
  ASSUME NEW s, NEW h
  PROVE  IsFiniteSet(Held(s, h)) /\ Cardinality(Held(s, h)) \in Nat
<1>1. IsFiniteSet(Tokens) /\ Held(s, h) \subseteq Tokens
  BY DepositsAssumption, Zenon DEF Held
<1>2. IsFiniteSet(Held(s, h))
  BY <1>1, FS_Subset, Zenon
<1> QED
  BY <1>2, FS_CardinalityType, Zenon

(* No account has more holdings than deposits, or fewer than no deposits.  *)
LEMMA DepositsNat ==
  ASSUME NEW s, Books(s), bound \in SUBSET (Holders \ {Router}), NEW h \in Holders
  PROVE  Deposits(s, h) \in Nat
<1>1. s.sufficients[h] \in Nat
  BY Zenon DEF Books, Ledgers
<1>2. Deposits(s, h) \in Int
  BY <1>1 DEF Deposits
<1>3. CASE h = Router
  BY <1>1, <1>3 DEF Deposits
<1>4. CASE h # Router
  <2>1. Cardinality(Held(s, h)) <= Deposits(s, h) /\ Cardinality(Held(s, h)) \in Nat
    BY <1>4, HeldFinite, Zenon DEF Books
  <2> QED
    BY <1>2, <2>1
<1> QED
  BY <1>3, <1>4, Zenon

(* An account's deposits are among those that the registry counts.         *)
LEMMA CounterCovers ==
  ASSUME NEW s, Books(s), bound \in SUBSET (Holders \ {Router}), NEW h \in Holders
  PROVE  Deposits(s, h) <= s.counter
<1> DEFINE f == [j \in Holders |-> Deposits(s, j)]
<1>1. \A j \in Holders : f[j] \in Nat
  BY DepositsNat, Zenon
<1>2. IsFiniteSet(Holders) /\ f[h] = Deposits(s, h) /\ SumFunctionOnSet(f, Holders) = s.counter
  BY DepositsAssumption, Zenon DEF Books, AllDeposits
<1> HIDE DEF f
<1>3. f[h] <= SumFunctionOnSet(f, Holders)
  BY <1>1, <1>2, SumNat
<1> QED
  BY <1>2, <1>3, Zenon

(* An account gains or loses references, and as many deposits.             *)
LEMMA ReferencesMoved ==
  ASSUME NEW s \in Ledgers, NEW t \in Ledgers, NEW who \in Holders,
         \A h \in Holders \ {who} : t.sufficients[h] = s.sufficients[h]
  PROVE  LET k == t.sufficients[who] - s.sufficients[who]
         IN  /\ SumFunctionOnSet(t.sufficients, Holders) = SumFunctionOnSet(s.sufficients, Holders) + k
             /\ AllDeposits(t) = AllDeposits(s) + k
             /\ Deposits(t, who) = Deposits(s, who) + k
             /\ \A h \in Holders \ {who} : Deposits(t, h) = Deposits(s, h)
             /\ SumFunctionOnSet(s.sufficients, Holders) \in Int /\ AllDeposits(s) \in Int
<1> DEFINE k == t.sufficients[who] - s.sufficients[who]
<1>0. IsFiniteSet(Holders)
  BY DepositsAssumption, Zenon
<1>1. \A h \in Holders : s.sufficients[h] \in Nat /\ t.sufficients[h] \in Nat
  BY Zenon DEF Ledgers
<1>2. \A h \in Holders : Deposits(s, h) \in Int /\ Deposits(t, h) \in Int
  BY <1>1 DEF Deposits
<1>3. Deposits(t, who) = Deposits(s, who) + k
  BY <1>1 DEF Deposits
<1>4. \A h \in Holders \ {who} : Deposits(t, h) = Deposits(s, h)
  BY Zenon DEF Deposits
<1>5. /\ SumFunctionOnSet(t.sufficients, Holders) = SumFunctionOnSet(s.sufficients, Holders) + k
      /\ SumFunctionOnSet(s.sufficients, Holders) \in Int
  <2> DEFINE f == s.sufficients
             g == t.sufficients
  <2>1. \A h \in Holders : f[h] \in Int /\ g[h] \in Int
    BY <1>1
  <2>2. \A h \in Holders \ {who} : f[h] = g[h]
    BY Zenon
  <2>3. k = g[who] - f[who]
    BY Zenon
  <2> HIDE DEF f, g, k
  <2>4. SumFunctionOnSet(g, Holders) = (SumFunctionOnSet(f, Holders) - f[who]) + g[who]
    BY <1>0, <2>1, <2>2, SumChange
  <2>5. SumFunctionOnSet(f, Holders) \in Int
    BY <1>0, <2>1, SumInt, Zenon
  <2>6. SumFunctionOnSet(g, Holders) = SumFunctionOnSet(f, Holders) + k
    BY <2>1, <2>3, <2>4, <2>5
  <2> QED
    BY <2>5, <2>6, Zenon DEF f, g
<1>6. AllDeposits(t) = AllDeposits(s) + k /\ AllDeposits(s) \in Int
  <2> DEFINE f == [h \in Holders |-> Deposits(s, h)]
             g == [h \in Holders |-> Deposits(t, h)]
  <2>1. \A h \in Holders : f[h] \in Int /\ g[h] \in Int
    BY <1>2, Zenon
  <2>2. \A h \in Holders \ {who} : f[h] = g[h]
    BY <1>4, Zenon
  <2>3. k \in Int /\ g[who] = f[who] + k
    BY <1>1, <1>3
  <2> HIDE DEF f, g, k
  <2>4. SumFunctionOnSet(g, Holders) = (SumFunctionOnSet(f, Holders) - f[who]) + g[who]
    BY <1>0, <2>1, <2>2, SumChange
  <2>5. SumFunctionOnSet(f, Holders) \in Int
    BY <1>0, <2>1, SumInt, Zenon
  <2>6. SumFunctionOnSet(g, Holders) = SumFunctionOnSet(f, Holders) + k
    BY <2>1, <2>3, <2>4, <2>5
  <2> QED
    BY <2>5, <2>6, Zenon DEF f, g, AllDeposits
<1> QED
  BY <1>3, <1>4, <1>5, <1>6, Zenon

(* The lock, divided among the deposits, is one existential deposit each.  *)
LEMMA RefundIsOneDeposit ==
  ASSUME NEW c \in Nat \ {0}
  PROVE  /\ (ED * c) \div c = ED /\ ED * c - ED = ED * (c - 1) /\ ED <= ED * c
         /\ ED * (c + 1) = ED * c + ED
<1>1. ED \in Nat \ {0}
  BY DepositsAssumption, Zenon
<1> QED
  BY <1>1, SMTT(30)

(* The balance of one account in one asset is set.                         *)
WithBalance(s, who, asset, v) == [s EXCEPT !.balance[who][asset] = v]

(* Nothing else of the ledger changes with it.                             *)
LEMMA BalanceSet ==
  ASSUME NEW s \in Ledgers, NEW who \in Holders, NEW asset \in Tokens, NEW v \in Nat
  PROVE  LET t == WithBalance(s, who, asset, v)
         IN  /\ t \in Ledgers /\ t.sufficients = s.sufficients /\ t.counter = s.counter /\ t.lock = s.lock
             /\ t.net = s.net /\ t.balance[who][asset] = v
             /\ \A a \in Tokens \ {asset} : t.balance[who][a] = s.balance[who][a]
             /\ \A h \in Holders \ {who} : t.balance[h] = s.balance[h]
<1> DEFINE t == WithBalance(s, who, asset, v)
           b == [s.balance EXCEPT ![who][asset] = v]
<1>1. t = [s EXCEPT !.balance = b]
  BY DEF WithBalance, Ledgers
<1>2. s.balance \in [Holders -> [Tokens -> Nat]]
  BY Zenon DEF Ledgers
<1>3. /\ b \in [Holders -> [Tokens -> Nat]] /\ b[who][asset] = v
      /\ \A a \in Tokens \ {asset} : b[who][a] = s.balance[who][a]
      /\ \A h \in Holders \ {who} : b[h] = s.balance[h]
  BY <1>2
<1> HIDE DEF b
<1>4. /\ t \in Ledgers /\ t.sufficients = s.sufficients /\ t.counter = s.counter /\ t.lock = s.lock
      /\ t.net = s.net /\ t.balance = b
  BY <1>1, <1>3, Zenon DEF Ledgers
<1> HIDE DEF t
<1>5. /\ t.balance[who][asset] = v
      /\ \A a \in Tokens \ {asset} : t.balance[who][a] = s.balance[who][a]
      /\ \A h \in Holders \ {who} : t.balance[h] = s.balance[h]
  BY <1>3, <1>4, Zenon
<1> QED
  BY <1>4, <1>5, Zenon DEF t

(* Of the holdings, those of one account in one asset may begin or end.    *)
LEMMA HeldMoved ==
  ASSUME NEW s \in Ledgers, NEW t \in Ledgers, NEW who \in Holders, NEW asset \in Tokens,
         \A a \in Tokens \ {asset} : t.balance[who][a] = s.balance[who][a],
         \A h \in Holders \ {who} : t.balance[h] = s.balance[h]
  PROVE  /\ \A h \in Holders \ {who} : Held(t, h) = Held(s, h)
         /\ Cardinality(Held(t, who)) <= Cardinality(Held(s, who)) + 1
         /\ asset \in isSufficient \/ s.balance[who][asset] > 0 =>
              Cardinality(Held(t, who)) <= Cardinality(Held(s, who))
         /\ asset \notin isSufficient /\ s.balance[who][asset] > 0 /\ t.balance[who][asset] = 0 =>
              Cardinality(Held(t, who)) = Cardinality(Held(s, who)) - 1
<1> DEFINE S == Held(s, who)
           T == Held(t, who)
<1>0. IsFiniteSet(S) /\ IsFiniteSet(T) /\ Cardinality(S) \in Nat /\ Cardinality(T) \in Nat
  BY HeldFinite, Zenon
<1>1. \A h \in Holders \ {who} : Held(t, h) = Held(s, h)
  BY Zenon DEF Held
<1>2. \A a \in Tokens \ {asset} : a \in T <=> a \in S
  BY Zenon DEF Held
<1>3. asset \in S <=> asset \notin isSufficient /\ s.balance[who][asset] > 0
  BY Zenon DEF Held
<1>4. asset \in T <=> asset \notin isSufficient /\ t.balance[who][asset] > 0
  BY Zenon DEF Held
<1>5. S \subseteq Tokens /\ T \subseteq Tokens
  BY Zenon DEF Held
<1>6. ~ (0 > 0)
  OBVIOUS
<1> HIDE DEF S, T
<1>7. T \subseteq S \cup {asset}
  BY <1>2, <1>5, Zenon
<1>8. Cardinality(T) <= Cardinality(S) + 1
  <2>1. IsFiniteSet(S \cup {asset}) /\ Cardinality(S \cup {asset}) <= Cardinality(S) + 1
    <3>1. IsFiniteSet(S \cup {asset})
          /\ Cardinality(S \cup {asset}) = IF asset \in S THEN Cardinality(S) ELSE Cardinality(S) + 1
      BY <1>0, FS_AddElement, Zenon
    <3> QED
      BY <1>0, <3>1
  <2>2. Cardinality(T) <= Cardinality(S \cup {asset}) /\ Cardinality(S \cup {asset}) \in Nat
    BY <1>7, <2>1, FS_Subset, FS_CardinalityType, Zenon
  <2> QED
    BY <1>0, <2>1, <2>2
<1>9. ASSUME asset \in isSufficient \/ s.balance[who][asset] > 0
      PROVE  Cardinality(T) <= Cardinality(S)
  <2>1. T \subseteq S
    BY <1>2, <1>3, <1>4, <1>5, <1>9, Zenon
  <2> QED
    BY <1>0, <2>1, FS_Subset, Zenon
<1>10. ASSUME asset \notin isSufficient, s.balance[who][asset] > 0, t.balance[who][asset] = 0
       PROVE  Cardinality(T) = Cardinality(S) - 1
  <2>1. asset \in S /\ asset \notin T
    BY <1>3, <1>4, <1>6, <1>10, Zenon
  <2>2. T = S \ {asset}
    BY <1>2, <1>5, <2>1
  <2>3. Cardinality(S \ {asset}) = IF asset \in S THEN Cardinality(S) - 1 ELSE Cardinality(S)
    BY <1>0, FS_RemoveElement, Zenon
  <2> QED
    BY <2>1, <2>2, <2>3, Zenon
<1> QED
  BY <1>1, <1>8, <1>9, <1>10, Zenon DEF S, T

(* Balances change and no account has more holdings than before, or it has *)
(* a deposit to spare.                                                     *)
LEMMA BooksOfBalances ==
  ASSUME NEW s, Books(s), NEW t \in Ledgers, t.sufficients = s.sufficients, t.counter = s.counter, t.lock = s.lock,
         \A h \in Holders \ {Router} : Cardinality(Held(t, h)) <= Deposits(s, h)
  PROVE  Books(t)
<1>1. \A h \in Holders : Deposits(t, h) = Deposits(s, h)
  BY Zenon DEF Deposits
<1>2. AllDeposits(t) = AllDeposits(s)
  BY Zenon DEF AllDeposits, Deposits
<1> QED
  BY <1>1, <1>2, Zenon DEF Books

(* A deposit ends: an account loses a reference, the registry counts one   *)
(* less and the treasury has refunded one existential deposit.             *)
Refunded(t, who, refund) ==
  [t EXCEPT !.lock = SaturatingSub(@, refund), !.sufficients[who] = @ - 1,
            !.counter = SaturatingSub(@, 1), !.net = @ - refund]

(* The fields of the ledger then.                                          *)
LEMMA RefundedFields ==
  ASSUME NEW t \in Ledgers, NEW who \in Holders, t.sufficients[who] \in Nat \ {0}, NEW refund \in Nat,
         t.counter > 0, refund <= t.lock
  PROVE  LET u == Refunded(t, who, refund)
         IN  /\ u \in Ledgers /\ u.balance = t.balance /\ u.lock = t.lock - refund
             /\ u.counter = t.counter - 1 /\ u.net = t.net - refund
             /\ u.sufficients[who] = t.sufficients[who] - 1
             /\ \A h \in Holders \ {who} : u.sufficients[h] = t.sufficients[h]
<1> DEFINE f == [t.sufficients EXCEPT ![who] = @ - 1]
           l == SaturatingSub(t.lock, refund)
           c == SaturatingSub(t.counter, 1)
           n == t.net - refund
           u == Refunded(t, who, refund)
<1>1. u = [t EXCEPT !.lock = l, !.sufficients = f, !.counter = c, !.net = n]
  BY DEF Refunded, Ledgers
<1>2. /\ t.sufficients \in [Holders -> Nat] /\ t.balance \in [Holders -> [Tokens -> Nat]]
      /\ t.lock \in Nat /\ t.counter \in Nat /\ t.net \in Int
  BY Zenon DEF Ledgers
<1>3. l = t.lock - refund /\ l \in Nat /\ c = t.counter - 1 /\ c \in Nat /\ n \in Int
  BY <1>2 DEF SaturatingSub
<1>4. f \in [Holders -> Nat] /\ f[who] = t.sufficients[who] - 1 /\ \A h \in Holders \ {who} : f[h] = t.sufficients[h]
  <2>1. t.sufficients[who] - 1 \in Nat
    OBVIOUS
  <2> QED
    BY <1>2, <2>1, Zenon
<1> HIDE DEF l, c, n, f
<1>5. /\ u \in Ledgers /\ u.balance = t.balance /\ u.lock = l /\ u.counter = c /\ u.net = n /\ u.sufficients = f
  BY <1>1, <1>2, <1>3, <1>4, Zenon DEF Ledgers
<1> QED
  BY <1>3, <1>4, <1>5, Zenon DEF n

(* The ledger takes an amount from an account: the books stay right, and   *)
(* the treasury refunds just what it unlocks.                              *)
LEMMA TakenKeepsBooks ==
  ASSUME NEW s, Books(s), bound \in SUBSET (Holders \ {Router}), NEW who \in Holders, NEW asset \in Tokens,
         NEW x \in Nat \ {0}, x <= s.balance[who][asset]
  PROVE  LET u == Taken(s, who, asset, x)
         IN  /\ Books(u) /\ u.net - u.lock = s.net - s.lock
             /\ \A h \in Holders \ {who} : u.balance[h] = s.balance[h]
             /\ \A a \in Tokens \ {asset} : u.balance[who][a] = s.balance[who][a]
<1> DEFINE v == s.balance[who][asset] - x
           t == WithBalance(s, who, asset, v)
           u == Taken(s, who, asset, x)
<1>1. /\ s \in Ledgers /\ s.balance[who][asset] \in Nat /\ s.counter \in Nat /\ s.lock \in Nat /\ s.net \in Int
      /\ s.sufficients[who] \in Nat
  BY Zenon DEF Books, Ledgers
<1>2. v \in Nat /\ s.balance[who][asset] > 0
  BY <1>1
<1>3. u = IF t.balance[who][asset] = 0 THEN Killed(t, who, asset) ELSE t
  BY DEF Taken, WithBalance
<1> HIDE DEF v
<1>4. /\ t \in Ledgers /\ t.sufficients = s.sufficients /\ t.counter = s.counter /\ t.lock = s.lock
      /\ t.net = s.net /\ t.balance[who][asset] = v
      /\ \A a \in Tokens \ {asset} : t.balance[who][a] = s.balance[who][a]
      /\ \A h \in Holders \ {who} : t.balance[h] = s.balance[h]
  BY <1>1, <1>2, BalanceSet, SMT
<1> HIDE DEF t, u
<1>5. /\ \A h \in Holders \ {who} : Held(t, h) = Held(s, h)
      /\ Cardinality(Held(t, who)) <= Cardinality(Held(s, who))
      /\ asset \notin isSufficient /\ v = 0 => Cardinality(Held(t, who)) = Cardinality(Held(s, who)) - 1
  BY <1>1, <1>2, <1>4, HeldMoved, SMT
<1>6. \A h \in Holders : Cardinality(Held(t, h)) \in Nat /\ Cardinality(Held(s, h)) \in Nat
  BY HeldFinite, Zenon
<1>7. \A h \in Holders : Deposits(s, h) \in Nat
  BY DepositsNat, Zenon
<1>8. \A h \in Holders \ {Router} : Cardinality(Held(s, h)) <= Deposits(s, h)
  BY Zenon DEF Books
<1>9. Books(t)
  <2>1. ASSUME NEW h \in Holders \ {Router} PROVE Cardinality(Held(t, h)) <= Deposits(s, h)
    <3>1. Cardinality(Held(t, h)) <= Cardinality(Held(s, h))
      <4>1. CASE h = who
        BY <1>5, <4>1, Zenon
      <4>2. CASE h # who
        BY <1>5, <1>6, <4>2
      <4> QED
        BY <4>1, <4>2, Zenon
    <3> QED
      BY <1>6, <1>7, <1>8, <3>1
  <2> QED
    BY <1>4, <2>1, BooksOfBalances, Zenon
<1>10. CASE u = t
  <2>1. u.net - u.lock = s.net - s.lock
    BY <1>4, <1>10, Zenon
  <2> QED
    BY <1>4, <1>9, <1>10, <2>1, Zenon DEF u
<1>11. CASE u # t
  <2> DEFINE refund == IF t.counter = 0 THEN 0 ELSE t.lock \div t.counter
  <2>1. v = 0 /\ asset \notin isSufficient /\ t.sufficients[who] # 0 /\ u = Refunded(t, who, refund)
    BY <1>3, <1>4, <1>11, Zenon DEF Killed, Refunded
  <2>2. Deposits(s, who) >= 1
    <3>1. CASE who = Router
      BY <1>1, <1>4, <2>1, <3>1 DEF Deposits
    <3>2. CASE who # Router
      <4>1. Cardinality(Held(t, who)) = Cardinality(Held(s, who)) - 1 /\ Cardinality(Held(s, who)) <= Deposits(s, who)
        BY <1>5, <1>8, <2>1, <3>2, Zenon
      <4>2. Cardinality(Held(t, who)) \in Nat /\ Cardinality(Held(s, who)) \in Nat /\ Deposits(s, who) \in Nat
        BY <1>6, <1>7, Zenon
      <4> QED
        BY <4>1, <4>2
    <3> QED
      BY <3>1, <3>2, Zenon
  <2>3. s.counter \in Nat \ {0}
    <3>1. Deposits(s, who) <= s.counter /\ Deposits(s, who) \in Nat
      BY <1>7, CounterCovers, Zenon
    <3> QED
      BY <1>1, <2>2, <3>1
  <2>4. s.lock = ED * s.counter /\ ED \in Nat
    BY DepositsAssumption, Zenon DEF Books
  <2>5. refund = ED /\ ED <= s.lock /\ s.lock - ED = ED * (s.counter - 1)
    <3>1. (ED * s.counter) \div s.counter = ED /\ ED * s.counter - ED = ED * (s.counter - 1) /\ ED <= ED * s.counter
      BY <2>3, RefundIsOneDeposit, Zenon
    <3>2. s.counter # 0
      BY <2>3
    <3> QED
      BY <1>4, <2>4, <3>1, <3>2, Zenon
  <2> HIDE DEF refund
  <2>6. /\ u \in Ledgers /\ u.balance = t.balance /\ u.lock = t.lock - ED
        /\ u.counter = t.counter - 1 /\ u.net = t.net - ED
        /\ u.sufficients[who] = t.sufficients[who] - 1
        /\ \A h \in Holders \ {who} : u.sufficients[h] = t.sufficients[h]
    <3>1. t.sufficients[who] \in Nat \ {0} /\ t.counter > 0 /\ ED <= t.lock /\ u = Refunded(t, who, ED)
      <4>1. t.counter > 0
        BY <1>4, <2>3
      <4>2. t.sufficients[who] \in Nat \ {0}
        BY <1>1, <1>4, <2>1
      <4> QED
        BY <1>4, <2>1, <2>5, <4>1, <4>2, Zenon
    <3> QED
      BY <1>4, <2>4, <3>1, RefundedFields, SMT
  <2>7. \A h \in Holders : Held(u, h) = Held(t, h)
    BY <2>6, Zenon DEF Held
  <2>8. /\ SumFunctionOnSet(u.sufficients, Holders) = SumFunctionOnSet(t.sufficients, Holders) + (u.sufficients[who] - t.sufficients[who])
        /\ AllDeposits(u) = AllDeposits(t) + (u.sufficients[who] - t.sufficients[who])
        /\ Deposits(u, who) = Deposits(t, who) + (u.sufficients[who] - t.sufficients[who])
        /\ \A h \in Holders \ {who} : Deposits(u, h) = Deposits(t, h)
        /\ SumFunctionOnSet(t.sufficients, Holders) \in Int /\ AllDeposits(t) \in Int
    BY <1>4, <2>6, ReferencesMoved, Zenon
  <2>9. u.sufficients[who] - t.sufficients[who] = -1
    BY <1>1, <1>4, <2>6
  <2>10. /\ SumFunctionOnSet(t.sufficients, Holders) = t.counter + Cardinality(bound) /\ AllDeposits(t) = t.counter
         /\ Cardinality(bound) \in Int
    <3>1. Cardinality(bound) \in Nat
      <4>1. IsFiniteSet(Holders) /\ bound \subseteq Holders
        BY DepositsAssumption, Zenon
      <4> QED
        BY <4>1, FS_Subset, FS_CardinalityType, Zenon
    <3>2. Cardinality(bound) \in Int
      BY <3>1
    <3> QED
      BY <1>9, <3>2, Zenon DEF Books
  <2>11. SumFunctionOnSet(u.sufficients, Holders) = u.counter + Cardinality(bound) /\ AllDeposits(u) = u.counter
    <3>1. t.counter \in Nat
      BY <1>1, <1>4, Zenon
    <3> QED
      BY <2>6, <2>8, <2>9, <2>10, <3>1
  <2>12. u.lock = ED * u.counter
    BY <1>4, <2>5, <2>6, Zenon
  <2>13. ASSUME NEW h \in Holders \ {Router} PROVE Cardinality(Held(u, h)) <= Deposits(u, h)
    <3>1. Deposits(t, h) = Deposits(s, h)
      BY <1>4, Zenon DEF Deposits
    <3>2. CASE h = who
      <4>1. Cardinality(Held(u, h)) = Cardinality(Held(s, h)) - 1 /\ Deposits(u, h) = Deposits(s, h) + (-1)
        BY <1>5, <2>1, <2>7, <2>8, <2>9, <3>1, <3>2, Zenon
      <4>2. /\ Cardinality(Held(s, h)) <= Deposits(s, h) /\ Cardinality(Held(s, h)) \in Nat
            /\ Deposits(s, h) \in Nat
        BY <1>6, <1>7, <1>8, Zenon
      <4> QED
        BY <4>1, <4>2
    <3>3. CASE h # who
      BY <1>5, <1>8, <2>7, <2>8, <3>1, <3>3, Zenon
    <3> QED
      BY <3>2, <3>3, Zenon
  <2>14. Books(u)
    BY <2>6, <2>11, <2>12, <2>13, Zenon DEF Books
  <2>15. u.net - u.lock = s.net - s.lock
    BY <1>1, <1>4, <2>4, <2>6
  <2> QED
    BY <1>4, <2>6, <2>14, <2>15, Zenon DEF u
<1> QED
  BY <1>10, <1>11, Zenon

(* The ledger gives an amount to an account that has it already, needs no  *)
(* deposit for it or has one to spare.                                     *)
LEMMA CreditKeepsBooks ==
  ASSUME NEW s, Books(s), bound \in SUBSET (Holders \ {Router}), NEW to \in Holders, NEW asset \in Tokens, NEW x \in Nat,
         to # Router /\ asset \notin isSufficient /\ s.balance[to][asset] = 0 =>
           Cardinality(Held(s, to)) + 1 <= Deposits(s, to)
  PROVE  LET t == WithBalance(s, to, asset, s.balance[to][asset] + x)
         IN  Books(t) /\ t.net = s.net /\ t.lock = s.lock /\ \A h \in Holders \ {to} : t.balance[h] = s.balance[h]
<1> DEFINE v == s.balance[to][asset] + x
           t == WithBalance(s, to, asset, v)
<1>1. s \in Ledgers /\ s.balance[to][asset] \in Nat
  BY Zenon DEF Books, Ledgers
<1>2. v \in Nat
  BY <1>1
<1> HIDE DEF v
<1>3. /\ t \in Ledgers /\ t.sufficients = s.sufficients /\ t.counter = s.counter /\ t.lock = s.lock
      /\ t.net = s.net
      /\ \A a \in Tokens \ {asset} : t.balance[to][a] = s.balance[to][a]
      /\ \A h \in Holders \ {to} : t.balance[h] = s.balance[h]
  BY <1>1, <1>2, BalanceSet, SMT
<1> HIDE DEF t
<1>4. /\ \A h \in Holders \ {to} : Held(t, h) = Held(s, h)
      /\ Cardinality(Held(t, to)) <= Cardinality(Held(s, to)) + 1
      /\ asset \in isSufficient \/ s.balance[to][asset] > 0 => Cardinality(Held(t, to)) <= Cardinality(Held(s, to))
  BY <1>1, <1>3, HeldMoved, SMT
<1>5. ASSUME NEW h \in Holders \ {Router} PROVE Cardinality(Held(t, h)) <= Deposits(s, h)
  <2>1. /\ Cardinality(Held(s, h)) <= Deposits(s, h) /\ Cardinality(Held(s, h)) \in Nat
        /\ Cardinality(Held(t, h)) \in Nat /\ Deposits(s, h) \in Nat
    BY HeldFinite, DepositsNat, Zenon DEF Books
  <2>2. CASE h # to
    BY <1>4, <2>1, <2>2, Zenon
  <2>3. CASE h = to
    <3>1. CASE asset \in isSufficient \/ s.balance[to][asset] > 0
      BY <1>4, <2>1, <2>3, <3>1
    <3>2. CASE asset \notin isSufficient /\ s.balance[to][asset] = 0
      BY <1>4, <2>1, <2>3, <3>2
    <3>3. s.balance[to][asset] > 0 \/ s.balance[to][asset] = 0
      BY <1>1
    <3> QED
      BY <3>1, <3>2, <3>3, Zenon
  <2> QED
    BY <2>2, <2>3, Zenon
<1>6. Books(t)
  BY <1>3, <1>5, BooksOfBalances, Zenon
<1> QED
  BY <1>3, <1>6, Zenon DEF t, v

(* A deposit begins: an account gains a reference, the registry counts one *)
(* more and the treasury locks one existential deposit.                    *)
Reserved(p, to, lock) == [p EXCEPT !.lock = lock, !.sufficients[to] = @ + 1, !.counter = @ + 1]

(* The fields of the ledger then.                                          *)
LEMMA ReservedFields ==
  ASSUME NEW p \in Ledgers, NEW to \in Holders, NEW lock \in Nat
  PROVE  LET t == Reserved(p, to, lock)
         IN  /\ t \in Ledgers /\ t.balance = p.balance /\ t.lock = lock /\ t.counter = p.counter + 1 /\ t.net = p.net
             /\ t.sufficients[to] = p.sufficients[to] + 1
             /\ \A h \in Holders \ {to} : t.sufficients[h] = p.sufficients[h]
<1> DEFINE f == [p.sufficients EXCEPT ![to] = @ + 1]
           c == p.counter + 1
           t == Reserved(p, to, lock)
<1>1. t = [p EXCEPT !.lock = lock, !.sufficients = f, !.counter = c]
  BY DEF Reserved, Ledgers
<1>2. /\ p.sufficients \in [Holders -> Nat] /\ p.balance \in [Holders -> [Tokens -> Nat]]
      /\ p.counter \in Nat /\ p.net \in Int
  BY Zenon DEF Ledgers
<1>3. c \in Nat /\ p.sufficients[to] + 1 \in Nat
  BY <1>2
<1>4. f \in [Holders -> Nat] /\ f[to] = p.sufficients[to] + 1 /\ \A h \in Holders \ {to} : f[h] = p.sufficients[h]
  BY <1>2, <1>3, Zenon
<1> HIDE DEF c, f
<1>5. t \in Ledgers /\ t.balance = p.balance /\ t.lock = lock /\ t.counter = c /\ t.net = p.net /\ t.sufficients = f
  BY <1>1, <1>2, <1>3, <1>4, Zenon DEF Ledgers
<1> QED
  BY <1>4, <1>5, Zenon DEF c

(* An account gains one reference and the registry counts one more.        *)
LEMMA ReservedKeepsBooks ==
  ASSUME NEW p, Books(p), bound \in SUBSET (Holders \ {Router}), NEW to \in Holders
  PROVE  LET t == Reserved(p, to, p.lock + ED)
         IN  /\ Books(t) /\ t.net = p.net /\ t.lock = p.lock + ED /\ t.balance = p.balance
             /\ to # Router => Cardinality(Held(t, to)) + 1 <= Deposits(t, to)
<1> DEFINE t == Reserved(p, to, p.lock + ED)
<1>1. p \in Ledgers /\ p.lock \in Nat /\ p.counter \in Nat /\ p.sufficients[to] \in Nat /\ p.lock = ED * p.counter
  BY Zenon DEF Books, Ledgers
<1>2. ED \in Nat \ {0} /\ p.lock + ED \in Nat
  <2>1. ED \in Nat \ {0}
    BY DepositsAssumption, Zenon
  <2> QED
    BY <1>1, <2>1
<1>3. /\ t \in Ledgers /\ t.balance = p.balance /\ t.lock = p.lock + ED /\ t.counter = p.counter + 1 /\ t.net = p.net
      /\ t.sufficients[to] = p.sufficients[to] + 1
      /\ \A h \in Holders \ {to} : t.sufficients[h] = p.sufficients[h]
  BY <1>1, <1>2, ReservedFields, Zenon
<1> HIDE DEF t
<1>4. t.lock = ED * t.counter
  <2> DEFINE c == p.counter + 1
  <2>1. c \in Nat \ {0} /\ c - 1 = p.counter
    BY <1>1
  <2> HIDE DEF c
  <2>2. ED * c - ED = ED * (c - 1) /\ ED * c \in Int
    BY <1>2, <2>1, RefundIsOneDeposit
  <2>3. p.lock + ED = ED * c
    BY <1>1, <1>2, <2>1, <2>2
  <2> QED
    BY <1>3, <2>3, Zenon DEF c
<1>5. \A h \in Holders : Held(t, h) = Held(p, h)
  BY <1>3, Zenon DEF Held
<1>6. /\ SumFunctionOnSet(t.sufficients, Holders) = SumFunctionOnSet(p.sufficients, Holders) + (t.sufficients[to] - p.sufficients[to])
      /\ AllDeposits(t) = AllDeposits(p) + (t.sufficients[to] - p.sufficients[to])
      /\ Deposits(t, to) = Deposits(p, to) + (t.sufficients[to] - p.sufficients[to])
      /\ \A h \in Holders \ {to} : Deposits(t, h) = Deposits(p, h)
      /\ SumFunctionOnSet(p.sufficients, Holders) \in Int /\ AllDeposits(p) \in Int
  BY <1>1, <1>3, ReferencesMoved, Zenon
<1>7. t.sufficients[to] - p.sufficients[to] = 1
  BY <1>1, <1>3
<1>8. /\ SumFunctionOnSet(p.sufficients, Holders) = p.counter + Cardinality(bound) /\ AllDeposits(p) = p.counter
      /\ Cardinality(bound) \in Int
  <2>1. IsFiniteSet(Holders) /\ bound \subseteq Holders
    BY DepositsAssumption, Zenon
  <2>2. Cardinality(bound) \in Nat
    BY <2>1, FS_Subset, FS_CardinalityType, Zenon
  <2>3. Cardinality(bound) \in Int
    BY <2>2
  <2> QED
    BY <2>3, Zenon DEF Books
<1>9. SumFunctionOnSet(t.sufficients, Holders) = t.counter + Cardinality(bound) /\ AllDeposits(t) = t.counter
  BY <1>1, <1>3, <1>6, <1>7, <1>8
<1>10. ASSUME NEW h \in Holders \ {Router}
       PROVE  /\ Cardinality(Held(t, h)) <= Deposits(t, h)
              /\ h = to => Cardinality(Held(t, h)) + 1 <= Deposits(t, h)
  <2>1. /\ Cardinality(Held(p, h)) <= Deposits(p, h) /\ Cardinality(Held(p, h)) \in Nat /\ Deposits(p, h) \in Nat
        /\ Held(t, h) = Held(p, h)
    BY <1>5, HeldFinite, DepositsNat, Zenon DEF Books
  <2>2. CASE h = to
    <3>1. Deposits(t, h) = Deposits(p, h) + 1
      BY <1>6, <1>7, <2>2, Zenon
    <3> QED
      BY <2>1, <3>1
  <2>3. CASE h # to
    BY <1>6, <2>1, <2>3, Zenon
  <2> QED
    BY <2>2, <2>3, Zenon
<1>11. Books(t)
  BY <1>3, <1>4, <1>9, <1>10, Zenon DEF Books
<1> QED
  BY <1>3, <1>10, <1>11, Zenon DEF t

(* The treasury collects a deposit and nothing else changes.               *)
Collected(s) == [s EXCEPT !.net = @ + InsufficientED]

(* The books stay right, and the treasury has at least one deposit more    *)
(* than it locks.                                                          *)
LEMMA CollectedKeepsBooks ==
  ASSUME NEW s, Books(s), s.lock <= s.net
  PROVE  LET t == Collected(s)
         IN  Books(t) /\ t.balance = s.balance /\ t.lock + ED <= t.net
<1> DEFINE n == s.net + InsufficientED
           t == Collected(s)
<1>1. s \in Ledgers /\ s.net \in Int /\ s.lock \in Nat
  BY Zenon DEF Books, Ledgers
<1>2. ED \in Nat /\ InsufficientED \in Nat /\ ED <= InsufficientED
  BY DepositsAssumption
<1>3. n \in Int /\ s.lock + ED <= n
  BY <1>1, <1>2
<1>4. t = [s EXCEPT !.net = n]
  BY <1>1 DEF Collected, Ledgers
<1> HIDE DEF n
<1>5. /\ t \in Ledgers /\ t.balance = s.balance /\ t.sufficients = s.sufficients /\ t.counter = s.counter
      /\ t.lock = s.lock /\ t.net = n
  BY <1>1, <1>3, <1>4 DEF Ledgers
<1> HIDE DEF t
<1>6. \A h \in Holders \ {Router} : Cardinality(Held(t, h)) <= Deposits(s, h)
  BY <1>5, Zenon DEF Books, Held
<1>7. Books(t)
  BY <1>5, <1>6, BooksOfBalances, Zenon
<1> QED
  BY <1>3, <1>5, <1>7, Zenon DEF t

(* on_funds keeps the books right, the treasury is not out of pocket, and  *)
(* the account may now hold the asset.                                     *)
LEMMA OnFundsKeepsBooks ==
  ASSUME NEW s, Books(s), s.lock <= s.net, bound \in SUBSET (Holders \ {Router}), NEW asset \in Tokens,
         NEW payer \in Holders, NEW to \in Holders, NEW fee \in Tokens \cup {Native},
         CanPay(s, asset, payer, to, fee)
  PROVE  LET t == OnFunds(s, asset, payer, to, fee)
         IN  /\ Books(t) /\ t.lock <= t.net
             /\ to # Router /\ asset \notin isSufficient /\ t.balance[to][asset] = 0 =>
                  Cardinality(Held(t, to)) + 1 <= Deposits(t, to)
<1> DEFINE t == OnFunds(s, asset, payer, to, fee)
<1>1. CASE ~NeedsDeposit(s, to, asset)
  <2>1. t = s
    BY <1>1, Zenon DEF OnFunds
  <2> QED
    BY <1>1, <2>1, Zenon DEF NeedsDeposit
<1>2. CASE NeedsDeposit(s, to, asset)
  <2> DEFINE c == Collected(s)
             p == Paid(s, payer, fee)
  <2>1. t = Reserved(p, to, p.lock + ED)
    BY <1>2, Zenon DEF OnFunds, Reserved, ToLock
  <2>2. Books(c) /\ c.balance = s.balance /\ c.lock + ED <= c.net
    BY CollectedKeepsBooks, Zenon
  <2>3. p = IF fee = Native THEN c ELSE Taken(c, payer, fee, 1)
    BY Zenon DEF Paid, Collected
  <2> HIDE DEF t, c, p
  <2>4. Books(p) /\ p.lock + ED <= p.net
    <3>1. CASE fee = Native
      BY <2>2, <2>3, <3>1, Zenon
    <3>2. CASE fee # Native
      <4>1. fee \in Tokens /\ s.balance[payer][fee] > 0 /\ s.balance[payer][fee] \in Nat
        BY <1>2, <3>2, Zenon DEF CanPay, Books, Ledgers
      <4>2. 1 \in Nat \ {0} /\ 1 <= c.balance[payer][fee]
        BY <2>2, <4>1
      <4> DEFINE u == Taken(c, payer, fee, 1)
      <4>3. Books(u) /\ u.net - u.lock = c.net - c.lock
        BY <2>2, <4>1, <4>2, TakenKeepsBooks, SMT
      <4>4. u = p
        BY <2>3, <3>2, Zenon
      <4> HIDE DEF u
      <4>5. Books(p) /\ p.net - p.lock = c.net - c.lock
        BY <4>3, <4>4, Zenon
      <4>6. p.net \in Int /\ p.lock \in Nat /\ c.net \in Int /\ c.lock \in Nat
        BY <2>2, <4>5, Zenon DEF Books, Ledgers
      <4>7. ED \in Nat
        BY DepositsAssumption
      <4>8. p.lock + ED <= p.net
        BY <2>2, <4>5, <4>6, <4>7
      <4> QED
        BY <4>5, <4>8, Zenon
    <3> QED
      BY <3>1, <3>2, Zenon
  <2>5. LET r == Reserved(p, to, p.lock + ED)
        IN  /\ Books(r) /\ r.net = p.net /\ r.lock = p.lock + ED /\ r.balance = p.balance
            /\ to # Router => Cardinality(Held(r, to)) + 1 <= Deposits(r, to)
    BY <2>4, ReservedKeepsBooks, Zenon
  <2>6. /\ Books(t) /\ t.net = p.net /\ t.lock = p.lock + ED
        /\ to # Router => Cardinality(Held(t, to)) + 1 <= Deposits(t, to)
    BY <2>1, <2>5, Zenon
  <2> QED
    BY <2>4, <2>6, Zenon DEF t
<1> QED
  BY <1>1, <1>2, Zenon

(* The invariant depends on the ledger, the sufficient assets and the      *)
(* bound accounts only; the last two stay as they are.                     *)
LEMMA BooksPrime ==
  ASSUME UNCHANGED <<isSufficient, bound>>, isSufficient \in SUBSET Tokens, bound \in SUBSET (Holders \ {Router}),
         Books(ledger'), ledger'.lock <= ledger'.net
  PROVE  DepositsSound'
<1> DEFINE l == ledger'
<1>1. /\ l \in Ledgers /\ l.lock = ED * l.counter
      /\ SumFunctionOnSet(l.sufficients, Holders) = l.counter + Cardinality(bound) /\ AllDeposits(l) = l.counter
      /\ \A h \in Holders \ {Router} : Cardinality(Held(l, h)) <= Deposits(l, h)
  BY Zenon DEF Books
<1>2. Books(ledger)'
  BY <1>1, Zenon DEF Books, AllDeposits, Held, Deposits, Ledgers
<1> QED
  BY <1>2, Zenon DEF DepositsSound

(* A deposit keeps the invariant.                                          *)
LEMMA DepositKeeps ==
  ASSUME DepositsSound, NEW asset \in Tokens, NEW to \in Holders, NEW x \in Moved, NEW fee \in Tokens \cup {Native},
         DepositToken(asset, to, x, fee)
  PROVE  DepositsSound'
<1> DEFINE s == OnFunds(ledger, asset, to, to, fee)
           w == WithBalance(s, to, asset, s.balance[to][asset] + x)
<1>0. x \in Nat
  BY DepositsAssumption
<1>1. /\ Books(ledger) /\ ledger.lock <= ledger.net /\ isSufficient \in SUBSET Tokens
      /\ bound \in SUBSET (Holders \ {Router})
  BY Zenon DEF DepositsSound
<1>2. /\ CanPay(ledger, asset, to, to, fee) /\ ledger' = [s EXCEPT !.balance[to][asset] = @ + x]
      /\ UNCHANGED <<isSufficient, bound>>
  BY Zenon DEF DepositToken
<1>3. /\ Books(s) /\ s.lock <= s.net
      /\ to # Router /\ asset \notin isSufficient /\ s.balance[to][asset] = 0 =>
           Cardinality(Held(s, to)) + 1 <= Deposits(s, to)
  BY <1>1, <1>2, OnFundsKeepsBooks, Zenon
<1> HIDE DEF s
<1>4. ledger' = w
  BY <1>2 DEF WithBalance
<1>5. Books(w) /\ w.net = s.net /\ w.lock = s.lock
  BY <1>0, <1>1, <1>3, CreditKeepsBooks, Zenon
<1> HIDE DEF w
<1>6. Books(ledger') /\ ledger'.lock <= ledger'.net
  BY <1>3, <1>4, <1>5, Zenon
<1> QED
  BY <1>1, <1>2, <1>6, BooksPrime, Zenon

(* A transfer keeps it: the sender's holding may end, and nothing is asked *)
(* of one to the router.                                                   *)
LEMMA TransferKeeps ==
  ASSUME DepositsSound, NEW asset \in Tokens, NEW from \in Holders, NEW to \in Holders, NEW x \in Moved,
         NEW fee \in Tokens \cup {Native}, TransferToken(asset, from, to, x, fee)
  PROVE  DepositsSound'
<1> DEFINE payer == IF from \in Whitelist THEN to ELSE from
           s == IF to = Router THEN ledger ELSE OnFunds(ledger, asset, payer, to, fee)
           w == WithBalance(s, to, asset, s.balance[to][asset] + x)
           u == Taken(w, from, asset, x)
<1>0. x \in Nat \ {0} /\ x \in Nat
  BY DepositsAssumption
<1>1. /\ Books(ledger) /\ ledger.lock <= ledger.net /\ isSufficient \in SUBSET Tokens
      /\ bound \in SUBSET (Holders \ {Router})
  BY Zenon DEF DepositsSound
<1>2. /\ from # to
      /\ to # Router => CanPay(ledger, asset, payer, to, fee)
      /\ s.balance[from][asset] >= x
      /\ ledger' = Taken([s EXCEPT !.balance[to][asset] = @ + x], from, asset, x)
      /\ UNCHANGED <<isSufficient, bound>>
  BY Zenon DEF TransferToken
<1>3. payer \in Holders
  BY Zenon
<1> HIDE DEF payer
<1>4. /\ Books(s) /\ s.lock <= s.net
      /\ to # Router /\ asset \notin isSufficient /\ s.balance[to][asset] = 0 =>
           Cardinality(Held(s, to)) + 1 <= Deposits(s, to)
  <2>1. CASE to = Router
    BY <1>1, <2>1, Zenon
  <2>2. CASE to # Router
    <3> DEFINE r == OnFunds(ledger, asset, payer, to, fee)
    <3>1. /\ Books(r) /\ r.lock <= r.net
          /\ to # Router /\ asset \notin isSufficient /\ r.balance[to][asset] = 0 =>
               Cardinality(Held(r, to)) + 1 <= Deposits(r, to)
      BY <1>1, <1>2, <1>3, <2>2, OnFundsKeepsBooks, Zenon
    <3>2. s = r
      BY <2>2, Zenon
    <3> HIDE DEF r, s
    <3> QED
      BY <3>1, <3>2, Zenon
  <2> QED
    BY <2>1, <2>2, Zenon
<1> HIDE DEF s
<1>5. ledger' = u
  BY <1>2 DEF WithBalance
<1>6. /\ Books(w) /\ w.net = s.net /\ w.lock = s.lock
      /\ \A h \in Holders \ {to} : w.balance[h] = s.balance[h]
  BY <1>0, <1>1, <1>4, CreditKeepsBooks, SMT
<1>7. s.balance[from][asset] \in Nat /\ s.net \in Int /\ s.lock \in Nat
  BY <1>4, Zenon DEF Books, Ledgers
<1> HIDE DEF w
<1>8. w.balance[from][asset] = s.balance[from][asset]
  BY <1>2, <1>6, Zenon
<1>9. x <= w.balance[from][asset]
  BY <1>0, <1>2, <1>7, <1>8
<1>10. Books(u) /\ u.net - u.lock = w.net - w.lock
  BY <1>0, <1>1, <1>6, <1>9, TakenKeepsBooks, SMT
<1> HIDE DEF u
<1>11. u.net \in Int /\ u.lock \in Nat
  BY <1>10, Zenon DEF Books, Ledgers
<1>12. u.lock <= u.net
  BY <1>4, <1>6, <1>7, <1>10, <1>11
<1>13. Books(ledger') /\ ledger'.lock <= ledger'.net
  BY <1>5, <1>10, <1>12, Zenon
<1> QED
  BY <1>1, <1>2, <1>13, BooksPrime, Zenon

(* A withdrawal keeps it.                                                  *)
LEMMA WithdrawKeeps ==
  ASSUME DepositsSound, NEW asset \in Tokens, NEW who \in Holders, NEW x \in Moved, WithdrawToken(asset, who, x)
  PROVE  DepositsSound'
<1> DEFINE s == ledger
           u == Taken(s, who, asset, x)
<1>0. x \in Nat \ {0}
  BY DepositsAssumption
<1>1. /\ Books(s) /\ s.lock <= s.net /\ isSufficient \in SUBSET Tokens
      /\ bound \in SUBSET (Holders \ {Router})
  BY Zenon DEF DepositsSound
<1>2. s.balance[who][asset] >= x /\ ledger' = u /\ UNCHANGED <<isSufficient, bound>>
  BY Zenon DEF WithdrawToken
<1> HIDE DEF s
<1>3. s.balance[who][asset] \in Nat /\ s.net \in Int /\ s.lock \in Nat
  BY <1>1, Zenon DEF Books, Ledgers
<1>4. x <= s.balance[who][asset]
  BY <1>0, <1>2, <1>3
<1>5. Books(u) /\ u.net - u.lock = s.net - s.lock
  BY <1>0, <1>1, <1>4, TakenKeepsBooks, SMT
<1> HIDE DEF u
<1>6. u.net \in Int /\ u.lock \in Nat
  BY <1>5, Zenon DEF Books, Ledgers
<1>7. u.lock <= u.net
  BY <1>1, <1>3, <1>5, <1>6
<1>8. Books(ledger') /\ ledger'.lock <= ledger'.net
  BY <1>2, <1>5, <1>7, Zenon
<1> QED
  BY <1>1, <1>2, <1>8, BooksPrime, Zenon

(* An asset becomes sufficient: its holders keep the deposits they paid.   *)
LEMMA MakeSufficientKeeps ==
  ASSUME DepositsSound, NEW asset \in Tokens, MakeSufficient(asset)
  PROVE  DepositsSound'
<1>1. ledger' = ledger /\ bound' = bound /\ isSufficient' = isSufficient \cup {asset}
  BY Zenon DEF MakeSufficient
<1>2. /\ Books(ledger) /\ ledger.lock <= ledger.net /\ isSufficient \in SUBSET Tokens
      /\ bound \in SUBSET (Holders \ {Router})
  BY Zenon DEF DepositsSound
<1>3. ASSUME NEW h \in Holders \ {Router}
      PROVE  Cardinality(Held(ledger, h))' <= Deposits(ledger, h)'
  <2>1. Held(ledger, h)' \subseteq Held(ledger, h)
    BY <1>1, Zenon DEF Held
  <2>2. /\ IsFiniteSet(Held(ledger, h)) /\ Cardinality(Held(ledger, h)) \in Nat
        /\ Cardinality(Held(ledger, h)) <= Deposits(ledger, h) /\ Deposits(ledger, h) \in Nat
    BY <1>2, HeldFinite, DepositsNat, Zenon DEF Books
  <2> DEFINE H == Held(ledger, h)'
             G == Held(ledger, h)
  <2> HIDE DEF H, G
  <2>3. IsFiniteSet(H) /\ Cardinality(H) <= Cardinality(G) /\ Cardinality(H) \in Nat
    <3>1. H \subseteq G /\ IsFiniteSet(G)
      BY <2>1, <2>2, Zenon DEF H, G
    <3> QED
      BY <3>1, FS_Subset, FS_CardinalityType, Zenon
  <2>4. Deposits(ledger, h)' = Deposits(ledger, h)
    BY <1>1, Zenon DEF Deposits
  <2>5. Cardinality(G) <= Deposits(ledger, h) /\ Cardinality(G) \in Nat
    BY <2>2, Zenon DEF G
  <2>6. Cardinality(H) <= Deposits(ledger, h)
    BY <2>2, <2>3, <2>5
  <2> QED
    BY <2>4, <2>6, Zenon DEF H
<1>4. Books(ledger)'
  <2>1. AllDeposits(ledger)' = AllDeposits(ledger)
    BY <1>1, Zenon DEF AllDeposits, Deposits
  <2> QED
    BY <1>1, <1>2, <1>3, <2>1, Zenon DEF Books, Ledgers
<1>5. isSufficient' \in SUBSET Tokens
  BY <1>1, <1>2, Zenon
<1> QED
  BY <1>1, <1>2, <1>4, <1>5, Zenon DEF DepositsSound

(* An account is bound to an EVM address: it gains a reference that is no  *)
(* deposit.                                                                *)
LEMMA BindKeeps ==
  ASSUME DepositsSound, NEW who \in Holders \ {Router}, BindEvmAddress(who)
  PROVE  DepositsSound'
<1> DEFINE s == ledger
           t == ledger'
           f == [s.sufficients EXCEPT ![who] = @ + 1]
<1>1. /\ Books(ledger) /\ ledger.lock <= ledger.net /\ isSufficient \in SUBSET Tokens
      /\ bound \in SUBSET (Holders \ {Router})
  BY Zenon DEF DepositsSound
<1>2. /\ who \notin bound /\ bound' = bound \cup {who} /\ isSufficient' = isSufficient
      /\ ledger' = [ledger EXCEPT !.sufficients[who] = @ + 1]
  BY Zenon DEF BindEvmAddress
<1>3. s \in Ledgers /\ s.sufficients \in [Holders -> Nat] /\ s.counter \in Nat
  BY <1>1, Zenon DEF Books, Ledgers
<1>4. f \in [Holders -> Nat] /\ f[who] = s.sufficients[who] + 1 /\ \A h \in Holders \ {who} : f[h] = s.sufficients[h]
  BY <1>3
<1>5. t = [s EXCEPT !.sufficients = f]
  BY <1>2, <1>3 DEF Ledgers
<1> HIDE DEF f
<1>6. /\ t \in Ledgers /\ t.balance = s.balance /\ t.lock = s.lock /\ t.counter = s.counter /\ t.net = s.net
      /\ t.sufficients = f
  <2> HIDE DEF s, t
  <2> QED
    BY <1>3, <1>4, <1>5 DEF Ledgers
<1>7. \A h \in Holders : Deposits(ledger, h)' = Deposits(ledger, h)
  <2> SUFFICES ASSUME NEW h \in Holders PROVE Deposits(ledger, h)' = Deposits(ledger, h)
    OBVIOUS
  <2>1. s.sufficients[h] \in Nat
    BY <1>3
  <2>2. CASE h = who
    <3>1. t.sufficients[h] = s.sufficients[h] + 1 /\ h \in bound' /\ h \notin bound
      BY <1>2, <1>4, <1>6, <2>2, Zenon
    <3>2. (s.sufficients[h] + 1) - 1 = s.sufficients[h] - 0
      BY <2>1
    <3>3. Deposits(ledger, h)' = t.sufficients[h] - 1 /\ Deposits(ledger, h) = s.sufficients[h] - 0
      BY <3>1, Zenon DEF Deposits
    <3> QED
      BY <3>1, <3>2, <3>3, Zenon
  <2>3. CASE h # who
    <3>1. t.sufficients[h] = s.sufficients[h] /\ (h \in bound' <=> h \in bound)
      BY <1>2, <1>4, <1>6, <2>3, Zenon
    <3> QED
      BY <3>1, Zenon DEF Deposits
  <2> QED
    BY <2>2, <2>3, Zenon
<1>8. AllDeposits(ledger)' = AllDeposits(ledger)
  <2>1. [h \in Holders |-> Deposits(ledger, h)'] = [h \in Holders |-> Deposits(ledger, h)]
    BY <1>7, Zenon
  <2> QED
    BY <2>1, Zenon DEF AllDeposits
<1>9. SumFunctionOnSet(t.sufficients, Holders) = t.counter + Cardinality(bound')
  <2>1. IsFiniteSet(Holders) /\ bound \subseteq Holders
    BY <1>1, DepositsAssumption, Zenon
  <2>2. IsFiniteSet(bound) /\ Cardinality(bound) \in Nat
    BY <2>1, FS_Subset, FS_CardinalityType, Zenon
  <2>3. Cardinality(bound \cup {who}) = IF who \in bound THEN Cardinality(bound) ELSE Cardinality(bound) + 1
    BY <2>2, FS_AddElement, Zenon
  <2>4. Cardinality(bound') = Cardinality(bound) + 1
    BY <1>2, <2>3, Zenon
  <2> DEFINE g == s.sufficients
  <2>5. (\A h \in Holders : g[h] \in Int /\ f[h] \in Int) /\ \A h \in Holders \ {who} : g[h] = f[h]
    BY <1>3, <1>4
  <2>6. f[who] = g[who] + 1
    BY <1>4, Zenon
  <2>7. SumFunctionOnSet(g, Holders) = s.counter + Cardinality(bound)
    BY <1>1, Zenon DEF Books
  <2> HIDE DEF g
  <2>8. SumFunctionOnSet(f, Holders) = (SumFunctionOnSet(g, Holders) - g[who]) + f[who]
    BY <2>1, <2>5, SumChange, SMT
  <2>9. g[who] \in Int /\ SumFunctionOnSet(g, Holders) \in Int
    BY <1>3, <2>2, <2>5, <2>7
  <2> HIDE DEF s
  <2>10. SumFunctionOnSet(f, Holders) = s.counter + (Cardinality(bound) + 1)
    BY <1>3, <2>2, <2>6, <2>7, <2>8, <2>9
  <2> QED
    BY <1>6, <2>4, <2>10, Zenon
<1>10. \A h \in Holders \ {Router} : Cardinality(Held(ledger, h))' <= Deposits(ledger, h)'
  <2>1. \A h \in Holders : Held(ledger, h)' = Held(ledger, h)
    BY <1>2, <1>6, Zenon DEF Held
  <2> QED
    BY <1>1, <1>7, <2>1, Zenon DEF Books
<1>11. Books(ledger)'
  BY <1>1, <1>6, <1>8, <1>9, <1>10, Zenon DEF Books, Ledgers
<1>12. bound' \in SUBSET (Holders \ {Router})
  BY <1>1, <1>2, Zenon
<1> QED
  BY <1>1, <1>2, <1>6, <1>11, <1>12, Zenon DEF DepositsSound

(* Nobody holds anything at first.                                         *)
LEMMA DepositsInitSound == DepositsInit => DepositsSound
<1> SUFFICES ASSUME DepositsInit PROVE DepositsSound
  OBVIOUS
<1> DEFINE z == [who \in Holders |-> 0]
           b == [who \in Holders |-> [a \in Tokens |-> 0]]
           d == [h \in Holders |-> Deposits(ledger, h)]
<1>1. /\ ledger = [balance |-> b, sufficients |-> z, counter |-> 0, lock |-> 0, net |-> 0]
      /\ isSufficient \in SUBSET Tokens /\ bound = {}
  BY Zenon DEF DepositsInit
<1>2. z \in [Holders -> Nat] /\ b \in [Holders -> [Tokens -> Nat]]
  OBVIOUS
<1>3. \A h \in Holders : z[h] = 0 /\ \A a \in Tokens : b[h][a] = 0
  BY Zenon
<1> HIDE DEF z, b
<1>4. /\ ledger \in Ledgers /\ ledger.balance = b /\ ledger.sufficients = z /\ ledger.counter = 0 /\ ledger.lock = 0
      /\ ledger.net = 0
  BY <1>1, <1>2 DEF Ledgers
<1>5. \A h \in Holders : Deposits(ledger, h) = 0
  BY <1>1, <1>3, <1>4 DEF Deposits
<1>6. IsFiniteSet(Holders)
  BY DepositsAssumption, Zenon
<1>7. SumFunctionOnSet(z, Holders) = 0
  BY <1>3, <1>6, SumOfZeros, Zenon
<1>8. AllDeposits(ledger) = 0
  <2>1. \A h \in Holders : d[h] = 0
    BY <1>5, Zenon
  <2> HIDE DEF d
  <2>2. SumFunctionOnSet(d, Holders) = 0
    BY <1>6, <2>1, SumOfZeros, Zenon
  <2> QED
    BY <2>2, Zenon DEF d, AllDeposits
<1>9. Cardinality(bound) = 0
  BY <1>1, FS_EmptySet, Zenon
<1>10. ASSUME NEW h \in Holders PROVE Cardinality(Held(ledger, h)) = 0
  <2>1. ~ (0 > 0)
    OBVIOUS
  <2>2. Held(ledger, h) = {}
    BY <1>3, <1>4, <2>1, Zenon DEF Held
  <2> QED
    BY <2>2, FS_EmptySet, Zenon
<1>11. ED * 0 = 0 /\ 0 + 0 = 0 /\ 0 <= 0
  BY DepositsAssumption
<1>12. Books(ledger)
  BY <1>4, <1>5, <1>7, <1>8, <1>9, <1>10, <1>11, Zenon DEF Books
<1> QED
  BY <1>1, <1>4, <1>11, <1>12, Zenon DEF DepositsSound

(* Every step keeps the invariant.                                         *)
LEMMA DepositsStep == DepositsSound /\ [DepositsNext]_depositVars => DepositsSound'
<1> SUFFICES ASSUME DepositsSound, [DepositsNext]_depositVars PROVE DepositsSound'
  OBVIOUS
<1>1. CASE UNCHANGED <<ledger, isSufficient, bound>>
  BY <1>1, Zenon DEF DepositsSound, Books, AllDeposits, Held, Deposits, Ledgers
<1>2. ASSUME NEW a \in Tokens, NEW to \in Holders, NEW x \in Moved, NEW fee \in Tokens \cup {Native},
             DepositToken(a, to, x, fee)
      PROVE  DepositsSound'
  BY <1>2, DepositKeeps, Zenon
<1>3. ASSUME NEW a \in Tokens, NEW from \in Holders, NEW to \in Holders, NEW x \in Moved,
             NEW fee \in Tokens \cup {Native}, TransferToken(a, from, to, x, fee)
      PROVE  DepositsSound'
  BY <1>3, TransferKeeps, Zenon
<1>4. ASSUME NEW a \in Tokens, NEW who \in Holders, NEW x \in Moved, WithdrawToken(a, who, x)
      PROVE  DepositsSound'
  BY <1>4, WithdrawKeeps, Zenon
<1>5. ASSUME NEW a \in Tokens, MakeSufficient(a) PROVE DepositsSound'
  BY <1>5, MakeSufficientKeeps, Zenon
<1>6. ASSUME NEW a \in Tokens, BanToken(a) \/ UnbanToken(a) PROVE DepositsSound'
  <2>1. UNCHANGED <<ledger, isSufficient, bound>>
    BY <1>6, Zenon DEF BanToken, UnbanToken
  <2> QED
    BY <1>1, <2>1, Zenon
<1>7. ASSUME NEW who \in Holders \ {Router}, BindEvmAddress(who) PROVE DepositsSound'
  BY <1>7, BindKeeps, Zenon
<1>8. CASE UNCHANGED depositVars
  <2>1. UNCHANGED <<ledger, isSufficient, bound>>
    BY <1>8, Zenon DEF depositVars
  <2> QED
    BY <1>1, <2>1, Zenon
<1> QED
  BY <1>2, <1>3, <1>4, <1>5, <1>6, <1>7, <1>8, Zenon DEF DepositsNext

(* The books of the deposits agree, for any accounts, assets, amounts and  *)
(* sequence of deposits, transfers, withdrawals, bans, bindings and        *)
(* upgrades to sufficiency (on_funds, OnKilledTokenAccount,                *)
(* do_bind_evm_address).                                                   *)
THEOREM DepositsAreAccounted == DepositsSpec => []DepositsAccounted
<1>1. DepositsSound => DepositsAccounted
  BY Zenon DEF DepositsSound, Books, DepositsAccounted, LockBacksRefunds, CounterMatchesAccounts, HoldersCovered,
     CollectedCoversRefunds
<1> QED
  BY <1>1, DepositsInitSound, DepositsStep, PTL DEF DepositsSpec

=============================================================================
