------------------------- MODULE ParameterSetsProofs -------------------------
(***************************************************************************)
(* The invariants of ParameterSets for every choice of the constants: any  *)
(* parameter sets, of any number and length.  SameIdSameSet needs the byte *)
(* strings of the SPSs and of the PPSs to be prefix free, because the code *)
(* compares only the beginning of a set with the one it replaces.          *)
(***************************************************************************)
EXTENDS ParameterSets, TLAPS

(* storePS keeps a map well formed, whatever it does with the flag.        *)
LEMMA StoreKeepsMap ==
  ASSUME NEW Data, NEW IdOf \in [Data -> Nat], NEW map, IsMap(map, Data, IdOf),
         NEW d \in Data, NEW new \in StorePS(map, IdOf[d], d)
  PROVE  /\ IsMap(new, Data, IdOf)
         /\ DOMAIN map \subseteq DOMAIN new
         /\ IdOf[d] \in DOMAIN new /\ new[IdOf[d]].data = d
         /\ \A id \in DOMAIN map : id # IdOf[d] => new[id] = map[id]
<1> DEFINE id == IdOf[d]
<1>1. PICK c \in BOOLEAN :
        new = [x \in DOMAIN map \cup {id} |->
                 IF x = id THEN [data |-> d, changed |-> c] ELSE map[x]]
  BY DEF StorePS, ChangedFlag
<1>2. id \in Nat
  OBVIOUS
<1>3. QED
  BY <1>1, <1>2 DEF IsMap, Entry

(* Clearing a flag changes neither the ids nor the data of a map.          *)
LEMMA ClearKeepsMap ==
  ASSUME NEW Data, NEW IdOf, NEW map, IsMap(map, Data, IdOf), NEW id
  PROVE  /\ IsMap(ClearChangedFlag(map, id), Data, IdOf)
         /\ DOMAIN ClearChangedFlag(map, id) = DOMAIN map
         /\ \A x \in DOMAIN map : ClearChangedFlag(map, id)[x].data = map[x].data
BY DEF IsMap, Entry, ClearChangedFlag

(* With prefix free data, a set whose flag is down after it was stored     *)
(* over another one is that other one.                                     *)
LEMMA UnchangedIsSame ==
  ASSUME NEW Data, PrefixFree(Data), Data \subseteq Seq(Int),
         NEW old \in Data, NEW d \in Data, FALSE \in ChangedFlag(old, d)
  PROVE  d = old
<1>0. d \in Seq(Int) /\ old \in Seq(Int) /\ Len(d) \in Nat /\ Len(old) \in Nat
  OBVIOUS
<1>1. CASE Len(d) >= Len(old)
  <2>1. SubSeq(d, 1, Len(old)) = old
    BY <1>1 DEF ChangedFlag
  <2>2. QED
    BY <1>0, <1>1, <2>1 DEF PrefixFree
<1>2. CASE Len(d) < Len(old)
  <2>0. ~(Len(d) >= Len(old))
    BY <1>0, <1>2
  <2>1. SubSeq(old, 1, Len(d)) = d
    <3>1. ASSUME SubSeq(old, 1, Len(d)) # d PROVE ChangedFlag(old, d) = {TRUE}
      BY <2>0, <3>1, Zenon DEF ChangedFlag
    <3>2. QED
      BY <3>1
  <2>2. QED
    BY SMTT(20), <1>0, <1>2, <2>1 DEF PrefixFree
<1>3. QED
  BY <1>0, <1>1, <1>2

(* The entry of the map is the picture's set, or its flag says otherwise.  *)
Tracks(map, id, data) ==
  id \in DOMAIN map /\ (~map[id].changed => map[id].data = data)

LEMMA StoreKeepsTracks ==
  ASSUME NEW Data, PrefixFree(Data), Data \subseteq Seq(Int),
         NEW IdOf \in [Data -> Nat], NEW map, IsMap(map, Data, IdOf),
         NEW d \in Data, NEW new \in StorePS(map, IdOf[d], d),
         NEW id, NEW data, Tracks(map, id, data)
  PROVE  Tracks(new, id, data)
<1>1. CASE id # IdOf[d]
  <2>1. id \in DOMAIN new /\ new[id] = map[id]
    BY <1>1 DEF StorePS, Tracks
  <2>2. QED
    BY <2>1 DEF Tracks
<1>2. CASE id = IdOf[d]
  <2>1. PICK c \in (IF map[id].changed THEN {TRUE} ELSE ChangedFlag(map[id].data, d)) :
          new = [x \in DOMAIN map \cup {id} |->
                   IF x = id THEN [data |-> d, changed |-> c] ELSE map[x]]
    BY <1>2 DEF StorePS, Tracks
  <2>2. id \in DOMAIN new /\ new[id].changed = c /\ new[id].data = d
    BY <2>1
  <2>3. map[id].data \in Data
    BY DEF IsMap, Entry, Tracks
  <2>4. ASSUME ~c PROVE d = data
    <3>1. ~map[id].changed /\ FALSE \in ChangedFlag(map[id].data, d)
      BY <2>1, <2>4 DEF ChangedFlag
    <3>2. d = map[id].data
      BY <2>3, <3>1, UnchangedIsSame
    <3>3. QED
      BY <3>1, <3>2 DEF Tracks
  <2>5. QED
    BY <2>2, <2>4 DEF Tracks
<1>3. QED
  BY <1>1, <1>2

-----------------------------------------------------------------------------
(* Every map holds under an id the last set received with that id: the     *)
(* type invariant of the specification.                                    *)
THEOREM TypeCorrect == Spec => []TypeOK
<1>1. Init => TypeOK
  BY IdAssumption DEF Init, TypeOK, IsMap, Entry, NoEntries, NoPicture, PictureSets
<1>2. TypeOK /\ [Next]_vars => TypeOK'
  <2> SUFFICES ASSUME TypeOK, [Next]_vars PROVE TypeOK'
    OBVIOUS
  <2> USE IdAssumption
  <2>1. ASSUME NEW d \in VPSData, DecodeVPS(d) PROVE TypeOK'
    <3>1. IsMap(vpsMap', VPSData, VPSIdOf)
      BY <2>1, StoreKeepsMap DEF DecodeVPS, TypeOK
    <3>2. QED
      BY <2>1, <3>1 DEF DecodeVPS, TypeOK, active, IsMap
  <2>2. ASSUME NEW d \in SPSData, DecodeSPS(d) PROVE TypeOK'
    <3>1. IsMap(spsMap', SPSData, SPSIdOf)
      BY <2>2, StoreKeepsMap DEF DecodeSPS, TypeOK
    <3>2. QED
      BY <2>2, <3>1 DEF DecodeSPS, TypeOK, active, IsMap
  <2>3. ASSUME NEW d \in PPSData, DecodePPS(d) PROVE TypeOK'
    <3>1. IsMap(ppsMap', PPSData, PPSIdOf)
      BY <2>3, StoreKeepsMap DEF DecodePPS, TypeOK
    <3>2. QED
      BY <2>3, <3>1 DEF DecodePPS, TypeOK, active, IsMap
  <2>4. ASSUME NEW p \in PPSIds, SliceWithoutSets(p) PROVE TypeOK'
    BY <2>4 DEF SliceWithoutSets, TypeOK, active, maps, IsMap
  <2>5. ASSUME NEW p \in PPSIds, NEW irap \in BOOLEAN, FirstSlice(p, irap) PROVE TypeOK'
    <3> DEFINE spsId == PPSRefersTo[ppsMap[p].data]
    <3>1. p \in DOMAIN ppsMap /\ ppsMap[p].data \in PPSData
          /\ spsId \in DOMAIN spsMap /\ spsMap[spsId].data \in SPSData
      BY <2>5 DEF FirstSlice, HeaderSetsPresent, TypeOK, IsMap, Entry
    <3>2. HeaderSets(p) \in PictureSets
      BY <3>1 DEF HeaderSets, PictureSets
    <3>3. IsMap(spsMap', SPSData, SPSIdOf) /\ IsMap(ppsMap', PPSData, PPSIdOf)
      BY <2>5, ClearKeepsMap DEF FirstSlice, TypeOK
    <3>4. spsId \in Nat /\ SPSRefersTo[spsMap[spsId].data] \in Nat
      BY <3>1
    <3>5. QED
      BY <2>5, <3>2, <3>3, <3>4 DEF FirstSlice, TypeOK, IsMap
  <2>6. ASSUME NEW p \in PPSIds, NextSlice(p) PROVE TypeOK'
    <3>1. HeaderSets(p) \in PictureSets
      BY <2>6 DEF NextSlice, HeaderSetsPresent, HeaderSets, PictureSets, TypeOK, IsMap, Entry
    <3>2. QED
      BY <2>6, <3>1 DEF NextSlice, TypeOK, active, maps, IsMap
  <2>7. ASSUME EndPicture PROVE TypeOK'
    BY <2>7 DEF EndPicture, TypeOK, active, maps, IsMap, NoPicture, PictureSets
  <2>8. CASE UNCHANGED vars
    BY <2>8 DEF vars, TypeOK, IsMap
  <2>9. QED
    BY <2>1, <2>2, <2>3, <2>4, <2>5, <2>6, <2>7, <2>8 DEF Next
<1>3. QED
  BY <1>1, <1>2, PTL DEF Spec

-----------------------------------------------------------------------------
(* The inductive invariant behind SameIdSameSet and ActiveSetsOfPicture:    *)
(* while a picture is open, the sets stored under its ids are its own or    *)
(* their flags are up, and the active ids are the ones its sets lead to.    *)
PictureTracked ==
  status = "running" /\ picture.open =>
    /\ Tracks(ppsMap, PPSIdOf[picture.pps], picture.pps)
    /\ Tracks(spsMap, SPSIdOf[picture.sps], picture.sps)
    /\ SPSIdOf[picture.sps] = PPSRefersTo[picture.pps]

IInv == TypeOK /\ PictureTracked /\ SameIdSameSet /\ ActiveSetsOfPicture

LEMMA TrackedStep ==
  ASSUME PrefixFree(SPSData), PrefixFree(PPSData), IInv, TypeOK', [Next]_vars
  PROVE  IInv'
<1> USE IdAssumption, DataAssumption
<1>0. SPSData \subseteq Seq(Int) /\ PPSData \subseteq Seq(Int)
  OBVIOUS
<1>1. ASSUME NEW d \in VPSData, DecodeVPS(d) PROVE IInv'
  <2>1. DOMAIN vpsMap \subseteq DOMAIN vpsMap'
    BY <1>1, StoreKeepsMap, SMTT(60), ZenonT(60) DEF DecodeVPS, IInv, TypeOK
  <2>2. PictureTracked' /\ SameIdSameSet'
    BY <1>1 DEF DecodeVPS, IInv, PictureTracked, SameIdSameSet, Tracks, active
  <2>3. ActiveSetsOfPicture'
    BY <1>1, <2>1 DEF DecodeVPS, IInv, ActiveSetsOfPicture, active
  <2>4. QED
    BY <2>2, <2>3 DEF IInv
<1>2. ASSUME NEW d \in SPSData, DecodeSPS(d) PROVE IInv'
  <2>1. DOMAIN spsMap \subseteq DOMAIN spsMap'
    BY ZenonT(30), <1>2, StoreKeepsMap DEF DecodeSPS, IInv, TypeOK
  <2>2. ASSUME status = "running", picture.open
        PROVE  Tracks(spsMap', SPSIdOf[picture.sps], picture.sps)
    BY <1>0, <1>2, <2>2, StoreKeepsTracks DEF DecodeSPS, IInv, TypeOK, PictureTracked
  <2>3. PictureTracked' /\ SameIdSameSet'
    BY <1>2, <2>2 DEF DecodeSPS, IInv, PictureTracked, SameIdSameSet, Tracks, active
  <2>4. ActiveSetsOfPicture'
    BY <1>2, <2>1 DEF DecodeSPS, IInv, ActiveSetsOfPicture, active
  <2>5. QED
    BY <2>3, <2>4 DEF IInv
<1>3. ASSUME NEW d \in PPSData, DecodePPS(d) PROVE IInv'
  <2>1. ASSUME status = "running", picture.open
        PROVE  Tracks(ppsMap', PPSIdOf[picture.pps], picture.pps)
    BY ZenonT(30), <1>0, <1>3, <2>1, StoreKeepsTracks DEF DecodePPS, IInv, TypeOK, PictureTracked
  <2>2. PictureTracked' /\ SameIdSameSet'
    BY <1>3, <2>1 DEF DecodePPS, IInv, PictureTracked, SameIdSameSet, Tracks, active
  <2>3. ActiveSetsOfPicture'
    BY <1>3 DEF DecodePPS, IInv, ActiveSetsOfPicture, active
  <2>4. QED
    BY <2>2, <2>3 DEF IInv
<1>4. ASSUME NEW p \in PPSIds, SliceWithoutSets(p) PROVE IInv'
  BY <1>4 DEF SliceWithoutSets, IInv, PictureTracked, SameIdSameSet, ActiveSetsOfPicture
<1>5. ASSUME NEW p \in PPSIds, NEW irap \in BOOLEAN, FirstSlice(p, irap) PROVE IInv'
  <2> DEFINE spsId == PPSRefersTo[ppsMap[p].data]
  <2>1. CASE ~CanActivatePPS(p, irap)
    BY <1>5, <2>1
    DEF FirstSlice, IInv, PictureTracked, SameIdSameSet, ActiveSetsOfPicture
  <2>2. CASE CanActivatePPS(p, irap)
    <3>1. /\ p \in DOMAIN ppsMap /\ PPSIdOf[ppsMap[p].data] = p
          /\ spsId \in DOMAIN spsMap /\ SPSIdOf[spsMap[spsId].data] = spsId
      BY <1>5 DEF FirstSlice, HeaderSetsPresent, IInv, TypeOK, IsMap
    <3>2. /\ picture' = HeaderSets(p) /\ header' = HeaderSets(p) /\ vpsMap' = vpsMap
          /\ activeSPSId' = spsId
          /\ activeVPSId' = SPSRefersTo[spsMap[spsId].data]
          /\ spsMap' = ClearChangedFlag(spsMap, spsId)
          /\ ppsMap' = ClearChangedFlag(ppsMap, p)
      BY <1>5, <2>2 DEF FirstSlice
    <3>3. /\ DOMAIN spsMap' = DOMAIN spsMap /\ spsMap'[spsId].data = spsMap[spsId].data
          /\ DOMAIN ppsMap' = DOMAIN ppsMap /\ ppsMap'[p].data = ppsMap[p].data
      BY <3>1, <3>2, ClearKeepsMap DEF IInv, TypeOK
    <3>4. PictureTracked' /\ SameIdSameSet'
      BY <3>1, <3>2, <3>3 DEF HeaderSets, PictureTracked, SameIdSameSet, Tracks
    <3>5. ActiveSetsOfPicture'
      BY <2>2, <3>1, <3>2, <3>3 DEF HeaderSets, ActiveSetsOfPicture, CanActivatePPS
    <3>6. QED
      BY <3>4, <3>5 DEF IInv
  <2>3. QED
    BY <2>1, <2>2
<1>6. ASSUME NEW p \in PPSIds, NextSlice(p) PROVE IInv'
  <2>1. CASE status' = "exited"
    BY <1>6, <2>1 DEF IInv, PictureTracked, SameIdSameSet, ActiveSetsOfPicture
  <2>2. CASE status' = "running"
    <3> DEFINE ppsId == PPSIdOf[picture.pps]  spsId == SPSIdOf[picture.sps]
               named == PPSRefersTo[ppsMap[p].data]
    <3>1. /\ Tracks(ppsMap, ppsId, picture.pps) /\ Tracks(spsMap, spsId, picture.sps)
          /\ spsId = PPSRefersTo[picture.pps]
      BY <1>6 DEF NextSlice, IInv, PictureTracked
    <3>2. ppsMap[ppsId].data = picture.pps /\ spsMap[spsId].data = picture.sps
      BY <1>6, <2>2, <3>1 DEF NextSlice, GetChangedFlag, Tracks
    <3>3. header' = HeaderSets(p) /\ UNCHANGED <<maps, active, picture>>
      BY <1>6 DEF NextSlice
    <3>4. header'.pps = ppsMap[p].data /\ header'.sps = spsMap[named].data
      BY <3>3 DEF HeaderSets
    <3>5. PPSIdOf[ppsMap[p].data] = p /\ SPSIdOf[spsMap[named].data] = named
      BY <1>6 DEF NextSlice, HeaderSetsPresent, IInv, TypeOK, IsMap
    <3>6. ASSUME PPSIdOf[header'.pps] = ppsId
          PROVE  header'.pps = picture.pps /\ header'.sps = picture.sps
      BY <3>1, <3>2, <3>4, <3>5, <3>6
    <3>7. ASSUME SPSIdOf[header'.sps] = spsId PROVE header'.sps = picture.sps
      BY <3>2, <3>4, <3>5, <3>7
    <3>8. SameIdSameSet'
      BY <3>3, <3>6, <3>7 DEF SameIdSameSet
    <3>9. PictureTracked' /\ ActiveSetsOfPicture'
      BY <1>6, <3>3
      DEF NextSlice, IInv, PictureTracked, ActiveSetsOfPicture, Tracks, maps, active
    <3>10. QED
      BY <3>8, <3>9 DEF IInv
  <2>3. QED
    BY <1>6, <2>1, <2>2 DEF NextSlice
<1>7. ASSUME EndPicture PROVE IInv'
  BY <1>7
  DEF EndPicture, NoPicture, IInv, PictureTracked, SameIdSameSet, ActiveSetsOfPicture
<1>8. CASE UNCHANGED vars
  BY <1>8 DEF vars, IInv, PictureTracked, SameIdSameSet, ActiveSetsOfPicture, Tracks
<1>9. QED
  BY <1>1, <1>2, <1>3, <1>4, <1>5, <1>6, <1>7, <1>8 DEF Next

(* With prefix free sets, an id keeps its meaning for all the slices of a   *)
(* picture: a slice that names the picture's PPS id is parsed with the PPS  *)
(* and the SPS the picture was created with, and one whose PPS leads to the *)
(* picture's SPS id with that SPS, whatever was stored in between.  The     *)
(* active ids are those of the picture's sets.                              *)
THEOREM PictureKeepsItsSets ==
  ASSUME PrefixFree(SPSData), PrefixFree(PPSData)
  PROVE  Spec => [](SameIdSameSet /\ ActiveSetsOfPicture)
<1>1. Init => IInv
  BY IdAssumption
  DEF Init, IInv, TypeOK, IsMap, Entry, NoEntries, NoPicture, PictureSets, PictureTracked,
      SameIdSameSet, ActiveSetsOfPicture
<1>2. IInv /\ TypeOK' /\ [Next]_vars => IInv'
  BY TrackedStep
<1>3. IInv => SameIdSameSet /\ ActiveSetsOfPicture
  BY DEF IInv
<1>4. QED
  BY <1>1, <1>2, <1>3, TypeCorrect, PTL DEF Spec

(* Whatever the sets are, prefix free or not: while a picture is decoded,   *)
(* the active ids are the ones its own copies of the sets lead to, and sets *)
(* with these ids are stored, so that getActiveSPS finds one.  A set stored *)
(* under way may replace them, but never takes an id away.                  *)
THEOREM ActiveSetsArePresent == Spec => []ActiveSetsOfPicture
<1>1. Init => ActiveSetsOfPicture
  BY DEF Init, NoPicture, ActiveSetsOfPicture
<1>2. TypeOK /\ ActiveSetsOfPicture /\ [Next]_vars => ActiveSetsOfPicture'
  <2> SUFFICES ASSUME TypeOK, ActiveSetsOfPicture, [Next]_vars
               PROVE  ActiveSetsOfPicture'
    OBVIOUS
  <2> USE IdAssumption
  <2>1. ASSUME NEW d \in VPSData, DecodeVPS(d) PROVE ActiveSetsOfPicture'
    <3>1. VPSIdOf \in [VPSData -> Nat] /\ IsMap(vpsMap, VPSData, VPSIdOf)
      BY DEF TypeOK
    <3>2. vpsMap' \in StorePS(vpsMap, VPSIdOf[d], d)
      BY <2>1 DEF DecodeVPS
    <3>3. DOMAIN vpsMap \subseteq DOMAIN vpsMap'
      BY <3>1, <3>2, StoreKeepsMap
    <3>4. QED
      BY <2>1, <3>3 DEF DecodeVPS, ActiveSetsOfPicture, active
  <2>2. ASSUME NEW d \in SPSData, DecodeSPS(d) PROVE ActiveSetsOfPicture'
    <3>1. SPSIdOf \in [SPSData -> Nat] /\ IsMap(spsMap, SPSData, SPSIdOf)
      BY DEF TypeOK
    <3>2. spsMap' \in StorePS(spsMap, SPSIdOf[d], d)
      BY <2>2 DEF DecodeSPS
    <3>3. DOMAIN spsMap \subseteq DOMAIN spsMap'
      BY <3>1, <3>2, StoreKeepsMap
    <3>4. QED
      BY <2>2, <3>3 DEF DecodeSPS, ActiveSetsOfPicture, active
  <2>3. ASSUME NEW d \in PPSData, DecodePPS(d) PROVE ActiveSetsOfPicture'
    BY <2>3 DEF DecodePPS, ActiveSetsOfPicture, active
  <2>4. ASSUME NEW p \in PPSIds, SliceWithoutSets(p) PROVE ActiveSetsOfPicture'
    BY <2>4 DEF SliceWithoutSets, ActiveSetsOfPicture
  <2>5. ASSUME NEW p \in PPSIds, NEW irap \in BOOLEAN, FirstSlice(p, irap)
        PROVE  ActiveSetsOfPicture'
    <3> DEFINE spsId == PPSRefersTo[ppsMap[p].data]
    <3>1. CASE ~CanActivatePPS(p, irap)
      BY <2>5, <3>1 DEF FirstSlice, ActiveSetsOfPicture
    <3>2. CASE CanActivatePPS(p, irap)
      <4>1. DOMAIN spsMap' = DOMAIN spsMap /\ vpsMap' = vpsMap
        BY <2>5, ClearKeepsMap DEF FirstSlice, TypeOK
      <4>2. /\ picture' = HeaderSets(p)
            /\ activeSPSId' = spsId /\ activeVPSId' = SPSRefersTo[spsMap[spsId].data]
        BY <2>5, <3>2 DEF FirstSlice
      <4>3. QED
        BY <3>2, <4>1, <4>2 DEF HeaderSets, ActiveSetsOfPicture, CanActivatePPS
    <3>3. QED
      BY <3>1, <3>2
  <2>6. ASSUME NEW p \in PPSIds, NextSlice(p) PROVE ActiveSetsOfPicture'
    BY <2>6 DEF NextSlice, ActiveSetsOfPicture, maps, active
  <2>7. ASSUME EndPicture PROVE ActiveSetsOfPicture'
    BY <2>7 DEF EndPicture, NoPicture, ActiveSetsOfPicture
  <2>8. CASE UNCHANGED vars
    BY <2>8 DEF vars, ActiveSetsOfPicture
  <2>9. QED
    BY <2>1, <2>2, <2>3, <2>4, <2>5, <2>6, <2>7, <2>8 DEF Next
<1>3. QED
  BY <1>1, <1>2, TypeCorrect, PTL DEF Spec
=============================================================================
