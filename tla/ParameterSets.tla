--------------------------- MODULE ParameterSets ---------------------------
(***************************************************************************)
(* The parameter sets of the decoder: ParameterSetMap and                  *)
(* ParameterSetManager (TLibCommon/TComSlice.h, TComSlice.cpp) and the way *)
(* TDecTop stores, activates and checks them (TLibDecoder/TDecTop.cpp).    *)
(*                                                                         *)
(* A parameter set is the byte string of its NAL unit, and everything the  *)
(* decoder reads in it (its own id, the id of the set it refers to) is a   *)
(* function of those bytes.  A map holds, for every id seen so far, the    *)
(* bytes stored last and the flag "changed".                               *)
(***************************************************************************)
EXTENDS Integers, Sequences

CONSTANTS VPSData, SPSData, PPSData,  \* byte strings of the three kinds of set
          VPSIdOf, SPSIdOf, PPSIdOf,  \* the id coded in a set
          SPSRefersTo,                \* the VPS id coded in an SPS
          PPSRefersTo                 \* the SPS id coded in a PPS

ASSUME DataAssumption == VPSData \cup SPSData \cup PPSData \subseteq Seq(Int)
ASSUME IdAssumption ==
  /\ VPSIdOf \in [VPSData -> Nat] /\ SPSIdOf \in [SPSData -> Nat]
  /\ PPSIdOf \in [PPSData -> Nat]
  /\ SPSRefersTo \in [SPSData -> Nat] /\ PPSRefersTo \in [PPSData -> Nat]

VARIABLES vpsMap, spsMap, ppsMap,     \* id -> [data, changed]
          activeVPSId, activeSPSId,   \* -1 for nothing active
          picture,                    \* the picture being decoded and its copies of the sets
          header,                     \* the sets the last slice header was parsed with
          sequence,                   \* the sets of the last IRAP picture (read by properties)
          status                      \* "running", "aborted" (assert) or "exited" (exit(1))

maps   == <<vpsMap, spsMap, ppsMap>>
active == <<activeVPSId, activeSPSId>>
vars   == <<vpsMap, spsMap, ppsMap, activeVPSId, activeSPSId, picture, header, sequence, status>>

Entry(Data) == [data : Data, changed : BOOLEAN]
NoEntries   == [id \in {} |-> 0]
NoPicture   == [open |-> FALSE]

Init ==
  /\ vpsMap = NoEntries /\ spsMap = NoEntries /\ ppsMap = NoEntries
  /\ activeVPSId = -1 /\ activeSPSId = -1
  /\ picture = NoPicture /\ header = NoPicture /\ sequence = NoPicture
  /\ status = "running"

-----------------------------------------------------------------------------
(* The values calculateParameterSetChangedFlag may leave in a flag that was *)
(* FALSE.  The code compares the size of the old data with itself, so only  *)
(* the first Len(old) bytes are compared; new data that is shorter is read  *)
(* beyond its end, and the outcome then depends on what lies there.         *)
ChangedFlag(old, new) ==
  IF Len(new) >= Len(old) THEN {SubSeq(new, 1, Len(old)) # old}
  ELSE IF SubSeq(old, 1, Len(new)) # new THEN {TRUE}
  ELSE BOOLEAN

\* Mutant: the set is stored under id 0, whatever its own id is.
StorePS_FixedKey(map, id, data) ==
  {[x \in DOMAIN map \cup {0} |->
      IF x = 0 THEN [data |-> data, changed |-> FALSE] ELSE map[x]]}

(* storePS: the maps that result from storing data under id. *)
StorePS(map, id, data) ==
  LET flags == IF id \notin DOMAIN map THEN {FALSE}
               ELSE IF map[id].changed THEN {TRUE}
               ELSE ChangedFlag(map[id].data, data)
  IN  {[x \in DOMAIN map \cup {id} |->
          IF x = id THEN [data |-> data, changed |-> c] ELSE map[x]] : c \in flags}

ClearChangedFlag(map, id) ==
  IF id \in DOMAIN map THEN [map EXCEPT ![id].changed = FALSE] ELSE map

\* Mutant: a flag nobody reads.
GetChangedFlag_Never(map, id) == FALSE

GetChangedFlag(map, id) == id \in DOMAIN map /\ map[id].changed

\* Mutant: the existence of the VPS is not checked.
CanActivatePPS_NoVPSCheck(ppsId, isIRAP) ==
  /\ ppsId \in DOMAIN ppsMap
  /\ isIRAP \/ PPSRefersTo[ppsMap[ppsId].data] = activeSPSId
  /\ PPSRefersTo[ppsMap[ppsId].data] \in DOMAIN spsMap

(* The conditions activatePPS checks before it makes the sets active. *)
CanActivatePPS(ppsId, isIRAP) ==
  /\ ppsId \in DOMAIN ppsMap
  /\ LET spsId == PPSRefersTo[ppsMap[ppsId].data]
     IN  /\ isIRAP \/ spsId = activeSPSId
         /\ spsId \in DOMAIN spsMap
         /\ LET vpsId == SPSRefersTo[spsMap[spsId].data]
            IN  /\ isIRAP \/ vpsId = activeVPSId
                /\ vpsId \in DOMAIN vpsMap

-----------------------------------------------------------------------------
DecodeVPS(data) ==
  /\ status = "running"
  /\ vpsMap' \in StorePS(vpsMap, VPSIdOf[data], data)
  /\ UNCHANGED <<spsMap, ppsMap, active, picture, header, sequence, status>>

DecodeSPS(data) ==
  /\ status = "running"
  /\ spsMap' \in StorePS(spsMap, SPSIdOf[data], data)
  /\ UNCHANGED <<vpsMap, ppsMap, active, picture, header, sequence, status>>

DecodePPS(data) ==
  /\ status = "running"
  /\ ppsMap' \in StorePS(ppsMap, PPSIdOf[data], data)
  /\ UNCHANGED <<vpsMap, spsMap, active, picture, header, sequence, status>>

(* A slice header refers to sets that were never received: the asserts of   *)
(* parseSliceHeader and of xActivateParameterSets stop the program.         *)
HeaderSetsPresent(ppsId) ==
  ppsId \in DOMAIN ppsMap /\ PPSRefersTo[ppsMap[ppsId].data] \in DOMAIN spsMap

(* The sets a slice header that names ppsId is parsed with. *)
HeaderSets(ppsId) ==
  [open |-> TRUE, pps |-> ppsMap[ppsId].data,
   sps |-> spsMap[PPSRefersTo[ppsMap[ppsId].data]].data]

SliceWithoutSets(ppsId) ==
  /\ status = "running"
  /\ ~HeaderSetsPresent(ppsId)
  /\ status' = "aborted"
  /\ UNCHANGED <<maps, active, picture, header, sequence>>

(* The first slice of a picture: the flags of its sets are cleared, the sets *)
(* are activated and copied into the picture (TComPicSym::create).           *)
FirstSlice(ppsId, isIRAP) ==
  /\ status = "running" /\ ~picture.open
  /\ HeaderSetsPresent(ppsId)
  /\ LET spsId == PPSRefersTo[ppsMap[ppsId].data]
     IN  /\ spsMap' = ClearChangedFlag(spsMap, spsId)
         /\ ppsMap' = ClearChangedFlag(ppsMap, ppsId)
         /\ header' = HeaderSets(ppsId)
         /\ IF CanActivatePPS(ppsId, isIRAP)
            THEN /\ activeSPSId' = spsId
                 /\ activeVPSId' = SPSRefersTo[spsMap[spsId].data]
                 /\ picture' = HeaderSets(ppsId)
                 /\ sequence' = IF isIRAP THEN HeaderSets(ppsId) ELSE sequence
                 /\ status' = "running"
            ELSE /\ activeSPSId' = -1 /\ activeVPSId' = -1
                 /\ status' = "aborted"
                 /\ UNCHANGED <<picture, sequence>>
  /\ UNCHANGED vpsMap

(* A further slice of the picture.  Its header is parsed with the stored     *)
(* sets that it names, whichever they are, and it is decoded with the        *)
(* picture's; the flags looked at are those of the picture's sets.           *)
NextSlice(ppsId) ==
  /\ status = "running" /\ picture.open
  /\ HeaderSetsPresent(ppsId)
  /\ header' = HeaderSets(ppsId)
  /\ status' = IF \/ GetChangedFlag(spsMap, SPSIdOf[picture.sps])
                  \/ GetChangedFlag(ppsMap, PPSIdOf[picture.pps])
               THEN "exited" ELSE "running"
  /\ UNCHANGED <<maps, active, picture, sequence>>

(* executeLoopFilters: the next slice is the first of its picture. *)
EndPicture ==
  /\ status = "running" /\ picture.open
  /\ picture' = NoPicture
  /\ header' = NoPicture
  /\ UNCHANGED <<maps, active, sequence, status>>

PPSIds == {PPSIdOf[d] : d \in PPSData}

Next ==
  \/ \E d \in VPSData : DecodeVPS(d)
  \/ \E d \in SPSData : DecodeSPS(d)
  \/ \E d \in PPSData : DecodePPS(d)
  \/ \E p \in PPSIds : SliceWithoutSets(p)
  \/ \E p \in PPSIds, irap \in BOOLEAN : FirstSlice(p, irap)
  \/ \E p \in PPSIds : NextSlice(p)
  \/ EndPicture

Spec == Init /\ [][Next]_vars

-----------------------------------------------------------------------------
PictureSets == [open : {TRUE}, pps : PPSData, sps : SPSData] \cup {NoPicture}

IsMap(map, Data, IdOf) ==
  /\ map \in [DOMAIN map -> Entry(Data)]
  /\ DOMAIN map \subseteq Nat
  /\ \A id \in DOMAIN map : IdOf[map[id].data] = id

(* Every map holds under an id the last set received with that id. *)
TypeOK ==
  /\ IsMap(vpsMap, VPSData, VPSIdOf)
  /\ IsMap(spsMap, SPSData, SPSIdOf)
  /\ IsMap(ppsMap, PPSData, PPSIdOf)
  /\ activeVPSId \in Nat \cup {-1} /\ activeSPSId \in Nat \cup {-1}
  /\ picture \in PictureSets /\ header \in PictureSets /\ sequence \in PictureSets
  /\ status \in {"running", "aborted", "exited"}

(* All slices of a picture are parsed with the PPS and the SPS the picture   *)
(* was created with, and is decoded with (the check of xActivateParameterSets *)
(* "that the current active PPS has not changed").                           *)
OnePictureOneSet ==
  status = "running" /\ picture.open =>
    header.pps = picture.pps /\ header.sps = picture.sps

(* An id keeps its meaning while a picture is decoded: if a slice names the  *)
(* PPS id of the picture and the decoder goes on, the slice was parsed with  *)
(* the very sets the picture was created with, and if its PPS is another one *)
(* that leads to the SPS id of the picture, then with the picture's SPS.     *)
SameIdSameSet ==
  status = "running" /\ picture.open =>
    /\ PPSIdOf[header.pps] = PPSIdOf[picture.pps] =>
         header.pps = picture.pps /\ header.sps = picture.sps
    /\ SPSIdOf[header.sps] = SPSIdOf[picture.sps] => header.sps = picture.sps

(* While a picture is decoded, the active ids are those its sets lead to,    *)
(* and the sets they name are there (getActiveSPS is dereferenced by the SEI *)
(* parser without a check).                                                  *)
ActiveSetsOfPicture ==
  status = "running" /\ picture.open =>
    /\ activeSPSId = PPSRefersTo[picture.pps] /\ activeSPSId \in DOMAIN spsMap
    /\ activeVPSId = SPSRefersTo[picture.sps] /\ activeVPSId \in DOMAIN vpsMap

(* A sequence is decoded with one SPS: the contents a picture is created     *)
(* with are those of the last IRAP picture, because activatePPS activates    *)
(* the SPS "depending on isIDR", and does not let another picture switch.    *)
SequenceKeepsSPS ==
  status = "running" /\ picture.open => picture.sps = sequence.sps

(* No byte string of a kind is a proper beginning of another one.            *)
PrefixFree(Data) ==
  \A d, e \in Data : Len(d) <= Len(e) /\ SubSeq(e, 1, Len(d)) = d => d = e
=============================================================================
