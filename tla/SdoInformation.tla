--------------------------- MODULE SdoInformation ---------------------------
(***************************************************************************)
(* What SDO information tells of the object dictionary: its list of        *)
(* objects, linked by COE_ObjDictionaryInit of coeappl.c, the part of it   *)
(* that fits into a mailbox, and the names (OBJ_GetNoOfObjects,            *)
(* OBJ_GetObjectList and OBJ_GetDesc of objdef.c).                         *)
(***************************************************************************)
EXTENDS ObjectDictionary

LOCAL S == INSTANCE SequencesExt

\* The objects of the two tables, in their order; 0x10F8 is listed, too.
GenObjDicTable ==
  <<"x1000", "x1001", "x1008", "x1009", "x100A", "x1018", "x10F1", "x10F8",
    "x1C00", "x1C32", "x1C33">>

ApplicationObjDicTable ==
  <<"x1600", "x1A00", "x1C12", "x1C13", "x6000", "x7000", "xF000">>

Listed == Indexes \cup {"x10F8"}

Number == [
  x1000 |-> 4096, x1001 |-> 4097, x1008 |-> 4104, x1009 |-> 4105,
  x100A |-> 4106, x1018 |-> 4120, x10F1 |-> 4337, x10F8 |-> 4344,
  x1600 |-> 5632, x1A00 |-> 6656, x1C00 |-> 7168, x1C12 |-> 7186,
  x1C13 |-> 7187, x1C32 |-> 7218, x1C33 |-> 7219,
  x6000 |-> 24576, x7000 |-> 28672, xF000 |-> 61440]

Least(a, b) == IF a < b THEN a ELSE b

\* COE_AddObjectToDic: before the first object with a greater index.
AddObjectToDic(list, x) ==
  LET smaller == SelectSeq(list, LAMBDA y : Number[y] < Number[x])
  IN  S!InsertAt(list, Len(smaller) + 1, x)

\* ObjDicList after COE_ObjDictionaryInit.
ObjDicList ==
  S!FoldLeft(AddObjectToDic, <<>>, GenObjDicTable \o ApplicationObjDicTable)

\* The objects of a list type other than 0, all: those with an entry that can
\* be mapped into RxPDOs and TxPDOs, backup objects, settings.
Flagged == <<{"x7000"}, {"x10F8", "x6000"}, {}, {}>>

InList(x, listType) == listType = 0 \/ x \in Flagged[listType]

\* The places in the list of the objects of a type, from a place on.
Places(listType, from) ==
  SelectSeq([k \in 1 .. Len(ObjDicList) |-> k],
            LAMBDA k : k >= from /\ InList(ObjDicList[k], listType))

\* What is left of a list behind one of its objects is the rest of it.
ASSUME PlacesAssumption ==
  /\ Len(ObjDicList) \in 1 .. 22
  /\ \A k \in 1 .. Len(ObjDicList) : Number[ObjDicList[k]] \in Nat
  /\ \A listType \in 0 .. 4 : \A from \in 1 .. Len(ObjDicList) + 1 :
       LET all == Places(listType, from)
       IN  /\ all \in Seq(1 .. Len(ObjDicList))
           /\ Len(all) <= Len(ObjDicList)
           /\ Len(all) <= Len(Places(0, from))
           /\ Len(all) <= Len(Places(listType, 1))
           /\ \A k \in 1 .. Len(all) :
                Places(listType, all[k] + 1) = SubSeq(all, k + 1, Len(all))
  /\ \A listType \in 0 .. 4 : Places(listType, Len(ObjDicList) + 1) = <<>>

\* Only the list of all objects needs more than the smallest first fragment.
ASSUME ShortAssumption == \A listType \in 1 .. 4 : Len(Places(listType, 1)) <= 11

GetNoOfObjects(listType) == Len(Places(listType, 1))

\* A list from a place on has its objects in the order of their numbers.
ASSUME MembersAssumption ==
  \A listType \in 0 .. 4 : \A from \in 1 .. Len(ObjDicList) + 1 :
    LET all     == Places(listType, from)
        members == {Number[x] : x \in {ObjDicList[k] : k \in
                      {j \in from .. Len(ObjDicList) :
                         InList(ObjDicList[j], listType)}}}
    IN  /\ {Number[ObjDicList[all[k]]] : k \in 1 .. Len(all)} = members
        /\ Len(all) = Cardinality(members)
        /\ \A i, j \in 1 .. Len(all) :
             i < j => Number[ObjDicList[all[i]]] < Number[ObjDicList[all[j]]]

\* OBJ_GetObjectList: the objects that fit into size bytes, and where to go
\* on, behind the end if there are no more.
GetObjectList(listType, from, size) ==
  LET places == Places(listType, from)
      room   == size \div 2
      n      == Least(room, Len(places))
  IN  [objects |-> [k \in 1 .. n |-> Number[ObjDicList[places[k]]]],
       next    |-> IF n = room THEN places[n] + 1 ELSE Len(ObjDicList) + 1]

\* Fragments after the first for a list of n objects, if the first has room
\* for size bytes; the others have room for two more.
FragmentsLeft(n, size) ==
  LET fragSize == size + 2
  IN  IF 2 * n > size THEN (2 * n - size + fragSize - 1) \div fragSize ELSE 0

(***************************************************************************)
(* The lengths of the names of an object, entry 0, and of its entries.     *)
(***************************************************************************)
SyncParNames(own) ==
  <<own, 20, 10, 0, 31, 18, 18, 0, 14, 10, 16, 15, 20, 28>>
  \o [i \in 1 .. 18 |-> 0] \o <<10>>

NameLengths == [
  x1000 |-> <<11>>, x1001 |-> <<14>>, x1008 |-> <<11>>, x1009 |-> <<29>>,
  x100A |-> <<29>>, x1018 |-> <<15, 9, 12, 15, 13>>, x10F1 |-> <<14, 20, 24>>,
  x1600 |-> <<34, 12>>, x1A00 |-> <<34>> \o [i \in 1 .. 7 |-> 12],
  x1C00 |-> <<17>>, x1C12 |-> <<24>>, x1C13 |-> <<24>>,
  x1C32 |-> SyncParNames(19), x1C33 |-> SyncParNames(18),
  x6000 |-> <<13, 11, 18, 20, 18, 17, 20, 24>>, x7000 |-> <<13, 12>>,
  xF000 |-> <<22, 15, 26>>]

ASSUME NamesAssumption == \A x \in Indexes : NameLengths[x] \in Seq(Nat)

\* "SubIndex 000", the name of an entry that has none.
SubindexDesc == 12

\* OBJ_GetDesc: the entries of an array have no names.
GetDesc(x, i) ==
  LET names == NameLengths[x]
  IN  IF i + 1 \in DOMAIN names /\ names[i + 1] > 0 THEN names[i + 1]
      ELSE SubindexDesc

\* The bytes before the name in the description of an object and of an entry.
ObjectHead == 12
EntryHead  == 16

\* The length of the name that is sent with size bytes for all: none, if it
\* does not fit; of entry 0 it is not looked at whether it does.
Fitting(name, head, size) == IF head + name > size THEN 0 ELSE name

ObjectName(x, size) == Fitting(GetDesc(x, 0), ObjectHead, size)

EntryName(x, i, size) ==
  IF i = 0 /\ Object[x].code # "VAR" THEN SubindexDesc
  ELSE Fitting(GetDesc(x, i), EntryHead, size)

=============================================================================
