-------------------------- MODULE ObjectDictionary --------------------------
(***************************************************************************)
(* The object dictionary of coeappl.c and ethercat_chargerObjects.h and    *)
(* the standard access to it, OBJ_GetObjectLength, OBJ_GetEntryOffset,     *)
(* OBJ_Read and OBJ_Write of objdef.c.                                     *)
(*                                                                         *)
(* A byte of data is a tag <<i, v>>: it belongs to entry i, whose value    *)
(* was v; Cleared is a byte of no entry.  The value of an object is the    *)
(* function from its entries to their values, entry 0 being the number of  *)
(* entries (of a variable: the variable).  No object of this dictionary    *)
(* has a writable entry 0, and two entries never share a byte.             *)
(***************************************************************************)
EXTENDS Integers, Sequences, FiniteSets, TLC

AlStates == {"preop", "safeop", "op"}

\* Entry descriptions: the size in bits and the states in which the entry
\* may be read and written.
RO(bits)  == [bits |-> bits, read |-> AlStates, write |-> {}]
RW(bits)  == [bits |-> bits, read |-> AlStates, write |-> AlStates]
Gap(bits) == [bits |-> bits, read |-> {}, write |-> {}]

Same(n, desc) == [i \in 1 .. n |-> desc]

\* The synchronization parameters; 19 to 31 do not exist.
EntryDesc0x1C3x ==
  <<[RO(16) EXCEPT !.write = {"preop"}],             \* Synchronization Type
    RO(32), Gap(32), RO(16), RO(32), RO(32), Gap(32),
    RW(16),                                          \* Get Cycle Time
    RO(32), RW(32), RO(16), RO(16), RO(16), Gap(16)>>
  \o Same(4, Gap(32)) \o Same(13, Gap(0)) \o <<RO(1)>>

Var(desc)    == [code |-> "VAR", max |-> 0, desc |-> <<desc>>]
Arr(n, desc) == [code |-> "ARR", max |-> n, desc |-> <<desc>>]
Rec(descs)   == [code |-> "REC", max |-> Len(descs), desc |-> descs]

SyncPars == {"x1C32", "x1C33"}

\* 0x10F8, which has a read function of its own, is left out.
GenObjDic == [
  x1000 |-> Var(RO(32)),  x1001 |-> Var(RO(8)),  x1008 |-> Var(RO(128)),
  x1009 |-> Var(RO(88)),  x100A |-> Var(RO(24)),
  x1018 |-> Rec(Same(4, RO(32))),  x10F1 |-> Rec(<<RO(32), RW(16)>>),
  x1C00 |-> Arr(4, RO(8)),
  x1C32 |-> Rec(EntryDesc0x1C3x),  x1C33 |-> Rec(EntryDesc0x1C3x)]

ApplicationObjDic == [
  x1600 |-> Rec(<<RO(32)>>),  x1A00 |-> Rec(Same(7, RO(32))),
  x1C12 |-> Arr(1, RO(16)),   x1C13 |-> Arr(1, RO(16)),
  x6000 |-> Rec(Same(7, RO(16))),  x7000 |-> Rec(<<RW(16)>>),
  xF000 |-> Rec(Same(2, RO(16)))]

\* The object of an index, OBJ_GetObjectHandle.
Object == GenObjDic @@ ApplicationObjDic

Indexes == DOMAIN Object

DescOf(o, i) ==
  CASE o.code = "VAR"                -> o.desc[1]
    [] o.code # "VAR" /\ i = 0       -> RO(8)
    [] o.code = "ARR" /\ i # 0       -> o.desc[1]
    [] o.code = "REC" /\ i # 0       -> o.desc[i]

EntryDesc(x, i) == DescOf(Object[x], i)

Readable(x, i, al) == al \in EntryDesc(x, i).read
Writable(x, i, al) == al \in EntryDesc(x, i).write

Bytes(bits) == (bits + 7) \div 8

\* Bits of the entries before entry i, entry 0 not counted.
BitsBefore ==
  [x \in Indexes |->
     LET sum[i \in 1 .. Object[x].max + 1] ==
           IF i = 1 THEN 0 ELSE sum[i - 1] + EntryDesc(x, i - 1).bits
     IN  sum]

\* OBJ_GetEntryOffset, in bits: entry 0 takes 16 bits, the rest is packed.
Offset(x, i) ==
  IF Object[x].code = "VAR" \/ i = 0 THEN 0 ELSE 16 + BitsBefore[x][i]

\* OBJ_GetObjectLength, in bytes.
LengthOf(o, bitsBefore, sub, ca) ==
  CASE ca /\ o.code = "VAR" -> 0
    [] ca /\ o.code # "VAR" ->
         Bytes(bitsBefore[o.max + 1]) + (IF sub = 0 THEN 2 ELSE 0)
    [] ~ca -> Bytes(DescOf(o, sub).bits)

Length(x, sub, ca) == LengthOf(Object[x], BitsBefore[x], sub, ca)

\* A closed formula, which TLC evaluates; proofs cannot, for BitsBefore is
\* recursive.
ASSUME LengthAssumption ==
  \A x \in Indexes : /\ Object[x].max \in 0 .. 255
                     /\ \A sub \in 0 .. Object[x].max : \A ca \in BOOLEAN :
                          Length(x, sub, ca) \in Nat

\* Entries are read in every state or in none; the number of entries is not
\* written, the type and the cycle time of the synchronization are.
ASSUME EntryAssumption ==
  \A x \in Indexes :
    /\ \A i \in 0 .. Object[x].max : EntryDesc(x, i).read \in {{}, AlStates}
    /\ Object[x].code # "VAR" => EntryDesc(x, 0).write = {}
    /\ x \in SyncPars => Object[x].max >= 8

(***************************************************************************)
(* OBJ_Read and OBJ_Write walk through the accessed entries and move pData *)
(* along; what they do to it differs only for entry 0 without access.      *)
(***************************************************************************)
Accessed(x, sub, ca) == sub .. (IF ca THEN Object[x].max ELSE sub)

\* The words pData moves by at an entry: it stays in its word until an entry
\* reaches the end of the word.
Advance(offset, bits) ==
  bits \div 16 + (IF bits % 16 > 0 /\ (offset + bits) % 16 = 0 THEN 1 ELSE 0)

\* The words before entry i, from entry 0 on, which moves pData by one.
WordsBefore ==
  [x \in Indexes |->
     LET pData[i \in 0 .. Object[x].max] ==
           CASE i = 0 -> 0
             [] i = 1 -> 1
             [] OTHER -> pData[i - 1]
                         + Advance(Offset(x, i - 1), EntryDesc(x, i - 1).bits)
     IN  pData]

\* The bytes of the data where entry i is copied from or to: in a complete
\* access it keeps its place in the word.
PlaceAt(words, offset, bits, ca) ==
  LET first == 2 * words + (IF ca THEN (offset % 16) \div 8 ELSE 0)
  IN  first + 1 .. first + Bytes(bits)

Between(words, from, to) == words[to] - words[from]

Place(x, sub, ca, i) ==
  PlaceAt(Between(WordsBefore[x], sub, i), Offset(x, i), EntryDesc(x, i).bits,
          ca)

Cleared == <<>>

\* The entry at each byte of a complete access, None if there is none.
None == -1

The(entries) == IF entries = {} THEN None ELSE CHOOSE i \in entries : TRUE

Layout ==
  [x \in Indexes |->
     [k \in 1 .. 2 + Bytes(BitsBefore[x][Object[x].max + 1]) |->
        The({i \in 0 .. Object[x].max : k \in Place(x, 0, TRUE, i)})]]

EntryAt(x, sub, ca, k) ==
  IF ca THEN Layout[x][k + 2 * WordsBefore[x][sub]] ELSE sub

ReadRefused(x, sub, ca, al) ==
  IF ca THEN Object[x].code = "VAR"
  ELSE sub > Object[x].max \/ ~Readable(x, sub, al)

\* OBJ_Read of an object with this value.
Byte(x, value, sub, ca, al, i) ==
  IF i \in Accessed(x, sub, ca) /\ Readable(x, i, al) THEN <<i, value[i]>>
  ELSE Cleared

Read(x, value, sub, ca, al) ==
  [k \in 1 .. Length(x, sub, ca) |->
     Byte(x, value, sub, ca, al, EntryAt(x, sub, ca, k))]

\* CheckSyncTypeValue, with outputs and inputs configured, as they are from
\* PREOP on: FREERUN, DCSYNC0 and DCSYNC1 for both objects, SM_SYNCHRON for
\* 0x1C32, SM2_SYNCHRON for 0x1C33.
CheckSyncTypeValue(x, type) ==
  type \in {0, 2, 3, IF x = "x1C32" THEN 1 ELSE 34}

\* What a write finds for entry i in the data: Mixed if its bytes are not of
\* one value of the entry, or are not there.
Mixed == 999

FoundAt(place, data, i) ==
  IF /\ place \subseteq DOMAIN data
     /\ \E v \in {data[k] : k \in place} :
          v # Cleared /\ v[1] = i /\ \A k \in place : data[k] = v
  THEN data[CHOOSE k \in place : TRUE][2]
  ELSE Mixed

Found(x, sub, ca, data, i) == FoundAt(Place(x, sub, ca, i), data, i)

\* In a complete access from entry 0 on the data say how many entries there
\* are (no more than there are).
LastWritten(x, sub, ca, data) ==
  CASE ca /\ sub = 0 -> Found(x, sub, ca, data, 0)
    [] ca /\ sub # 0 -> Object[x].max
    [] ~ca           -> sub

\* Mutant: the write returns after the first entry.
WrittenFirst(x, sub, ca, al, data) ==
  {i \in Accessed(x, sub, ca) :
     Writable(x, i, al) /\ \A k \in sub .. i - 1 : ~Writable(x, k, al)}

Written(x, sub, ca, al, data) ==
  {i \in Accessed(x, sub, ca) :
     /\ Writable(x, i, al)
     /\ Len(data) > 0 /\ i <= LastWritten(x, sub, ca, data)}

\* The sync type is the first entry a complete access can write: nothing is
\* written if it is refused.
TypeRefused(x, before, type) ==
  type # before /\ ~CheckSyncTypeValue(x, type)

DataRefused(x, value, sub, ca, data, written) ==
  \/ Len(data) > 0 /\ written = {}
  \/ /\ x \in SyncPars /\ 1 \in written
     /\ TypeRefused(x, value[1], Found(x, sub, ca, data, 1))

WriteRefused(x, value, sub, ca, al, data) ==
  \/ IF ca THEN Object[x].code = "VAR"
     ELSE sub > Object[x].max \/ ~Writable(x, sub, al)
  \/ DataRefused(x, value, sub, ca, data, Written(x, sub, ca, al, data))

\* Writing entry 8 of a sync parameter resets the times of both objects, and
\* with bit 1 set the error counters.
Measured(cycle) == {2, 5, 6} \cup (IF (cycle \div 2) % 2 = 1
                                   THEN {11, 12, 32} ELSE {})

Reset(x, sub, ca, data, written) ==
  IF x \in SyncPars /\ 8 \in written
  THEN Measured(Found(x, sub, ca, data, 8)) ELSE {}

Stored(objects, x, new, reset) ==
  [y \in DOMAIN objects |-> [i \in DOMAIN objects[y] |->
     CASE y = x /\ i \in DOMAIN new     -> new[i]
       [] y \in SyncPars /\ i \in reset -> 0
       [] OTHER                         -> objects[y][i]]]

\* OBJ_Write, not refused: the objects after it.  bSyncSetByUser, which the
\* state machine reads, is not kept here.
Write(objects, x, sub, ca, al, data) ==
  LET written == Written(x, sub, ca, al, data)
  IN  Stored(objects, x, [i \in written |-> Found(x, sub, ca, data, i)],
             Reset(x, sub, ca, data, written))

=============================================================================
