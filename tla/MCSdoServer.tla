----------------------------- MODULE MCSdoServer -----------------------------
EXTENDS SdoServer

Upload(x, sub, ca) == [op |-> "upload", index |-> x, sub |-> sub, ca |-> ca,
                       value |-> 0, short |-> 0]
Download(x, sub, ca, value) ==
  [op |-> "download", index |-> x, sub |-> sub, ca |-> ca, value |-> value,
   short |-> 0]

List(type) == [op |-> "list", index |-> "none", sub |-> 0, ca |-> FALSE,
               value |-> type, short |-> 0]
Description(op, x, sub) == [op |-> op, index |-> x, sub |-> sub, ca |-> FALSE,
                          value |-> 0, short |-> 0]

\* The whole of a sync parameter, with and without entry 0, its entries of
\* each kind, a string; an object and accesses that do not exist.
\* 2 is a sync type, which also resets the error counters; 4 is none.
MCJobs ==
  {Upload("x1C32", 0, TRUE), Upload("x1C32", 1, TRUE),
   Upload("x1C32", 2, TRUE), Upload("x1C32", 2, FALSE),
   Upload("x1C32", 3, FALSE), Upload("x1008", 0, FALSE),
   Upload("x1008", 0, TRUE), Upload("none", 0, FALSE),
   Download("x1C32", 0, TRUE, 2), Download("x1C32", 1, TRUE, 4),
   Download("x1C32", 10, FALSE, 4), Download("x1008", 0, FALSE, 2),
   List(0), List(1), List(3), List(6),
   Description("describeObject", "x1008", 0),
   Description("describeEntry", "x1C32", 33)}

\* The list in index order, and the parts of a list of any type in any mailbox
\* against the whole of it.
Sizes == 36 .. 268

ASSUME ListAssumption ==
  /\ {ObjDicList[k] : k \in DOMAIN ObjDicList} = Listed
  /\ \A k \in 2 .. Len(ObjDicList) :
       Number[ObjDicList[k - 1]] < Number[ObjDicList[k]]

\* As many fragments as objects need: of this dictionary in any mailbox, of a
\* longer one if the mailbox has an even size.
Part(type, size) ==
  LET part[k \in 0 .. Len(ObjDicList)] ==
        IF k = 0 THEN GetObjectList(type, 1, size - 14)
        ELSE GetObjectList(type, part[k - 1].next, size - 12)
  IN  part

Holds(size, fragments) ==
  (size - 14) \div 2 + fragments * ((size - 12) \div 2)

ASSUME FragmentAssumption ==
  \A size \in Sizes :
    /\ \A type \in 0 .. 4 :
         LET left == FragmentsLeft(GetNoOfObjects(type), size - 14)
         IN  /\ GetNoOfObjects(type) <= Holds(size, left)
             /\ Places(type, Part(type, size)[left].next) = <<>>
             /\ left > 0 => Places(type, Part(type, size)[left - 1].next) # <<>>
    /\ size % 2 = 0 => \A n \in 0 .. 100 :
         LET left == FragmentsLeft(n, size - 14)
         IN  /\ n <= Holds(size, left)
             /\ left > 0 => n > Holds(size, left - 1)

\* The descriptions fit, also where the code does not look.
ASSUME NameAssumption ==
  /\ \A x \in Indexes : DOMAIN NameLengths[x] \subseteq 1 .. Object[x].max + 1
  /\ \A size \in Sizes : \A x \in Indexes :
       /\ ObjectHead + ObjectName(x, size - 6) <= size - 6
       /\ \A i \in 0 .. Object[x].max :
            EntryHead + EntryName(x, i, size - 6) <= size - 6

=============================================================================
