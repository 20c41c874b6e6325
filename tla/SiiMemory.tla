----------------------------- MODULE SiiMemory -----------------------------
(***************************************************************************)
(* What the EEPROM of an EtherCAT slave promises its master: a memory of   *)
(* words that outlives a loss of power. The slave comes up only when all   *)
(* words are readable and configuration, product code and revision fit its *)
(* firmware, and then the memory changes by nothing but the requests of    *)
(* the master. Before that, words never written are blanked, and contents  *)
(* that do not fit the firmware are replaced by its defaults from the      *)
(* first word on. The replacement can be cut short: then the first words   *)
(* are defaults and the others what they were, nothing marks the mixture,  *)
(* and the next start keeps it when the configuration, product code and    *)
(* revision in it fit (Interrupt).                                         *)
(***************************************************************************)
EXTENDS EepromContents

CONSTANTS MasterValues, StoreTime, WriteFails, ReadSizes

VARIABLES
  mem,        \* the words
  image,      \* the firmware
  serving,    \* the slave is up
  loaded,     \* the controller has taken a valid configuration
  restoring,  \* the defaults are being written
  request,    \* what the master waits for, or NoRequest
  reply,      \* the last answer, or NoReply
  readSize    \* bytes a read returns

vars == <<mem, image, serving, loaded, restoring, request, reply, readSize>>

Down == /\ serving' = FALSE /\ loaded' = FALSE
        /\ request' = NoRequest /\ reply' = NoReply

Init ==
  /\ mem = [b \in 0 .. Blocks - 1 |-> Unwritten]
  /\ image \in Images /\ readSize \in ReadSizes
  /\ serving = FALSE /\ loaded = FALSE /\ restoring = FALSE
  /\ request = NoRequest /\ reply = NoReply

(* Out of service. *)
Boot ==
  /\ ~serving /\ ~restoring /\ image' \in Images
  /\ Down /\ UNCHANGED <<mem, restoring, readSize>>

Refuse ==
  /\ ~serving /\ ~restoring /\ ~Fits(mem, image)
  /\ restoring' = TRUE
  /\ Down /\ UNCHANGED <<mem, image, readSize>>

\* A default is written where all words before are defaults already; after
\* the last word the replacement is over.
Restore ==
  /\ restoring
  /\ \E w \in 0 .. Size - 1 :
       /\ \A v \in 0 .. w - 1 : mem[v] = Contents[image][v]
       /\ mem' = [mem EXCEPT ![w] = Contents[image][w]]
       /\ restoring' = (w + 1 < Size)
  /\ Down /\ UNCHANGED <<image, readSize>>

\* The supply fails or the flash refuses a word before the last default is
\* written: what was there behind the words replaced stays.
Interrupt ==
  /\ restoring /\ restoring' = FALSE
  /\ Down /\ UNCHANGED <<mem, image, readSize>>

Fill ==
  /\ ~serving /\ ~restoring
  /\ \E w \in 0 .. Size - 1 :
       mem[w] = Unwritten /\ mem' = [mem EXCEPT ![w] = Blank]
  /\ Down /\ UNCHANGED <<image, restoring, readSize>>

ComeUp ==
  /\ ~serving /\ ~restoring
  /\ Readable(mem, 0 .. Size - 1) /\ Fits(mem, image)
  /\ serving' = TRUE /\ loaded' = TRUE
  /\ reply'.data = <<mem[AliasWord], mem[0]>> /\ reply'.ok
  /\ UNCHANGED <<mem, image, restoring, request, readSize>>

GoDown ==
  /\ serving
  /\ Down /\ UNCHANGED <<mem, image, restoring, readSize>>

(* In service. *)
InService == serving /\ UNCHANGED <<image, serving, loaded, restoring, readSize>>

Ask ==
  /\ InService /\ request = NoRequest
  /\ request' \in [op : {"read", "write", "reload", "other"},
                   addr : Nat, value : Values]
  /\ reply' = NoReply /\ UNCHANGED mem

\* A write takes effect before it is acknowledged.
Write ==
  /\ InService /\ request.op = "write" /\ request.addr < Blocks
  /\ mem' = [mem EXCEPT ![request.addr] = request.value]
  /\ UNCHANGED <<request, reply>>

\* What a success may say: 8 bytes at a time are not promised to be right.
Right(op, a, data) ==
  CASE op = "read"   -> /\ a + 1 < Blocks /\ Readable(mem, {a, a + 1})
                        /\ readSize = 4 => data = <<mem[a], mem[a + 1]>>
    [] op = "write"  -> a < Blocks /\ mem[a] = request.value
    [] op = "reload" -> readSize = 4 => /\ ValidConfig(mem)
                                        /\ data = <<mem[AliasWord], mem[0]>>
    [] OTHER -> FALSE

\* When a request may be refused.
Refusable(op, a) ==
  CASE op = "read"   -> \E b \in a .. a + readSize \div 2 - 1 :
                          b >= Blocks \/ mem[b] = Unwritten
    [] op = "write"  -> a >= Blocks \/ WriteFails
    [] op = "reload" -> readSize = 4 => ~ValidConfig(mem)
    [] OTHER -> TRUE

Reply ==
  /\ InService /\ request # NoRequest /\ request' = NoRequest
  /\ \E data \in Answers :
       \/ /\ Right(request.op, request.addr, data)
          /\ reply' = [ok |-> TRUE, data |-> data]
       \/ /\ Refusable(request.op, request.addr)
          /\ reply' = [ok |-> FALSE, data |-> data]
  /\ UNCHANGED mem

Next == \/ Boot \/ Refuse \/ Restore \/ Interrupt \/ Fill \/ ComeUp
        \/ GoDown \/ Ask \/ Write \/ Reply

Spec == Init /\ [][Next]_vars
=============================================================================
