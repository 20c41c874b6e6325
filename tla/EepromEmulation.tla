-------------------------- MODULE EepromEmulation --------------------------
(***************************************************************************)
(* The EEPROM of the EtherCAT controller, emulated in flash                *)
(* (port/hpm_ecat_e2p_emulation.c, port/hpm_ecat_hw.c and                  *)
(* EEPROM_CommandHandler of SSC/Src/ecatappl.c): the start decides whether *)
(* the stored contents fit the firmware and writes its defaults word by    *)
(* word when they do not, then the main loop answers the commands the      *)
(* master gives through the EEPROM registers.  The supply may fail at any  *)
(* step; what is in the flash stays.  The e2p library of the SDK, which    *)
(* writes one word at a time whole or not at all and fails to read a word  *)
(* never written, the controller and the master are external.              *)
(***************************************************************************)
EXTENDS EepromContents

CONSTANTS
  MasterValues,  \* the words the master writes
  ReadSizes,     \* what 0x502.6 may say: bytes of a read, 4 or 8
  StoreTime,     \* 1000 in the code: milliseconds from a write to the store call
  WriteFails     \* whether the flash may refuse a word

ASSUME CommandAssumption ==
  /\ MasterValues \subseteq Values /\ ReadSizes \subseteq {4, 8}
  /\ StoreTime \in Nat /\ WriteFails \in BOOLEAN

VARIABLES
  flash,     \* the words the e2p library holds
  image,     \* the firmware started: its aEepromData
  phase,     \* how far the start is, see Phases
  index,     \* i of the loops of ecat_flash_eeprom_init
  esc,       \* the EEPROM registers of the controller, see Registers
  result,    \* of a write that is not acknowledged yet
  readSize,  \* EepromReadSize
  store      \* u16EepromStoreTimeoutValue and u16EepromStoreTimeoutCounter

vars == <<flash, image, phase, index, esc, result, readSize, store>>

\* "check": ecat_flash_eeprom_init looks at the contents; "defaults", "fill":
\* its two loops; "reload": ecat_hardware_init answers the controller; "run":
\* the main loop; "failed": ecat_slave_init returned an error and the task ends.
Phases == {"off", "check", "defaults", "fill", "reload", "run", "failed"}

\* data: the low words of 0x508; crc: 0x502.11; ack: 0x502.13.
Registers == [busy : BOOLEAN, cmd : {"read", "write", "reload", "other"},
              addr : Nat, data : Answers, crc : BOOLEAN, ack : BOOLEAN]

\* The controller asks for its configuration as soon as it has power.
EscAtPowerOn == [busy |-> TRUE, cmd |-> "reload", addr |-> 0,
                 data |-> NoAnswer, crc |-> FALSE, ack |-> FALSE]

StoreAtReset == [value |-> 0, counter |-> 0]

Init ==
  /\ flash = [b \in 0 .. Blocks - 1 |-> Unwritten]
  /\ image \in Images
  /\ phase = "off" /\ index = 0 /\ esc = EscAtPowerOn /\ result = "none"
  /\ readSize \in ReadSizes /\ store = StoreAtReset

(***************************************************************************)
(* The start: ecat_flash_eeprom_init.                                      *)
(***************************************************************************)
\* The supply returns; which image runs is for the boot loader to say.
PowerOn ==
  /\ phase = "off" /\ phase' = "check"
  /\ image' \in Images /\ esc' = EscAtPowerOn
  /\ UNCHANGED <<flash, index, result, readSize, store>>

\* Mutant of Decide: the loop of the defaults starts at 1.
DecideBehind(next) ==
  /\ phase = "check" /\ phase' = next
  /\ index' = IF next = "defaults" THEN 1 ELSE 0
  /\ UNCHANGED <<flash, image, esc, result, readSize, store>>

Decide(next) ==
  /\ phase = "check" /\ phase' = next /\ index' = 0
  /\ UNCHANGED <<flash, image, esc, result, readSize, store>>

\* The checksum is wrong, a word of the area cannot be read, or the contents
\* are of another product or an older revision.
ContentsRefused ==
  /\ \/ ~ValidConfig(flash)
     \/ /\ Readable(flash, {ProductWord, RevisionWord})
        /\ ~Matches(flash, image)
  /\ Decide("defaults")

\* The product code or the revision cannot be read: the start is given up.
IdentityUnreadable ==
  /\ ValidConfig(flash)
  /\ ~Readable(flash, {ProductWord, RevisionWord})
  /\ Decide("failed")

ContentsKept == Fits(flash, image) /\ Decide("fill")

\* One turn of a loop that is at word index: the word gets value v.
Put(v) == flash' = [flash EXCEPT ![index] = v]

\* Mutant of Advance: i <= instead of i <.
AdvanceBeyond(next) ==
  IF index + 1 <= Size THEN index' = index + 1 /\ UNCHANGED phase
  ELSE index' = 0 /\ phase' = next

\* The next word, or phase next after the last.
Advance(next) ==
  IF index + 1 < Size THEN index' = index + 1 /\ UNCHANGED phase
  ELSE index' = 0 /\ phase' = next

WriteDefault ==
  /\ phase = "defaults"
  /\ Put(Contents[image][index]) /\ Advance("fill")
  /\ UNCHANGED <<image, esc, result, readSize, store>>

\* A word that cannot be read gets dummy_data.
FillWord ==
  /\ phase = "fill"
  /\ \/ flash[index] # Unwritten /\ UNCHANGED flash
     \/ flash[index] = Unwritten /\ Put(Blank)
  /\ Advance("reload")
  /\ UNCHANGED <<image, esc, result, readSize, store>>

\* e2p_write returns an error in one of the loops.
StartFails ==
  /\ WriteFails
  /\ \/ phase = "defaults"
     \/ phase = "fill" /\ flash[index] = Unwritten
  /\ phase' = "failed"
  /\ UNCHANGED <<flash, image, index, esc, result, readSize, store>>

(***************************************************************************)
(* Commands.  The main loop looks at the registers once per turn, when the *)
(* event register says that a command is pending.                          *)
(***************************************************************************)
\* EEPROM_CommandHandler writes the registers back: the command is over.
Done(data, crc, ack) ==
  esc' = [esc EXCEPT !.busy = FALSE, !.data = data, !.crc = crc, !.ack = ack]

\* ecat_eeprom_emulation_reload
ReloadAnswer(f) == <<f[AliasWord], f[0]>>

\* ecat_eeprom_emulation_reload_response, before the main loop: a wrong
\* checksum goes into 0x502.11 and the start goes on; the start is given up
\* when the controller has not loaded its configuration for another reason.
ReloadResponse ==
  /\ phase = "reload"
  /\ LET readable == Readable(flash, ConfigArea)
         valid    == ValidConfig(flash)
     IN /\ Done(IF valid THEN ReloadAnswer(flash) ELSE esc.data,
                readable /\ ~valid, ~readable)
        /\ phase' = IF readable THEN "run" ELSE "failed"
  /\ UNCHANGED <<flash, image, index, result, readSize, store>>

Pending(cmd) ==
  phase = "run" /\ esc.busy /\ esc.cmd = cmd /\ result = "none"

\* Every command ends with the store counter at zero again.
QuietAgain == store' = [store EXCEPT !.counter = 0]

\* ecat_eeprom_emulation_read: 4 bytes are two words.  For 8 bytes the words
\* are shifted as int by 32 bits and more, which has no defined result.
ReadOk(a) ==
  \A b \in a .. a + readSize \div 2 - 1 : b < Blocks /\ flash[b] # Unwritten

ReadAnswers(a) ==
  IF readSize = 4 THEN {<<flash[a], flash[a + 1]>>} ELSE Answers

ReadCommand ==
  /\ Pending("read")
  /\ IF ReadOk(esc.addr)
     THEN \E d \in ReadAnswers(esc.addr) : Done(d, esc.crc, FALSE)
     ELSE Done(esc.data, esc.crc, TRUE)
  /\ QuietAgain
  /\ UNCHANGED <<flash, image, phase, index, result, readSize>>

\* ecat_eeprom_emulation_write: a word that is there already is not written,
\* which cannot fail; the library refuses a block it does not have.
WriteCommand ==
  /\ Pending("write")
  /\ LET a == esc.addr
         v == esc.data[1]
     IN \/ /\ a < Blocks
           /\ result' = "stored" /\ flash' = [flash EXCEPT ![a] = v]
        \/ /\ a < Blocks => WriteFails /\ flash[a] # v
           /\ result' = "refused" /\ UNCHANGED flash
  /\ store' = [store EXCEPT !.value = StoreTime]
  /\ UNCHANGED <<image, phase, index, esc, readSize>>

\* Mutant of WriteDone: the result of the write is dropped.
WriteDoneAnyway ==
  /\ phase = "run" /\ result # "none" /\ result' = "none"
  /\ Done(esc.data, esc.crc, FALSE)
  /\ QuietAgain
  /\ UNCHANGED <<flash, image, phase, index, readSize>>

\* The word is in the flash or refused, the register is written now.
WriteDone ==
  /\ phase = "run" /\ result # "none" /\ result' = "none"
  /\ Done(esc.data, esc.crc, result = "refused")
  /\ QuietAgain
  /\ UNCHANGED <<flash, image, phase, index, readSize>>

\* 4 bytes: pAPPL_EEPROM_Reload.  A wrong checksum and a word that cannot be
\* read are reported alike, and 0x502.11 is left as it is.
ReloadCommand ==
  /\ Pending("reload") /\ readSize = 4
  /\ IF ValidConfig(flash)
     THEN Done(ReloadAnswer(flash), FALSE, FALSE)
     ELSE Done(esc.data, esc.crc, TRUE)
  /\ QuietAgain
  /\ UNCHANGED <<flash, image, phase, index, result, readSize>>

\* 8 bytes: one turn of the loop, which hands over a segment and goes on while
\* the controller asks for the next one of the configuration area.
ReloadSegment ==
  /\ Pending("reload") /\ readSize = 8
  /\ IF ReadOk(esc.addr)
     THEN \E d \in Answers :
            IF esc.addr + 4 < ConfigSize
            THEN esc' = [esc EXCEPT !.addr = @ + 4, !.data = d,
                                    !.crc = FALSE, !.ack = FALSE]
            ELSE Done(d, FALSE, FALSE)
     ELSE Done(esc.data, esc.crc, TRUE)
  /\ QuietAgain
  /\ UNCHANGED <<flash, image, phase, index, result, readSize>>

\* Mutant of OtherCommand: the default branch returns before the register is
\* written back.
OtherCommandReturns ==
  /\ Pending("other") /\ QuietAgain
  /\ UNCHANGED <<flash, image, phase, index, esc, result, readSize>>

OtherCommand ==
  /\ Pending("other")
  /\ Done(esc.data, esc.crc, TRUE) /\ QuietAgain
  /\ UNCHANGED <<flash, image, phase, index, result, readSize>>

Handler == \/ ReadCommand \/ WriteCommand \/ WriteDone
           \/ ReloadCommand \/ ReloadSegment \/ OtherCommand

\* ECAT_CheckTimer, between two commands; the store call does nothing.
StoreTimer ==
  /\ phase = "run" /\ result = "none" /\ store.value > 0
  /\ store' = IF store.value <= store.counter + 1 THEN StoreAtReset
              ELSE [store EXCEPT !.counter = @ + 1]
  /\ UNCHANGED <<flash, image, phase, index, esc, result, readSize>>

(***************************************************************************)
(* The master and the supply.                                              *)
(***************************************************************************)
\* A command is given when the one before is over.
MasterCommand ==
  /\ phase = "run" /\ ~esc.busy
  /\ \/ \E a \in 0 .. Blocks :
          \/ esc' = [esc EXCEPT !.busy = TRUE, !.cmd = "read", !.addr = a,
                                !.data = NoAnswer]
          \/ \E v \in MasterValues :
               esc' = [esc EXCEPT !.busy = TRUE, !.cmd = "write", !.addr = a,
                                  !.data = <<v, Blank>>]
     \/ \E c \in {"reload", "other"} :
          esc' = [esc EXCEPT !.busy = TRUE, !.cmd = c, !.addr = 0,
                             !.data = NoAnswer]
  /\ UNCHANGED <<flash, image, phase, index, result, readSize, store>>

\* The supply fails, or the master resets the controller and with it the
\* processor (ecat_reset_isr): all but the flash is lost.
PowerLoss ==
  /\ phase # "off" /\ phase' = "off"
  /\ index' = 0 /\ esc' = EscAtPowerOn /\ result' = "none"
  /\ store' = StoreAtReset
  /\ UNCHANGED <<flash, image, readSize>>

Start == \/ ContentsRefused \/ IdentityUnreadable \/ ContentsKept
         \/ WriteDefault \/ FillWord \/ StartFails \/ ReloadResponse

Next == PowerOn \/ Start \/ Handler \/ StoreTimer \/ MasterCommand \/ PowerLoss

Spec == Init /\ [][Next]_vars

\* The task goes on while it has something to do.
Fairness == WF_vars(Start) /\ WF_vars(Handler)

FairSpec == Spec /\ Fairness

(***************************************************************************)
(* Properties.                                                             *)
(***************************************************************************)
TypeOK ==
  /\ flash \in [0 .. Blocks - 1 -> Values \cup {Unwritten}]
  /\ image \in Images /\ phase \in Phases /\ index \in 0 .. Size - 1
  /\ esc \in Registers /\ result \in {"none", "stored", "refused"}
  /\ readSize \in {4, 8}
  /\ store \in [value : {0, StoreTime}, counter : Nat]

\* UpdateEEPROMLoadedState: INIT is left for PREOP only when this holds.
EepromLoaded == ~esc.crc

\* The command the master waits for.  In the segments of a reload the
\* controller moves the address.
Request ==
  IF phase = "run" /\ esc.busy
  THEN [op |-> esc.cmd,
        addr |-> IF esc.cmd \in {"read", "write"} THEN esc.addr ELSE 0,
        value |-> IF esc.cmd = "write" THEN esc.data[1] ELSE Blank]
  ELSE NoRequest

Reply ==
  IF phase = "run" /\ ~esc.busy THEN [ok |-> ~esc.ack, data |-> esc.data]
  ELSE NoReply

\* To the master the EEPROM is a memory: once the slave is up the contents fit
\* the firmware in configuration, product code and revision and change by the
\* writes of the master alone, a write acknowledged is stored and outlives a
\* loss of power, and a read answers what is stored.  Contents refused at the
\* start are replaced from the first word to the last unless the supply fails
\* or the flash refuses a word meanwhile; a replacement cut short behind the
\* revision is kept as it is by the next start (Interrupt of SiiMemory).
Memory == INSTANCE SiiMemory WITH
  mem <- flash, serving <- phase = "run", loaded <- phase = "run" /\ EepromLoaded,
  restoring <- phase = "defaults", request <- Request, reply <- Reply
ImplementsSiiMemory == Memory!Spec

\* Every command ends unless the supply fails, a reload of several segments
\* included.
CommandsEnd == phase = "run" /\ esc.busy ~> phase # "run" \/ ~esc.busy

\* hpm_ecat_e2p_emulation.c:136, ecat_config.h:37: contents whose product code
\* does not match are updated from the program, so that only a flash that
\* refuses words keeps the slave from starting.
FailsOnlyOnFault == phase = "failed" => WriteFails
=============================================================================
