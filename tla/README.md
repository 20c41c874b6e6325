# Verification of the EtherCAT charger firmware

The repository is the firmware of an EtherCAT slave (HPM5E31, FreeRTOS) that
drives a battery charger: an EtherCAT master writes a *control word*, the
firmware turns its bits into Modbus coil writes to the charger board, reads the
board's status and parameters and reports them to the master. This directory
holds TLA+ models of that firmware, TLC configurations that check them and TLAPS
proofs about them.

## 1. Inventory

### Tasks, interrupts, shared state

| Actor | Code | Priority | State it owns |
|---|---|---|---|
| ecat task | `user_app/src/main.c` (`ecat_task`), `ecat_slave_poll` -> `MainLoop` every 2 ms | MAX-2 | AL state, mailbox, FoE, SDO, EEPROM |
| ESC interrupts | `PDI_Isr`, `Sync0_Isr`, `Sync1_Isr` (`ecatappl.c`), `hpm_ecat_hw.c` | above all tasks | outputs, inputs, DC counters |
| shell task | `shell_commands.c` | MAX-4 | none; writes `s_rxpdo`, reads diagnostics |
| Modbus task | `modbus_master_app.c`, every 10 ms | MAX-5 | coil bookkeeping, serial line |
| status, OLED tasks | `main.c`, `oled.c` | MAX-6, MAX-7 | display only |
| boot loader | `bootuser/src/boot_user.c` | alone, before the rest | none |

`charger_app.c` holds the two structures the tasks share, `s_rxpdo` (control word) and
`s_txpdo` (feedback), each copied in a critical section.

### Components, operations, what makes them correct

* **Modbus master** (`modbus_master_app.c`). State: the task state, the pending
  mask, the applied control word, the active coil, `s_tx_busy`, what was
  received. Operations: choose a changed bit, write its coil, wait for the end of
  the transmission and for the echo, read status, read parameters, publish.
  Correct when a bit that is not pending has on the board the position the
  firmware believes; when feedback is published only of a settled board; when
  the coils converge to the control word and polling never stops. Hard: answers lost, late,
  damaged, in two parts, a word that changes at any time, a board that refuses.
* **EtherCAT state machine** (`ecatslv.c`). State: `nAlStatus`, the pending
  transition and its timeout, what runs (mailbox, inputs, outputs), the
  synchronisation. Operations: `AL_ControlInd`, `AL_ControlRes`,
  `ECAT_CheckTimer`, `CheckIfEcatError`. Correct when what runs is what the state
  allows, no transition waits for ever, errors stay until acknowledged and the
  status shown to the master is the truth. Hard: interrupts between any two steps,
  `AL_ControlInd` called from four places, one of them while a transition is pending.
* **Process data path** (`ecatappl.c`, `ethercat_charger.c`). Outputs go from the
  sync manager to `ChargerRxPDO0x7000` to `s_rxpdo`, by the output interrupt, by
  Sync0 or by polling. Correct when what the master wrote arrives.
* **Mailbox** (`mailbox.c`). Two queues, the buffer being sent, the one kept for a
  repeat and the one displaced by a repeat. Correct when each buffer has one
  owner and is freed once, and requests are answered once and in order.
* **SDO server** (`sdoserv.c`). State: one transfer in segments, its object and
  access, its service, the bytes done, the toggle bit, the buffer on the heap; of a list
  of objects the place in it and the fragments left. Operations: initiate an upload or
  a download, a segment of either, a list of objects or its next fragment, a
  description, stop. Correct when an upload is one copy of the object, a list names
  each object once, a download is written whole or not at all, nothing a transfer left behind disturbs the next, and no buffer is
  lost. Hard: transfers given up anywhere, requests made twice, allocations that
  fail, the state and the object changing between first and last segment.
* **Object dictionary** (`objdef.c`, `coeappl.c`, `ethercat_chargerObjects.h`).
  The objects, their layout, access rights and names, the list that links them,
  `OBJ_Read` and `OBJ_Write`. Correct when every entry is read from and written to its
  place, and the list is in the order of the indexes.
* **FoE and firmware update** (`ecatfoe.c`, `foeappl.c`, `hpm_ecat_foe.c`,
  `ecat_foe_support.c`). Block transfer with packet numbers; the blocks go to the
  OTA library, which is not in the repository.
* **Receive ring** (`modbus_uart_available`, `_receive`, `_flush`,
  `modbus_master_get_diag`). State: where the DMA is, `front_index`, `rear_index`, the
  bytes. Correct when bytes are taken in order, none twice and none left out. Hard:
  the indices fold at the end of the ring, and the shell, of higher priority, moves
  `rear_index` between any two steps of the Modbus task.
* **EEPROM emulation** (`hpm_ecat_e2p_emulation.c`, `hpm_ecat_hw.c`,
  `EEPROM_CommandHandler`). State: the words in flash, the registers of the controller,
  the store timer. Operations: check, write the defaults, fill, answer the controller
  before the main loop, read, write, reload. Correct when the slave comes up with
  readable contents of which configuration, product code and revision fit its firmware, replaces
  what does not fit from the first word to the last, and an acknowledged write lasts. Hard: power lost
  at any word of a loop, words the flash refuses, words never written, which cannot be read.
* **Boot selection** (`boot_user.c`). Which of two images to start.
* **Shell, log, OLED, board, PHY**: no protocol of their own; not modelled
  beyond the shell as a writer of the control word.

The hazards of this code, each at its line and with the property that watches it,
are listed in `PROJECT.json`.

## 2. Plan

Most important behaviour first; each line is a set of modules that stands alone.

1. **Modbus master** — `ModbusMaster`, abstract `CoilSync`, proofs. *Done.*
2. **EtherCAT state machine and process data path** — `EcatStateMachine`,
   abstract `AlStatus`, proofs. *Done.*
3. **Mailbox** — `Mailbox`, abstract `ReliableMailbox`, proofs of who owns the buffers,
   that no waiting service is forgotten, that no answer is given up, of the refinement,
   and that a request is served once. *Done.*
4. **FoE and the update, boot selection** — `FirmwareUpdate` over `BootUser`,
   abstract `AtomicUpdate`, proofs of the safety properties. *Done.*
5. **SDO server and object dictionary** — `SdoServer` over `ObjectDictionary`.
   *Done;* SDO information is in `SdoInformation`. Proofs of the balance of the buffers,
   the count of fragments, the types, and what downloads, uploads and lists transfer.
6. **EEPROM emulation** — `EepromEmulation` over `EepromContents`, abstract
   `SiiMemory`, proofs. *Done.*
7. **Timing of the ESM** — the same timeouts with the 2 ms poll of `main.c` and
   one call of `ECAT_CheckTimer` per poll.
8. **Receive ring of the UART** — `ReceiveRing`, proofs. *Done.*
9. **Log and shell paths** — the lost update of the control word, `s_shell_ready`.

Theorems: for each component its type invariant and the safety invariants the
runs check, from one inductive invariant per module, and the refinement of its
abstract specification; action properties from the same invariant.

## 3. Modules

| Module | Models | Kind |
|---|---|---|
| `ModbusMaster` | `modbus_master_app.c`, `s_rxpdo`/`s_txpdo` of `charger_app.c`; line and board external | detailed |
| `CoilSync` | what the Modbus side promises about the coils | abstract |
| `ModbusMasterProofs` | theorems about `ModbusMaster` | proofs |
| `EcatStateMachine` | `ecatslv.c`, `ecatappl.c`, `ethercat_charger.c`; master external | detailed |
| `AlStatus` | what the AL status promises the master | abstract |
| `EcatStateMachineProofs` | theorems about `EcatStateMachine` | proofs |
| `Mailbox` | `mailbox.c`, the mailbox part of `ECAT_Main`, how `sdoserv.c`, `ecatcoe.c`, `ecatfoe.c` send; master external | detailed |
| `ReliableMailbox` | what the mailbox promises about answers | abstract |
| `MailboxProofs` | theorems about `Mailbox`: owners of the buffers, waiting services | proofs |
| `MailboxOrderProofs` | theorems about `Mailbox`: answers once and in order, no overflow, requests served once; extends `MailboxProofs` | proofs |
| `BootUser` | `bootuser/src/boot_user.c`: which image is started | pure |
| `FirmwareUpdate` | `ecatfoe.c`, `foeappl.c`, `hpm_ecat_foe.c`, `ecat_foe_support.c`; OTA library and master external; extends `BootUser` | detailed |
| `AtomicUpdate` | what an update promises: a whole package to start, never an older one | abstract |
| `FirmwareUpdateProofs` | theorems about `BootUser` and `FirmwareUpdate` | proofs |
| `ObjectDictionary` | `objdef.c`, the tables of `coeappl.c` and `ethercat_chargerObjects.h` | pure |
| `SdoInformation` | the linking of the objects in `coeappl.c`, lists and descriptions in `objdef.c`, the count of fragments in `sdoserv.c`; extends `ObjectDictionary` | pure |
| `SdoServer` | `sdoserv.c`; master and application external; extends `SdoInformation` | detailed |
| `SdoServerProofs` | theorems about `SdoServer` and `SdoInformation` | proofs |
| `EepromContents` | what the EEPROM holds and when it fits a firmware (`ecat_flash_eeprom_check_configuration_area`, the comparison of the identity) | pure |
| `EepromEmulation` | `hpm_ecat_e2p_emulation.c`, the EEPROM part of `hpm_ecat_hw.c`, `EEPROM_CommandHandler`; e2p library, controller, master and supply external | detailed |
| `EepromChecksum` | `ecat_calculate_eeprom_config_data_checksum` | pure |
| `SiiMemory` | what an EEPROM promises its master | abstract |
| `EepromEmulationProofs` | theorems about `EepromEmulation` | proofs |
| `ReceiveRing` | `modbus_uart_available`, `_receive`, `_flush`, `modbus_master_get_diag`; DMA and line external | detailed |
| `ReceiveRingProofs` | theorems about `ReceiveRing` | proofs |
| `MC...` | values of constants for TLC | |

The modules meet at shared names: `rxpdo` is the variable the process data path
writes and the Modbus task reads; the mailbox is started and stopped by the
transitions of the state machine, of which `Mailbox` keeps only that; `ModbusMaster`
takes what came from a line that keeps its order, which is what `ReceiveRing` shows of the
ring; `EepromLoaded` is the condition on which the state machine leaves INIT (`Check`).

**ModbusMaster.** One turn of the task's 10 ms loop is one action, named by the
state of the switch (`phase` says which exchange, `at` how far it is). Where the
code reads shared state twice in one turn the turn is two actions: `Refresh`
reads `s_rxpdo` for the pending mask, `SelectAndSend` reads it again for the
value; `Receive` sees the bytes, `CheckIdle` looks whether more came. Words of
bits are sets of bits; times are counted in turns. The board executes a request
when it likes, and its reply comes whole, late, in two parts, damaged or not at
all (`MaxFaults`); the requested word changes at any time (`MaxUpdates`).

**EcatStateMachine.** One turn of `MainLoop` is the cycle of steps named by `pc`:
application, timer, reading of events, control request, sync manager event,
pending transition, mailbox configuration, watchdog. `PDI_Isr` and `Sync0_Isr`
are actions that may fall between any two steps. `slave` holds the variables of
the stack; handlers are operators from `slave` to `slave`, called by each other as
in the code. `PublishStatus` (the register write at the end of `SetALStatus`) is a
step of its own, so that interrupts fall between the change of a state and its
publication. Status codes and the detail of the sync manager checks are left out.

**Mailbox.** `box` holds the variables of `mailbox.c`, of the services that send,
and the two sync managers. One poll is the cycle `main` (`MBX_Main`: requests
served one by one, then the locked one), `status` (SM1 read once), `control` (a
transition may stop or start the mailbox), `read`, `repeat`, `write`. The master
writes and reads between any two. Buffers are pointers; an answer is numbered
when its counter is put in, which is the only content the properties look at,
with the part of an object list it carries. A write or a read may be lost on the
way or on the way back; the master repeats a write with the same counter, and
toggles the repeat bit for a read.

**BootUser, FirmwareUpdate.** `SelectJumpApp` is a function of the two images in
flash; an image is the sequence of chunks written to it so far, each with the file
and the packet it comes from, so that a half-written or mixed image is told from a
whole one. The hash is ideal: it is right exactly for the whole package. An image
whose header enables no hash is started by its header alone. `foe` holds the
variables of `ecatfoe.c` and of the callbacks; one served request, answer and state
change included, is one action (`ServiceInd` in `Poll`). `Handled` is the
service before its answer, `Left` and `Reply` the state and the answer by what the
service ended in. The mailbox is what `ReliableMailbox` promises: nothing lost, no
order changed, until it is stopped. The OTA library keeps a position of its own;
whether it recognises the header of a new download in the middle of an aborted one
is not known, so both happen (`fresh`). The master downloads and uploads by the
protocol, and may give up, send services out of turn, begin while
answers are under way, or leave Bootstrap in the middle; the flash may fail and the
supply go (`MaxFaults` of these in all). Left out: busy answers, which no callback
gives; services too short for their header; the texts of errors; the push button,
which is not built in.

**ObjectDictionary, SdoInformation, SdoServer.** The tables of the dictionary are kept as they are,
names aside, and so is the way `OBJ_Read` and `OBJ_Write` move through an object, word by word;
a byte is represented by the entry it belongs to and the value that entry had, so
that a byte in the wrong place or of another moment is told from a right one. `sdo`
holds the variables of `sdoserv.c`; one served request with its answer is one action,
of the names `RefuseInitiate`, `UploadAtOnce`, ..., `RefuseCommand`, and `SendList`, `Describe`.
`info` holds the variables of a list that is being sent: as long as fragments follow, `ContinueInd`
sends one whenever the last has been read, and no request is served. A list is what
`COE_AddObjectToDic` makes of the two tables; of a name only the length is kept. `heap` counts the buffers:
`Held` of them go wherever the code calls `FREEMEM`. The interrupts change the entries
they count in, between two requests (`Tick`) and between two words of a copy, since `OBJ_Read`
leaves them enabled: `Cuts` says behind how many words each interrupt comes, `Copied` what
becomes of the data. The layout of a transfer that the master expects (`Image`) is
written down independently of how `OBJ_Read` walks: entries follow each other, entry 0
takes two bytes. The master keeps to the protocol, but gives up, with or without an abort,
asks again, changes the state in the middle and stops the mailbox, in the middle of a list
too (`MaxFaults` of these and of allocations that fail, in all); `rest` remembers where a list
was broken off when the next job begins. Left out: `0x10F8`, which has a read function
of its own (it is listed, though); answers given later by the application (`bSdoInWork`), which no object
asks for; requests whose length contradicts the mailbox, and a number
of entries beyond the object's in a complete download.

**EepromEmulation.** A word of a loop is a step, so that power may fail between any two. The
start is `phase`: the check, the defaults, the fill, the answer to the controller's first
request, then the main loop, or the end of the task. A word is a value or `Unwritten`, which
the e2p library cannot read; it writes a word whole or not at all (external). `ValidAreas` are the
configuration areas with a right checksum; `EepromChecksum` computes it, and the instance for
TLC checks that its areas are those, and that the checksum of the words in `eeprom.h` is the
one stored there. Product code and revision are a word each. A write is two steps, the flash
and the register, the others are one. A read of 8 bytes shifts an `int` by 32 bits
and more (`hpm_ecat_hw.c:402`), so what it returns is arbitrary. After a power loss the boot loader
may have chosen another image, with other defaults. Left out: a program without contents,
`ecat_flash_eeprom_format` (called by nobody), the branches for a missing callback.

**ReceiveRing.** Bytes are numbered as they arrive. `modbus_uart_available` is four steps:
the DMA is read, `rear_index` stored, the indices compared, the result computed from
indices read again; the shell's call, in a critical section, is one (`GetDiag`). The
copying of the bytes is one step, since only the DMA could change them, and fewer than `Size`
bytes arrive between two looks (a poll is 10 ms, in which 115200 baud bring 115 bytes of
the 256) while an answer is awaited; with no answer awaited any number may. The DMA's moment
between the two descriptors is not visible. `torn` marks what a call of the shell in the one harmful
place leaves behind, see Findings.

## 4. Runs

Names are those of `PROJECT.json`.

| Run | Shows | Bounds |
|---|---|---|
| `modbus_safety` | A coil taken for confirmed is on the board in that position; feedback is published only of a settled board, both halves of the same; `CoilSync` is implemented. | 2 coils and a reserved bit, timeout and poll of one turn, 2 faults, 2 changes of the word, transmitter may stall, coil 0 refused while coil 1 is off |
| `modbus_liveness` | With a transmitter that never stalls and a board that refuses nothing, the coils converge to the word and the parameters are read for ever, whatever replies are lost. | as above, without stall and refusal |
| `esm_safety` | If the master sets the acknowledge bit for an error only, what runs follows the state; a pending transition is timed; errors await their acknowledge; `AlStatus` is implemented. | every mode, every configuration, timeout 2, PLL 2 |
| `esm_liveness` | Pending transitions end; outputs received while the update runs reach `s_rxpdo` in every mode. | every mode, SM0 and SM1 set up as they must be, 2 words, timeout 1, PLL 1 |
| `esm_safe_state` (violation) | The last control word outlives OP. | 2 words |
| `mailbox_safety` | Every buffer has one owner; queues never overflow; a waiting service is driven; requests are served once; answers arrive once and in order. | 3 requests of 7 kinds, 2 losses, 1 stop, 6 buffers, queue of 4 places, counters 1..3, lists of 2 fragments, pipelined in PREOP, one by one in BOOT |
| `mailbox_liveness` | Every answer arrives, every request is taken, if no allocation fails. | 3 requests, lists of 3 fragments, 1 loss |
| `firmware_update` | Packet numbers and offsets agree; an upload is whole; an acknowledged download is installed, unless a longer one was aborted before and the library took it for the rest of that; there is always a whole package to start, never an older one (`AtomicUpdate`); a master that tries again has its package installed in the end. | packages of 3, 3 and 6 units, blocks of 2, read blocks of 3, at most 6 units a file, 2 faults |
| `sdo_transfers` | An upload is one copy of the object, in which later words may show the interrupts that came meanwhile and nothing else does; a list of objects names each once and in order, from the place where a stop broke off the list before, if it did; a download is written whole or not at all and stays; buffers balance; without a fault a request fails exactly if the dictionary forbids it; every job ends. | 18 jobs: 12 kinds of transfers of `0x1C32` and `0x1008`, lists of types 0, 1, 3 and 6, 2 descriptions; mailboxes of 36 and 42 bytes, 3 jobs, 2 faults, 1 interrupt, at any word of a copy or between |
| `eeprom_memory` | The slave comes up with readable contents of which configuration, product code and revision fit the firmware; what does not fit is replaced from the first word on, to the last one unless power is lost behind the revision; then the EEPROM is a memory, changed by the acknowledged writes of the master only (`SiiMemory`); every command ends. | 5 words of 3 values, the configuration 2 of them, 6 blocks, 3 firmware images, 2 values written, reads of 4 and 8 bytes, store timer of 2, the flash may refuse any word, power lost at any step |
| `eeprom_start` (violation) | Power lost once: the slave never starts again. | the same, the flash refuses nothing |
| `receive_ring` | Bytes are taken in order, without a gap; the line is quiet only when it was. | ring of 4, 12 bytes, shell at any step |

Why the bounds are enough. Coils interact only through the pending mask and the
single active coil, so two show every order and a third bit shows the mask.
Timeouts count down and are compared with zero; two values make "not yet" and
"now" distinct. Three mailbox requests are enough for one answer in SM1, one in the
queue and one request locked out, two losses for a repeat of a repeat; counters
1..3 wrap around within a run; a queue of 4 places is *smaller* than the 10 of
`mailbox.h` and never fills. Of the packages one ends in a partly full packet and one
in an empty packet, which are the two ends a transfer can have; two of them can be
downloaded, one longer than the other, so that each follows what an abort of the other left: the
longer one in the middle is what a library that ignores a header goes on with. The two faults
allow an abort in an abort. Of the SDO server the mailbox to the slave is as small as
it may be (36 bytes), so that the 61 bytes of `0x1C32` by complete access need three pieces
to be downloaded; with 42 bytes from the slave they need three to be uploaded, and the 59
bytes without entry 0 end with a segment that exactly fills the mailbox, after which an
empty one must follow; the list of the 18 objects needs a second fragment. The count of fragments
is compared with the pieces `GetObjectList` gives for every size a mailbox may have (36 to
268 bytes) with this dictionary, and for dictionaries of up to 100 objects with the even sizes, by
assumptions of `MCSdoServer` that TLC evaluates; so is what is sent of a name. Three transfers are enough for one that is left behind, one that
replaces it and one that meets what both left. A list of type 3 has other objects than one of type 1,
which tells what a list has that begins where one of another type was broken off. Of the EEPROM, a configuration of one word and
its checksum, two identity words and one of the categories are every part the start tells apart;
a sixth block is outside the contents but inside the library. Of the three images one
is newer and one another product. The line goes round the ring of four three times, and its
front may run away to twice the ring. The counts (`MaxFaults`, `MaxUpdates`,
`MaxRequests`, `MaxLosses`, `MaxStops`, `MaxTransfers`, `MaxTicks`)
bound the environment only, never the code.

## 5. Fairness

* Modbus: `WF(Task)` (FreeRTOS runs the task every 10 ms), `WF(TxComplete)` (a
  transmit DMA drains), `WF` of the board ending what it began. Nothing forces a
  reply to be good, and a word need not stay.
* State machine: `WF(Task)` (`MainLoop` is called for ever), `WF(PdiIsr)` (a
  pending interrupt is taken), `SF(TimerTick)`: `MainLoop` looks at the clock once a
  turn, and 1 ms passes again and again, though perhaps not in a given turn.
  Nothing is assumed of the master or of Sync0.
* Mailbox: `WF(Task)`, and for the liveness run of a master that reads what it
  is sent and asks again for what it lost. Nothing forces it to write.
* Update: `WF(Poll)` (the ecat task polls for ever), `WF(TakeAnswer)` and
  `WF(EnterBoot)`, `SF(StartDownload(f))`: a master that takes its answers, comes back
  to Bootstrap and tries each package again and again. Faults are bounded, so in the end
  it is left alone.
* SDO: `RequestsServed`, which is weak fairness of `SdoInd \/ SdoInfoInd` with its `ENABLED`
  written out (`Waiting`: the mailbox is served in every poll), and `WF(TakeAnswer)`; the master
  need not start anything, and `TransfersEnd` does not rely on its giving up.
* EEPROM: `WF(Start)` and `WF(Handler)`: the task goes on with its loops and its commands.
  `CommandsEnd` holds whatever the master, the timer and the supply do.

## 6. Proofs

All theorems hold for every value of the constants that the named assumptions
of the modules allow. Each rests on one inductive invariant.

**ModbusMaster.** `TypeCorrect` needs nothing more. `AppliedCorrect`,
`PublishedCorrect` and `Refinement` assume `EchoChecked`: the library compares the
echo of a coil write with the request (it is not in the repository; without the
check a late answer to an older write would confirm a newer one).
`AppliedIsOnBoard` is not inductive: the answer that confirms a write may be in the
board, on the line, in the ring or in the read buffer, so the invariant says of
each of these places that a good answer to the active write found there implies
that the coil has the written position. Publication needs in addition that the status
sample kept since the last exchange is of the coils as they still are.

**EcatStateMachine.** Theorems assume `~AckFreely`: the master sets the acknowledge
bit for an error only (without it there is a counterexample, see Findings).
`IInv == TypeOK /\ Sound(slave) /\ Shown(slave, reg)`: what runs fits the state and
the pending transition, and the register shows either the present state or,
while a publication is due, one that may precede it. The handlers being operators,
lemmas follow the calls: stops and starts (`StopFields`, ...), `Transition`
(`Outcome`), `Settle`, `AL_ControlInd`; `Effect` sums up a step, one lemma
shows that every action has it, and invariance and refinement follow from it.

**FirmwareUpdate.** The theorems assume `Files \subseteq Hashed`: every package
is packed with a hash (the packing tool is not in the repository; a package without
one is started by its header alone). `BootSafe` is about `SelectJumpApp` alone: with a whole
package in one slot and anything in the other, what is started is whole and not
older. `IInv == TypeOK /\ InStep /\ RunsWhole`: `TypeOK` is not inductive, for after a
restart there must be a slot to start, and there is since the slot that runs holds a
whole package that no update writes to (`RunsWhole`). For `InStep` the outcome
of each service is shown to be `Good` (its offsets fit the packet number the answer
will carry), and what `Left` makes of a good outcome is in step. `AtomicUpdate`
is then implemented: a served request changes the other slot only, which `BootSafe`
maps to `Replace` or a stutter, and a restart runs what the boot loader chose.

`UploadsAreWhole` rests on `UploadInv`: the file being read has the length of the application
(`ReadsOn`), every data answer under way carries the piece its number says (`AllCarry`), and the
master has the pieces below the next number, all full but the last (`Uploads`); an answer of an
earlier transfer still under way carries the same piece, since an upload changes nothing.
`FinishedInstalled` is about packages of any lengths. It assumes nothing of the library, which is
external: the model lets it take the header of a package as such, or as more of what came before. An
acknowledged download is then either whole in the slot, or the library waits for the rest of a longer
package (`TakenForMore`), which the code does not prevent (see Findings). `RecognisedInstalled` says that it is
always whole if the library recognises headers (`HeaderRecognised`), so that this is all that is missing.
`InstallInv` says that the slot and the position of the library are those of the first
`packetNo - 1` packets of one file (`Begun`), and that the data requests under way are packets of
the file of the transfer they belong to, as far as the next request to write (`Owes`). That file is
in no variable of the code, so the invariant has a quantifier over the assignment of requests to
files. That the packet which completes the image is the last one is arithmetic: the lemmas relate the
number of packets, the bytes in them and the position of the library.

**EepromEmulation.** `IInv == TypeOK /\ AtRest /\ Progress /\ UnderWay /\ EepromLoaded`.
What a restart must find is in `Progress`: in the loop of the defaults, the words below `index` are
the image's; in the fill, they are readable and the contents fit; behind it, both hold
of all words. From `UnderWay` comes that a write in the flash is the one the master
waits for. Each step is then shown to be one of `SiiMemory` or a stutter, a default or a
filled word each its own, and the only way out of
`restoring` that is not the last word is a loss of power in `defaults`: behind the revision the
slave may come up with what is there (`Interrupt` of `SiiMemory`), before it the loop starts again or,
if the next word cannot be read, the start fails.

**ReceiveRing.** `IInv` says which byte each cell of the ring holds (`Content`), that the
front is as far behind the DMA as there are bytes not taken (`Front`), where the DMA
was when a call read it (`Looked`), and that what a call found in its comparison is still true
when it computes its result, unless torn (`Compared`): the shell may move `rear_index`
between the two, but only on, and if that folds it the call is torn. The position
modulo `Size` is written without division, by `Behind`, so that the solver has only linear facts.

**Mailbox.** The theorems assume `HeapSuffices`: there are two buffers at least, an
allocation succeeds while one is free, and a queue has room for two; the
second condition is needed (see Findings). `BuffersOwned` is about executions in which no answer is
given up, and so is `ServicesDriven`; `BuffersOwnedInPreop` shows that without BOOT none is. `IInv` says of the box that
the pointers `psReadMbx`, `psRepeatMbx` and `psStoreMbx` coincide only where the code means them
to (`Fit`), that the heap is the disjoint union of what they, the queues and `pCoeSendStored`
hold (`Own`), and that a request was taken only while nothing waited to be sent, so that the one or
two of a poll find room for their answers (`Turns`), and that a service is noted as waiting only
while an answer waits in SM1, which is `ServicesDriven` (`Driven`; with two buffers, the one
a list goes on with is free when all answers have been read). Every function of `mailbox.c` keeps `Fit` and
`Own`, with the buffer it was handed as a further owner (`X`), so the lemmas follow the calls. A
box has 27 fields; a lemma names those a function changes (`Alike`), and the other fields
are read off with `AlikeFields`.

`MailboxOrderProofs` builds three invariants on it, each on the one before.
`OrderInv` says where the answers `got + 1 .. sent` lie and with which counters: in SM1 or in
`psReadMbx`, then in `psStoreMbx`, then in the queue, in this order (`Line`, `Serials`); how this fits
what the master has got, whether its read was noticed, lost or asked for once more (`Link`); and
what the poll saw before it acts on it (`Sees`). It is enough for `AnswersInOrder`: a repeated read
sends the same answer with the same counter and the displaced one next, in any queue, as long as no
answer is given up. `AmpleInv` adds that none ever is, under `QueueSuffices`: the queue holds the fragments of
a list and two answers beside them, and in BOOT the master waits for the answer before it asks again. The firmware
has 10 places and its lists two fragments (`Fragments` counts those that follow the first); without
the second condition, and for longer lists, there are counterexamples (see Findings). What
must be known is that queue and fragments to come together stay below the bound (`Fill`: a
list goes on only when its last fragment was read, and no request is served meanwhile) and that
in BOOT a request that will be served finds nothing else (`Alone`); a request that repeats the last one
is told apart by its counter, so `Alone` looks at the counters of master and slave. What
`BuffersOwned`, `ServicesDriven` and `AnswersInOrder` show of executions without a dropped answer
thereby holds of all (`OwnedAndDriven`, `ReliableMailboxImplemented`).
`OnceInv` says that a request taken before has its counter in `u8MbxWriteCounter` (`Once`) and how
far the master's counter is ahead of that one (`Gap`). `CountersTellRequestsApart` holds while
this distance is less than `Counters`; it stays so if all requests have different counters or if the
master can lose two fewer than there are counters and no request is too long (`CountersSuffice`, with
`Lost`: what was not taken was lost or is in SM0). Beyond it there is a counterexample (see Findings).

**SdoServer.** `BuffersBalance` shows that whatever the master does, with any
dictionary job, every path through the server gives back each buffer it took or counts it as taken by
an answer. The invariant needs that a buffer kept for a segmented transfer has a byte and that the
lengths requests announce are numbers, since the branches of the server compare these. What
a job's length is comes from the object dictionary, whose `BitsBefore` is recursive; the
closed fact that every length is a number is an assumption (`LengthAssumption`) that TLC evaluates.
Beside it there are a few more closed facts of this kind, which TLC evaluates with every run:
the server and the master agree where each entry of every access lies (`AccessAssumption`),
what is left of a list is the end of the whole of it (`PlacesAssumption`), the whole has
the objects that belong to it, in order (`MembersAssumption`), a list of another type than all objects
is short (`ShortAssumption`), entries are readable always or
never (`EntryAssumption`), the master writes none that the interrupts change (`LiveAssumption`),
lengths of names are numbers (`NamesAssumption`). Such facts are all that the proofs know of what
recursion computes over the dictionary; the jobs, the sizes of the mailboxes and the bounds stay arbitrary.

`TypeCorrect` rests on `TypeInv`: that the fragments left of a list and the buffers they hold
run to zero and not below. `DownloadsWriteWhole` and `DownloadsAreStored`
rest on `DInv`, which says of a download under way that the buffer holds the beginning
of what the present job sends. This is not inductive: a master that asks again leaves copies of
its request in the mailbox, and an old initiate that is served late begins the transfer anew
while the master goes on. The invariant orders the requests that wait (`Queued`): those that begin
the transfer come before all segments, and of the segments those of the piece before come
first. It says what the server has got (`Keeps`): the present segment is either due (`Due`: the toggle bit is the one the server waits for, and
it has handled just what was sent before) or handled already, and then it is refused. Then each
write of the dictionary is of the whole of the present job's data, or of nothing.
Both assume `SentWhole`, that the master sends as many bytes as the entry has (see Findings).

`UploadsAndListsAreWhole` and `LegalSucceeds` are about a job without a fault, of which one request waits or
one answer, never both, and neither only between two fragments of a list. `UploadInv`, `ListInv`, `DescribeInv` and `DownloadInv` say for
each kind of job what that one is: of an upload that the server's buffer is a copy of what the
object was at one moment of the job, with the interrupts that came meanwhile where the copy was cut, and the
master holds the beginning of it up to where the server reads; of a list that the objects the
master has and those left from `info`'s place on are the list from where the one before was broken off
(`Begin`), and that the fragments still to come have room for these; a list that was broken off has
at most one fragment left (`FewLeft`, `LeftFits`), in which what remains of any list there has room. The first theorem
assumes nothing beyond the assumptions of the modules; the second assumes `SentWhole` and
needs that the synchronization types that are set exist (`TypesValid`), for a complete access
is refused in the middle otherwise.

`FragmentsSuffice` is about the arithmetic of `SDOS_SdoInfoInd` alone: for a mailbox of
even size and a list of any length, the fragments announced are as many as the list needs,
neither more nor less.

**Only model-checked.** Every liveness property (out of reach of the prover). Every other
property that a passing run checks is stated by a theorem whose hypotheses are those of the
run's constants.

## 7. Findings

What a comment or a document of the repository says and the code does not do.
`PROJECT.json` quotes these, each with the run whose counterexample shows it:

* the outputs after OP (`esm_safe_state`);
* a first start interrupted between the configuration area and the product code, after which
  the slave never starts again (`eeprom_start`).

More are instances of the same modules that have no run of their own:

* `PollsForEver` of `ModbusMaster` fails with `TxMayStall = TRUE`: after a transmit
  timeout `s_tx_busy` stays set, since only `modbus_uart_send_finish`, called only after
  a successful send, clears it (`modbus_master_app.c:173`, 196). Nothing is sent ever again,
  though `src/README.md:95` says the parameters are read cyclically.
* `HandlersFollowState` of `EcatStateMachine` fails with `AckFreely = TRUE`: `STATE_DEVID`
  stays in `nAlStatus` (`ecatslv.c:1424`) and a request with the acknowledge bit does not
  mask it (1531), so that a request refused in OP stops the outputs, while the comparison
  with `STATE_OP` (2011) fails and the state stays.
* `UpdateStarts` of `FirmwareUpdate` fails: `src/README.md:167` and `user_app/ecat/README_en.md:136`
  say that the device restarts when Bootstrap is left after a download, but nothing in the build
  sets `foe_reset_request` (`ecat_slave.c:75`); only `ssc_application.c`, which is not built, does.
* `ReceivedIsNext` of `ReceiveRing` fails without its `~torn`: when the shell's call finds that the
  DMA has gone round between the comparison and the subtraction of the Modbus task, the task
  subtracts the greater index from the smaller (`modbus_master_app.c:129`), the length is
  2^32 less a little, and 260 bytes, most of them old, are taken for an answer (the CRC refuses
  them). `front_index` may then lie behind the ring, from where receives move it on and on; and as
  the task checks no timeout while at least 5 bytes are there and more are said to come
  (445-454), the exchange never ends.
* A failed write of a default returns with the interrupts disabled (`hpm_ecat_e2p_emulation.c:152`).
* An update of the contents that is interrupted behind the revision is not repaired: the next
  start finds the new revision and says "No need to init EEPROM content" (158), and the slave comes
  up with a mixture of two contents. `ImplementsSiiMemory` does not exclude this: `SiiMemory` has a step
  for it (`Interrupt`), and promises whole defaults only when the loop ran to its end.
* `ApplicationTold` of `EcatStateMachine` fails with `SyncModes = {"dc"}` and
  `Timeout = 4`: if the timeout of SAFEOP to OP expires while Sync0, outputs and
  sequence happen to be valid, OP is entered without `APPL_StartOutputHandler`
  (`ecatslv.c:2142`; `ethercat_charger.c:158` says it is called in that transition).
* `PollsForEver` of `ModbusMaster` fails when the board refuses a coil: the coil
  stays pending and is tried again at once, before the other coils and all reads
  (`modbus_master_app.c:274`).
* `PendingIsDriven` of `Mailbox` fails with `HeapLow = "sometimes"`: after an
  allocation that failed nothing looks at the waiting service again
  (`mailbox.c:1012`).
* `NothingRefused` of `Mailbox` fails with `Pipelined = {"boot"}` and three requests:
  in BOOT two requests may be taken before the first answer is sent, and the
  second answer and its buffer are lost (`ecatfoe.c:370` is sure that the send
  mailbox is empty).
* `NothingRefused` of `Mailbox` fails during a long list (`Kinds = {"list"}`, 8 fragments, 4
  losses): each repeated read sends the answer it displaced after the repeated one
  (`mailbox.c:633-670`), and `MBX_MailboxReadInd` lets the list go on meanwhile, so that the queue
  gets longer by a fragment for every loss. When it is full the fragment waits in
  `pCoeSendStored`, where a stop forgets it. With the 10 places of the queue this takes about 10
  losses within one list; this dictionary has lists of 2 fragments, which cannot get that far.
* `MemoryOwned` of `Mailbox` fails with `HeapLow = "always"`: the error answer for
  want of memory is freed right after `MBX_MailboxSendReq` (`mailbox.c:789-791`),
  while `psReadMbx` or the send queue hold it.
* A download of `FirmwareUpdate` may be acknowledged and not be installed: after
  an aborted longer download, a library that does not recognise the header of the
  shorter one goes on with the old position, and `FOE_Data` acknowledges
  the last packet though nothing was verified. `foe_write` (`hpm_ecat_foe.c:108`)
  does not reset the library. `FinishedIsInstalled` allows exactly this (`TakenForMore`), and the run
  has it: its packages differ in length. A master that tries again has its package installed in the
  end (`RetrySucceeds`).
* `RequestsServedOnce` of `Mailbox` fails when as many writes are lost one after the other as there are
  counters less one (`Counters = 3`, two losses, four requests; the protocol has 7 counters) and the master
  gives each up: the next request has the counter of the last that was taken and is thrown away as its
  repetition (`mailbox.c:515`). A request that is too long counts as lost here: it is answered,
  but its counter is not kept (503-511).
* `ListFromStart` of `Mailbox` fails with an object list, a stop and three requests: the
  first list after the restart continues the old one, since neither
  `MBX_StopMailboxHandler` nor `SDOS_ClearPendingResponse` resets
  `nSdoInfoFragmentsLeft`, which "is 0 zero for the first call" (`sdoserv.c:1089`).
* `WriteIsWhole` and `DownloadIsStored` of `SdoServer` fail with a download that is a byte
  `short`: "the received dataSize will be checked in the object specific functions called
  from OBJ_Write" (`sdoserv.c:740`), but the standard `OBJ_Write`, the only one this
  dictionary has, compares it with nothing but zero (`objdef.c:1440`).
* The same in `SdoServer`: a list begins where the one before was broken off by a stop, with
  the objects of its own type, and lacks those before. `ReadIsWhole` says just this of it.
* A list type above 5 is answered with the request itself, neither a list nor an error
  (`sdoserv.c:1085`); a master waits on.
* The count of fragments is one short when the mailbox has an odd size and the list 24 objects or
  more (`sdoserv.c:1155`): it is rounded by bytes, the fragments by words. This dictionary
  has 18.
* An upload of `0x1C32` may show a cycle time that never was: an entry of 32 bits is read as
  two words (`objdef.c:1164`), between which an interrupt may change it. `ReadIsWhole` allows
  that words of one copy differ by the interrupts between them, and nothing else.
* The refusal of an upload segment is no abort: `SdoRes` keeps the command of the request
  (`sdoserv.c:490`) and adds that of an abort to it, which gives 7, and a master that waits for
  an abort waits on. An abort by the master is refused with an abort and ends nothing.
* An older package than the running one is downloaded and verified, but never
  started: the boot loader chooses the higher version (`boot_user.c:68`).

## 8. Not modelled

Names and descriptions of objects are data; board, pins, PHY
and OLED have no state that matters here. Contents of frames, CRCs and lengths of
mailboxes are abstracted. Local state changes (`ECAT_StateChange`) are never asked
for by this application. `COE_RemoveDicEntry` is reached only when
the dictionary cannot be built. The log (a ring of lines and a
mutex) has no state another component reads; of the shell only the writing of the control
word and the diagnosis matter to the others.
