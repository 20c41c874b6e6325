--------------------------- MODULE EepromContents ---------------------------
(***************************************************************************)
(* What the EEPROM of an EtherCAT slave holds and when it fits a firmware: *)
(* ecat_flash_eeprom_check_configuration_area and the comparison of the    *)
(* identity in ecat_flash_eeprom_init (port/hpm_ecat_e2p_emulation.c).     *)
(***************************************************************************)
EXTENDS Naturals

CONSTANTS
  Size,          \* words of the contents: ESC_EEPROM_SIZE / EEPROM_WRITE_SIZE
  Blocks,        \* words the e2p library has room for: EEPROM_MAX_VAR_CNT
  Values,        \* what a word may be ...
  Blank,         \* ... and 0xFFFF
  Unwritten,     \* stands for a word the library cannot read
  ConfigSize,    \* words of the configuration area, the last is the checksum
  ValidAreas,    \* the configuration areas whose checksum is right
  AliasWord,     \* the configured station alias: word 4
  ProductWord,   \* ESC_EEPROM_PRODUCT_CODE_WORD_INDEX
  RevisionWord,  \* ESC_EEPROM_REVISION_NUM_WORD_INDEX
  Images,        \* the firmware images ...
  Contents       \* ... and the aEepromData of each

ConfigArea == 0 .. ConfigSize - 1

ASSUME SizeAssumption ==
  /\ Size \in Nat \ {0} /\ Blocks \in Nat /\ Size <= Blocks
  /\ ConfigSize \in Nat \ {0} /\ ConfigSize <= Size /\ AliasWord \in ConfigArea
  /\ ProductWord \in 0 .. Size - 1 /\ RevisionWord \in 0 .. Size - 1

ASSUME ValueAssumption ==
  Values \subseteq Nat /\ Blank \in Values /\ Unwritten \notin Values

\* The SSC tool generates contents with a right checksum.
ASSUME ImageAssumption ==
  /\ Images # {} /\ Contents \in [Images -> [0 .. Size - 1 -> Values]]
  /\ \A i \in Images : [w \in ConfigArea |-> Contents[i][w]] \in ValidAreas

Answers  == Values \X Values
NoAnswer == <<Blank, Blank>>

\* No command is given, none is answered.
NoRequest == [op |-> "none"]
NoReply   == [ok |-> FALSE, data |-> <<>>]

Readable(f, words) == \A w \in words : f[w] # Unwritten

\* ecat_flash_eeprom_check_configuration_area
ValidConfig(f) ==
  /\ Readable(f, ConfigArea)
  /\ [w \in ConfigArea |-> f[w]] \in ValidAreas

\* The product code is that of image i, the revision is no older.
Matches(f, i) ==
  /\ f[ProductWord] = Contents[i][ProductWord]
  /\ f[RevisionWord] >= Contents[i][RevisionWord]

Fits(f, i) ==
  /\ ValidConfig(f) /\ Readable(f, {ProductWord, RevisionWord})
  /\ Matches(f, i)
=============================================================================
