------------------------- MODULE MCEepromEmulation -------------------------
(* Values for the constants of EepromEmulation in the runs of TLC: word 0  *)
(* is the configuration and word 1 its checksum, then the product code,    *)
(* the revision and one word of the categories.                            *)
EXTENDS EepromEmulation, TLC

CRC == INSTANCE EepromChecksum

\* Words 0 to 6 of eeprom.h, whose word 7 is 16#77.
ASSUME ChecksumOfEepromH ==
  CRC!Checksum(<<128, 12, 129, 102, 0, 0, 0, 0, 18, 52, 0, 0, 0, 0>>) = 119

\* Two words that are their own checksum.
MCValues == {79, 178, 65535}
MCAreas  == { [w \in 0 .. 1 |-> v] : v \in {79, 178} }
ASSUME AreasAreValid ==
  MCAreas = { c \in [0 .. 1 -> MCValues] : CRC!Checksum(CRC!BytesOf(c[0])) = c[1] }

Word(config, product, revision, rest) ==
  (0 :> config) @@ (1 :> config) @@ (2 :> product) @@ (3 :> revision) @@ (4 :> rest)

\* A firmware, the next one with new contents, and one for another product.
MCContents ==
  [ first |-> Word(79, 79, 79, 79), next |-> Word(178, 79, 178, 178),
    \* other product
    other |-> Word(79, 178, 79, 178) ]
MCImages == DOMAIN MCContents
=============================================================================
