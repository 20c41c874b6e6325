--------------------------- MODULE EepromChecksum ---------------------------
(***************************************************************************)
(* ecat_calculate_eeprom_config_data_checksum (port/hpm_ecat_hw.c): the    *)
(* CRC-8 over the bytes of the configuration area.                         *)
(***************************************************************************)
EXTENDS Naturals, Sequences, SequencesExt, Bitwise

Polynomial == 7

\* One bit of the polynomial division.
Shift(r, bit) ==
  IF r >= 128 THEN ((2 * r) % 256) ^^ Polynomial ELSE 2 * r

Checksum(bytes) ==
  FoldLeft(LAMBDA r, b : FoldLeft(Shift, r ^^ b, <<0, 1, 2, 3, 4, 5, 6, 7>>),
           255, bytes)

\* The bytes of a word, the low one first.
BytesOf(word) == <<word % 256, word \div 256>>
=============================================================================
