------------------------------ MODULE BootUser ------------------------------
(***************************************************************************)
(* The boot loader of bootuser/src/boot_user.c: which of the two images in *)
(* flash it starts.  An image is the sequence of chunks written so far, as *)
(* the update left it, perhaps in the middle; a chunk knows the file and   *)
(* the place in it that it comes from.  The hash of a package is ideal.    *)
(***************************************************************************)
EXTENDS Integers, Sequences

CONSTANTS
  Files,     \* the firmware packages there are
  Size,      \* [Files -> Nat] their length, header included
  Version,   \* [Files -> Nat] the version in the header
  Hashed,    \* the packages whose header says that a hash is enabled
  Block      \* the bytes a full FoE packet carries from the master

ASSUME FileAssumption ==
  /\ Size \in [Files -> Nat \ {0}] /\ Version \in [Files -> Nat]
  /\ Hashed \subseteq Files
ASSUME BlockAssumption == Block \in Nat \ {0}

Least(a, b) == IF a < b THEN a ELSE b

Chunk == [file : Files, no : Nat, size : 0 .. Block]

\* Packet n of file f, the first being 1; the last is the first that is not
\* full, and may be empty.
Packet(f, n) == 
  [file |-> f, no |-> n, size |-> Least(Block, Size[f] - Block * (n - 1))]
Packets(f) == Size[f] \div Block + 1

\* The packages as they lie in flash when all was written.
Package ==
  [f \in Files |-> [n \in 1 .. (Size[f] + Block - 1) \div Block |-> Packet(f, n)]]

HPM_APP1 == 1
HPM_APP2 == 2
Slots == {HPM_APP1, HPM_APP2}
None == 0

-----------------------------------------------------------------------------

\* A header is readable when the beginning of a file is.
ReadAppHeader(image) == image # <<>> /\ image[1].no = 1

\* Variant: the header is all that is looked at.
VerifyHeaderOnly(image) == ReadAppHeader(image)

\* Without a hash the header is all that is looked at.
VerifyAppValid(image) ==
  LET f == image[1].file
  IN  f \in Hashed => image = Package[f]

\* Variant: a newer image that is damaged is not passed over.
SelectNewest(flash) ==
  LET Readable(s)  == ReadAppHeader(flash[s])
      VersionOf(s) == Version[flash[s][1].file]
      newest == IF /\ Readable(HPM_APP2)
                   /\ Readable(HPM_APP1) => VersionOf(HPM_APP1) < VersionOf(HPM_APP2)
                THEN HPM_APP2 ELSE HPM_APP1
  IN  IF Readable(newest) /\ VerifyAppValid(flash[newest]) THEN newest ELSE None

\* The slot to be started, or None: the boot loader stays.
SelectJumpApp(flash) ==
  LET Readable(s)    == ReadAppHeader(flash[s])
      Startable(s)   == Readable(s) /\ VerifyAppValid(flash[s])
      VersionOf(s)   == Version[flash[s][1].file]
      first == IF /\ Readable(HPM_APP1) /\ Readable(HPM_APP2)
                  /\ VersionOf(HPM_APP1) < VersionOf(HPM_APP2)
               THEN HPM_APP2 ELSE HPM_APP1
      second == IF first = HPM_APP1 THEN HPM_APP2 ELSE HPM_APP1
  IN  IF Startable(first) THEN first
      ELSE IF Startable(second) THEN second ELSE None
=============================================================================
