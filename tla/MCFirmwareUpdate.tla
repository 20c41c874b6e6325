-------------------------- MODULE MCFirmwareUpdate --------------------------
EXTENDS FirmwareUpdate

\* The package the device comes with, and two to be downloaded, of which the
\* newer is so much longer that a library in its middle takes all of the other.
MCFiles   == {"old", "new", "newer"}
MCSize    == [old |-> 3, new |-> 3, newer |-> 6]
MCVersion == [old |-> 1, new |-> 2, newer |-> 3]
=============================================================================
