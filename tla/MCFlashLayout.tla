--------------------------- MODULE MCFlashLayout ----------------------------
(* FlashLayout on every flash of NSect sectors of one or two units, followed  *)
(* below by large sectors, with short and long partitions.                    *)
EXTENDS FlashLayout, FiniteSets

CONSTANTS Small,   \* number of sectors at the end of the flash that may be small
          Units    \* lengths to try

\* Sectors 0 .. NSect-Small-1 have three units; those of the set ones have one.
BaseOf(ones) ==
    [n \in 0..NSect |-> 3 * n - 2 * Cardinality({i \in ones : i < n})]
MCGeometry == {BaseOf(ones) : ones \in SUBSET ((NSect - Small)..(NSect - 1))}
MCLengths ==
    {[r \in Partition |-> CASE r \in {"persistent", "psi_backup"} -> l[1]
                            [] r = "wlanparam" -> l[2]
                            [] r = "avail" -> 2
                            [] OTHER -> 1] : l \in Units \X Units}
=============================================================================
