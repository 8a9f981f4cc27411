--------------------------- MODULE MCMemoryAccess ---------------------------
(***************************************************************************)
(* Small instances of MemoryAccess.                                        *)
(***************************************************************************)
EXTENDS MemoryAccessInv

CONSTANTS h1, h2, r1, r2, hole

=============================================================================
