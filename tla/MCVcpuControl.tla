---------------------------- MODULE MCVcpuControl ----------------------------
(* Small instances of VcpuControl for TLC. *)
EXTENDS VcpuControlInv
=============================================================================
