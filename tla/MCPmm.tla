------------------------------- MODULE MCPmm -------------------------------
(***************************************************************************)
(* Instance of Pmm for TLC: a bitmap of five pages of three bytes, the     *)
(* kernel in the first two of them, and every memory map of at most two    *)
(* entries drawn from MCEntries: aligned and unaligned bases and ends,     *)
(* empty, overlapping, reserved and reaching above the bitmap.             *)
(***************************************************************************)
EXTENDS Pmm

MCEntries ==
  [available : BOOLEAN, addr : {0, 4, 6}, len : {0, 5, 9, 12}]

MCMemoryMaps ==
  {<<>>} \cup { <<e>> : e \in MCEntries }
         \cup { <<e, f>> : e \in MCEntries, f \in MCEntries }
=============================================================================
