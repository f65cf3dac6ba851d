----------------------------- MODULE MCVolume -----------------------------
(***************************************************************************)
(* A RAM disk too small for what FATFS writes, as in the code, and a disk  *)
(* C: larger than what FATFS formats.  FATs of four and six sectors.      *)
(***************************************************************************)
EXTENDS Volume, TLC

MCDrives == "A" :> 18 @@ "C" :> 66
=============================================================================
