----------------------------- MODULE MCCoreFile -----------------------------
(* The core file of a 64-bit process, with the sizes of lp64 and arm64 and a *)
(* small page; that of a 32-bit process, with the sizes of lp32 and arm and  *)
(* few bits, where the last of three segments may start beyond either limit. *)
EXTENDS CoreFiles
=============================================================================
