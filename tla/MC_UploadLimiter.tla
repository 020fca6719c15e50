-------------------------- MODULE MC_UploadLimiter --------------------------
(***************************************************************************)
(* Instances of UploadLimiter for TLC.                                     *)
(***************************************************************************)
EXTENDS UploadLimiter
=============================================================================
