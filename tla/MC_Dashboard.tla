---------------------------- MODULE MC_Dashboard ----------------------------
(***************************************************************************)
(* An instance of Dashboard for TLC.  Every cap is below the number of     *)
(* rows or events that can pile up behind it, so the ring drops rows of    *)
(* one class for those of another, the channel drops events, and the view  *)
(* drops rows.                                                             *)
(***************************************************************************)
EXTENDS Dashboard
=============================================================================
