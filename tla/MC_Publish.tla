----------------------------- MODULE MC_Publish -----------------------------
(***************************************************************************)
(* Two publishers, a class with a usable template and one whose template   *)
(* lacks {blake3}, and a clock that starts in the last second of a day: of *)
(* a February that needs the correction for centuries, of a leap day, and  *)
(* of a year.  TLC's integers end in 2038; the theorems of                 *)
(* PublishProofs do not.                                                   *)
(***************************************************************************)
EXTENDS Publish, TLC

CONSTANTS p1, p2, objects, docs, cdn

MCTemplate == objects :> [path |-> cdn, token |-> TRUE] @@
              docs    :> [path |-> cdn, token |-> FALSE]

LastSecond(y, m, d) ==
    [date |-> [year |-> y, month |-> m, day |-> d],
     hour |-> 23, minute |-> 59, second |-> 59]

MCMoment == {[secs |-> 920246399,  stamp |-> LastSecond(1999, 2, 28)],
             [secs |-> 946684799,  stamp |-> LastSecond(1999, 12, 31)],
             [secs |-> 1709251199, stamp |-> LastSecond(2024, 2, 29)]}
=============================================================================
