-------------------------- MODULE GovernedSeeding --------------------------
(***************************************************************************)
(* A class's governor beside the transport that seeds its blobs.  Nothing  *)
(* in the library joins the two: neither the accept loop nor the limiter   *)
(* asks the governor.  The application can hand its caps to the transport, *)
(* and this one does so, each time it likes:                               *)
(* set_upload_cap(Some(&class.governor().effective_caps(tier))).           *)
(***************************************************************************)
EXTENDS Seeding, Governor, FiniteSets

VARIABLES told,      \* observer: the passive caps were the last ones handed over
          served     \* observer: streams accepted in spite of them

gvars == <<vars, governorVars, told, served>>

GInit == Init /\ GovernorInit /\ told = FALSE /\ served = 0

\* The transport goes on; another call of its setters overrides what it was told.
Seeds ==
    /\ Next
    /\ told' = (told /\ cap' = cap /\ enabled' = enabled)
    /\ served' = IF told /\ is_passive /\ ~(streams' \subseteq streams)
                 THEN smaller(served + 1, Cardinality(Conn) + 1) ELSE served
    /\ UNCHANGED governorVars

Governs == GovernorNext /\ UNCHANGED <<vars, told, served>>

HandOver(tier) ==
    /\ SetUploadCap(effective_caps(tier))
    /\ told' = is_passive /\ served' = 0
    /\ UNCHANGED governorVars

GNext == Seeds \/ Governs \/ \E tier \in Tier : HandOver(tier)

GSpec == GInit /\ [][GNext]_gvars

(***************************************************************************)
(* "when either triggers, the class drops to `Passive` (fetch only, no     *)
(* seeding)" (crates/xlb/README.md:94-95): once the governor is passive    *)
(* and its caps are handed to the transport, no stream is accepted, but    *)
(* the one each connection may already be waiting for.                     *)
(***************************************************************************)
PassiveServesNothing == served <= Cardinality(Conn)
=============================================================================
