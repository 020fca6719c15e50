------------------------------- MODULE Origin -------------------------------
(***************************************************************************)
(* What publishing promises (crates/xlb/src/seed.rs, module comment, and   *)
(* crates/xlb-cli/src/seed_cmd.rs): a content-addressed origin that only   *)
(* grows, and a log of "known-seeded from then on" rows that never names   *)
(* an object the origin does not hold.                                     *)
(***************************************************************************)
CONSTANT Key

VARIABLES published,   \* the keys the origin serves
          recorded     \* the keys the seeded-manifest log names

ovars == <<published, recorded>>

OInit == published = {} /\ recorded = {}

Store(k) ==
    /\ published' = published \cup {k}
    /\ UNCHANGED recorded

Record(k) ==
    /\ k \in published
    /\ recorded' = recorded \cup {k}
    /\ UNCHANGED published

ONext == \E k \in Key : Store(k) \/ Record(k)

OSpec == OInit /\ [][ONext]_ovars
=============================================================================
