------------------------------ MODULE MC_Fetch ------------------------------
(***************************************************************************)
(* Instances of Fetch for TLC: a LAN source of unverified bytes, two peers *)
(* of the same tier, and the CDN.                                          *)
(***************************************************************************)
EXTENDS Fetch

CONSTANTS lan, p, q, cdn, t1

MCKind == [s \in Source |-> CASE s = lan -> "raw" [] s = cdn -> "cdn" [] OTHER -> "peer"]
MCTier == [s \in Source |-> CASE s = lan -> 1 [] s = cdn -> 4 [] OTHER -> 3]

\* FetchesEnd, asked of one caller: callers differ in nothing but their names.
FirstFetchEnds == FetchEnds(t1)
=============================================================================
