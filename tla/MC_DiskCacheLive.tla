-------------------------- MODULE MC_DiskCacheLive --------------------------
(***************************************************************************)
(* DiskCache under fairness, with the observer of CalmCache.               *)
(***************************************************************************)
EXTENDS MC_DiskCache, CalmCache
=============================================================================
