---------------------------- MODULE ContentCache ----------------------------
(***************************************************************************)
(* What the blob cache of one asset class promises, with no index, no      *)
(* files and no budget: the documented contract of Cache::get and          *)
(* Cache::put (cache.rs:9-50, 112-126).  A cache may forget a blob at any   *)
(* time and may answer "miss" at any time; a hit is decided at one moment   *)
(* of the lookup, at which the cache holds the blob, and what it hands      *)
(* over is exactly the bytes of that blob.                                 *)
(***************************************************************************)
CONSTANTS Blob, Task

VARIABLES held,     \* the blobs the cache could serve now
          call,     \* the lookup each task is in
          reply     \* what the task's last lookup returned

vars == <<held, call, reply>>

NoCall    == [step |-> "none"]
Asked(h)  == [step |-> "asked", blob |-> h]
Found(h)  == [step |-> "found", blob |-> h]
Missed    == [step |-> "missed"]
Call      == {NoCall, Missed} \cup {Asked(h) : h \in Blob} \cup {Found(h) : h \in Blob}

Init == /\ held \in SUBSET Blob
        /\ call = [t \in Task |-> NoCall]
        /\ reply = [t \in Task |-> "none"]

Store(h) == /\ held' = held \cup {h}
            /\ UNCHANGED <<call, reply>>

Forget == /\ held' \in SUBSET held
          /\ UNCHANGED <<call, reply>>

Ask(t, h) == /\ call[t] = NoCall
             /\ call' = [call EXCEPT ![t] = Asked(h)]
             /\ reply' = [reply EXCEPT ![t] = "none"]
             /\ UNCHANGED held

MissAtOnce(t) == /\ call[t] = NoCall
                 /\ reply' = [reply EXCEPT ![t] = "miss"]
                 /\ UNCHANGED <<held, call>>

\* A task that starts something else than a lookup forgets its last reply.
Clear(t) == /\ call[t] = NoCall
            /\ reply' = [reply EXCEPT ![t] = "none"]
            /\ UNCHANGED <<held, call>>

DecideHit(t, h) == /\ call[t] = Asked(h)
                   /\ h \in held
                   /\ call' = [call EXCEPT ![t] = Found(h)]
                   /\ UNCHANGED <<held, reply>>

DecideMiss(t) == /\ call[t].step = "asked"
                 /\ call' = [call EXCEPT ![t] = Missed]
                 /\ UNCHANGED <<held, reply>>

ReturnHit(t) == /\ call[t].step = "found"
                /\ call' = [call EXCEPT ![t] = NoCall]
                /\ reply' = [reply EXCEPT ![t] = "whole"]
                /\ UNCHANGED held

ReturnMiss(t) == /\ call[t] = Missed
                 /\ call' = [call EXCEPT ![t] = NoCall]
                 /\ reply' = [reply EXCEPT ![t] = "miss"]
                 /\ UNCHANGED held

\* A lookup is dropped by its caller and returns nothing.
Abandon(t) == /\ call[t] # NoCall
              /\ call' = [call EXCEPT ![t] = NoCall]
              /\ UNCHANGED <<held, reply>>

\* The process dies: every lookup ends, the blobs stay where they are.
Crash == /\ call' = [t \in Task |-> NoCall]
         /\ reply' = [t \in Task |-> "none"]
         /\ UNCHANGED held

Next == \/ Forget
        \/ Crash
        \/ \E h \in Blob : Store(h)
        \/ \E t \in Task : \/ MissAtOnce(t) \/ Clear(t) \/ DecideMiss(t)
                           \/ ReturnHit(t) \/ ReturnMiss(t) \/ Abandon(t)
                           \/ \E h \in Blob : Ask(t, h) \/ DecideHit(t, h)

Spec == Init /\ [][Next]_vars
=============================================================================
