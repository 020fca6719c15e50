----------------------------- MODULE CalmCache -----------------------------
(***************************************************************************)
(* DiskCache with an observer of whether, since the last open, its         *)
(* operations came one after the other and nothing came between them.      *)
(***************************************************************************)
EXTENDS DiskCache

VARIABLE calm   \* observer: since the last open no two operations have
                \* overlapped, none was dropped halfway, and nobody else has
                \* touched the directory

calmVars == <<vars, calm>>

Busy      == {t \in Task : fut[t].at # "idle"}
Intrusion == fut' = fut /\ mode' = mode /\ <<disk', scratch'>> # <<disk, scratch>>
Dropped   == \E t \in Task : Cancel(t)
Observe   == calm' = IF mode = "down" THEN TRUE
                     ELSE calm /\ ~Intrusion /\ ~Dropped /\ \A t, u \in Busy' : t = u

CalmSpec == Init /\ calm = TRUE /\ [][Next /\ Observe]_calmVars
LiveSpec == CalmSpec /\ \A t \in Task : WF_vars(Progress(t))

\* As long as operations come one after the other, the index names exactly
\* the files of the directory whenever nothing is in flight, however often the
\* process has died between two steps before (QuietMirror).
CalmMirror == calm => QuietMirror
=============================================================================
