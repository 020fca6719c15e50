------------------------------ MODULE Publish ------------------------------
(***************************************************************************)
(* Publishing: `xlb seed` (crates/xlb-cli/src/seed_cmd.rs) over seed_blob  *)
(* (crates/xlb/src/seed.rs).  A run derives the key of a file from its     *)
(* class's template, asks the origin with a signed HEAD whether the object *)
(* is there, PUTs it when it is not, and appends a row to the manifest     *)
(* when one is named.  Runs are separate processes, possibly on several    *)
(* machines, that share the origin and may share the manifest; a run may   *)
(* be killed at any point and a failed one is simply run again.            *)
(*                                                                         *)
(* The row is written by writeln! on an unbuffered File opened to append,  *)
(* one write per piece of the format string and no lock: the rows of two   *)
(* runs may be cut into one another.                                       *)
(***************************************************************************)
EXTENDS SigningDate

CONSTANTS Publisher,   \* processes that run `xlb seed`
          Blob,        \* contents of the files they are given
          Class,       \* the classes of the node's configuration
          template,    \* their cdn_fallback: the path and whether it has {blake3}
          NoPath,      \* a template without a path component
          None, Empty, Garbled,
          Moment,      \* when the clock starts: seconds, and the date they are
          MaxTicks     \* bound: seconds the clock runs

ASSUME TemplateAssumption ==
    DOMAIN template = Class /\ \A c \in Class : template[c].token \in BOOLEAN
ASSUME MarkerAssumption ==
    /\ Empty \notin Publisher /\ Garbled \notin Publisher /\ Empty # Garbled
    /\ None \notin {template[c].path : c \in Class} \X Blob
    /\ None \notin {"found", "missing", "stored", "refused", "failed"}
    /\ None \notin Stamp
ASSUME MomentAssumption ==
    \A t \in Moment : /\ t.secs \in Nat /\ t.stamp \in Stamp
                      /\ t.stamp = format_amz_time(t.secs)
ASSUME TicksAssumption == MaxTicks \in Nat

\* The environment names an R2Target needs; the region has a default.
Variable == {"access key", "secret key", "endpoint", "bucket"}
from_env(vars) == Variable \subseteq vars

Key == {template[c].path : c \in Class} \X Blob

derive_key(c, blob) ==
    IF template[c].path = NoPath \/ ~template[c].token THEN None
    ELSE <<template[c].path, blob>>

VARIABLES clock,     \* the host's seconds since 1970, and what a calendar shows
          weather,   \* "bad" while requests and writes may fail and runs be killed
          bucket,    \* the keys the origin holds
          late,      \* keys of PUTs given up by their sender and still under way
          pub,       \* the run of each publisher
          rows,      \* keys of the readable rows of the manifest
          line       \* its last line: Empty, one run's unfinished row, or Garbled

vars == <<clock, weather, bucket, late, pub, rows, line>>

\* signed is the x-amz-date of the request under way, sent the calendar's date
\* when it was signed and before whether the key was held when the run began:
\* the last two are observed, the code does not know them.
Idle == [at |-> "idle", key |-> None, record |-> FALSE, answer |-> None,
         signed |-> None, sent |-> None, before |-> FALSE]

Ended == {"idle", "ok", "error"}

Init ==
    /\ \E t \in Moment : clock = [secs |-> t.secs, stamp |-> t.stamp, ticks |-> 0]
    /\ weather = "bad"
    /\ bucket = {} /\ late = {}
    /\ pub = [p \in Publisher |-> Idle]
    /\ rows = {} /\ line = Empty

\* R2Target::sign with now_unix(), for the next request of a run.
sign(run) == [run EXCEPT !.signed = format_amz_time(clock.secs),
                         !.sent = clock.stamp, !.answer = None]

\* Past its requests: the run's key and manifest are all it goes on with.
GoesTo(p, at) ==
    [Idle EXCEPT !.at = at, !.key = pub[p].key, !.record = pub[p].record]

Error == [Idle EXCEPT !.at = "error"]

-----------------------------------------------------------------------------
Begin(p, c, blob, env, record) ==
    /\ pub[p].at \in Ended
    /\ derive_key(c, blob) # None /\ from_env(env)
    /\ pub' = [pub EXCEPT ![p] =
          sign([Idle EXCEPT !.at = "head", !.key = derive_key(c, blob),
                            !.record = record,
                            !.before = derive_key(c, blob) \in bucket])]
    /\ UNCHANGED <<clock, weather, bucket, late, rows, line>>

\* No template to derive the key from, or no credentials: nothing is asked.
BeginRefused(p, c, blob, env) ==
    /\ pub[p].at \in Ended
    /\ derive_key(c, blob) = None \/ ~from_env(env)
    /\ pub' = [pub EXCEPT ![p] = Error]
    /\ UNCHANGED <<clock, weather, bucket, late, rows, line>>

Asking(p, at) == pub[p].at = at /\ pub[p].answer = None

\* The origin answers a HEAD; it refuses a signature of another day or second.
HeadArrives(p) ==
    /\ Asking(p, "head")
    /\ \/ pub' = [pub EXCEPT ![p].answer =
              IF pub[p].signed # pub[p].sent THEN "refused"
              ELSE IF pub[p].key \in bucket THEN "found" ELSE "missing"]
       \/ weather = "bad" /\ pub' = [pub EXCEPT ![p].answer = "failed"]
    /\ UNCHANGED <<clock, weather, bucket, late, rows, line>>

\* The blob is at the origin: the manifest next, when one is named.
Seeded(p) == GoesTo(p, IF pub[p].record THEN "append" ELSE "ok")

\* Plausible errors: a HEAD that failed taken for an object that is there, or
\* for one that is not, and an object that is there for a failure.
HeadFailedIsFound(p) ==
    /\ pub[p].at = "head" /\ pub[p].answer # None
    /\ pub' = [pub EXCEPT ![p] =
          IF pub[p].answer = "missing" THEN sign([@ EXCEPT !.at = "put"]) ELSE Seeded(p)]
    /\ UNCHANGED <<clock, weather, bucket, late, rows, line>>

HeadFailedIsMissing(p) ==
    /\ pub[p].at = "head" /\ pub[p].answer # None
    /\ pub' = [pub EXCEPT ![p] =
          IF pub[p].answer = "found" THEN Seeded(p) ELSE sign([@ EXCEPT !.at = "put"])]
    /\ UNCHANGED <<clock, weather, bucket, late, rows, line>>

HeadFoundIsError(p) ==
    /\ pub[p].at = "head" /\ pub[p].answer # None
    /\ pub' = [pub EXCEPT ![p] =
          IF pub[p].answer = "missing" THEN sign([@ EXCEPT !.at = "put"]) ELSE Error]
    /\ UNCHANGED <<clock, weather, bucket, late, rows, line>>

HeadAnswered(p) ==
    /\ pub[p].at = "head" /\ pub[p].answer # None
    /\ \/ /\ pub[p].answer = "missing"
          /\ pub' = [pub EXCEPT ![p] = sign([@ EXCEPT !.at = "put"])]
       \/ /\ pub[p].answer = "found"
          /\ pub' = [pub EXCEPT ![p] = Seeded(p)]
       \/ /\ pub[p].answer \notin {"missing", "found"}
          /\ pub' = [pub EXCEPT ![p] = Error]
    /\ UNCHANGED <<clock, weather, bucket, late, rows, line>>

\* The origin answers a PUT: an answer that fails may still have stored.
PutArrives(p) ==
    /\ Asking(p, "put")
    /\ \/ /\ pub[p].signed = pub[p].sent
          /\ bucket' = bucket \cup {pub[p].key}
          /\ \E a \in {"stored"} \cup (IF weather = "bad" THEN {"failed"} ELSE {}) :
                pub' = [pub EXCEPT ![p].answer = a]
       \/ /\ pub[p].signed # pub[p].sent \/ weather = "bad"
          /\ pub' = [pub EXCEPT ![p].answer = "refused"]
          /\ UNCHANGED bucket
    /\ UNCHANGED <<clock, weather, late, rows, line>>

\* The connection breaks with the PUT under way.
PutBreaks(p) ==
    /\ weather = "bad" /\ Asking(p, "put")
    /\ pub' = [pub EXCEPT ![p].answer = "failed"]
    /\ late' = late \cup {pub[p].key}
    /\ UNCHANGED <<clock, weather, bucket, rows, line>>

LatePut(k) ==
    /\ k \in late
    /\ bucket' = bucket \cup {k} /\ late' = late \ {k}
    /\ UNCHANGED <<clock, weather, pub, rows, line>>

\* A plausible error: the status of a PUT not looked at.
PutStatusIgnored(p) ==
    /\ pub[p].at = "put" /\ pub[p].answer # None
    /\ pub' = [pub EXCEPT ![p] = Seeded(p)]
    /\ UNCHANGED <<clock, weather, bucket, late, rows, line>>

PutAnswered(p) ==
    /\ pub[p].at = "put" /\ pub[p].answer # None
    /\ pub' = [pub EXCEPT ![p] =
          IF pub[p].answer = "stored" THEN Seeded(p) ELSE Error]
    /\ UNCHANGED <<clock, weather, bucket, late, rows, line>>

\* append_manifest: the first piece of the row, pieces that follow, and the
\* last one with the newline.
AppendFirst(p) ==
    /\ pub[p].at = "append"
    /\ pub' = [pub EXCEPT ![p].at = "row"]
    /\ line' = IF line = Empty THEN p ELSE Garbled
    /\ UNCHANGED <<clock, weather, bucket, late, rows>>

AppendMore(p) ==
    /\ pub[p].at = "row" /\ line # p
    /\ line' = Garbled
    /\ UNCHANGED <<clock, weather, bucket, late, pub, rows>>

\* A plausible error: write! for writeln!, a row without its newline.
AppendNoNewline(p) ==
    /\ pub[p].at = "row"
    /\ pub' = [pub EXCEPT ![p] = GoesTo(p, "ok")]
    /\ rows' = rows \cup (IF line = p THEN {pub[p].key} ELSE {})
    /\ line' = line
    /\ UNCHANGED <<clock, weather, bucket, late>>

AppendRest(p) ==
    /\ pub[p].at = "row"
    /\ pub' = [pub EXCEPT ![p] = GoesTo(p, "ok")]
    /\ rows' = rows \cup (IF line = p THEN {pub[p].key} ELSE {})
    /\ line' = Empty
    /\ UNCHANGED <<clock, weather, bucket, late>>

\* The directory, the file or one of the writes fails.
AppendFails(p) ==
    /\ weather = "bad" /\ pub[p].at \in {"append", "row"}
    /\ pub' = [pub EXCEPT ![p] = Error]
    /\ UNCHANGED <<clock, weather, bucket, late, rows, line>>

\* The process is killed; its request may be under way.
Kill(p) ==
    /\ weather = "bad" /\ pub[p].at \notin Ended
    /\ pub' = [pub EXCEPT ![p] = Idle]
    /\ late' \in {late} \cup (IF Asking(p, "put") THEN {late \cup {pub[p].key}} ELSE {})
    /\ UNCHANGED <<clock, weather, bucket, rows, line>>

Tick ==
    /\ clock.ticks < MaxTicks
    /\ clock' = [secs |-> clock.secs + 1, stamp |-> NextSecond(clock.stamp),
                 ticks |-> clock.ticks + 1]
    /\ UNCHANGED <<weather, bucket, late, pub, rows, line>>

WeatherClears ==
    /\ weather = "bad" /\ weather' = "good"
    /\ UNCHANGED <<clock, bucket, late, pub, rows, line>>

\* What a run does unless it is killed or something fails.
Advance(p) ==
    \/ HeadArrives(p) \/ HeadAnswered(p) \/ PutArrives(p) \/ PutAnswered(p)
    \/ AppendFirst(p) \/ AppendRest(p)

Next ==
    \/ \E p \in Publisher :
          \/ \E c \in Class, blob \in Blob, env \in SUBSET Variable :
                \/ BeginRefused(p, c, blob, env)
                \/ \E record \in BOOLEAN : Begin(p, c, blob, env, record)
          \/ Advance(p) \/ PutBreaks(p) \/ AppendMore(p) \/ AppendFails(p) \/ Kill(p)
    \/ \E k \in late : LatePut(k)
    \/ Tick \/ WeatherClears

Spec == Init /\ [][Next]_vars

\* Assumed of the origin: it answers.  A run's own steps are the scheduler's.
FairSpec == Spec /\ \A p \in Publisher : WF_vars(Advance(p))

-----------------------------------------------------------------------------
Run == [at     : {"idle", "head", "put", "append", "row", "ok", "error"},
        key    : Key \cup {None},
        record : BOOLEAN,
        answer : {None, "found", "missing", "stored", "refused", "failed"},
        signed : Stamp \cup {None},
        sent   : Stamp \cup {None},
        before : BOOLEAN]

\* Every variable holds a value of its kind, the dates real months and days.
TypeOK ==
    /\ clock \in [secs : Nat, stamp : Stamp, ticks : Nat]
    /\ weather \in {"bad", "good"}
    /\ bucket \subseteq Key /\ late \subseteq Key /\ rows \subseteq Key
    /\ line \in Publisher \cup {Empty, Garbled}
    /\ pub \in [Publisher -> Run]
    /\ \A p \in Publisher : pub[p].at \in {"head", "put", "append", "row"} => pub[p].key \in Key

\* `seeded` and `already seeded` are told only of objects the origin holds
\* (seed_cmd.rs, run), whatever failed, was killed or arrived late before.
OkMeansHeld == \A p \in Publisher : pub[p].at = "ok" => pub[p].key \in bucket

\* An object that was there when a run began is never uploaded by it
\* (seed_cmd.rs, module comment); two runs may still both find it missing.
NoReupload == \A p \in Publisher : pub[p].at = "put" => ~pub[p].before

\* Every request is dated as a calendar dates the second it is signed in,
\* across leap days, centuries and the turn of a year (format_amz_time).
SignedToday == \A p \in Publisher : pub[p].signed = pub[p].sent

\* The origin and the manifest keep the promise of publishing.
O == INSTANCE Origin WITH published <- bucket, recorded <- rows
OriginHolds == O!OSpec

\* When nothing fails any more, a run that asks the origin succeeds.
RunSucceeds ==
    \A p \in Publisher :
        weather = "good" /\ Asking(p, "head") ~> pub[p].at = "ok"

\* A blob seeded again and again, while nothing fails and nobody else writes
\* the manifest, is recorded in the end, whatever earlier runs left in it.
Quiet(p) == weather = "good" /\ \A q \in Publisher \ {p} : pub[q].at \in Ended

RecordedInTheEnd ==
    \A p \in Publisher, k \in Key :
        (/\ <>[]Quiet(p)
         /\ []<>(pub[p].at = "head")
         /\ []<>(pub[p].at = "ok" /\ pub[p].key = k /\ pub[p].record))
        => <>(k \in rows)
=============================================================================
