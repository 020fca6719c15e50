---------------------------- MODULE ControlSocket ----------------------------
(***************************************************************************)
(* Fetches over the control socket of the daemon                           *)
(* (crates/xlb-cli/src/socket/server.rs, do_fetch), with the sink their    *)
(* classes report to.  A task is a connection that runs one Fetch command  *)
(* after the other.  A connection that goes away does not stop its fetch,  *)
(* and a command for an unknown class or with a bad hash is answered       *)
(* before anything changes.                                                *)
(***************************************************************************)
EXTENDS MetricsSink

CONSTANT MaxFetches    \* bound: the fetches of a behaviour

ASSUME BoundAssumption == MaxFetches \in Nat

VARIABLE begun         \* how many fetches have begun

socketVars == <<sinkVars, begun>>

SocketInit == SinkInit /\ begun = 0

Begin(t, c) ==
    /\ task[t] = Idle /\ begun < MaxFetches
    /\ begun' = begun + 1
    /\ LET r == [id |-> begun', class |-> c, hit |-> FALSE]
       IN  /\ sent' = Append(sent, Event("started", r))
           /\ task' = [task EXCEPT ![t] = At("fetching", r)]
    /\ UNCHANGED <<totals, rows, log, failed>>

\* The fetch ends, by a hit or a miss, and calls the observer of its class.
Fetched(t, hit) ==
    /\ task[t].at = "fetching"
    /\ task' = [task EXCEPT ![t] = At("record", [@.row EXCEPT !.hit = hit])]
    /\ UNCHANGED <<totals, rows, sent, log, failed, begun>>

\* Saving to the path the client asked for may fail, and then no event tells
\* the subscribers that the fetch they saw start has ended.
SaveFails(t) ==
    /\ task[t].at = "reported" /\ task[t].row.hit
    /\ task' = [task EXCEPT ![t] = Idle]
    /\ UNCHANGED <<totals, rows, sent, log, failed, begun>>

\* (AlwaysCompleted is a mistake that StoryInOrder is tried against.)
AlwaysCompleted(r) == "completed"
LastWord(r) == IF r.hit THEN "completed" ELSE "failed"

Answer(t) ==
    /\ task[t].at = "reported"
    /\ sent' = Append(sent, Event(LastWord(task[t].row), task[t].row))
    /\ task' = [task EXCEPT ![t] = Idle]
    /\ UNCHANGED <<totals, rows, log, failed, begun>>

EmitStep(t) == Emit(t) /\ UNCHANGED begun

SocketNext == \E t \in Task : \/ \E c \in Class : Begin(t, c)
                              \/ \E hit \in BOOLEAN : Fetched(t, hit)
                              \/ EmitStep(t) \/ SaveFails(t) \/ Answer(t)

SocketSpec == SocketInit /\ [][SocketNext]_socketVars

-----------------------------------------------------------------------------
Stage == {"fetching", "record", "send", "append", "writing", "reported"}
EventsOf(c, kinds) == {i \in DOMAIN sent : sent[i].class = c /\ sent[i].kind \in kinds}
AtSend(c) == {t \in Task : task[t].at = "send" /\ task[t].row.class = c}

SocketTypeOK ==
    /\ totals \in [Class -> [fetches : 0 .. MaxFetches, hits : 0 .. MaxFetches]]
    /\ \A i \in DOMAIN rows : rows[i] \in Report
    /\ Len(rows) <= RecentCap
    /\ \A i \in DOMAIN log : log[i] \in [id : 1 .. begun, part : {"first", "rest"}]
    /\ failed \subseteq 1 .. begun
    /\ begun \in 0 .. MaxFetches
    /\ \A t \in Task : \/ task[t] = Idle
                         \/ /\ task[t].at \in Stage
                            /\ task[t].row \in Report

(***************************************************************************)
(* "Record BEFORE the transports" (metrics_sink.rs:168-170): whatever      *)
(* concurrent fetches do, the counters of a class are at every moment the  *)
(* metrics its subscribers were told, and those about to be told.          *)
(***************************************************************************)
CountedBeforeTold ==
    \A c \in Class :
        /\ totals[c].fetches = Cardinality(EventsOf(c, {"hit", "miss"})) + Cardinality(AtSend(c))
        /\ totals[c].hits = Cardinality(EventsOf(c, {"hit"}))
                            + Cardinality({t \in AtSend(c) : task[t].row.hit})

(***************************************************************************)
(* What the channel tells of one fetch (protocol.rs:132-160): its start,   *)
(* then its metric, then its end, each at most once; completed only after  *)
(* a hit, failed only after a miss, and no end without a metric.           *)
(***************************************************************************)
Follows == {<<"started", k>> : k \in {"hit", "miss", "completed", "failed"}}
           \cup {<<"hit", "completed">>, <<"miss", "failed">>}

StoryInOrder ==
    /\ \A i, j \in DOMAIN sent :
           i < j /\ sent[i].id = sent[j].id => <<sent[i].kind, sent[j].kind>> \in Follows
    /\ \A j \in DOMAIN sent : sent[j].kind \in {"completed", "failed"} =>
           \E i \in DOMAIN sent : sent[i].id = sent[j].id /\ sent[i].kind \in {"hit", "miss"}
=============================================================================
