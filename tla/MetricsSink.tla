---------------------------- MODULE MetricsSink ----------------------------
(***************************************************************************)
(* The metrics sink of the daemon (crates/xlb-cli/src/metrics_sink.rs).    *)
(* Every fetch ends in emit, on the thread of its task: the report goes    *)
(* into the totals and the ring of recent rows under one lock, then out on *)
(* the broadcast channel, then into the log file under another lock.  The  *)
(* three are not atomic together.                                          *)
(*                                                                         *)
(* A report is its number, its class, and whether some tier served it.     *)
(* Appending a row is two writes, as write_all may need more than one.     *)
(***************************************************************************)
EXTENDS Naturals, Sequences, FiniteSets

CONSTANTS Task,        \* the tasks that run fetches
          Class,       \* the registered asset classes
          RecentCap,   \* RECENT_CAP: rows kept, over all classes
          Logged       \* whether metrics_path is configured

ASSUME SinkAssumption == RecentCap \in Nat \ {0} /\ Logged \in BOOLEAN

VARIABLES totals,      \* Recent::totals
          rows,        \* Recent::rows, oldest first
          sent,        \* every event the channel has carried
          log,         \* the pieces written to the metrics file
          failed,      \* observer: the reports whose append failed
          task         \* where each fetch task is, and its report

sinkVars == <<totals, rows, sent, log, failed, task>>

Report == [id : Nat \ {0}, class : Class, hit : BOOLEAN]
Event(k, r) == [kind |-> k, id |-> r.id, class |-> r.class]
Idle == [at |-> "idle"]
At(a, r) == [at |-> a, row |-> r]

SinkInit ==
    /\ totals = [c \in Class |-> [fetches |-> 0, hits |-> 0]]
    /\ rows = <<>>
    /\ sent = <<>>
    /\ log = <<>>
    /\ failed = {}
    /\ task = [t \in Task |-> Idle]

-----------------------------------------------------------------------------
\* What the readers of the sink get, each under the lock: of the ring the
\* latest rows of a class, oldest first.
totals_for(c) == totals[c]

Places(c)        == {i \in DOMAIN rows : rows[i].class = c}
FromTheEnd(S, n) == CHOOSE i \in S : Cardinality({j \in S : j >= i}) = n

recent_for(c, limit) ==
    LET found == Cardinality(Places(c))
        n     == IF found <= limit THEN found ELSE limit
    IN  [k \in 1 .. n |-> rows[FromTheEnd(Places(c), n - k + 1)]]

-----------------------------------------------------------------------------
\* emit, step by step.  (CountHits, CountWindow, PushUncapped and NoFileLock
\* are mistakes that the properties are tried against.)
Goto(t, a) == task' = [task EXCEPT ![t] = At(a, @.row)]

CountHits(n, r)   == IF r.hit THEN [fetches |-> n.fetches + 1, hits |-> n.hits + 1] ELSE n
CountWindow(n, r) == [fetches |-> IF n.fetches = RecentCap THEN RecentCap ELSE n.fetches + 1,
                      hits |-> IF r.hit THEN n.hits + 1 ELSE n.hits]
Count(n, r) == [fetches |-> n.fetches + 1, hits |-> IF r.hit THEN n.hits + 1 ELSE n.hits]

PushUncapped(s, r) == Append(s, r)
Push(s, r) == Append(IF Len(s) = RecentCap THEN Tail(s) ELSE s, r)

Record(t) ==
    /\ task[t].at = "record"
    /\ LET r == task[t].row
       IN  /\ totals' = [totals EXCEPT ![r.class] = Count(@, r)]
           /\ rows' = Push(rows, r)
    /\ Goto(t, "send")
    /\ UNCHANGED <<sent, log, failed>>

SendMetric(t) ==
    /\ task[t].at = "send"
    /\ LET r == task[t].row
       IN  sent' = Append(sent, Event(IF r.hit THEN "hit" ELSE "miss", r))
    /\ Goto(t, IF Logged THEN "append" ELSE "reported")
    /\ UNCHANGED <<totals, rows, log, failed>>

\* The guard of the file is held from the first write to the last.
NoFileLock == TRUE
FileFree == \A u \in Task : task[u].at # "writing"

AppendFirst(t) ==
    /\ task[t].at = "append" /\ FileFree
    /\ log' = Append(log, [id |-> task[t].row.id, part |-> "first"])
    /\ Goto(t, "writing")
    /\ UNCHANGED <<totals, rows, sent, failed>>

AppendRest(t) ==
    /\ task[t].at = "writing"
    /\ log' = Append(log, [id |-> task[t].row.id, part |-> "rest"])
    /\ Goto(t, "reported")
    /\ UNCHANGED <<totals, rows, sent, failed>>

AppendFails(t) ==
    /\ task[t].at = "writing" \/ (task[t].at = "append" /\ FileFree)
    /\ failed' = failed \cup {task[t].row.id}
    /\ Goto(t, "reported")
    /\ UNCHANGED <<totals, rows, sent, log>>

Emit(t) == Record(t) \/ SendMetric(t) \/ AppendFirst(t) \/ AppendRest(t) \/ AppendFails(t)

-----------------------------------------------------------------------------
(***************************************************************************)
(* Rows appended by concurrent fetches never mix on one line               *)
(* (metrics_sink.rs:55-58): every row is written once and in one piece,    *)
(* unless its own write failed.                                            *)
(***************************************************************************)
RowsNeverMix ==
    \A i \in DOMAIN log :
        LET l == log[i]
        IN  /\ \A j \in DOMAIN log : log[j] = l => i = j
            /\ l.part = "rest" => i > 1 /\ log[i - 1] = [l EXCEPT !.part = "first"]
            /\ l.part = "first" /\ i < Len(log) /\ l.id \notin failed
                  => log[i + 1] = [l EXCEPT !.part = "rest"]
=============================================================================
