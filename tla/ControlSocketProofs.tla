------------------------ MODULE ControlSocketProofs ------------------------
(***************************************************************************)
(* The metrics file, the events and the counters of ControlSocket, for any *)
(* number of connections, classes and fetches.                             *)
(***************************************************************************)
EXTENDS ControlSocket, FiniteSetTheorems, TLAPS

Kinds == {"started", "hit", "miss", "completed", "failed"}
Piece == [id : Nat, part : {"first", "rest"}]
Told  == [id : Nat, class : Class, kind : Kinds]
Busy  == [at : Stage, row : Report]

SocketType ==
    /\ begun \in Nat
    /\ task \in [Task -> {Idle} \cup Busy]
    /\ log \in Seq(Piece) /\ sent \in Seq(Told)
    /\ \A i \in DOMAIN log : log[i].id <= begun
    /\ \A i \in DOMAIN sent : sent[i].id <= begun

\* A number belongs to one fetch.
OwnIds ==
    /\ \A t \in Task : task[t] # Idle => task[t].row.id <= begun
    /\ \A t, u \in Task : t # u /\ task[t] # Idle /\ task[u] # Idle
                             => task[t].row.id # task[u].row.id

(***************************************************************************)
(* Where a fetch stands says what the file and the channel hold of it.     *)
(* That no two tasks write at once need not be said: both would have       *)
(* written the last piece.                                                 *)
(***************************************************************************)
FileOf(f, l) ==
    /\ f.at \in {"fetching", "record", "send", "append"} =>
          \A i \in DOMAIN l : l[i].id # f.row.id
    /\ f.at = "writing" =>
          /\ Len(l) > 0 /\ l[Len(l)] = [id |-> f.row.id, part |-> "first"]
          /\ \A i \in 1 .. Len(l) - 1 : l[i].id # f.row.id

Abandoned == FileFree /\ Len(log) > 0 /\ log[Len(log)].part = "first"
                => log[Len(log)].id \in failed

FileInv == (\A t \in Task : FileOf(task[t], log)) /\ Abandoned /\ RowsNeverMix

Metric(f) == IF f.row.hit THEN "hit" ELSE "miss"

ToldOf(f, s) ==
    /\ f.at \in {"fetching", "record", "send"} =>
          \A i \in DOMAIN s : s[i].id = f.row.id => s[i].kind = "started"
    /\ f.at \in {"append", "writing", "reported"} =>
          /\ \A i \in DOMAIN s : s[i].id = f.row.id => s[i].kind \in {"started", Metric(f)}
          /\ \E i \in DOMAIN s : s[i].id = f.row.id /\ s[i].kind = Metric(f)

StoryInv == (\A t \in Task : ToldOf(task[t], sent)) /\ StoryInOrder

SocketInv == SocketType /\ OwnIds /\ FileInv /\ StoryInv

-----------------------------------------------------------------------------
LEMMA InitSocket == SocketInit => SocketInv
<1> SUFFICES ASSUME SocketInit PROVE SocketInv
  OBVIOUS
<1>1. begun = 0 /\ log = <<>> /\ sent = <<>> /\ task = [t \in Task |-> Idle]
  BY DEF SocketInit, SinkInit
<1>2. SocketType /\ OwnIds
  BY <1>1 DEF SocketType, OwnIds
<1>3. FileInv
  BY <1>1 DEF FileInv, FileOf, Abandoned, RowsNeverMix, Idle
<1>4. StoryInv
  BY <1>1 DEF StoryInv, ToldOf, StoryInOrder, Idle
<1> QED
  BY <1>2, <1>3, <1>4 DEF SocketInv

-----------------------------------------------------------------------------
(***************************************************************************)
(* A task that moves to f leaves the numbers and the types as they were.   *)
(***************************************************************************)
LEMMA MoveKeepsIds ==
    ASSUME SocketType, OwnIds, NEW t \in Task, NEW f \in {Idle} \cup Busy,
           task' = [task EXCEPT ![t] = f], begun' = begun,
           f = Idle \/ (task[t] # Idle /\ f.row.id = task[t].row.id)
    PROVE  OwnIds' /\ task' \in [Task -> {Idle} \cup Busy]
<1>1. task' \in [Task -> {Idle} \cup Busy]
  BY DEF SocketType
<1>2. task'[t] = f /\ \A u \in Task : u # t => task'[u] = task[u]
  BY DEF SocketType
<1>3. \A u \in Task : task'[u] # Idle => task[u] # Idle /\ task'[u].row.id = task[u].row.id
  BY <1>2
<1> QED
  BY <1>1, <1>3 DEF OwnIds

\* What is appended to a sequence does not disturb what is in it.
LEMMA AppendedTo ==
    ASSUME NEW S, NEW s \in Seq(S), NEW e \in S
    PROVE  /\ Append(s, e) \in Seq(S)
           /\ Len(s) \in Nat /\ DOMAIN s = 1 .. Len(s)
           /\ Len(Append(s, e)) = Len(s) + 1
           /\ DOMAIN Append(s, e) = 1 .. Len(s) + 1
           /\ Append(s, e)[Len(s) + 1] = e
           /\ \A i \in 1 .. Len(s) : Append(s, e)[i] = s[i] /\ s[i] \in S
OBVIOUS

\* A task that neither writes nor tells anything.
LEMMA QuietMove ==
    ASSUME SocketInv, NEW t \in Task, NEW f \in {Idle} \cup Busy,
           task' = [task EXCEPT ![t] = f], begun' = begun,
           UNCHANGED <<log, failed, sent>>,
           f = Idle \/ (task[t] # Idle /\ f.row.id = task[t].row.id),
           task[t].at # "writing", f.at # "writing",
           FileOf(f, log), ToldOf(f, sent)
    PROVE  SocketInv'
<1>1. OwnIds' /\ task' \in [Task -> {Idle} \cup Busy]
  BY MoveKeepsIds DEF SocketInv
<1>2. SocketType'
  BY <1>1 DEF SocketInv, SocketType
<1>3. task'[t] = f /\ \A u \in Task : u # t => task'[u] = task[u]
  BY DEF SocketInv, SocketType
<1>4. FileFree' <=> FileFree
  BY <1>3 DEF FileFree
<1>5. FileInv'
  BY <1>3, <1>4 DEF SocketInv, FileInv, FileOf, Abandoned, RowsNeverMix
<1>6. StoryInv'
  BY <1>3 DEF SocketInv, StoryInv, ToldOf, Metric, StoryInOrder
<1> QED
  BY <1>1, <1>2, <1>5, <1>6 DEF SocketInv

-----------------------------------------------------------------------------
(***************************************************************************)
(* Appending an event e: the story stays in order if e may follow all that *)
(* was told of its fetch, and the other fetches do not notice.             *)
(***************************************************************************)
LEMMA TellInOrder ==
    ASSUME SocketType, StoryInOrder, NEW e \in Told, sent' = Append(sent, e),
           \A i \in DOMAIN sent : sent[i].id = e.id => <<sent[i].kind, e.kind>> \in Follows,
           e.kind \in {"completed", "failed"} =>
              \E i \in DOMAIN sent : sent[i].id = e.id /\ sent[i].kind \in {"hit", "miss"}
    PROVE  StoryInOrder'
<1>1. /\ DOMAIN sent = 1 .. Len(sent) /\ DOMAIN sent' = 1 .. Len(sent) + 1 /\ Len(sent) \in Nat
      /\ sent'[Len(sent) + 1] = e
      /\ \A i \in DOMAIN sent : sent'[i] = sent[i]
  BY AppendedTo DEF SocketType
<1>2. ASSUME NEW i \in DOMAIN sent', NEW j \in DOMAIN sent', i < j, sent'[i].id = sent'[j].id
      PROVE  <<sent'[i].kind, sent'[j].kind>> \in Follows
  <2>1. i \in DOMAIN sent /\ (j \in DOMAIN sent \/ j = Len(sent) + 1)
    BY <1>1, <1>2
  <2>2. CASE j \in DOMAIN sent
    BY <1>1, <1>2, <2>1, <2>2 DEF StoryInOrder
  <2>3. CASE j = Len(sent) + 1
    BY <1>1, <1>2, <2>1, <2>3
  <2> QED
    BY <2>1, <2>2, <2>3
<1>3. ASSUME NEW j \in DOMAIN sent', sent'[j].kind \in {"completed", "failed"}
      PROVE  \E i \in DOMAIN sent' : sent'[i].id = sent'[j].id /\ sent'[i].kind \in {"hit", "miss"}
  <2>1. \E i \in DOMAIN sent : sent[i].id = sent'[j].id /\ sent[i].kind \in {"hit", "miss"}
    <3>1. CASE j \in DOMAIN sent
      BY <1>1, <1>3, <3>1 DEF StoryInOrder
    <3>2. CASE j = Len(sent) + 1
      BY <1>1, <1>3, <3>2
    <3> QED
      BY <1>1, <3>1, <3>2
  <2> QED
    BY <1>1, <2>1
<1> QED
  BY <1>2, <1>3 DEF StoryInOrder, Follows

LEMMA TellsOthersNothing ==
    ASSUME SocketType, NEW e \in Told, sent' = Append(sent, e),
           NEW f \in {Idle} \cup Busy, f # Idle => f.row.id # e.id, ToldOf(f, sent)
    PROVE  ToldOf(f, sent')
<1>1. /\ DOMAIN sent = 1 .. Len(sent) /\ DOMAIN sent' = 1 .. Len(sent) + 1 /\ Len(sent) \in Nat
      /\ sent'[Len(sent) + 1] = e
      /\ \A i \in DOMAIN sent : sent'[i] = sent[i]
  BY AppendedTo DEF SocketType
<1>2. CASE f = Idle
  BY <1>2 DEF ToldOf, Idle
<1>3. CASE f # Idle
  BY <1>1, <1>3 DEF ToldOf, Metric
<1> QED
  BY <1>2, <1>3

\* Appending an event leaves the types.
LEMMA TellTyped ==
    ASSUME SocketType, NEW e \in Told, sent' = Append(sent, e), e.id <= begun'
    PROVE  /\ sent' \in Seq(Told)
           /\ begun' \in Nat /\ begun' >= begun => \A i \in DOMAIN sent' : sent'[i].id <= begun'
<1>1. /\ DOMAIN sent = 1 .. Len(sent) /\ DOMAIN sent' = 1 .. Len(sent) + 1 /\ Len(sent) \in Nat
      /\ sent'[Len(sent) + 1] = e /\ sent' \in Seq(Told)
      /\ \A i \in DOMAIN sent : sent'[i] = sent[i] /\ sent[i] \in Told
  BY AppendedTo DEF SocketType
<1>2. \A i \in DOMAIN sent : sent[i].id <= begun /\ sent[i].id \in Nat
  BY <1>1 DEF SocketType, Told
<1> QED
  BY <1>1, <1>2 DEF SocketType

-----------------------------------------------------------------------------
(***************************************************************************)
(* A step of t that tells e and writes nothing.                            *)
(***************************************************************************)
LEMMA TellMove ==
    ASSUME SocketInv, NEW t \in Task, NEW f \in {Idle} \cup Busy, NEW e \in Told,
           task' = [task EXCEPT ![t] = f], begun' \in Nat, begun' >= begun,
           UNCHANGED <<log, failed>>, sent' = Append(sent, e), e.id <= begun',
           OwnIds',
           \A u \in Task : u # t /\ task[u] # Idle => task[u].row.id # e.id,
           \A i \in DOMAIN sent : sent[i].id = e.id => <<sent[i].kind, e.kind>> \in Follows,
           e.kind \in {"completed", "failed"} =>
              \E i \in DOMAIN sent : sent[i].id = e.id /\ sent[i].kind \in {"hit", "miss"},
           task[t].at # "writing", f.at # "writing",
           FileOf(f, log), ToldOf(f, sent')
    PROVE  SocketInv'
<1>1. task'[t] = f /\ \A u \in Task : u # t => task'[u] = task[u]
  BY DEF SocketInv, SocketType
<1>2. SocketType'
  <2>1. task' \in [Task -> {Idle} \cup Busy]
    BY DEF SocketInv, SocketType
  <2>2. sent' \in Seq(Told) /\ \A i \in DOMAIN sent' : sent'[i].id <= begun'
    BY TellTyped DEF SocketInv
  <2>3. \A i \in DOMAIN log' : log'[i].id <= begun'
    <3>1. \A i \in DOMAIN log : log[i] \in Piece
      BY DEF SocketInv, SocketType
    <3>2. \A i \in DOMAIN log : log[i].id \in Nat /\ log[i].id <= begun
      BY <3>1 DEF SocketInv, SocketType, Piece
    <3>3. begun \in Nat /\ log' = log
      BY DEF SocketInv, SocketType
    <3> QED
      BY <3>2, <3>3
  <2> QED
    BY <2>1, <2>2, <2>3 DEF SocketInv, SocketType
<1>3. FileFree' <=> FileFree
  BY <1>1 DEF FileFree
<1>4. FileInv'
  BY <1>1, <1>3 DEF SocketInv, FileInv, FileOf, Abandoned, RowsNeverMix
<1>5. StoryInOrder'
  BY TellInOrder DEF SocketInv, StoryInv
<1>6. ASSUME NEW u \in Task PROVE ToldOf(task'[u], sent')
  <2>1. CASE u = t
    BY <1>1, <2>1
  <2>2. CASE u # t
    <3>1. task[u] \in {Idle} \cup Busy /\ ToldOf(task[u], sent) /\ task'[u] = task[u]
      BY <1>1, <2>2 DEF SocketInv, SocketType, StoryInv
    <3>2. task[u] # Idle => task[u].row.id # e.id
      BY <2>2
    <3>3. ToldOf(task[u], sent')
      BY <3>1, <3>2, TellsOthersNothing DEF SocketInv
    <3> QED
      BY <3>1, <3>3
  <2> QED
    BY <2>1, <2>2
<1> QED
  BY <1>2, <1>4, <1>5, <1>6 DEF SocketInv, StoryInv

-----------------------------------------------------------------------------
(***************************************************************************)
(* The actions.                                                            *)
(***************************************************************************)
\* A task that is anywhere but idle holds a report.
LEMMA BusyTask ==
    ASSUME SocketInv, NEW t \in Task, task[t].at # "idle"
    PROVE  /\ task[t] # Idle /\ task[t] \in Busy
           /\ task[t].row.id \in Nat \ {0} /\ task[t].row.id <= begun
           /\ \A u \in Task : u # t /\ task[u] # Idle => task[u].row.id # task[t].row.id
<1>1. task[t] # Idle /\ task[t] \in Busy
  BY DEF SocketInv, SocketType, Idle
<1> QED
  BY <1>1 DEF SocketInv, OwnIds, Busy, Report

LEMMA BeginInv == ASSUME SocketInv, NEW t \in Task, NEW c \in Class, Begin(t, c) PROVE SocketInv'
<1> DEFINE r == [id |-> begun + 1, class |-> c, hit |-> FALSE]
           f == At("fetching", r)
           e == Event("started", r)
<1>1. /\ task[t] = Idle /\ begun' = begun + 1 /\ begun \in Nat
      /\ task' = [task EXCEPT ![t] = f] /\ sent' = Append(sent, e)
      /\ UNCHANGED <<log, failed>>
  BY DEF Begin, SocketInv, SocketType
<1>2. f \in Busy /\ e \in Told /\ e.id = begun + 1 /\ e.kind = "started"
      /\ f.row.id = begun + 1 /\ f # Idle /\ f.at = "fetching"
  BY <1>1 DEF At, Event, Busy, Stage, Report, Told, Kinds, Idle
<1>3. \A u \in Task : task[u] # Idle => task[u].row.id \in Nat /\ task[u].row.id <= begun
  BY DEF SocketInv, OwnIds, SocketType, Busy, Report
<1>4. (\A i \in DOMAIN sent : sent[i].id # begun + 1) /\ (\A i \in DOMAIN log : log[i].id # begun + 1)
  <2>1. \A i \in DOMAIN sent : sent[i] \in Told
    BY DEF SocketInv, SocketType
  <2>2. \A i \in DOMAIN log : log[i] \in Piece
    BY DEF SocketInv, SocketType
  <2> QED
    BY <1>1, <2>1, <2>2 DEF SocketInv, SocketType, Told, Piece
<1> HIDE DEF f, e
<1>5. OwnIds'
  <2>1. task'[t] = f /\ \A u \in Task : u # t => task'[u] = task[u]
    BY <1>1 DEF SocketInv, SocketType
  <2> QED
    BY <1>1, <1>2, <1>3, <2>1 DEF SocketInv, OwnIds
<1>6. FileOf(f, log)
  BY <1>2, <1>4 DEF FileOf
<1>7. ToldOf(f, sent')
  <2>1. \A i \in DOMAIN sent' : sent'[i].id = begun + 1 => sent'[i].kind = "started"
    BY <1>1, <1>2, <1>4, AppendedTo DEF SocketInv, SocketType
  <2> QED
    BY <1>2, <2>1 DEF ToldOf
<1>8. \A u \in Task : u # t /\ task[u] # Idle => task[u].row.id # e.id
  BY <1>1, <1>2, <1>3
<1>9. task[t].at # "writing" /\ f.at # "writing"
  BY <1>1, <1>2 DEF Idle
<1>10. /\ \A i \in DOMAIN sent : sent[i].id = e.id => <<sent[i].kind, e.kind>> \in Follows
       /\ ~ (e.kind \in {"completed", "failed"})
       /\ e.id <= begun' /\ begun' \in Nat /\ begun' >= begun
  BY <1>1, <1>2, <1>4
<1>11. f \in {Idle} \cup Busy /\ e \in Told
  BY <1>2
<1> QED
  BY <1>1, <1>5, <1>6, <1>7, <1>8, <1>9, <1>10, <1>11, TellMove

LEMMA FetchedInv ==
    ASSUME SocketInv, NEW t \in Task, NEW hit \in BOOLEAN, Fetched(t, hit) PROVE SocketInv'
<1> DEFINE f == At("record", [task[t].row EXCEPT !.hit = hit])
<1>1. task[t].at = "fetching" /\ task' = [task EXCEPT ![t] = f] /\ UNCHANGED <<log, failed, sent, begun>>
  BY DEF Fetched
<1>2. task[t] \in Busy /\ task[t] # Idle
  BY <1>1, BusyTask
<1>3. f \in Busy /\ f.row.id = task[t].row.id /\ f.at = "record"
  BY <1>2 DEF At, Busy, Stage, Report
<1> HIDE DEF f
<1>4. FileOf(f, log) /\ ToldOf(f, sent)
  BY <1>1, <1>3 DEF SocketInv, FileInv, StoryInv, FileOf, ToldOf
<1> QED
  BY <1>1, <1>2, <1>3, <1>4, QuietMove

LEMMA SaveFailsInv == ASSUME SocketInv, NEW t \in Task, SaveFails(t) PROVE SocketInv'
<1>1. task[t].at = "reported" /\ task' = [task EXCEPT ![t] = Idle] /\ UNCHANGED <<log, failed, sent, begun>>
  BY DEF SaveFails
<1>2. FileOf(Idle, log) /\ ToldOf(Idle, sent) /\ Idle.at # "writing"
  BY DEF FileOf, ToldOf, Idle
<1> QED
  BY <1>1, <1>2, QuietMove

LEMMA RecordInv == ASSUME SocketInv, NEW t \in Task, Record(t), UNCHANGED begun PROVE SocketInv'
<1> DEFINE f == At("send", task[t].row)
<1>1. task[t].at = "record" /\ task' = [task EXCEPT ![t] = f] /\ UNCHANGED <<log, failed, sent, begun>>
  BY DEF Record, Goto
<1>2. task[t] \in Busy /\ task[t] # Idle
  BY <1>1, BusyTask
<1>3. f \in Busy /\ f.row.id = task[t].row.id /\ f.at = "send"
  BY <1>2 DEF At, Busy, Stage
<1> HIDE DEF f
<1>4. FileOf(f, log) /\ ToldOf(f, sent)
  BY <1>1, <1>3 DEF SocketInv, FileInv, StoryInv, FileOf, ToldOf
<1> QED
  BY <1>1, <1>2, <1>3, <1>4, QuietMove

LEMMA SendMetricInv ==
    ASSUME SocketInv, NEW t \in Task, SendMetric(t), UNCHANGED begun PROVE SocketInv'
<1> DEFINE m == Metric(task[t])
           f == At(IF Logged THEN "append" ELSE "reported", task[t].row)
           e == Event(m, task[t].row)
<1>1. /\ task[t].at = "send" /\ task' = [task EXCEPT ![t] = f] /\ sent' = Append(sent, e)
      /\ UNCHANGED <<log, failed, begun>>
  BY DEF SendMetric, Goto, Metric
<1>2. /\ task[t] \in Busy /\ task[t] # Idle /\ task[t].row.id <= begun /\ begun \in Nat
      /\ \A u \in Task : u # t /\ task[u] # Idle => task[u].row.id # task[t].row.id
  BY <1>1, BusyTask DEF SocketInv, SocketType
<1>3. m \in {"hit", "miss"}
  BY DEF Metric
<1> HIDE DEF m
<1>4. /\ f \in Busy /\ f.row = task[t].row /\ f.at \in {"append", "reported"}
      /\ e \in Told /\ e.id = task[t].row.id /\ e.kind = m
  BY <1>2, <1>3 DEF At, Event, Busy, Stage, Report, Told, Kinds
<1>5. Metric(f) = m
  BY <1>4 DEF m, Metric
<1> HIDE DEF f, e
<1>6. \A i \in DOMAIN sent : sent[i].id = e.id => sent[i].kind = "started"
  BY <1>1, <1>4 DEF SocketInv, StoryInv, ToldOf
<1>7. ToldOf(f, sent')
  <2>1. /\ DOMAIN sent = 1 .. Len(sent) /\ DOMAIN sent' = 1 .. Len(sent) + 1 /\ Len(sent) \in Nat
        /\ sent'[Len(sent) + 1] = e
        /\ \A i \in DOMAIN sent : sent'[i] = sent[i]
    BY <1>1, <1>4, AppendedTo DEF SocketInv, SocketType
  <2>2. \A i \in DOMAIN sent' : sent'[i].id = f.row.id => sent'[i].kind \in {"started", Metric(f)}
    BY <1>4, <1>5, <1>6, <2>1
  <2>3. sent'[Len(sent) + 1].id = f.row.id /\ sent'[Len(sent) + 1].kind = Metric(f)
    BY <1>4, <1>5, <2>1
  <2>4. \E i \in DOMAIN sent' : sent'[i].id = f.row.id /\ sent'[i].kind = Metric(f)
    BY <2>1, <2>3
  <2> QED
    BY <1>4, <2>2, <2>4 DEF ToldOf
<1>8. OwnIds'
  BY <1>1, <1>2, <1>4, MoveKeepsIds DEF SocketInv
<1>9. FileOf(f, log)
  BY <1>1, <1>4 DEF SocketInv, FileInv, FileOf
<1>10. /\ \A i \in DOMAIN sent : sent[i].id = e.id => <<sent[i].kind, e.kind>> \in Follows
       /\ ~ (e.kind \in {"completed", "failed"})
       /\ e.id <= begun' /\ begun' \in Nat /\ begun' >= begun
  <2>1. <<"started", m>> \in Follows
    BY <1>3 DEF Follows
  <2>2. \A i \in DOMAIN sent : sent[i].id = e.id => <<sent[i].kind, e.kind>> \in Follows
    BY <1>4, <1>6, <2>1
  <2> QED
    BY <1>1, <1>2, <1>3, <1>4, <2>2
<1>11. f \in {Idle} \cup Busy /\ task[t].at # "writing" /\ f.at # "writing"
  BY <1>1, <1>4
<1>12. \A u \in Task : u # t /\ task[u] # Idle => task[u].row.id # e.id
  BY <1>2, <1>4
<1> QED
  BY <1>1, <1>4, <1>7, <1>8, <1>9, <1>10, <1>11, <1>12, TellMove

LEMMA AnswerInv == ASSUME SocketInv, NEW t \in Task, Answer(t) PROVE SocketInv'
<1> DEFINE w == LastWord(task[t].row)
           m == Metric(task[t])
           e == Event(w, task[t].row)
<1>1. /\ task[t].at = "reported" /\ task' = [task EXCEPT ![t] = Idle] /\ sent' = Append(sent, e)
      /\ UNCHANGED <<log, failed, begun>>
  BY DEF Answer
<1>2. /\ task[t] \in Busy /\ task[t] # Idle /\ task[t].row.id <= begun /\ begun \in Nat
      /\ \A u \in Task : u # t /\ task[u] # Idle => task[u].row.id # task[t].row.id
  BY <1>1, BusyTask DEF SocketInv, SocketType
<1>3. w \in {"completed", "failed"} /\ <<"started", w>> \in Follows /\ <<m, w>> \in Follows
      /\ m \in {"hit", "miss"}
  BY DEF LastWord, Metric, Follows
<1>4. /\ \A i \in DOMAIN sent : sent[i].id = task[t].row.id => sent[i].kind \in {"started", m}
      /\ \E i \in DOMAIN sent : sent[i].id = task[t].row.id /\ sent[i].kind = m
  BY <1>1 DEF SocketInv, StoryInv, ToldOf
<1> HIDE DEF w, m
<1>5. e \in Told /\ e.id = task[t].row.id /\ e.kind = w
  BY <1>2, <1>3 DEF Event, Busy, Report, Told, Kinds
<1> HIDE DEF e
<1>6. OwnIds'
  BY <1>1, MoveKeepsIds DEF SocketInv
<1>7. FileOf(Idle, log) /\ ToldOf(Idle, sent') /\ Idle.at # "writing" /\ task[t].at # "writing"
  BY <1>1 DEF FileOf, ToldOf, Idle
<1>8. \A i \in DOMAIN sent : sent[i].id = e.id => <<sent[i].kind, e.kind>> \in Follows
  BY <1>3, <1>4, <1>5
<1>9. \E i \in DOMAIN sent : sent[i].id = e.id /\ sent[i].kind \in {"hit", "miss"}
  BY <1>3, <1>4, <1>5
<1>10. e.id <= begun' /\ begun' \in Nat /\ begun' >= begun
  BY <1>1, <1>2, <1>5
<1>11. \A u \in Task : u # t /\ task[u] # Idle => task[u].row.id # e.id
  BY <1>2, <1>5
<1> QED
  BY <1>1, <1>5, <1>6, <1>7, <1>8, <1>9, <1>10, <1>11, TellMove

-----------------------------------------------------------------------------
(***************************************************************************)
(* The steps on the file: what they do not disturb, then each of them.     *)
(***************************************************************************)
LEMMA WriteMove ==
    ASSUME SocketInv, NEW t \in Task, NEW f \in Busy, f.row = task[t].row,
           task[t].at \in {"append", "writing"}, f.at \in {"writing", "reported"},
           task' = [task EXCEPT ![t] = f], begun' = begun, sent' = sent,
           log' \in Seq(Piece), \A i \in DOMAIN log' : log'[i].id <= begun,
           FileInv'
    PROVE  SocketInv'
<1>1. task[t] # Idle
  BY DEF Idle
<1>2. OwnIds' /\ task' \in [Task -> {Idle} \cup Busy]
  BY <1>1, MoveKeepsIds DEF SocketInv
<1>3. SocketType'
  BY <1>2 DEF SocketInv, SocketType
<1>4. task'[t] = f /\ \A u \in Task : u # t => task'[u] = task[u]
  BY DEF SocketInv, SocketType
<1>5. ToldOf(f, sent)
  BY DEF SocketInv, StoryInv, ToldOf, Metric
<1>6. StoryInv'
  BY <1>4, <1>5 DEF SocketInv, StoryInv, ToldOf, Metric, StoryInOrder
<1> QED
  BY <1>2, <1>3, <1>6 DEF SocketInv

\* Appending a piece e of the file.
LEMMA WritesPiece ==
    ASSUME SocketType, NEW e \in Piece, e.id <= begun, log' = Append(log, e)
    PROVE  /\ log' \in Seq(Piece) /\ Len(log) \in Nat /\ Len(log') = Len(log) + 1
           /\ DOMAIN log = 1 .. Len(log) /\ DOMAIN log' = 1 .. Len(log) + 1
           /\ log'[Len(log) + 1] = e
           /\ \A i \in 1 .. Len(log) : log'[i] = log[i] /\ log[i] \in Piece
           /\ \A i \in DOMAIN log' : log'[i].id <= begun
<1>1. /\ log' \in Seq(Piece) /\ Len(log) \in Nat /\ Len(log') = Len(log) + 1
      /\ DOMAIN log = 1 .. Len(log) /\ DOMAIN log' = 1 .. Len(log) + 1
      /\ log'[Len(log) + 1] = e
      /\ \A i \in 1 .. Len(log) : log'[i] = log[i] /\ log[i] \in Piece
  BY AppendedTo DEF SocketType
<1> QED
  BY <1>1 DEF SocketType

\* Such a piece leaves the rows whole if it is new, and fits its neighbour.
LEMMA RowsStay ==
    ASSUME SocketType, RowsNeverMix, NEW e \in Piece, log' = Append(log, e), failed' = failed,
           \A i \in 1 .. Len(log) : log[i] # e,
           e.part = "rest" => Len(log) > 0 /\ log[Len(log)] = [e EXCEPT !.part = "first"],
           Len(log) > 0 /\ log[Len(log)].part = "first" /\ log[Len(log)].id \notin failed
              => e = [log[Len(log)] EXCEPT !.part = "rest"]
    PROVE  RowsNeverMix'
<1> DEFINE n == Len(log)
           First(l) == [l EXCEPT !.part = "first"]
           Rest(l) == [l EXCEPT !.part = "rest"]
<1>1. /\ n \in Nat /\ Len(log') = n + 1 /\ DOMAIN log = 1 .. n /\ DOMAIN log' = 1 .. n + 1
      /\ log'[n + 1] = e /\ \A i \in 1 .. n : log'[i] = log[i]
  BY AppendedTo DEF SocketType
<1>2. \A i \in 1 .. n : /\ \A j \in 1 .. n : log[j] = log[i] => i = j
                        /\ log[i].part = "rest" => i > 1 /\ log[i - 1] = First(log[i])
                        /\ log[i].part = "first" /\ i < n /\ log[i].id \notin failed
                              => log[i + 1] = Rest(log[i])
  BY <1>1 DEF RowsNeverMix
<1>3. /\ \A i \in 1 .. n : log[i] # e
      /\ e.part = "rest" => n > 0 /\ log[n] = First(e)
      /\ n > 0 /\ log[n].part = "first" /\ log[n].id \notin failed => e = Rest(log[n])
  OBVIOUS
<1> SUFFICES ASSUME NEW i \in 1 .. n + 1
    PROVE  /\ \A j \in 1 .. n + 1 : log'[j] = log'[i] => i = j
           /\ log'[i].part = "rest" => i > 1 /\ log'[i - 1] = First(log'[i])
           /\ log'[i].part = "first" /\ i < n + 1 /\ log'[i].id \notin failed
                 => log'[i + 1] = Rest(log'[i])
  BY <1>1 DEF RowsNeverMix
<1> HIDE DEF n, First, Rest
<1>4. CASE i = n + 1
  BY <1>1, <1>3, <1>4
<1>5. CASE i \in 1 .. n
  <2>1. \A j \in 1 .. n + 1 : log'[j] = log'[i] => i = j
    BY <1>1, <1>2, <1>3, <1>5
  <2>2. log'[i].part = "rest" => i > 1 /\ log'[i - 1] = First(log'[i])
    <3> SUFFICES ASSUME log[i].part = "rest" PROVE i > 1 /\ log'[i - 1] = First(log[i])
      BY <1>1, <1>5
    <3>1. i > 1 /\ log[i - 1] = First(log[i])
      BY <1>2, <1>5
    <3>2. i - 1 \in 1 .. n
      BY <1>1, <1>5, <3>1
    <3> QED
      BY <1>1, <3>1, <3>2
  <2>3. log'[i].part = "first" /\ log'[i].id \notin failed => log'[i + 1] = Rest(log'[i])
    <3> SUFFICES ASSUME log[i].part = "first", log[i].id \notin failed PROVE log'[i + 1] = Rest(log[i])
      BY <1>1, <1>5
    <3>1. CASE i = n
      BY <1>1, <1>3, <1>5, <3>1
    <3>2. CASE i < n
      <4>1. log[i + 1] = Rest(log[i])
        BY <1>2, <1>5, <3>2
      <4>2. i + 1 \in 1 .. n
        BY <1>1, <1>5, <3>2
      <4> QED
        BY <1>1, <4>1, <4>2
    <3> QED
      BY <1>1, <1>5, <3>1, <3>2
  <2> QED
    BY <2>1, <2>2, <2>3
<1> QED
  BY <1>1, <1>4, <1>5

LEMMA AppendFirstInv ==
    ASSUME SocketInv, NEW t \in Task, AppendFirst(t), UNCHANGED begun PROVE SocketInv'
<1> DEFINE f == At("writing", task[t].row)
           e == [id |-> task[t].row.id, part |-> "first"]
           n == Len(log)
<1>1. /\ task[t].at = "append" /\ FileFree /\ task' = [task EXCEPT ![t] = f]
      /\ log' = Append(log, e) /\ UNCHANGED <<sent, failed, begun>>
  BY DEF AppendFirst, Goto
<1>2. /\ task[t] \in Busy /\ task[t] # Idle /\ task[t].row.id \in Nat /\ task[t].row.id <= begun
      /\ \A u \in Task : u # t /\ task[u] # Idle => task[u].row.id # task[t].row.id
  BY <1>1, BusyTask
<1>3. /\ f \in Busy /\ f.row = task[t].row /\ f.at = "writing"
      /\ e \in Piece /\ e.id = task[t].row.id /\ e.part = "first"
  BY <1>2 DEF At, Busy, Stage, Piece
<1>4. task'[t] = f /\ \A u \in Task : u # t => task'[u] = task[u]
  BY <1>1 DEF SocketInv, SocketType
<1>5. /\ log' \in Seq(Piece) /\ n \in Nat /\ Len(log') = n + 1
      /\ DOMAIN log = 1 .. n /\ DOMAIN log' = 1 .. n + 1 /\ log'[n + 1] = e
      /\ \A i \in 1 .. n : log'[i] = log[i] /\ log[i] \in Piece
      /\ \A i \in DOMAIN log' : log'[i].id <= begun
  BY <1>1, <1>2, <1>3, WritesPiece DEF SocketInv
<1>6. \A i \in 1 .. n : log[i].id # e.id
  BY <1>1, <1>3, <1>5 DEF SocketInv, FileInv, FileOf
<1> HIDE DEF f, n
<1>7. ASSUME NEW u \in Task PROVE FileOf(task'[u], log')
  <2>1. CASE u = t
    BY <1>3, <1>4, <1>5, <1>6, <2>1 DEF FileOf, e
  <2>2. CASE u # t
    <3>1. task[u].at # "writing" /\ FileOf(task[u], log) /\ task'[u] = task[u]
      BY <1>1, <1>4, <2>2 DEF FileFree, SocketInv, FileInv
    <3>2. task[u] # Idle => task[u].row.id # e.id
      BY <1>2, <1>3, <2>2
    <3> QED
      BY <1>5, <3>1, <3>2 DEF FileOf, Idle
  <2> QED
    BY <2>1, <2>2
<1>8. Abandoned'
  BY <1>3, <1>4 DEF Abandoned, FileFree
<1>9. n > 0 /\ log[n].part = "first" => log[n].id \in failed
  BY <1>1 DEF SocketInv, FileInv, Abandoned, n
<1> HIDE DEF e
<1>10. RowsNeverMix'
  <2>1. \A i \in 1 .. n : log[i] # e
    BY <1>6
  <2> QED
    BY <1>1, <1>3, <1>9, <2>1, RowsStay DEF SocketInv, FileInv, n
<1> QED
  BY <1>1, <1>3, <1>5, <1>7, <1>8, <1>10, WriteMove DEF FileInv

LEMMA AppendRestInv ==
    ASSUME SocketInv, NEW t \in Task, AppendRest(t), UNCHANGED begun PROVE SocketInv'
<1> DEFINE f == At("reported", task[t].row)
           e == [id |-> task[t].row.id, part |-> "rest"]
           b == [id |-> task[t].row.id, part |-> "first"]
           n == Len(log)
<1>1. /\ task[t].at = "writing" /\ task' = [task EXCEPT ![t] = f]
      /\ log' = Append(log, e) /\ UNCHANGED <<sent, failed, begun>>
  BY DEF AppendRest, Goto
<1>2. /\ task[t] \in Busy /\ task[t] # Idle /\ task[t].row.id \in Nat /\ task[t].row.id <= begun
      /\ \A u \in Task : u # t /\ task[u] # Idle => task[u].row.id # task[t].row.id
  BY <1>1, BusyTask
<1>3. /\ f \in Busy /\ f.row = task[t].row /\ f.at = "reported"
      /\ e \in Piece /\ e.id = task[t].row.id /\ e.part = "rest"
      /\ b \in Piece /\ b.id = task[t].row.id /\ b.part = "first"
      /\ b = [e EXCEPT !.part = "first"] /\ e = [b EXCEPT !.part = "rest"]
  BY <1>2 DEF At, Busy, Stage, Piece
<1>4. task'[t] = f /\ \A u \in Task : u # t => task'[u] = task[u]
  BY <1>1 DEF SocketInv, SocketType
<1>5. /\ log' \in Seq(Piece) /\ n \in Nat /\ Len(log') = n + 1
      /\ DOMAIN log = 1 .. n /\ DOMAIN log' = 1 .. n + 1 /\ log'[n + 1] = e
      /\ \A i \in 1 .. n : log'[i] = log[i] /\ log[i] \in Piece
      /\ \A i \in DOMAIN log' : log'[i].id <= begun
  BY <1>1, <1>2, <1>3, WritesPiece DEF SocketInv
<1>6. n > 0 /\ log[n] = b /\ \A i \in 1 .. n - 1 : log[i].id # e.id
  BY <1>1, <1>3 DEF SocketInv, FileInv, FileOf
<1> HIDE DEF f
<1>7. ASSUME NEW u \in Task PROVE FileOf(task'[u], log')
  <2>1. CASE u = t
    BY <1>3, <1>4, <2>1 DEF FileOf
  <2>2. CASE u # t
    <3>1. FileOf(task[u], log) /\ task'[u] = task[u]
      BY <1>4, <2>2 DEF SocketInv, FileInv
    <3>2. task[u] # Idle => task[u].row.id # e.id
      BY <1>2, <1>3, <2>2
    <3>3. task[u].at # "writing"
      BY <1>3, <1>6, <3>1, <3>2 DEF FileOf, Idle
    <3> QED
      BY <1>5, <3>1, <3>2, <3>3 DEF FileOf, Idle
  <2> QED
    BY <2>1, <2>2
<1> HIDE DEF e, b, n
<1>8. Abandoned'
  BY <1>3, <1>5 DEF Abandoned
<1>9. RowsNeverMix'
  <2>1. ASSUME NEW i \in 1 .. n PROVE log[i] # e
    <3>1. CASE i = n
      <4>1. b # e
        BY ONLY <1>3
      <4> QED
        BY <1>6, <3>1, <4>1
    <3>2. CASE i \in 1 .. n - 1
      BY <1>6, <3>2
    <3> QED
      BY <1>5, <3>1, <3>2
  <2>2. e.part = "rest" => n > 0 /\ log[n] = [e EXCEPT !.part = "first"]
    BY <1>3, <1>6
  <2>3. e = [log[n] EXCEPT !.part = "rest"]
    BY <1>3, <1>6
  <2> QED
    BY <1>1, <1>3, <2>1, <2>2, <2>3, RowsStay DEF SocketInv, FileInv, n
<1> QED
  BY <1>1, <1>3, <1>5, <1>7, <1>8, <1>9, WriteMove DEF FileInv

LEMMA AppendFailsInv ==
    ASSUME SocketInv, NEW t \in Task, AppendFails(t), UNCHANGED begun PROVE SocketInv'
<1> DEFINE f == At("reported", task[t].row)
<1>1. /\ task[t].at = "writing" \/ (task[t].at = "append" /\ FileFree)
      /\ task' = [task EXCEPT ![t] = f] /\ UNCHANGED <<log, sent, begun>>
      /\ failed' = failed \cup {task[t].row.id}
  BY DEF AppendFails, Goto
<1>2. task[t] \in Busy
  BY <1>1, BusyTask
<1>3. f \in Busy /\ f.row = task[t].row /\ f.at = "reported"
  BY <1>2 DEF At, Busy, Stage
<1>4. task'[t] = f /\ \A u \in Task : u # t => task'[u] = task[u]
  BY <1>1 DEF SocketInv, SocketType
<1> HIDE DEF f
<1>5. \A u \in Task : FileOf(task'[u], log')
  BY <1>1, <1>3, <1>4 DEF SocketInv, FileInv, FileOf
<1>6. Abandoned'
  <2>1. CASE task[t].at = "writing"
    <3>1. log[Len(log)] = [id |-> task[t].row.id, part |-> "first"]
      BY <2>1 DEF SocketInv, FileInv, FileOf
    <3> QED
      BY <1>1, <3>1 DEF Abandoned
  <2>2. CASE FileFree
    BY <1>1, <2>2 DEF SocketInv, FileInv, Abandoned
  <2> QED
    BY <1>1, <2>1, <2>2
<1>7. RowsNeverMix'
  BY <1>1 DEF SocketInv, FileInv, RowsNeverMix
<1>8. log' \in Seq(Piece) /\ \A i \in DOMAIN log' : log'[i].id <= begun
  BY <1>1 DEF SocketInv, SocketType
<1> QED
  BY <1>1, <1>3, <1>5, <1>6, <1>7, <1>8, WriteMove DEF FileInv

-----------------------------------------------------------------------------
LEMMA NextSocket == SocketInv /\ [SocketNext]_socketVars => SocketInv'
<1> SUFFICES ASSUME SocketInv, [SocketNext]_socketVars PROVE SocketInv'
  OBVIOUS
<1>1. CASE UNCHANGED socketVars
  BY <1>1 DEF socketVars, sinkVars, SocketInv, SocketType, OwnIds, FileInv, FileOf, FileFree,
              Abandoned, RowsNeverMix, StoryInv, ToldOf, Metric, StoryInOrder
<1>2. ASSUME NEW t \in Task, NEW c \in Class, Begin(t, c) PROVE SocketInv'
  BY <1>2, BeginInv
<1>3. ASSUME NEW t \in Task, NEW hit \in BOOLEAN, Fetched(t, hit) PROVE SocketInv'
  BY <1>3, FetchedInv
<1>4. ASSUME NEW t \in Task, EmitStep(t) PROVE SocketInv'
  BY <1>4, RecordInv, SendMetricInv, AppendFirstInv, AppendRestInv, AppendFailsInv
     DEF EmitStep, Emit
<1>5. ASSUME NEW t \in Task, SaveFails(t) PROVE SocketInv'
  BY <1>5, SaveFailsInv
<1>6. ASSUME NEW t \in Task, Answer(t) PROVE SocketInv'
  BY <1>6, AnswerInv
<1> QED
  BY <1>1, <1>2, <1>3, <1>4, <1>5, <1>6 DEF SocketNext

LEMMA SocketInvHolds == SocketSpec => []SocketInv
<1> QED
  BY InitSocket, NextSocket, PTL DEF SocketSpec

(***************************************************************************)
(* Whatever connections fetch at once and whichever writes fail, no row of *)
(* the metrics file is split by another (metrics_sink.rs:55-58).           *)
(***************************************************************************)
THEOREM RowsStayWhole == SocketSpec => []RowsNeverMix
<1>1. SocketInv => RowsNeverMix
  BY DEF SocketInv, FileInv
<1> QED
  BY <1>1, SocketInvHolds, PTL

(***************************************************************************)
(* Subscribers are told of every fetch its start, its metric and its end,  *)
(* in this order (server.rs, do_fetch).                                    *)
(***************************************************************************)
THEOREM StoriesStayInOrder == SocketSpec => []StoryInOrder
<1>1. SocketInv => StoryInOrder
  BY DEF SocketInv, StoryInv
<1> QED
  BY <1>1, SocketInvHolds, PTL
-----------------------------------------------------------------------------
(***************************************************************************)
(* The counters.  CountedBeforeTold is nearly inductive: what it counts    *)
(* must be finite, and no class may have more at "send" than it counts.    *)
(***************************************************************************)
HitsAtSend(c) == {t \in AtSend(c) : task[t].row.hit}
Metrics(c)    == EventsOf(c, {"hit", "miss"})
HitsTold(c)   == EventsOf(c, {"hit"})

CountInv ==
    /\ totals \in [Class -> [fetches : Nat, hits : Nat]]
    /\ \A c \in Class : IsFiniteSet(AtSend(c))
    /\ CountedBeforeTold

LEMMA EventsFinite ==
    ASSUME SocketType, NEW c, NEW K
    PROVE  IsFiniteSet(EventsOf(c, K)) /\ Cardinality(EventsOf(c, K)) \in Nat
<1>1. EventsOf(c, K) \subseteq 1 .. Len(sent) /\ Len(sent) \in Nat
  BY DEF EventsOf, SocketType
<1>2. IsFiniteSet(1 .. Len(sent))
  BY <1>1, FS_Interval
<1> QED
  BY <1>1, <1>2, FS_Subset, FS_CardinalityType

\* What the channel holds of one class and one kind, when e is sent.
LEMMA EventsGrow ==
    ASSUME SocketType, NEW e \in Told, sent' = Append(sent, e), NEW c, NEW K
    PROVE  /\ EventsOf(c, K)' = IF e.class = c /\ e.kind \in K
                                THEN EventsOf(c, K) \cup {Len(sent) + 1} ELSE EventsOf(c, K)
           /\ Len(sent) + 1 \notin EventsOf(c, K)
<1>1. /\ DOMAIN sent = 1 .. Len(sent) /\ DOMAIN sent' = 1 .. Len(sent) + 1 /\ Len(sent) \in Nat
      /\ sent'[Len(sent) + 1] = e
      /\ \A i \in DOMAIN sent : sent'[i] = sent[i]
  BY AppendedTo DEF SocketType
<1>2. DOMAIN sent' = DOMAIN sent \cup {Len(sent) + 1} /\ Len(sent) + 1 \notin DOMAIN sent
  BY <1>1
<1> QED
  BY <1>1, <1>2, Zenon DEF EventsOf

LEMMA OneMore ==
    ASSUME NEW S, IsFiniteSet(S), NEW x, x \notin S
    PROVE  /\ IsFiniteSet(S \cup {x}) /\ Cardinality(S) \in Nat
           /\ Cardinality(S \cup {x}) = Cardinality(S) + 1
BY FS_AddElement, FS_CardinalityType

LEMMA OneLess ==
    ASSUME NEW S, IsFiniteSet(S), NEW x \in S
    PROVE  /\ IsFiniteSet(S \ {x}) /\ Cardinality(S) \in Nat /\ Cardinality(S \ {x}) \in Nat
           /\ Cardinality(S) = Cardinality(S \ {x}) + 1
<1>1. IsFiniteSet(S \ {x}) /\ x \notin S \ {x} /\ (S \ {x}) \cup {x} = S
  BY FS_RemoveElement
<1> QED
  BY <1>1, OneMore, FS_CardinalityType

\* A step that counts nothing, tells no metric, and neither comes to "send"
\* nor leaves it.
LEMMA SameCount ==
    ASSUME SocketType, CountInv, NEW t \in Task, NEW f,
           task' = [task EXCEPT ![t] = f], task[t].at # "send", f.at # "send",
           totals' = totals,
           \A c \in Class : Metrics(c)' = Metrics(c) /\ HitsTold(c)' = HitsTold(c)
    PROVE  CountInv'
<1>1. task'[t] = f /\ \A u \in Task : u # t => task'[u] = task[u]
  BY DEF SocketType
<1>2. ASSUME NEW c \in Class PROVE AtSend(c)' = AtSend(c) /\ HitsAtSend(c)' = HitsAtSend(c)
  <2>1. AtSend(c)' = AtSend(c) /\ t \notin AtSend(c)
    BY <1>1 DEF AtSend
  <2> QED
    BY <1>1, <2>1 DEF HitsAtSend, AtSend
<1> QED
  BY <1>2 DEF CountInv, CountedBeforeTold, Metrics, HitsTold, HitsAtSend

LEMMA QuietCount ==
    ASSUME SocketType, CountInv, NEW t \in Task, NEW f, UNCHANGED <<totals, sent>>,
           task' = [task EXCEPT ![t] = f], task[t].at # "send", f.at # "send"
    PROVE  CountInv'
<1>1. \A c \in Class : Metrics(c)' = Metrics(c) /\ HitsTold(c)' = HitsTold(c)
  BY DEF Metrics, HitsTold, EventsOf
<1> QED
  BY <1>1, SameCount

\* An event that is no metric.
LEMMA OtherEvent ==
    ASSUME SocketType, CountInv, NEW t \in Task, NEW f, totals' = totals,
           task' = [task EXCEPT ![t] = f], task[t].at # "send", f.at # "send",
           NEW e \in Told, sent' = Append(sent, e), e.kind \notin {"hit", "miss"}
    PROVE  CountInv'
<1>1. \A c \in Class : Metrics(c)' = Metrics(c) /\ HitsTold(c)' = HitsTold(c)
  BY EventsGrow DEF Metrics, HitsTold
<1> QED
  BY <1>1, SameCount

LEMMA BeginCount ==
    ASSUME SocketInv, CountInv, NEW t \in Task, NEW c \in Class, Begin(t, c) PROVE CountInv'
<1> DEFINE r == [id |-> begun + 1, class |-> c, hit |-> FALSE]
           f == At("fetching", r)
           e == Event("started", r)
<1>1. /\ task' = [task EXCEPT ![t] = f] /\ totals' = totals /\ sent' = Append(sent, e)
      /\ task[t].at # "send"
  BY DEF Begin, Idle
<1>2. e \in Told /\ e.kind = "started"
  BY DEF SocketInv, SocketType, Told, Kinds, Event
<1>3. f.at # "send"
  BY DEF At
<1> HIDE DEF f, e
<1> QED
  BY <1>1, <1>2, <1>3, OtherEvent DEF SocketInv

LEMMA AnswerCount ==
    ASSUME SocketInv, CountInv, NEW t \in Task, Answer(t) PROVE CountInv'
<1> DEFINE e == Event(LastWord(task[t].row), task[t].row)
<1>1. /\ task' = [task EXCEPT ![t] = Idle] /\ totals' = totals /\ sent' = Append(sent, e)
      /\ task[t].at = "reported"
  BY DEF Answer
<1>2. task[t] \in Busy
  BY <1>1, BusyTask
<1>3. e \in Told /\ e.kind \in {"completed", "failed"}
  BY <1>2 DEF Busy, Report, Told, Kinds, Event, LastWord
<1>4. Idle.at # "send"
  BY DEF Idle
<1> HIDE DEF e
<1> QED
  BY <1>1, <1>3, <1>4, OtherEvent DEF SocketInv

LEMMA RecordCount ==
    ASSUME SocketInv, CountInv, NEW t \in Task, Record(t) PROVE CountInv'
<1> DEFINE r == task[t].row
           n == totals[r.class]
<1>1. task[t].at = "record" /\ sent' = sent /\ task' = [task EXCEPT ![t] = At("send", r)]
      /\ totals' = [totals EXCEPT ![r.class] = Count(n, r)]
  BY DEF Record, Goto
<1>2. r \in Report /\ r.class \in Class /\ r.hit \in BOOLEAN
  BY <1>1, BusyTask DEF Busy, Report
<1>3. /\ task'[t].at = "send" /\ task'[t].row = r
      /\ \A u \in Task : u # t => task'[u] = task[u]
  BY <1>1 DEF At, SocketInv, SocketType
<1>4. n \in [fetches : Nat, hits : Nat] /\ Count(n, r) \in [fetches : Nat, hits : Nat]
  BY <1>2 DEF CountInv, Count
<1>5. totals' \in [Class -> [fetches : Nat, hits : Nat]]
  BY <1>1, <1>2, <1>4 DEF CountInv
<1>6. ASSUME NEW c \in Class
      PROVE  /\ IsFiniteSet(AtSend(c)')
             /\ totals'[c].fetches = Cardinality(Metrics(c)') + Cardinality(AtSend(c)')
             /\ totals'[c].hits = Cardinality(HitsTold(c)') + Cardinality(HitsAtSend(c)')
  <2>1. Metrics(c)' = Metrics(c) /\ HitsTold(c)' = HitsTold(c)
    BY <1>1 DEF Metrics, HitsTold, EventsOf
  <2>2. /\ IsFiniteSet(AtSend(c)) /\ t \notin AtSend(c) /\ t \notin HitsAtSend(c)
        /\ IsFiniteSet(HitsAtSend(c))
    BY <1>1, FS_Subset DEF CountInv, AtSend, HitsAtSend
  <2>3. /\ totals[c].fetches = Cardinality(Metrics(c)) + Cardinality(AtSend(c))
        /\ totals[c].hits = Cardinality(HitsTold(c)) + Cardinality(HitsAtSend(c))
    BY DEF CountInv, CountedBeforeTold, Metrics, HitsTold, HitsAtSend
  <2>4. /\ Cardinality(Metrics(c)) \in Nat /\ Cardinality(HitsTold(c)) \in Nat
        /\ Cardinality(AtSend(c)) \in Nat /\ Cardinality(HitsAtSend(c)) \in Nat
    BY <2>2, EventsFinite, FS_CardinalityType DEF SocketInv, Metrics, HitsTold
  <2>5. CASE c # r.class
    <3>1. AtSend(c)' = AtSend(c)
      BY <1>1, <1>3, <2>5 DEF AtSend
    <3>2. HitsAtSend(c)' = HitsAtSend(c)
      BY <1>3, <2>2, <3>1 DEF HitsAtSend, AtSend
    <3>3. totals'[c] = totals[c]
      BY <1>1, <2>5 DEF CountInv
    <3> QED
      BY <2>1, <2>2, <2>3, <3>1, <3>2, <3>3
  <2>6. CASE c = r.class
    <3>1. AtSend(c)' = AtSend(c) \cup {t}
      BY <1>1, <1>3, <2>6, Zenon DEF AtSend
    <3>2. HitsAtSend(c)' = IF r.hit THEN HitsAtSend(c) \cup {t} ELSE HitsAtSend(c)
      BY <1>3, <2>2, <3>1 DEF HitsAtSend, AtSend
    <3>3. totals'[c] = Count(totals[c], r)
      BY <1>1, <2>6 DEF CountInv
    <3>4. /\ IsFiniteSet(AtSend(c)')
          /\ Cardinality(AtSend(c)') = Cardinality(AtSend(c)) + 1
      BY <2>2, <3>1, OneMore
    <3>5. Cardinality(HitsAtSend(c)') = IF r.hit THEN Cardinality(HitsAtSend(c)) + 1
                                        ELSE Cardinality(HitsAtSend(c))
      BY <2>2, <3>2, OneMore
    <3>6. /\ totals'[c].fetches = totals[c].fetches + 1
          /\ totals'[c].hits = IF r.hit THEN totals[c].hits + 1 ELSE totals[c].hits
      BY <3>3 DEF Count
    <3> QED
      BY <2>1, <2>3, <2>4, <3>4, <3>5, <3>6
  <2> QED
    BY <2>5, <2>6
<1> QED
  BY <1>5, <1>6 DEF CountInv, CountedBeforeTold, Metrics, HitsTold, HitsAtSend

\* One fewer about to be told, one more told: of the same class, and a hit
\* when it was one.
LEMMA SendMetricCount ==
    ASSUME SocketInv, CountInv, NEW t \in Task, SendMetric(t) PROVE CountInv'
<1> DEFINE r == task[t].row
           k == IF r.hit THEN "hit" ELSE "miss"
           e == Event(k, r)
           f == At(IF Logged THEN "append" ELSE "reported", r)
<1>1. /\ task[t].at = "send" /\ totals' = totals
      /\ task' = [task EXCEPT ![t] = f] /\ sent' = Append(sent, e)
  BY DEF SendMetric, Goto
<1>2. r \in Report /\ r.class \in Class /\ r.hit \in BOOLEAN
  BY <1>1, BusyTask DEF Busy, Report
<1>3. f.at # "send"
  BY DEF At
<1>4. task'[t] = f /\ \A u \in Task : u # t => task'[u] = task[u]
  BY <1>1 DEF SocketInv, SocketType
<1>5. e \in Told /\ e.class = r.class /\ e.kind = k
  BY <1>2 DEF Event, Told, Kinds, Report
<1> HIDE DEF e, f
<1>6. ASSUME NEW c \in Class
      PROVE  /\ IsFiniteSet(AtSend(c)')
             /\ totals'[c].fetches = Cardinality(Metrics(c)') + Cardinality(AtSend(c)')
             /\ totals'[c].hits = Cardinality(HitsTold(c)') + Cardinality(HitsAtSend(c)')
  <2>1. /\ IsFiniteSet(AtSend(c)) /\ IsFiniteSet(HitsAtSend(c))
        /\ IsFiniteSet(Metrics(c)) /\ IsFiniteSet(HitsTold(c))
    BY FS_Subset, EventsFinite DEF SocketInv, CountInv, HitsAtSend, Metrics, HitsTold
  <2>2. /\ totals[c].fetches = Cardinality(Metrics(c)) + Cardinality(AtSend(c))
        /\ totals[c].hits = Cardinality(HitsTold(c)) + Cardinality(HitsAtSend(c))
    BY DEF CountInv, CountedBeforeTold, Metrics, HitsTold, HitsAtSend
  <2>3. CASE c # r.class
    <3>1. AtSend(c)' = AtSend(c) /\ HitsAtSend(c)' = HitsAtSend(c)
      BY <1>3, <1>4, <2>3, Zenon DEF AtSend, HitsAtSend
    <3>2. Metrics(c)' = Metrics(c) /\ HitsTold(c)' = HitsTold(c)
      BY <1>1, <1>5, <2>3, EventsGrow DEF Metrics, HitsTold, SocketInv
    <3> QED
      BY <1>1, <2>1, <2>2, <3>1, <3>2
  <2>4. CASE c = r.class
    <3>1. AtSend(c)' = AtSend(c) \ {t} /\ t \in AtSend(c)
      BY <1>1, <1>3, <1>4, <2>4, Zenon DEF AtSend
    <3>2. Metrics(c)' = Metrics(c) \cup {Len(sent) + 1} /\ Len(sent) + 1 \notin Metrics(c)
      BY <1>1, <1>5, <2>4, EventsGrow DEF Metrics, SocketInv
    <3>3. /\ IsFiniteSet(AtSend(c)')
          /\ totals[c].fetches = Cardinality(Metrics(c)') + Cardinality(AtSend(c)')
      <4>1. /\ IsFiniteSet(AtSend(c)') /\ Cardinality(AtSend(c)') \in Nat
            /\ Cardinality(AtSend(c)) = Cardinality(AtSend(c)') + 1
        BY <2>1, <3>1, OneLess
      <4>2. /\ Cardinality(Metrics(c)) \in Nat
            /\ Cardinality(Metrics(c)') = Cardinality(Metrics(c)) + 1
        BY <2>1, <3>2, OneMore
      <4> QED
        BY <2>2, <4>1, <4>2
    <3>4. totals[c].hits = Cardinality(HitsTold(c)') + Cardinality(HitsAtSend(c)')
      <4>1. CASE r.hit
        <5>1. HitsAtSend(c)' = HitsAtSend(c) \ {t} /\ t \in HitsAtSend(c)
          BY <1>4, <3>1, <4>1 DEF HitsAtSend, AtSend
        <5>2. HitsTold(c)' = HitsTold(c) \cup {Len(sent) + 1} /\ Len(sent) + 1 \notin HitsTold(c)
          BY <1>1, <1>5, <2>4, <4>1, EventsGrow DEF HitsTold, SocketInv
        <5>3. /\ Cardinality(HitsAtSend(c)') \in Nat
              /\ Cardinality(HitsAtSend(c)) = Cardinality(HitsAtSend(c)') + 1
          BY <2>1, <5>1, OneLess
        <5>4. /\ Cardinality(HitsTold(c)) \in Nat
              /\ Cardinality(HitsTold(c)') = Cardinality(HitsTold(c)) + 1
          BY <2>1, <5>2, OneMore
        <5> QED
          BY <2>2, <5>3, <5>4
      <4>2. CASE ~r.hit
        <5>1. HitsAtSend(c)' = HitsAtSend(c)
          BY <1>4, <3>1, <4>2 DEF HitsAtSend, AtSend
        <5>2. HitsTold(c)' = HitsTold(c)
          BY <1>1, <1>5, <2>4, <4>2, EventsGrow DEF HitsTold, SocketInv
        <5> QED
          BY <2>2, <5>1, <5>2
      <4> QED
        BY <1>2, <4>1, <4>2
    <3> QED
      BY <1>1, <3>3, <3>4
  <2> QED
    BY <2>3, <2>4
<1> QED
  BY <1>1, <1>6 DEF CountInv, CountedBeforeTold, Metrics, HitsTold, HitsAtSend

LEMMA NextCount == SocketInv /\ CountInv /\ [SocketNext]_socketVars => CountInv'
<1> SUFFICES ASSUME SocketInv, CountInv, [SocketNext]_socketVars PROVE CountInv'
  OBVIOUS
<1>0. SocketType
  BY DEF SocketInv
<1>1. CASE UNCHANGED socketVars
  BY <1>1 DEF socketVars, sinkVars, CountInv, CountedBeforeTold, AtSend, EventsOf
<1>2. ASSUME NEW t \in Task, NEW c \in Class, Begin(t, c) PROVE CountInv'
  BY <1>2, BeginCount
<1>3. ASSUME NEW t \in Task, NEW hit \in BOOLEAN, Fetched(t, hit) PROVE CountInv'
  <2> DEFINE f == At("record", [task[t].row EXCEPT !.hit = hit])
  <2>1. /\ task' = [task EXCEPT ![t] = f] /\ task[t].at # "send" /\ f.at # "send"
        /\ UNCHANGED <<totals, sent>>
    BY <1>3 DEF Fetched, At
  <2> HIDE DEF f
  <2> QED
    BY <1>0, <2>1, QuietCount
<1>4. ASSUME NEW t \in Task, AppendFirst(t) \/ AppendRest(t) \/ AppendFails(t) PROVE CountInv'
  <2>1. PICK a \in {"writing", "reported"} : task' = [task EXCEPT ![t] = At(a, task[t].row)]
    BY <1>4 DEF AppendFirst, AppendRest, AppendFails, Goto
  <2>2. task[t].at # "send" /\ UNCHANGED <<totals, sent>>
    BY <1>4 DEF AppendFirst, AppendRest, AppendFails
  <2>3. At(a, task[t].row).at # "send"
    BY DEF At
  <2> QED
    BY <1>0, <2>1, <2>2, <2>3, QuietCount
<1>5. ASSUME NEW t \in Task, SaveFails(t) PROVE CountInv'
  <2>1. Idle.at # "send"
    BY DEF Idle
  <2> QED
    BY <1>0, <1>5, <2>1, QuietCount DEF SaveFails
<1>6. ASSUME NEW t \in Task, Answer(t) PROVE CountInv'
  BY <1>6, AnswerCount
<1> QED
  BY <1>1, <1>2, <1>3, <1>4, <1>5, <1>6, RecordCount, SendMetricCount
     DEF SocketNext, EmitStep, Emit

LEMMA InitCount == SocketInit => CountInv
<1> SUFFICES ASSUME SocketInit PROVE CountInv
  OBVIOUS
<1>1. /\ totals = [c \in Class |-> [fetches |-> 0, hits |-> 0]] /\ sent = <<>>
      /\ task = [t \in Task |-> Idle]
  BY DEF SocketInit, SinkInit
<1>2. ASSUME NEW c \in Class
      PROVE  AtSend(c) = {} /\ HitsAtSend(c) = {} /\ Metrics(c) = {} /\ HitsTold(c) = {}
  <2>1. \A t \in Task : task[t].at = "idle"
    BY <1>1 DEF Idle
  <2>2. AtSend(c) = {}
    BY <2>1 DEF AtSend
  <2>3. Metrics(c) = {} /\ HitsTold(c) = {}
    BY <1>1 DEF Metrics, HitsTold, EventsOf
  <2> QED
    BY <2>2, <2>3 DEF HitsAtSend
<1>3. ASSUME NEW c \in Class
      PROVE  /\ IsFiniteSet(AtSend(c))
             /\ totals[c].fetches = Cardinality(Metrics(c)) + Cardinality(AtSend(c))
             /\ totals[c].hits = Cardinality(HitsTold(c)) + Cardinality(HitsAtSend(c))
  <2>1. totals[c].fetches = 0 /\ totals[c].hits = 0
    BY <1>1
  <2>2. IsFiniteSet({}) /\ Cardinality({}) = 0
    BY FS_EmptySet
  <2> QED
    BY <1>2, <2>1, <2>2
<1>4. totals \in [Class -> [fetches : Nat, hits : Nat]]
  BY <1>1
<1> QED
  BY <1>3, <1>4 DEF CountInv, CountedBeforeTold, Metrics, HitsTold, HitsAtSend

(***************************************************************************)
(* However many fetches of a class end at once, its counters are at every  *)
(* moment what subscribers were told, and what they are about to be told   *)
(* (metrics_sink.rs:168-170): recorded first, each fetch once.             *)
(***************************************************************************)
THEOREM CountsAreTold == SocketSpec => []CountedBeforeTold
<1>1. CountInv => CountedBeforeTold
  BY DEF CountInv
<1>2. SocketInv /\ CountInv /\ [SocketNext]_socketVars => CountInv'
  BY NextCount
<1> QED
  BY <1>1, <1>2, InitCount, SocketInvHolds, PTL DEF SocketSpec

-----------------------------------------------------------------------------
(***************************************************************************)
(* What stays within bounds, and which fetches have been counted.  These   *)
(* facts need nothing of FileInv and StoryInv, so they also hold of a      *)
(* daemon that ends and is started again.                                  *)
(***************************************************************************)
Waits(f)   == f.at \in {"fetching", "record"}
Pending    == {t \in Task : Waits(task[t])}
Counted    == {i \in 1 .. begun : \A t \in Task : Waits(task[t]) => task[t].row.id # i}

TaskInv ==
    /\ begun \in 0 .. MaxFetches
    /\ task \in [Task -> {Idle} \cup Busy]
    /\ OwnIds

\* What is counted and what waits to be: never more than has begun.
TallyInv ==
    /\ totals \in [Class -> [fetches : Nat, hits : Nat]]
    /\ IsFiniteSet(Pending)
    /\ \A c \in Class : /\ totals[c].hits <= totals[c].fetches
                        /\ totals[c].fetches + Cardinality(Pending) <= begun

RingInv ==
    /\ rows \in Seq(Report) /\ Len(rows) <= RecentCap
    /\ \A i \in DOMAIN rows : rows[i].id \in Counted

FileBounds ==
    /\ log \in Seq(Piece) /\ \A i \in DOMAIN log : log[i].id \in 1 .. begun
    /\ failed \subseteq 1 .. begun

ChannelInv ==
    /\ sent \in Seq(Told)
    /\ \A i \in DOMAIN sent : sent[i].kind = "completed" => sent[i].id \in Counted

NodeInv == TaskInv /\ TallyInv /\ RingInv /\ FileBounds /\ ChannelInv

\* The steps of a task, by what they do to it and to the rest.
Opens(t, f) ==
    /\ task[t] = Idle /\ begun < MaxFetches
    /\ begun' = begun + 1 /\ f.at = "fetching" /\ f.row.id = begun + 1
    /\ \E e \in Told : sent' = Append(sent, e) /\ e.kind = "started"
    /\ UNCHANGED <<totals, rows, log, failed>>

Counts(t, f) ==
    /\ task[t] \in Busy /\ task[t].at = "record" /\ f.at = "send" /\ f.row = task[t].row
    /\ totals' = [totals EXCEPT ![f.row.class] = Count(@, f.row)]
    /\ rows' = Push(rows, f.row)
    /\ UNCHANGED <<sent, log, failed, begun>>

GoesOn(t, f) ==
    /\ task[t] \in Busy /\ (Waits(f) <=> Waits(task[t]))
    /\ f # Idle => f.row.id = task[t].row.id
    /\ \/ log' = log
       \/ \E p \in Piece : log' = Append(log, p) /\ p.id = task[t].row.id
    /\ failed' \subseteq failed \cup {task[t].row.id}
    /\ \/ sent' = sent
       \/ \E e \in Told : /\ sent' = Append(sent, e) /\ e.id = task[t].row.id
                          /\ ~Waits(task[t])
    /\ UNCHANGED <<totals, rows, begun>>

Moves(t, f) == /\ task' = [task EXCEPT ![t] = f]
               /\ Opens(t, f) \/ Counts(t, f) \/ GoesOn(t, f)

LEMMA BusyHere ==
    ASSUME TaskInv, NEW t \in Task, task[t].at # "idle"
    PROVE  /\ task[t] \in Busy /\ task[t] # Idle
           /\ task[t].row \in Report /\ task[t].row.id \in Nat \ {0}
           /\ task[t].row.id <= begun
<1>1. task[t] # Idle /\ task[t] \in Busy
  BY DEF TaskInv, Idle
<1> QED
  BY <1>1 DEF TaskInv, OwnIds, Busy, Report

LEMMA BeginMoves ==
    ASSUME TaskInv, NEW t \in Task, NEW c \in Class, Begin(t, c)
    PROVE  \E f \in {Idle} \cup Busy : Moves(t, f)
<1> DEFINE r == [id |-> begun + 1, class |-> c, hit |-> FALSE]
           f == At("fetching", r)
           e == Event("started", r)
<1>1. /\ task[t] = Idle /\ begun < MaxFetches /\ begun' = begun + 1 /\ begun \in Nat
      /\ task' = [task EXCEPT ![t] = f] /\ sent' = Append(sent, e)
      /\ UNCHANGED <<totals, rows, log, failed>>
  BY DEF Begin, TaskInv
<1>2. f \in Busy /\ e \in Told /\ e.kind = "started" /\ f.at = "fetching" /\ f.row.id = begun + 1
  BY <1>1 DEF At, Event, Busy, Stage, Report, Told, Kinds
<1> HIDE DEF f, e
<1>3. Opens(t, f)
  BY <1>1, <1>2 DEF Opens
<1> QED
  BY <1>1, <1>2, <1>3 DEF Moves

LEMMA FetchedMoves ==
    ASSUME TaskInv, NEW t \in Task, NEW hit \in BOOLEAN, Fetched(t, hit)
    PROVE  \E f \in {Idle} \cup Busy : Moves(t, f)
<1> DEFINE f == At("record", [task[t].row EXCEPT !.hit = hit])
<1>1. /\ task[t].at = "fetching" /\ task' = [task EXCEPT ![t] = f]
      /\ UNCHANGED <<totals, rows, sent, log, failed, begun>>
  BY DEF Fetched
<1>2. task[t] \in Busy
  BY <1>1, BusyHere
<1>3. f \in Busy /\ f.row.id = task[t].row.id /\ f.at = "record"
  BY <1>2 DEF At, Busy, Stage, Report
<1> HIDE DEF f
<1>4. GoesOn(t, f)
  BY <1>1, <1>2, <1>3 DEF GoesOn, Waits
<1> QED
  BY <1>1, <1>3, <1>4 DEF Moves

LEMMA EmitMoves ==
    ASSUME TaskInv, NEW t \in Task, EmitStep(t)
    PROVE  \E f \in {Idle} \cup Busy : Moves(t, f)
<1>0. task[t].at # "idle"
  BY DEF EmitStep, Emit, Record, SendMetric, AppendFirst, AppendRest, AppendFails
<1>1. task[t] \in Busy /\ task[t].row \in Report /\ task[t].row.id \in Nat
  BY <1>0, BusyHere
<1>2. \A a \in Stage : At(a, task[t].row) \in Busy /\ At(a, task[t].row).at = a
                       /\ At(a, task[t].row).row = task[t].row
  BY <1>1 DEF At, Busy
<1>3. {"send", "append", "writing", "reported"} \subseteq Stage
  BY DEF Stage
<1>4. CASE Record(t)
  <2> DEFINE f == At("send", task[t].row)
  <2>1. f \in Busy /\ f.at = "send" /\ f.row = task[t].row
    BY <1>2, <1>3
  <2>2. /\ task[t].at = "record" /\ task' = [task EXCEPT ![t] = f]
        /\ totals' = [totals EXCEPT ![task[t].row.class] = Count(@, task[t].row)]
        /\ rows' = Push(rows, task[t].row) /\ UNCHANGED <<sent, log, failed, begun>>
    BY <1>4 DEF Record, Goto, EmitStep
  <2> HIDE DEF f
  <2>3. Counts(t, f)
    BY <1>1, <2>1, <2>2 DEF Counts
  <2> QED
    BY <2>1, <2>2, <2>3 DEF Moves
<1>5. CASE SendMetric(t)
  <2> DEFINE f == At(IF Logged THEN "append" ELSE "reported", task[t].row)
             k == IF task[t].row.hit THEN "hit" ELSE "miss"
             e == Event(k, task[t].row)
  <2>1. f \in Busy /\ f.at \in {"append", "reported"} /\ f.row = task[t].row
    BY <1>2, <1>3
  <2>2. /\ task[t].at = "send" /\ task' = [task EXCEPT ![t] = f] /\ sent' = Append(sent, e)
        /\ UNCHANGED <<totals, rows, log, failed, begun>>
    BY <1>5 DEF SendMetric, Goto, EmitStep
  <2>3. k \in Kinds
    BY DEF Kinds
  <2> HIDE DEF f, k
  <2>4. e \in Told /\ e.id = task[t].row.id
    BY <1>1, <2>3 DEF Event, Told, Report
  <2> HIDE DEF e
  <2>5. GoesOn(t, f)
    BY <1>1, <2>1, <2>2, <2>4 DEF GoesOn, Waits
  <2> QED
    BY <2>1, <2>2, <2>5 DEF Moves
<1>6. CASE AppendFirst(t) \/ AppendRest(t) \/ AppendFails(t)
  <2>1. PICK a \in {"writing", "reported"} : task' = [task EXCEPT ![t] = At(a, task[t].row)]
    BY <1>6 DEF AppendFirst, AppendRest, AppendFails, Goto
  <2> DEFINE f == At(a, task[t].row)
  <2>2. f \in Busy /\ f.at = a /\ f.row = task[t].row
    BY <1>2, <1>3
  <2>3. /\ task[t].at \in {"append", "writing"} /\ UNCHANGED <<totals, rows, sent, begun>>
        /\ failed' \subseteq failed \cup {task[t].row.id}
    BY <1>6 DEF AppendFirst, AppendRest, AppendFails, EmitStep
  <2>4. \/ log' = log
        \/ \E p \in Piece : log' = Append(log, p) /\ p.id = task[t].row.id
    <3> DEFINE p1 == [id |-> task[t].row.id, part |-> "first"]
               p2 == [id |-> task[t].row.id, part |-> "rest"]
    <3>1. p1 \in Piece /\ p2 \in Piece /\ p1.id = task[t].row.id /\ p2.id = task[t].row.id
      BY <1>1 DEF Piece
    <3>2. log' = log \/ log' = Append(log, p1) \/ log' = Append(log, p2)
      BY <1>6 DEF AppendFirst, AppendRest, AppendFails
    <3> QED
      BY <3>1, <3>2
  <2> HIDE DEF f
  <2>5. GoesOn(t, f)
    BY <1>1, <2>2, <2>3, <2>4 DEF GoesOn, Waits
  <2> QED
    BY <2>1, <2>2, <2>5 DEF Moves, f
<1> QED
  BY <1>4, <1>5, <1>6 DEF EmitStep, Emit

LEMMA EndMoves ==
    ASSUME TaskInv, NEW t \in Task, SaveFails(t) \/ Answer(t)
    PROVE  \E f \in {Idle} \cup Busy : Moves(t, f)
<1> DEFINE k == LastWord(task[t].row)
           e == Event(k, task[t].row)
<1>1. /\ task[t].at = "reported" /\ task' = [task EXCEPT ![t] = Idle]
      /\ sent' = sent \/ sent' = Append(sent, e)
      /\ UNCHANGED <<totals, rows, log, failed, begun>>
  BY DEF SaveFails, Answer
<1>2. task[t] \in Busy /\ task[t].row \in Report
  BY <1>1, BusyHere
<1>3. k \in Kinds
  BY DEF LastWord, Kinds
<1> HIDE DEF k
<1>4. e \in Told /\ e.id = task[t].row.id
  BY <1>2, <1>3 DEF Event, Told, Report
<1> HIDE DEF e
<1>5. ~Waits(Idle) /\ ~Waits(task[t])
  BY <1>1 DEF Waits, Idle
<1>6. GoesOn(t, Idle)
  BY <1>1, <1>2, <1>4, <1>5 DEF GoesOn
<1> QED
  BY <1>1, <1>6 DEF Moves

LEMMA EveryStepMoves ==
    ASSUME TaskInv, SocketNext
    PROVE  \E t \in Task : \E f \in {Idle} \cup Busy : Moves(t, f)
BY BeginMoves, FetchedMoves, EmitMoves, EndMoves DEF SocketNext

\* Whatever t does, the other tasks are where they were.
LEMMA OthersStay ==
    ASSUME TaskInv, NEW t \in Task, NEW f \in {Idle} \cup Busy, Moves(t, f)
    PROVE  /\ task'[t] = f /\ \A u \in Task : u # t => task'[u] = task[u]
           /\ task' \in [Task -> {Idle} \cup Busy]
BY DEF Moves, TaskInv

LEMMA MovesTask ==
    ASSUME TaskInv, NEW t \in Task, NEW f \in {Idle} \cup Busy, Moves(t, f)
    PROVE  TaskInv'
<1>1. /\ task'[t] = f /\ \A u \in Task : u # t => task'[u] = task[u]
      /\ task' \in [Task -> {Idle} \cup Busy] /\ begun \in Nat
  BY OthersStay DEF TaskInv
<1>2. \A u \in Task : task[u] # Idle => task[u].row.id \in Nat /\ task[u].row.id <= begun
  BY DEF TaskInv, OwnIds, Busy, Report
<1>3. CASE Opens(t, f)
  <2>1. begun' = begun + 1 /\ f.row.id = begun + 1 /\ begun' \in 0 .. MaxFetches
    BY <1>1, <1>3, BoundAssumption DEF Opens, TaskInv
  <2> QED
    BY <1>1, <1>2, <2>1 DEF TaskInv, OwnIds
<1>4. CASE Counts(t, f) \/ GoesOn(t, f)
  <2>1. begun' = begun /\ task[t] # Idle /\ (f # Idle => f.row.id = task[t].row.id)
    BY <1>4 DEF Counts, GoesOn, Busy, Idle
  <2>2. \A u \in Task : task'[u] # Idle => task[u] # Idle /\ task'[u].row.id = task[u].row.id
    BY <1>1, <2>1
  <2> QED
    BY <1>1, <2>1, <2>2 DEF TaskInv, OwnIds
<1> QED
  BY <1>3, <1>4 DEF Moves

\* A fetch is counted for good: its number is not given out again.
LEMMA CountedStays ==
    ASSUME TaskInv, NEW t \in Task, NEW f \in {Idle} \cup Busy, Moves(t, f)
    PROVE  Counted \subseteq Counted'
<1> SUFFICES ASSUME NEW i \in Counted PROVE i \in Counted'
  OBVIOUS
<1>1. /\ task'[t] = f /\ \A u \in Task : u # t => task'[u] = task[u]
      /\ begun \in Nat /\ i \in 1 .. begun
      /\ \A u \in Task : Waits(task[u]) => task[u].row.id # i
  BY OthersStay DEF TaskInv, Counted
<1>2. begun' \in Nat /\ begun' >= begun /\ (Waits(f) => f.row.id # i)
  <2>1. CASE Opens(t, f)
    BY <1>1, <2>1 DEF Opens
  <2>2. CASE Counts(t, f)
    BY <1>1, <2>2 DEF Counts, Waits
  <2>3. CASE GoesOn(t, f)
    BY <1>1, <2>3 DEF GoesOn, Waits, Idle
  <2> QED
    BY <2>1, <2>2, <2>3 DEF Moves
<1>3. i \in 1 .. begun'
  BY <1>1, <1>2
<1>4. \A u \in Task : Waits(task'[u]) => task'[u].row.id # i
  BY <1>1, <1>2
<1> QED
  BY <1>3, <1>4 DEF Counted, Waits

\* What a task that does not wait, or waits no more, has fetched is counted.
LEMMA PastCounted ==
    ASSUME TaskInv, NEW t \in Task, NEW f \in {Idle} \cup Busy, Moves(t, f),
           task[t] \in Busy, ~Waits(f)
    PROVE  task[t].row.id \in Counted'
<1> DEFINE n == task[t].row.id
<1>1. /\ task'[t] = f /\ \A u \in Task : u # t => task'[u] = task[u]
  BY OthersStay
<1>2. task[t] # Idle /\ n \in Nat \ {0} /\ n <= begun /\ begun \in Nat
  BY DEF Busy, Idle, Stage, Report, TaskInv, OwnIds
<1>3. begun' \in Nat /\ begun' >= begun
  BY <1>2 DEF Moves, Opens, Counts, GoesOn
<1>4. \A u \in Task : u # t /\ Waits(task[u]) => task[u].row.id # n
  BY <1>2 DEF Waits, Idle, TaskInv, OwnIds
<1> HIDE DEF n
<1>5. \A u \in Task : Waits(task'[u]) => task'[u].row.id # n
  BY <1>1, <1>4
<1>6. n \in 1 .. begun'
  BY <1>2, <1>3
<1> QED
  BY <1>5, <1>6 DEF Counted, Waits, n

LEMMA PushesOnto ==
    ASSUME NEW S, NEW s \in Seq(S), NEW r \in S, Len(s) <= RecentCap
    PROVE  /\ Push(s, r) \in Seq(S) /\ Len(Push(s, r)) <= RecentCap
           /\ \A i \in DOMAIN Push(s, r) : \/ Push(s, r)[i] = r
                                           \/ \E j \in DOMAIN s : Push(s, r)[i] = s[j]
<1> DEFINE q == IF Len(s) = RecentCap THEN Tail(s) ELSE s
<1>1. /\ Len(s) \in Nat /\ RecentCap \in Nat /\ RecentCap > 0 /\ DOMAIN s = 1 .. Len(s)
      /\ Len(s) <= RecentCap
  BY SinkAssumption
<1>2. q \in Seq(S) /\ Len(q) + 1 <= RecentCap
  <2>1. CASE Len(s) = RecentCap
    <3>1. s # <<>>
      BY <1>1, <2>1
    <3>2. Tail(s) \in Seq(S) /\ Len(Tail(s)) = Len(s) - 1
      BY <1>1, <3>1
    <3> QED
      BY <1>1, <2>1, <3>2
  <2>2. CASE Len(s) # RecentCap
    <3>1. q = s
      BY <2>2
    <3>2. \A m, n \in Nat : m <= n /\ m # n => m + 1 <= n
      OBVIOUS
    <3>3. Len(s) + 1 <= RecentCap
      BY <1>1, <2>2, <3>2, Zenon
    <3> QED
      BY <3>1, <3>3
  <2> QED
    BY <2>1, <2>2
<1>3. \A i \in 1 .. Len(q) : \E j \in 1 .. Len(s) : q[i] = s[j]
  <2>1. CASE Len(s) = RecentCap
    <3>1. Len(q) = Len(s) - 1 /\ \A i \in 1 .. Len(s) - 1 : q[i] = s[i + 1] /\ i + 1 \in 1 .. Len(s)
      BY <1>1, <2>1
    <3> QED
      BY <1>1, <3>1
  <2>2. CASE Len(s) # RecentCap
    BY <2>2
  <2> QED
    BY <2>1, <2>2
<1>4. Push(s, r) = Append(q, r)
  BY DEF Push
<1> HIDE DEF q
<1>5. /\ Append(q, r) \in Seq(S) /\ Len(Append(q, r)) = Len(q) + 1 /\ Len(q) \in Nat
      /\ DOMAIN Append(q, r) = 1 .. Len(q) + 1
      /\ Append(q, r)[Len(q) + 1] = r
      /\ \A i \in 1 .. Len(q) : Append(q, r)[i] = q[i]
  BY <1>2, AppendedTo
<1>6. ASSUME NEW i \in 1 .. Len(q) + 1
      PROVE  Append(q, r)[i] = r \/ \E j \in DOMAIN s : Append(q, r)[i] = s[j]
  <2>1. i \in 1 .. Len(q) \/ i = Len(q) + 1
    BY <1>5
  <2> QED
    BY <1>1, <1>3, <1>5, <2>1
<1> QED
  BY <1>2, <1>4, <1>5, <1>6

LEMMA MovesRing ==
    ASSUME TaskInv, RingInv, NEW t \in Task, NEW f \in {Idle} \cup Busy, Moves(t, f)
    PROVE  RingInv'
<1>1. \A i \in DOMAIN rows : rows[i].id \in Counted'
  BY CountedStays DEF RingInv
<1>2. CASE rows' = rows
  BY <1>1, <1>2 DEF RingInv
<1>3. CASE Counts(t, f)
  <2>1. /\ rows' = Push(rows, f.row) /\ f.row = task[t].row /\ f.row \in Report
        /\ task[t] \in Busy /\ ~Waits(f)
    BY <1>3 DEF Counts, Waits, Busy
  <2>2. f.row.id \in Counted'
    BY <2>1, PastCounted
  <2>3. /\ rows' \in Seq(Report) /\ Len(rows') <= RecentCap
        /\ \A i \in DOMAIN rows' : rows'[i] = f.row \/ \E j \in DOMAIN rows : rows'[i] = rows[j]
    BY <2>1, PushesOnto DEF RingInv
  <2>4. \A i \in DOMAIN rows' : rows'[i].id \in Counted'
    BY <1>1, <2>2, <2>3
  <2> QED
    BY <2>3, <2>4 DEF RingInv
<1> QED
  BY <1>2, <1>3 DEF Moves, Opens, GoesOn

LEMMA MovesFile ==
    ASSUME TaskInv, FileBounds, NEW t \in Task, NEW f \in {Idle} \cup Busy, Moves(t, f)
    PROVE  FileBounds'
<1>1. begun \in Nat /\ begun' \in Nat /\ begun' >= begun
  BY DEF TaskInv, Moves, Opens, Counts, GoesOn
<1>2. CASE log' = log /\ failed' = failed
  BY <1>1, <1>2 DEF FileBounds
<1>3. CASE GoesOn(t, f)
  <2>1. task[t].row.id \in 1 .. begun /\ begun' = begun
    BY <1>3, BusyHere DEF GoesOn, TaskInv, OwnIds, Busy, Report, Idle
  <2>2. failed' \subseteq 1 .. begun
    BY <1>3, <2>1 DEF GoesOn, FileBounds
  <2>3. log' \in Seq(Piece) /\ \A i \in DOMAIN log' : log'[i].id \in 1 .. begun
    <3>1. ASSUME NEW p \in Piece, log' = Append(log, p), p.id = task[t].row.id
          PROVE  log' \in Seq(Piece) /\ \A i \in DOMAIN log' : log'[i].id \in 1 .. begun
      BY <2>1, <3>1, AppendedTo DEF FileBounds
    <3> QED
      BY <1>3, <3>1 DEF GoesOn, FileBounds
  <2> QED
    BY <2>1, <2>2, <2>3 DEF FileBounds
<1> QED
  BY <1>2, <1>3 DEF Moves, Opens, Counts

LEMMA MovesChannel ==
    ASSUME TaskInv, ChannelInv, NEW t \in Task, NEW f \in {Idle} \cup Busy, Moves(t, f)
    PROVE  ChannelInv'
<1>1. \A i \in DOMAIN sent : sent[i].kind = "completed" => sent[i].id \in Counted'
  BY CountedStays DEF ChannelInv
<1>2. CASE sent' = sent
  BY <1>1, <1>2 DEF ChannelInv
<1>3. ASSUME NEW e \in Told, sent' = Append(sent, e), e.kind = "completed" => e.id \in Counted'
      PROVE  ChannelInv'
  BY <1>1, <1>3, AppendedTo DEF ChannelInv
<1>4. CASE Opens(t, f)
  BY <1>3, <1>4 DEF Opens
<1>5. CASE GoesOn(t, f)
  <2>1. ~Waits(task[t]) => task[t].row.id \in Counted'
    BY <1>5, PastCounted DEF GoesOn
  <2> QED
    BY <1>2, <1>3, <1>5, <2>1 DEF GoesOn
<1> QED
  BY <1>2, <1>4, <1>5 DEF Moves, Counts

\* A fetch that begins is one more to count; once counted, one fewer.
LEMMA MovesTally ==
    ASSUME TaskInv, TallyInv, NEW t \in Task, NEW f \in {Idle} \cup Busy, Moves(t, f)
    PROVE  TallyInv'
<1>1. /\ task'[t] = f /\ \A u \in Task : u # t => task'[u] = task[u]
      /\ begun \in Nat /\ Cardinality(Pending) \in Nat /\ IsFiniteSet(Pending)
      /\ totals \in [Class -> [fetches : Nat, hits : Nat]]
  BY OthersStay, FS_CardinalityType DEF TaskInv, TallyInv
<1>2. \A c \in Class : /\ totals[c].fetches \in Nat /\ totals[c].hits \in Nat
                       /\ totals[c].hits <= totals[c].fetches
                       /\ totals[c].fetches + Cardinality(Pending) <= begun
  BY <1>1 DEF TallyInv
<1>3. CASE Opens(t, f)
  <2>1. /\ t \notin Pending /\ Pending' = Pending \cup {t}
        /\ totals' = totals /\ begun' = begun + 1
    BY <1>1, <1>3 DEF Pending, Opens, Waits, Idle
  <2>2. IsFiniteSet(Pending') /\ Cardinality(Pending') = Cardinality(Pending) + 1
    BY <1>1, <2>1, OneMore
  <2>3. \A c \in Class : totals[c].fetches + Cardinality(Pending') <= begun'
    BY <1>1, <1>2, <2>1, <2>2
  <2> QED
    BY <1>1, <1>2, <2>1, <2>2, <2>3 DEF TallyInv
<1>4. CASE GoesOn(t, f)
  <2>1. Pending' = Pending /\ totals' = totals /\ begun' = begun
    BY <1>1, <1>4 DEF Pending, GoesOn, Waits
  <2> QED
    BY <1>1, <1>2, <2>1 DEF TallyInv
<1>5. CASE Counts(t, f)
  <2> DEFINE r == f.row
  <2>1. /\ t \in Pending /\ Pending' = Pending \ {t} /\ begun' = begun
        /\ totals' = [totals EXCEPT ![r.class] = Count(@, r)]
    BY <1>1, <1>5 DEF Pending, Counts, Waits
  <2>2. /\ IsFiniteSet(Pending') /\ Cardinality(Pending') \in Nat
        /\ Cardinality(Pending) = Cardinality(Pending') + 1
    BY <1>1, <2>1, OneLess
  <2>3. r \in Report
    BY <1>5 DEF Counts, Busy
  <2> HIDE DEF r
  <2>4. r.class \in Class
    BY <2>3 DEF Report
  <2>5. \A c \in Class : totals'[c] = IF c = r.class THEN Count(totals[c], r) ELSE totals[c]
    BY <1>1, <2>1, <2>4
  <2>6. ASSUME NEW c \in Class
        PROVE  /\ totals'[c] \in [fetches : Nat, hits : Nat]
               /\ totals'[c].hits <= totals'[c].fetches
               /\ totals'[c].fetches <= totals[c].fetches + 1
    <3>1. CASE c # r.class
      BY <1>1, <1>2, <2>5, <3>1
    <3>2. CASE c = r.class
      <4>1. /\ totals'[c] = [fetches |-> totals[c].fetches + 1,
                             hits |-> IF r.hit THEN totals[c].hits + 1 ELSE totals[c].hits]
        BY <2>5, <3>2 DEF Count
      <4> QED
        BY <1>2, <4>1
    <3> QED
      BY <3>1, <3>2
  <2>7. \A c \in Class : totals'[c].fetches + Cardinality(Pending') <= begun'
    <3> SUFFICES ASSUME NEW c \in Class
                 PROVE  totals'[c].fetches + Cardinality(Pending') <= begun'
      OBVIOUS
    <3>1. totals'[c].fetches \in Nat /\ totals'[c].fetches <= totals[c].fetches + 1
      BY <2>6
    <3> QED
      BY <1>1, <1>2, <2>1, <2>2, <3>1
  <2>8. totals' \in [Class -> [fetches : Nat, hits : Nat]]
    <3>1. DOMAIN totals' = Class /\ totals' = [c \in Class |-> totals'[c]]
      BY <1>1, <2>1
    <3> QED
      BY <2>6, <3>1
  <2> QED
    BY <2>2, <2>6, <2>7, <2>8 DEF TallyInv
<1> QED
  BY <1>3, <1>4, <1>5 DEF Moves

LEMMA InitNode == SocketInit => NodeInv
<1> SUFFICES ASSUME SocketInit PROVE NodeInv
  OBVIOUS
<1>1. /\ totals = [c \in Class |-> [fetches |-> 0, hits |-> 0]] /\ rows = <<>> /\ sent = <<>>
      /\ log = <<>> /\ failed = {} /\ begun = 0 /\ task = [t \in Task |-> Idle]
  BY DEF SocketInit, SinkInit
<1>2. TaskInv
  BY <1>1, BoundAssumption DEF TaskInv, OwnIds
<1>3. Pending = {}
  BY <1>1 DEF Pending, Waits, Idle
<1>4. TallyInv
  BY <1>1, <1>3, FS_EmptySet DEF TallyInv
<1>5. RingInv /\ FileBounds /\ ChannelInv
  BY <1>1, SinkAssumption DEF RingInv, FileBounds, ChannelInv
<1> QED
  BY <1>2, <1>4, <1>5 DEF NodeInv

\* A step of the node keeps its bounds, and what is counted stays counted.
LEMMA NextNode == ASSUME NodeInv, [SocketNext]_socketVars
                  PROVE  NodeInv' /\ Counted \subseteq Counted'
<1>1. CASE UNCHANGED socketVars
  BY <1>1 DEF socketVars, sinkVars, NodeInv, TaskInv, OwnIds, TallyInv, RingInv, FileBounds,
              ChannelInv, Pending, Counted
<1>2. CASE SocketNext
  <2>1. PICK t \in Task : \E f \in {Idle} \cup Busy : Moves(t, f)
    BY <1>2, EveryStepMoves DEF NodeInv
  <2>2. PICK f \in {Idle} \cup Busy : Moves(t, f)
    BY <2>1
  <2> QED
    BY <2>2, MovesTask, MovesTally, MovesRing, MovesFile, MovesChannel, CountedStays DEF NodeInv
<1> QED
  BY <1>1, <1>2

LEMMA NodeTyped == NodeInv => SocketTypeOK
<1> SUFFICES ASSUME NodeInv PROVE SocketTypeOK
  OBVIOUS
<1> USE DEF NodeInv
<1>1. begun \in 0 .. MaxFetches /\ MaxFetches \in Nat
  BY BoundAssumption DEF TaskInv
<1>2. totals \in [Class -> [fetches : 0 .. MaxFetches, hits : 0 .. MaxFetches]]
  <2>1. totals \in [Class -> [fetches : Nat, hits : Nat]] /\ Cardinality(Pending) \in Nat
    BY FS_CardinalityType DEF TallyInv
  <2>2. ASSUME NEW c \in Class
        PROVE  totals[c] \in [fetches : 0 .. MaxFetches, hits : 0 .. MaxFetches]
    <3>1. /\ totals[c] \in [fetches : Nat, hits : Nat]
          /\ totals[c].fetches \in Nat /\ totals[c].hits \in Nat
          /\ totals[c].hits <= totals[c].fetches
          /\ totals[c].fetches + Cardinality(Pending) <= begun
      BY <2>1 DEF TallyInv
    <3>2. totals[c].fetches \in 0 .. MaxFetches /\ totals[c].hits \in 0 .. MaxFetches
      BY <1>1, <2>1, <3>1
    <3> QED
      BY <3>1, <3>2
  <2> QED
    BY <2>1, <2>2
<1>3. \A i \in DOMAIN rows : rows[i] \in Report
  BY DEF RingInv
<1>4. \A i \in DOMAIN log : log[i] \in [id : 1 .. begun, part : {"first", "rest"}]
  <2> SUFFICES ASSUME NEW i \in DOMAIN log
               PROVE  log[i] \in [id : 1 .. begun, part : {"first", "rest"}]
    OBVIOUS
  <2>1. log[i] \in Piece /\ log[i].id \in 1 .. begun
    BY DEF FileBounds
  <2> QED
    BY <2>1 DEF Piece
<1>5. \A t \in Task : task[t] = Idle \/ (task[t].at \in Stage /\ task[t].row \in Report)
  BY DEF TaskInv, Busy
<1> QED
  BY <1>1, <1>2, <1>3, <1>4, <1>5 DEF SocketTypeOK, RingInv, FileBounds

(***************************************************************************)
(* The counters never exceed the fetches begun, the ring its cap           *)
(* (metrics_sink.rs:171-183), and the file tells of no fetch that never    *)
(* was, for any number of connections, classes and fetches.                *)
(***************************************************************************)
THEOREM SocketTypeCorrect == SocketSpec => []SocketTypeOK
<1>1. NodeInv /\ [SocketNext]_socketVars => NodeInv'
  BY NextNode
<1> QED
  BY <1>1, InitNode, NodeTyped, PTL DEF SocketSpec
=============================================================================
