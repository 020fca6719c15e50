----------------------------- MODULE DiskCache -----------------------------
(***************************************************************************)
(* The disk-backed cache of one asset class: struct DiskCache of           *)
(* crates/xlb/src/cache.rs, shared by the tasks of one process.            *)
(*                                                                         *)
(* A step of a task is what it does between two points at which another    *)
(* task may run: one critical section of the mutex around the index, or    *)
(* one file-system call, which is made without the mutex.  fut[t] is the   *)
(* future of task t: where it stands in get or put, and the locals it      *)
(* carries across its awaits.                                              *)
(***************************************************************************)
EXTENDS LruIndex

CONSTANTS Task,       \* the callers of get and put
          Scratch,    \* temp-file names; their number bounds the temp files
          Size,       \* Size[h]: the length of the content whose hash is h
          Budget,     \* cache_budget_bytes
          OddLen,     \* the lengths a damaged file may have
          Faults,     \* which of FaultKinds the environment shows
          NoBlob,     \* no argument
          NoTemp      \* no temp path

FaultKinds == {"io",        \* a file-system call fails
               "cancel",    \* a caller drops the future of a get or a put
               "damage",    \* bit rot, tampering, data lost in a power failure
               "vanish",    \* a file of the directory is deleted by somebody
               "crash"}     \* the process ends at any moment

ASSUME SizeAssumption   == Size \in [Blob -> Nat]
ASSUME BudgetAssumption == Budget \in Nat
ASSUME OddLenAssumption == OddLen \subseteq Nat
ASSUME FaultsAssumption == Faults \subseteq FaultKinds
ASSUME NoneAssumption   == NoBlob \notin Blob /\ NoTemp \notin Scratch

VARIABLES mode,       \* "down" before open and after a crash, else "up"
          index,      \* DiskCache::state, see LruIndex
          disk,       \* the files at <dir>/<hex>, by blob
          scratch,    \* the temp files, by name: what has been written
          fut,        \* the future of every task
          reply       \* what the last get of every task returned

vars == <<mode, index, disk, scratch, fut, reply>>

Content  == {"whole", "torn", "rotten"}
File     == [kind : Content, len : Nat]
GetSteps == {"read", "dropMissing", "unlinkRotten", "dropRotten", "touch"}
PutSteps == {"create", "fill", "rename", "insert", "unlink"}
\* The steps that wait for a file-system call, not for the mutex.
FileCalls == {"read", "unlinkRotten", "create", "fill", "rename", "unlink"}
Future   == [at : {"idle"} \cup GetSteps \cup PutSteps,
             blob : Blob \cup {NoBlob},
             data : Content \cup {"none"},      \* the bytes get has read
             temp : Scratch \cup {NoTemp},      \* put's tmp_path
             victims : Seq(Blob),               \* put's `evicted`, not yet removed
             dropped : BOOLEAN]                 \* dropped during a file call
Idle     == [at |-> "idle", blob |-> NoBlob, data |-> "none", temp |-> NoTemp,
             victims |-> << >>, dropped |-> FALSE]

IOMayFail == "io" \in Faults

-----------------------------------------------------------------------------
\* The directory an earlier run left behind, perhaps under a larger budget.
Init ==
    /\ mode = "down"
    /\ index = EmptyIndex
    /\ \E left \in SUBSET Blob :
          disk = [h \in left |-> [kind |-> "whole", len |-> Size[h]]]
    /\ scratch = [s \in {} |-> "torn"]
    /\ fut = [t \in Task |-> Idle]
    /\ reply = [t \in Task |-> "none"]

(***************************************************************************)
(* DiskCache::open.  The order of the rebuilt queue is that of the files'  *)
(* mtimes, which this model leaves open: a put writes its temp file long   *)
(* before the rename, and restored or coarse mtimes order the files in any *)
(* way.  Removals are best effort; a file without metadata is skipped.     *)
(***************************************************************************)
Unlucky(S) == IF IOMayFail THEN SUBSET S ELSE {{}}

TempsLeftAlone == UNCHANGED scratch
SweepTemps     == \E kept \in Unlucky(DOMAIN scratch) : scratch' = Keep(scratch, kept)

open ==
    /\ mode = "down"
    /\ SweepTemps
    /\ \E unread \in Unlucky(DOMAIN disk) :
          LET found == DOMAIN disk \ unread
              sizes == [h \in found |-> disk[h].len]
          IN  \E order \in Bijection(1 .. Cardinality(found), found) :
                 LET r == Rebuild(order, sizes, Budget)
                 IN  /\ index' = r.index
                     /\ \E kept \in Unlucky(Range(r.evicted)) :
                           disk' = Lose(disk, Range(r.evicted) \ kept)
    /\ mode' = "up"
    /\ UNCHANGED <<fut, reply>>

\* create_dir_all or read_dir fails, perhaps after some temps were removed.
OpenFails ==
    /\ mode = "down" /\ IOMayFail
    /\ SweepTemps
    /\ UNCHANGED <<mode, index, disk, fut, reply>>

-----------------------------------------------------------------------------
At(t, step) == mode = "up" /\ fut[t].at = step

(***************************************************************************)
(* A task goes on as f, unless its future was dropped while the file call  *)
(* ran: tokio finishes the call on its blocking pool, and nobody is left   *)
(* to take the next step.                                                  *)
(***************************************************************************)
Resume(t, f) == fut' = [fut EXCEPT ![t] = IF @.dropped THEN Idle ELSE f]

Return(t, value) == /\ fut' = [fut EXCEPT ![t] = Idle]
                    /\ reply' = [reply EXCEPT ![t] = value]

\* get: the presence check, under the lock
GetLookup(t, h) ==
    /\ At(t, "idle")
    /\ IF h \in DOMAIN index.entries
       THEN /\ fut' = [fut EXCEPT ![t] = [Idle EXCEPT !.at = "read", !.blob = h]]
            /\ reply' = [reply EXCEPT ![t] = "none"]
       ELSE Return(t, "miss")
    /\ UNCHANGED <<mode, index, disk, scratch>>

\* get: fs::read and then hash.verify, with no lock held
verifyNothing(data) == TRUE
verify(data)        == data = "whole"

GetRead(t) ==
    /\ At(t, "read")
    /\ LET f == fut[t]
       IN  \/ /\ f.blob \in DOMAIN disk
              /\ Resume(t, [f EXCEPT !.data = disk[f.blob].kind,
                               !.at = IF verify(disk[f.blob].kind)
                                      THEN "touch" ELSE "unlinkRotten"])
           \/ /\ f.blob \notin DOMAIN disk \/ IOMayFail
              /\ Resume(t, [f EXCEPT !.at = "dropMissing"])
    /\ UNCHANGED <<mode, index, disk, scratch, reply>>

\* get: remove_file after a mismatch, by path, whatever is there by now
GetUnlinkRotten(t) ==
    /\ At(t, "unlinkRotten")
    /\ \/ disk' = Lose(disk, {fut[t].blob})
       \/ IOMayFail /\ UNCHANGED disk
    /\ Resume(t, [fut[t] EXCEPT !.at = "dropRotten"])
    /\ UNCHANGED <<mode, index, scratch, reply>>

\* get: both failing branches end by removing the entry, under the lock
GetDropKeepsEntry(t) ==
    /\ At(t, "dropMissing") \/ At(t, "dropRotten")
    /\ Return(t, "miss")
    /\ UNCHANGED <<mode, index, disk, scratch>>
GetDrop(t) ==
    /\ At(t, "dropMissing") \/ At(t, "dropRotten")
    /\ index' = Forget(index, fut[t].blob)
    /\ Return(t, "miss")
    /\ UNCHANGED <<mode, disk, scratch>>

\* get: the hit returns the bytes it read, whatever happened since
GetHit(t) ==
    /\ At(t, "touch")
    /\ index' = Touch(index, fut[t].blob)
    /\ Return(t, fut[t].data)
    /\ UNCHANGED <<mode, disk, scratch>>

-----------------------------------------------------------------------------
\* put: TEMP_COUNTER and the process id make the temp path unique
SharedTemp(s) == s \in Scratch
FreshTemp(s)  == s \notin DOMAIN scratch /\ \A t \in Task : fut[t].temp # s

TooLargeNever(h) == FALSE
TooLarge(h)      == Size[h] > Budget

PutStart(t, h) ==
    /\ At(t, "idle")
    /\ IF TooLarge(h)
       THEN Return(t, "none")
       ELSE /\ \E s \in Scratch :
                  /\ FreshTemp(s)
                  /\ fut' = [fut EXCEPT ![t] = [Idle EXCEPT !.at = "create",
                                                   !.blob = h, !.temp = s]]
            /\ reply' = [reply EXCEPT ![t] = "none"]
    /\ UNCHANGED <<mode, index, disk, scratch>>

\* put: fs::write first creates the file empty, or truncates it ...
PutCreate(t) ==
    /\ At(t, "create")
    /\ \/ /\ scratch' = [s \in DOMAIN scratch \cup {fut[t].temp} |->
                            IF s = fut[t].temp THEN "torn" ELSE scratch[s]]
          /\ fut' = [fut EXCEPT ![t].at = "fill"]
          /\ UNCHANGED reply
       \/ IOMayFail /\ Return(t, "none") /\ UNCHANGED scratch
    /\ UNCHANGED <<mode, index, disk>>

\* ... and then writes the bytes, unless somebody has unlinked it.
PutFill(t) ==
    /\ At(t, "fill")
    /\ \/ /\ scratch' = [s \in DOMAIN scratch |->
                            IF s = fut[t].temp THEN "whole" ELSE scratch[s]]
          /\ Resume(t, [fut[t] EXCEPT !.at = "rename"])
          /\ UNCHANGED reply
       \/ IOMayFail /\ Return(t, "none") /\ UNCHANGED scratch
    /\ UNCHANGED <<mode, index, disk>>

\* put: the atomicity point
PutRename(t) ==
    /\ At(t, "rename")
    /\ LET f == fut[t]
       IN  \/ /\ f.temp \in DOMAIN scratch
              /\ disk' = [h \in DOMAIN disk \cup {f.blob} |->
                            IF h = f.blob
                            THEN [kind |-> scratch[f.temp], len |-> Size[h]]
                            ELSE disk[h]]
              /\ scratch' = Lose(scratch, {f.temp})
              /\ Resume(t, [f EXCEPT !.at = "insert", !.temp = NoTemp])
              /\ UNCHANGED reply
           \/ /\ f.temp \notin DOMAIN scratch \/ IOMayFail
              /\ Return(t, "none")
              /\ UNCHANGED <<disk, scratch>>
    /\ UNCHANGED <<mode, index>>

\* put: the index is updated under the lock, which is released before the
\* files of the victims are removed
PutInsert(t) ==
    /\ At(t, "insert")
    /\ LET r == Insert(index, fut[t].blob, Size[fut[t].blob], Budget)
       IN  /\ index' = r.index
           /\ fut' = [fut EXCEPT ![t] =
                        IF r.evicted = << >> THEN Idle
                        ELSE [@ EXCEPT !.at = "unlink", !.victims = r.evicted]]
    /\ UNCHANGED <<mode, disk, scratch, reply>>

UnlinkAgain(f) == f
AfterUnlink(f) == IF Len(f.victims) = 1 THEN Idle
                  ELSE [f EXCEPT !.victims = Tail(@)]

PutUnlink(t) ==
    /\ At(t, "unlink")
    /\ \/ disk' = Lose(disk, {Head(fut[t].victims)})
       \/ IOMayFail /\ UNCHANGED disk
    /\ Resume(t, AfterUnlink(fut[t]))
    /\ UNCHANGED <<mode, index, scratch, reply>>

-----------------------------------------------------------------------------
(***************************************************************************)
(* A caller drops the future of a get or a put.  A file call that has been *)
(* handed to the blocking pool still takes effect; one that has not been   *)
(* is never made; a task waiting for the mutex leaves the queue.           *)
(***************************************************************************)
Cancel(t) ==
    /\ mode = "up" /\ "cancel" \in Faults
    /\ fut[t].at # "idle" /\ ~fut[t].dropped
    /\ \/ /\ fut[t].at \in FileCalls
          /\ fut' = [fut EXCEPT ![t].dropped = TRUE]
       \/ /\ fut[t].at # "fill"
          /\ fut' = [fut EXCEPT ![t] = Idle]
    /\ UNCHANGED <<mode, index, disk, scratch, reply>>

Damage(h) ==
    /\ "damage" \in Faults /\ h \in DOMAIN disk
    /\ \E n \in OddLen : disk' = [disk EXCEPT ![h] = [kind |-> "rotten", len |-> n]]
    /\ UNCHANGED <<mode, index, scratch, fut, reply>>

Vanish ==
    /\ "vanish" \in Faults
    /\ \/ /\ \E h \in DOMAIN disk : disk' = Lose(disk, {h})
          /\ UNCHANGED scratch
       \/ /\ \E s \in DOMAIN scratch : scratch' = Lose(scratch, {s})
          /\ UNCHANGED disk
    /\ UNCHANGED <<mode, index, fut, reply>>

\* The index and the futures die with the process; the files stay.
Crash ==
    /\ mode = "up" /\ "crash" \in Faults
    /\ mode' = "down"
    /\ index' = EmptyIndex
    /\ fut' = [t \in Task |-> Idle]
    /\ reply' = [t \in Task |-> "none"]
    /\ UNCHANGED <<disk, scratch>>

-----------------------------------------------------------------------------
\* What a task does by itself once its operation has begun.
Progress(t) == \/ GetRead(t) \/ GetUnlinkRotten(t) \/ GetDrop(t) \/ GetHit(t)
               \/ PutCreate(t) \/ PutFill(t) \/ PutRename(t) \/ PutInsert(t)
               \/ PutUnlink(t)

Next ==
    \/ open \/ OpenFails
    \/ \E t \in Task : \/ Progress(t)
                       \/ Cancel(t)
                       \/ \E h \in Blob : GetLookup(t, h) \/ PutStart(t, h)
    \/ \E h \in Blob : Damage(h)
    \/ Vanish
    \/ Crash

Spec == Init /\ [][Next]_vars

(***************************************************************************)
(* tokio polls every woken task, its mutex is fair, and the blocking pool  *)
(* finishes what it was given: a task that can go on does.  Nobody has to  *)
(* start an operation, and nothing has to fail.                            *)
(***************************************************************************)
FairSpec == Spec /\ \A t \in Task : WF_vars(Progress(t))

-----------------------------------------------------------------------------
(***************************************************************************)
(* Properties                                                              *)
(***************************************************************************)

\* Every variable holds a value the program could hold.
TypeOK ==
    /\ mode \in {"down", "up"}
    /\ IndexType(index)
    /\ DOMAIN disk \subseteq Blob /\ disk \in [DOMAIN disk -> File]
    /\ DOMAIN scratch \subseteq Scratch /\ scratch \in [DOMAIN scratch -> Content]
    /\ fut \in [Task -> Future]
    /\ reply \in [Task -> Content \cup {"none", "miss"}]

\* Six places update the queue, the map and the byte count by hand, four of
\* them inlined in get; whatever order tasks take them in, and whatever is
\* lost or damaged under them, the three agree (cache.rs:208, "lru contains
\* the same keys as entries, no duplicates").
IndexConsistent == IndexOK(index)

\* What eviction is measured against never exceeds the budget, not even
\* after a restart with a smaller one (cache.rs:303-316, "evict oldest until
\* it fits").
WithinBudget == index.total <= Budget

\* A file under a blob's own name was never half written: concurrent puts of
\* one blob, failed writes, dropped futures and crashes leave torn temps only
\* (cache.rs:12, "so a torn write can't be served as truth").
NoTornFile == \A h \in DOMAIN disk : disk[h].kind # "torn"

Footprint == Bytes([h \in DOMAIN disk |-> disk[h].len])
Quiet     == mode = "up" /\ \A t \in Task : fut[t].at = "idle"

\* Once every operation has ended, the index names exactly the files of the
\* directory, with their lengths, and no temp file is left.  Crashes between
\* any two steps are made good by the scan in open.
QuietMirror ==
    Quiet => /\ index.entries = [h \in DOMAIN disk |-> disk[h].len]
             /\ scratch = [s \in {} |-> "torn"]

\* Cache::put "evicts oldest LRU entries until the on-disk footprint is
\* within budget_bytes" (cache.rs:123-125), read when nothing is in flight.
FootprintWithinBudget == Quiet => Footprint <= Budget

Position(q, h) == CHOOSE i \in DOMAIN q : q[i] = h
Older(q, g, h) == /\ {g, h} \subseteq Range(q)
                  /\ Position(q, g) < Position(q, h)

Serves(t, g) == /\ fut[t].at \in {"touch", "insert"} /\ fut[t].blob = g
                /\ fut'[t] # fut[t]
Drops(t, h)  == /\ fut[t].at \in {"dropMissing", "dropRotten"} /\ fut[t].blob = h
                /\ fut'[t] = Idle

\* The queue is a recency order (cache.rs:31-38): a step moves only the blob
\* it serves or stores, to the back, and a blob leaves before an older one
\* only when a get found its file missing or corrupt.
RecencyStep ==
    \A g, h \in Blob :
        Older(index.lru, g, h) =>
            \/ g \notin Range(index'.lru)
            \/ Older(index'.lru, g, h)
            \/ Last(index'.lru) = g /\ \E t \in Task : Serves(t, g)
            \/ h \notin Range(index'.lru) /\ \E t \in Task : Drops(t, h)
LruOrder == [][mode' = "up" /\ mode = "up" => RecencyStep]_vars

\* Eviction takes no more than it must: with the youngest victim still there,
\* what is stored now would not have fit.
FrugalStep ==
    \A t \in Task :
        At(t, "insert") /\ fut'[t].at = "unlink" =>
            LET v == fut'[t].victims[Len(fut'[t].victims)]
            IN  index'.total + index.entries[v] > Budget
FrugalEviction == [][FrugalStep]_vars

\* Every get and put that has begun comes to an end: no task waits for
\* another, and the removal of the victims is finite.
OperationsEnd == \A t \in Task : fut[t].at # "idle" ~> fut[t].at = "idle"

Dangling(h) == mode = "up" /\ h \in DOMAIN index.entries /\ h \notin DOMAIN disk
Reading(h)  == \E t \in Task : fut[t].at = "read" /\ fut[t].blob = h

\* An entry whose file is gone does not survive its readers: if lookups of
\* the blob keep coming, the entry goes or the file is stored again
\* (cache.rs:335-336, "File vanished out from under us - drop it").
SelfHealing == \A h \in Blob : []<>Reading(h) => (Dangling(h) ~> ~Dangling(h))

(***************************************************************************)
(* The detailed cache implements the abstract one: it can serve the blobs  *)
(* whose files are whole, and a lookup is decided where the file is read.  *)
(***************************************************************************)
heldBar == {h \in DOMAIN disk : disk[h].kind = "whole"}

callOf(f) ==
    CASE f.dropped                    -> [step |-> "none"]
      [] ~f.dropped /\ f.at = "read"  -> [step |-> "asked", blob |-> f.blob]
      [] ~f.dropped /\ f.at = "touch" -> [step |-> "found", blob |-> f.blob]
      [] ~f.dropped /\ f.at \in {"dropMissing", "unlinkRotten", "dropRotten"}
                                      -> [step |-> "missed"]
      [] OTHER                        -> [step |-> "none"]

callBar == [t \in Task |-> callOf(fut[t])]

Abstract == INSTANCE ContentCache WITH held <- heldBar, call <- callBar

\* A hit hands over exactly the bytes of a blob the directory held during the
\* lookup, through damage, deletion, dropped futures and crashes
\* (cache.rs:22-29, "surfaces as a miss rather than a serve").
ServesOnlyTheBlob == Abstract!Spec
=============================================================================
