-------------------------- MODULE CalmCacheProofs --------------------------
(***************************************************************************)
(* As long as operations come one after the other, the index of the disk   *)
(* cache is its directory, for any blobs, sizes, budget and temp names,    *)
(* however often the process ends and whatever is damaged or deleted       *)
(* before an open.  That file-system calls succeed is assumed: a failing   *)
(* removal leaves a file without an entry.                                 *)
(***************************************************************************)
EXTENDS CalmCache, DiskCacheProofs

Lens(files) == [h \in DOMAIN files |-> files[h].len]

(***************************************************************************)
(* Halfway through an operation the index e and the files differ by what   *)
(* the operation, a future f, is about to put right; the only temp file is *)
(* its own.                                                                *)
(***************************************************************************)
MirrorOf(f, e, files, temps) ==
    /\ DOMAIN temps = IF f.at \in {"fill", "rename"} THEN {f.temp} ELSE {}
    /\ f.at \in {"idle", "read", "unlinkRotten", "touch", "create", "fill", "rename"}
          => e = Lens(files)
    /\ f.at = "dropRotten" => Lens(files) = Lose(e, {f.blob})
    /\ f.at = "insert" => Lens(files) = With(e, f.blob, Size[f.blob])
    /\ f.at = "unlink" => e = Lose(Lens(files), Range(f.victims))
    /\ f.at = "read" => f.blob \in DOMAIN e
    /\ f.at # "dropMissing" /\ ~f.dropped

Mirrored(f) == MirrorOf(f, index.entries, disk, scratch)

CalmState ==
    /\ \A t, u \in Busy : t = u
    /\ \A t \in Busy : Mirrored(fut[t])
    /\ Busy = {} => Mirrored(Idle)

CalmInv == /\ calm /\ mode = "up" => CalmState
           /\ mode = "down" => fut = [t \in Task |-> Idle]

-----------------------------------------------------------------------------
LEMMA LensLose ==
    ASSUME NEW files, NEW S
    PROVE  Lens(Lose(files, S)) = Lose(Lens(files), S)
BY DEF Lens, Lose

LEMMA LoseTwice ==
    ASSUME NEW g, NEW S, NEW R
    PROVE  Lose(Lose(g, S), R) = Lose(g, S \cup R)
<1> DEFINE a == Lose(Lose(g, S), R)
           b == Lose(g, S \cup R)
<1>1. DOMAIN a = DOMAIN b /\ \A x \in DOMAIN b : a[x] = g[x] /\ b[x] = g[x]
  BY DEF Lose
<1>2. a = [x \in DOMAIN a |-> a[x]] /\ b = [x \in DOMAIN b |-> b[x]]
  BY DEF Lose
<1> HIDE DEF a, b
<1> QED
  BY <1>1, <1>2 DEF a, b

\* An operation that has ended is as good as none.
LEMMA EndedIsIdle ==
    ASSUME NEW f, NEW e, NEW files, NEW temps, f.at = "idle"
    PROVE  MirrorOf(f, e, files, temps) => MirrorOf(Idle, e, files, temps)
BY DEF MirrorOf, Idle

\* The operation that is busy takes a step, as the only one.
LEMMA OneGoesOn ==
    ASSUME CalmState, NEW t \in Task, fut \in [Task -> Future], NEW g,
           fut' = [fut EXCEPT ![t] = g],
           \A u, v \in Busy' : u = v,
           t \in Busy \/ Busy = {} \/ g.at # "idle",
           MirrorOf(g, index'.entries, disk', scratch')
    PROVE  CalmState'
<1>1. fut'[t] = g /\ \A u \in Task : u # t => fut'[u] = fut[u]
  OBVIOUS
<1>2. \A u \in Task : u # t => fut'[u].at = "idle"
  <2>1. CASE g.at # "idle"
    BY <1>1, <2>1 DEF Busy
  <2>2. CASE t \in Busy \/ Busy = {}
    BY <1>1, <2>2 DEF Busy, CalmState
  <2> QED
    BY <2>1, <2>2
<1>3. \A u \in Busy' : u = t
  BY <1>2 DEF Busy
<1>4. Busy' = {} => g.at = "idle"
  BY <1>1 DEF Busy
<1>5. Busy' = {} => MirrorOf(Idle, index'.entries, disk', scratch')
  BY <1>4, EndedIsIdle
<1>6. \A u \in Busy' : MirrorOf(fut'[u], index'.entries, disk', scratch')
  BY <1>1, <1>3
<1>7. Idle' = Idle
  BY DEF Idle
<1> QED
  BY <1>5, <1>6, <1>7 DEF CalmState, Mirrored

-----------------------------------------------------------------------------
(***************************************************************************)
(* What each step of an operation leaves behind.                           *)
(***************************************************************************)
LandsWell(t) == \E g : /\ fut' = [fut EXCEPT ![t] = g]
                       /\ MirrorOf(g, index'.entries, disk', scratch')

LEMMA GetMirrors ==
    ASSUME IndexInv, ~IOMayFail, NEW t \in Task, Mirrored(fut[t]),
           GetRead(t) \/ GetUnlinkRotten(t) \/ GetDrop(t) \/ GetHit(t)
    PROVE  LandsWell(t)
<1> DEFINE f == fut[t]
<1>0. f \in Future /\ f.dropped = FALSE
  BY DEF IndexInv, TypeOK, Future, Mirrored, MirrorOf
<1>1. CASE GetRead(t)
  <2>1. f.at = "read" /\ UNCHANGED <<index, disk, scratch>>
    BY <1>1 DEF GetRead, At
  <2>2. f.blob \in DOMAIN disk
    BY <2>1 DEF Mirrored, MirrorOf, Lens
  <2> DEFINE g == [f EXCEPT !.data = disk[f.blob].kind,
                            !.at = IF verify(disk[f.blob].kind) THEN "touch" ELSE "unlinkRotten"]
  <2>3. fut' = [fut EXCEPT ![t] = g]
    BY <1>0, <1>1, <2>2 DEF GetRead, Resume
  <2>4. g.at \in {"touch", "unlinkRotten"} /\ g.dropped = FALSE
    BY <1>0 DEF Future
  <2> HIDE DEF g
  <2>5. MirrorOf(g, index'.entries, disk', scratch')
    BY <2>1, <2>4 DEF Mirrored, MirrorOf
  <2> QED
    BY <2>3, <2>5 DEF LandsWell
<1>2. CASE GetUnlinkRotten(t)
  <2>1. f.at = "unlinkRotten" /\ UNCHANGED <<index, scratch>> /\ disk' = Lose(disk, {f.blob})
    BY <1>2 DEF GetUnlinkRotten, At
  <2> DEFINE g == [f EXCEPT !.at = "dropRotten"]
  <2>2. fut' = [fut EXCEPT ![t] = g]
    BY <1>0, <1>2 DEF GetUnlinkRotten, Resume
  <2>3. g.at = "dropRotten" /\ g.dropped = FALSE /\ g.blob = f.blob
    BY <1>0 DEF Future
  <2> HIDE DEF g
  <2>4. MirrorOf(g, index'.entries, disk', scratch')
    BY <2>1, <2>3, LensLose DEF Mirrored, MirrorOf
  <2> QED
    BY <2>2, <2>4 DEF LandsWell
<1>3. CASE GetDrop(t)
  <2>1. /\ f.at = "dropRotten" /\ UNCHANGED <<disk, scratch>>
        /\ index' = Forget(index, f.blob) /\ fut' = [fut EXCEPT ![t] = Idle]
    BY <1>3 DEF GetDrop, At, Return, Mirrored, MirrorOf
  <2>2. index'.entries = Lose(index.entries, {f.blob})
    BY <2>1 DEF Forget
  <2>3. MirrorOf(Idle, index'.entries, disk', scratch')
    BY <2>1, <2>2 DEF Mirrored, MirrorOf, Idle
  <2> QED
    BY <2>1, <2>3 DEF LandsWell
<1>4. CASE GetHit(t)
  <2>1. /\ f.at = "touch" /\ UNCHANGED <<disk, scratch>>
        /\ index' = Touch(index, f.blob) /\ fut' = [fut EXCEPT ![t] = Idle]
    BY <1>4 DEF GetHit, At, Return
  <2>2. index'.entries = index.entries
    BY <2>1 DEF Touch, IndexInv, TypeOK, IndexType
  <2>3. MirrorOf(Idle, index'.entries, disk', scratch')
    BY <2>1, <2>2 DEF Mirrored, MirrorOf, Idle
  <2> QED
    BY <2>1, <2>3 DEF LandsWell
<1> QED
  BY <1>1, <1>2, <1>3, <1>4

LEMMA PutMirrors ==
    ASSUME IndexInv, ~IOMayFail, NEW t \in Task, Mirrored(fut[t]),
           PutCreate(t) \/ PutFill(t) \/ PutRename(t)
    PROVE  LandsWell(t)
<1> DEFINE f == fut[t]
<1>0. f \in Future /\ f.dropped = FALSE
  BY DEF IndexInv, TypeOK, Future, Mirrored, MirrorOf
<1>1. CASE PutCreate(t)
  <2> DEFINE g == [f EXCEPT !.at = "fill"]
  <2>1. /\ f.at = "create" /\ UNCHANGED <<index, disk>>
        /\ DOMAIN scratch' = DOMAIN scratch \cup {f.temp}
        /\ fut' = [fut EXCEPT ![t] = g]
    BY <1>0, <1>1 DEF PutCreate, At
  <2>2. g.at = "fill" /\ g.dropped = FALSE /\ g.temp = f.temp
    BY <1>0 DEF Future
  <2> HIDE DEF g
  <2>3. DOMAIN scratch' = {g.temp}
    BY <2>1, <2>2 DEF Mirrored, MirrorOf
  <2>4. MirrorOf(g, index'.entries, disk', scratch')
    BY <2>1, <2>2, <2>3 DEF Mirrored, MirrorOf
  <2> QED
    BY <2>1, <2>4 DEF LandsWell
<1>2. CASE PutFill(t)
  <2> DEFINE g == [f EXCEPT !.at = "rename"]
  <2>1. f.at = "fill" /\ UNCHANGED <<index, disk>> /\ DOMAIN scratch' = DOMAIN scratch
    BY <1>2 DEF PutFill, At
  <2>2. fut' = [fut EXCEPT ![t] = g]
    BY <1>0, <1>2 DEF PutFill, Resume
  <2>3. g.at = "rename" /\ g.dropped = FALSE /\ g.temp = f.temp
    BY <1>0 DEF Future
  <2> HIDE DEF g
  <2>4. MirrorOf(g, index'.entries, disk', scratch')
    BY <2>1, <2>3 DEF Mirrored, MirrorOf
  <2> QED
    BY <2>2, <2>4 DEF LandsWell
<1>3. CASE PutRename(t)
  <2> DEFINE g == [f EXCEPT !.at = "insert", !.temp = NoTemp]
             d == [h \in DOMAIN disk \cup {f.blob} |->
                     IF h = f.blob THEN [kind |-> scratch[f.temp], len |-> Size[h]] ELSE disk[h]]
  <2>1. f.at = "rename" /\ UNCHANGED index /\ DOMAIN scratch = {f.temp}
    BY <1>3 DEF PutRename, At, Mirrored, MirrorOf
  <2>2. /\ disk' = d /\ scratch' = Lose(scratch, {f.temp})
        /\ fut' = [fut EXCEPT ![t] = g]
    BY <1>0, <1>3, <2>1 DEF PutRename, Resume
  <2>3. g.at = "insert" /\ g.dropped = FALSE /\ g.blob = f.blob
    BY <1>0 DEF Future
  <2>4. Lens(d) = With(Lens(disk), f.blob, Size[f.blob])
    <3> DEFINE a == Lens(d)
               b == With(Lens(disk), f.blob, Size[f.blob])
    <3>1. DOMAIN a = DOMAIN b
      BY DEF Lens, With
    <3>2. \A x \in DOMAIN a : a[x] = b[x]
      BY DEF Lens, With
    <3>3. a = [x \in DOMAIN a |-> a[x]] /\ b = [x \in DOMAIN b |-> b[x]]
      BY DEF Lens, With
    <3> HIDE DEF a, b
    <3> QED
      BY <3>1, <3>2, <3>3 DEF a, b
  <2>5. DOMAIN scratch' = {}
    BY <2>1, <2>2 DEF Lose
  <2> HIDE DEF g, d
  <2>6. MirrorOf(g, index'.entries, disk', scratch')
    BY <2>1, <2>2, <2>3, <2>4, <2>5 DEF Mirrored, MirrorOf
  <2> QED
    BY <2>2, <2>6 DEF LandsWell
<1> QED
  BY <1>1, <1>2, <1>3

LEMMA EvictMirrors ==
    ASSUME IndexInv, ~IOMayFail, NEW t \in Task, Mirrored(fut[t]),
           PutInsert(t) \/ PutUnlink(t)
    PROVE  LandsWell(t)
<1> DEFINE f == fut[t]
<1>0. f \in Future /\ f.dropped = FALSE /\ GoodFuture(f)
  BY DEF IndexInv, TypeOK, FutureOK, Future, Mirrored, MirrorOf
<1>1. CASE PutInsert(t)
  <2> DEFINE r == Insert(index, f.blob, Size[f.blob], Budget)
             g == IF r.evicted = <<>> THEN Idle ELSE [f EXCEPT !.at = "unlink", !.victims = r.evicted]
  <2>1. f.at = "insert" /\ UNCHANGED <<disk, scratch>> /\ index' = r.index
    BY <1>1 DEF PutInsert, At
  <2>2. fut' = [fut EXCEPT ![t] = g]
    BY <1>0, <1>1 DEF PutInsert
  <2>3. f.blob \in Blob /\ Size[f.blob] \in Nat /\ Size[f.blob] <= Budget
    BY <1>0, <2>1, SizeAssumption DEF GoodFuture, PutSteps
  <2>4. r.index.entries = Lose(With(index.entries, f.blob, Size[f.blob]), Range(r.evicted))
    <3>1. Sound(index)
      BY DEF IndexInv, TypeOK, IndexConsistent, Sound
    <3> QED
      BY <2>3, <3>1, BudgetAssumption, InsertEntries
  <2> HIDE DEF r
  <2>5. index'.entries = Lose(Lens(disk), Range(r.evicted)) /\ DOMAIN scratch = {}
    BY <2>1, <2>4 DEF Mirrored, MirrorOf
  <2>6. CASE r.evicted = <<>>
    <3>1. Range(r.evicted) = {}
      BY <2>6 DEF Range
    <3>2. index'.entries = Lens(disk)
      BY <2>5, <3>1 DEF Lose, Lens
    <3>3. MirrorOf(Idle, index'.entries, disk', scratch')
      BY <2>1, <2>5, <3>2 DEF MirrorOf, Idle
    <3> QED
      BY <2>2, <2>6, <3>3 DEF LandsWell
  <2>7. CASE r.evicted # <<>>
    <3>1. g.at = "unlink" /\ g.dropped = FALSE /\ g.victims = r.evicted
      BY <1>0, <2>7 DEF Future
    <3> HIDE DEF g
    <3>2. MirrorOf(g, index'.entries, disk', scratch')
      BY <2>1, <2>5, <3>1 DEF MirrorOf
    <3> QED
      BY <2>2, <3>2 DEF LandsWell
  <2> QED
    BY <2>6, <2>7
<1>2. CASE PutUnlink(t)
  <2> DEFINE q == f.victims
             g == AfterUnlink(f)
  <2>1. /\ f.at = "unlink" /\ UNCHANGED <<index, scratch>> /\ disk' = Lose(disk, {Head(q)})
    BY <1>2 DEF PutUnlink, At
  <2>2. fut' = [fut EXCEPT ![t] = g]
    BY <1>0, <1>2 DEF PutUnlink, Resume
  <2>3. q \in Seq(Blob) /\ q # <<>> /\ Len(q) \in Nat /\ DOMAIN q = 1 .. Len(q) /\ Len(q) # 0
    BY <1>0, <2>1 DEF GoodFuture, Future
  <2>4. index.entries = Lose(Lens(disk), Range(q)) /\ DOMAIN scratch = {}
    BY <2>1 DEF Mirrored, MirrorOf
  <2>5. CASE Len(q) = 1
    <3>1. Range(q) = {Head(q)}
      BY <2>3, <2>5 DEF Range
    <3>2. index'.entries = Lens(disk')
      BY <2>1, <2>4, <3>1, LensLose
    <3>3. MirrorOf(Idle, index'.entries, disk', scratch')
      BY <2>1, <2>4, <3>2 DEF MirrorOf, Idle
    <3> QED
      BY <2>2, <2>5, <3>3 DEF LandsWell, AfterUnlink
  <2>6. CASE Len(q) # 1
    <3>1. g.at = "unlink" /\ g.dropped = FALSE /\ g.victims = Tail(q)
      BY <1>0, <2>1, <2>6 DEF Future, AfterUnlink
    <3>2. Range(q) = {Head(q)} \cup Range(Tail(q))
      <4>1. /\ Head(q) = q[1] /\ DOMAIN Tail(q) = 1 .. Len(q) - 1
            /\ \A i \in 1 .. Len(q) - 1 : Tail(q)[i] = q[i + 1]
        BY <2>3
      <4>2. \A x \in Range(q) : x = q[1] \/ x \in Range(Tail(q))
        <5> SUFFICES ASSUME NEW i \in 1 .. Len(q), i # 1 PROVE q[i] \in Range(Tail(q))
          BY <2>3 DEF Range
        <5>1. i - 1 \in 1 .. Len(q) - 1 /\ Tail(q)[i - 1] = q[i]
          BY <2>3, <4>1
        <5> QED
          BY <4>1, <5>1 DEF Range
      <4>3. \A x \in Range(Tail(q)) : x \in Range(q)
        <5> SUFFICES ASSUME NEW i \in 1 .. Len(q) - 1 PROVE q[i + 1] \in Range(q)
          BY <4>1 DEF Range
        <5>1. i + 1 \in DOMAIN q
          BY <2>3
        <5> QED
          BY <5>1 DEF Range
      <4>4. q[1] \in Range(q)
        BY <2>3 DEF Range
      <4> QED
        BY <4>1, <4>2, <4>3, <4>4
    <3> HIDE DEF g
    <3>3. Lens(disk') = Lose(Lens(disk), {Head(q)})
      BY <2>1, LensLose
    <3>4. index'.entries = Lose(Lens(disk'), Range(g.victims))
      BY <2>1, <2>4, <3>1, <3>2, <3>3, LoseTwice
    <3>5. MirrorOf(g, index'.entries, disk', scratch')
      BY <2>1, <2>4, <3>1, <3>4 DEF MirrorOf
    <3> QED
      BY <2>2, <3>5 DEF LandsWell
  <2> QED
    BY <2>5, <2>6
<1> QED
  BY <1>1, <1>2

LEMMA ProgressCalm ==
    ASSUME IndexInv, ~IOMayFail, CalmState, NEW t \in Task, Progress(t),
           \A u, v \in Busy' : u = v
    PROVE  CalmState'
<1>1. t \in Busy
  BY DEF Progress, GetRead, GetUnlinkRotten, GetDrop, GetHit, PutCreate, PutFill, PutRename,
         PutInsert, PutUnlink, At, Busy
<1>2. Mirrored(fut[t])
  BY <1>1 DEF CalmState
<1>3. LandsWell(t)
  BY <1>2, GetMirrors, PutMirrors, EvictMirrors DEF Progress
<1>4. PICK g : /\ fut' = [fut EXCEPT ![t] = g]
               /\ MirrorOf(g, index'.entries, disk', scratch')
  BY <1>3 DEF LandsWell
<1>5. fut \in [Task -> Future]
  BY DEF IndexInv, TypeOK
<1> QED
  BY <1>1, <1>4, <1>5, OneGoesOn

\* An operation begins, or is over at once: nothing else is busy.
LEMMA BeginCalm ==
    ASSUME IndexInv, CalmState, NEW t \in Task, NEW h \in Blob, GetLookup(t, h) \/ PutStart(t, h),
           \A u, v \in Busy' : u = v
    PROVE  CalmState'
<1>1. /\ UNCHANGED <<index, disk, scratch>> /\ fut[t].at = "idle" /\ fut \in [Task -> Future]
  BY DEF GetLookup, PutStart, At, IndexInv, TypeOK
<1>2. PICK g : /\ fut' = [fut EXCEPT ![t] = g]
               /\ \/ g = Idle
                  \/ g.at = "read" /\ g.blob \in DOMAIN index.entries /\ ~g.dropped
                  \/ g.at = "create" /\ ~g.dropped
  <2>1. CASE GetLookup(t, h)
    <3> DEFINE g == [Idle EXCEPT !.at = "read", !.blob = h]
    <3>1. g.at = "read" /\ g.blob = h /\ ~g.dropped
      BY DEF Idle
    <3>2. \/ h \in DOMAIN index.entries /\ fut' = [fut EXCEPT ![t] = g]
          \/ fut' = [fut EXCEPT ![t] = Idle]
      BY <2>1 DEF GetLookup, Return
    <3> HIDE DEF g
    <3> QED
      BY <3>1, <3>2
  <2>2. CASE PutStart(t, h)
    <3> DEFINE g(s) == [Idle EXCEPT !.at = "create", !.blob = h, !.temp = s]
    <3>1. \A s : g(s).at = "create" /\ ~g(s).dropped
      BY DEF Idle
    <3>2. \/ \E s \in Scratch : fut' = [fut EXCEPT ![t] = g(s)]
          \/ fut' = [fut EXCEPT ![t] = Idle]
      BY <2>2 DEF PutStart, Return
    <3> HIDE DEF g
    <3> QED
      BY <3>1, <3>2
  <2> QED
    BY <2>1, <2>2
<1>3. fut'[t] = g /\ \A u \in Task : u # t => fut'[u] = fut[u]
  BY <1>1, <1>2
<1>4. Idle.at = "idle"
  BY DEF Idle
<1>5. CASE Busy = {}
  <2>1. MirrorOf(g, index'.entries, disk', scratch')
    BY <1>1, <1>2, <1>5 DEF CalmState, Mirrored, MirrorOf, Idle
  <2> QED
    BY <1>1, <1>2, <1>5, <2>1, OneGoesOn
<1>6. CASE Busy # {}
  <2>1. PICK u \in Busy : TRUE
    BY <1>6
  <2>2. u # t /\ u \in Busy'
    BY <1>1, <1>3, <2>1 DEF Busy
  <2>3. g = Idle
    <3>1. t \notin Busy'
      BY <2>2
    <3> QED
      BY <1>2, <1>3, <3>1 DEF Busy
  <2>4. Busy' = Busy /\ \A v \in Busy : fut'[v] = fut[v]
    BY <1>1, <1>3, <1>4, <2>3 DEF Busy
  <2> QED
    BY <1>1, <1>6, <2>4 DEF CalmState, Mirrored
<1> QED
  BY <1>5, <1>6

\* The scan indexes what it leaves in the directory, and sweeps the temps.
LEMMA OpenCalm ==
    ASSUME IndexInv, ~IOMayFail, fut = [t \in Task |-> Idle], open
    PROVE  CalmState'
<1>1. UNCHANGED fut
  BY DEF open
<1>2. Busy' = {} /\ Idle' = Idle
  BY <1>1 DEF Busy, Idle
<1>3. DOMAIN scratch' = {}
  BY DEF open, SweepTemps, Unlucky, Keep
<1> DEFINE F == DOMAIN disk
           sizes == [h \in F |-> disk[h].len]
<1>4. PICK order \in Bijection(1 .. Cardinality(F), F) :
         LET r == Rebuild(order, sizes, Budget)
         IN  index' = r.index /\ disk' = Lose(disk, Range(r.evicted))
  <2>1. \A S : Unlucky(S) = {{}}
    BY DEF Unlucky
  <2>2. PICK unread \in {{}} :
         LET found == DOMAIN disk \ unread
             lens  == [h \in found |-> disk[h].len]
         IN  \E order \in Bijection(1 .. Cardinality(found), found) :
                LET r == Rebuild(order, lens, Budget)
                IN  /\ index' = r.index
                    /\ \E kept \in {{}} : disk' = Lose(disk, Range(r.evicted) \ kept)
    BY <2>1 DEF open
  <2>3. unread = {} /\ DOMAIN disk \ unread = F /\ \A S : S \ {} = S
    OBVIOUS
  <2> QED
    BY <2>2, <2>3
<1>5. F \in SUBSET Blob /\ sizes \in [F -> Nat]
  BY DEF IndexInv, TypeOK, File
<1>6. sizes = Lens(disk)
  BY DEF Lens
<1> HIDE DEF F, sizes
<1> DEFINE r == Rebuild(order, sizes, Budget)
<1>7. r.index.entries = Lose(sizes, Range(r.evicted))
  BY <1>5, BudgetAssumption, RebuildEntries
<1>8. index'.entries = Lens(disk')
  <2>1. index' = r.index /\ disk' = Lose(disk, Range(r.evicted))
    BY <1>4
  <2> HIDE DEF r
  <2> QED
    BY <1>6, <1>7, <2>1, LensLose
<1>9. MirrorOf(Idle, index'.entries, disk', scratch')
  BY <1>3, <1>8 DEF MirrorOf, Idle
<1> QED
  BY <1>2, <1>9 DEF CalmState, Mirrored

LEMMA InitCalm == Init => CalmInv
BY DEF Init, CalmInv

LEMMA NextCalm ==
    ASSUME IndexInv, "io" \notin Faults, CalmInv, [Next /\ Observe]_calmVars
    PROVE  CalmInv'
<1>1. ~IOMayFail /\ mode \in {"down", "up"}
  BY DEF IOMayFail, IndexInv, TypeOK
<1>2. CASE UNCHANGED calmVars
  <2>1. Idle' = Idle
    BY DEF Idle
  <2>2. /\ calm' = calm /\ mode' = mode /\ fut' = fut
        /\ index' = index /\ disk' = disk /\ scratch' = scratch
    BY <1>2 DEF calmVars, vars
  <2>3. CalmState' <=> CalmState
    BY <2>1, <2>2 DEF CalmState, Busy, Mirrored
  <2> QED
    BY <2>2, <2>3, Zenon DEF CalmInv
<1>3. CASE Next /\ Observe
  <2>1. mode' = "down" => fut' = [t \in Task |-> Idle]
    <3>1. CASE Crash
      BY <3>1 DEF Crash
    <3>2. CASE open
      BY <3>2 DEF open
    <3>3. CASE OpenFails \/ Vanish \/ \E h \in Blob : Damage(h)
      BY <3>3 DEF OpenFails, Vanish, Damage, CalmInv
    <3>4. CASE \E t \in Task : \/ Progress(t) \/ Cancel(t)
                               \/ \E h \in Blob : GetLookup(t, h) \/ PutStart(t, h)
      BY <3>4 DEF Progress, GetRead, GetUnlinkRotten, GetDrop, GetHit, PutCreate, PutFill,
                  PutRename, PutInsert, PutUnlink, Cancel, GetLookup, PutStart, At
    <3> QED
      BY <1>3, <3>1, <3>2, <3>3, <3>4 DEF Next
  <2>2. ASSUME calm', mode' = "up" PROVE CalmState'
    <3>1. CASE mode = "down"
      <4>1. open
        BY <1>3, <2>2, <3>1 DEF Next, OpenFails, Progress, GetRead, GetUnlinkRotten, GetDrop,
           GetHit, PutCreate, PutFill, PutRename, PutInsert, PutUnlink, Cancel, GetLookup,
           PutStart, At, Damage, Vanish, Crash
      <4> QED
        BY <1>1, <3>1, <4>1, OpenCalm DEF CalmInv
    <3>2. CASE mode = "up"
      <4>1. /\ CalmState /\ ~Intrusion /\ ~Dropped /\ \A t, u \in Busy' : t = u
        BY <1>3, <2>2, <3>2, Zenon DEF Observe, CalmInv
      <4>2. CASE \E t \in Task : Progress(t)
        BY <1>1, <4>1, <4>2, ProgressCalm
      <4>3. CASE \E t \in Task : \E h \in Blob : GetLookup(t, h) \/ PutStart(t, h)
        BY <4>1, <4>3, BeginCalm
      <4>4. CASE Vanish \/ \E h \in Blob : Damage(h)
        <5>1. UNCHANGED <<mode, index, fut>>
          BY <4>4 DEF Vanish, Damage
        <5>2. disk' = disk /\ scratch' = scratch
          BY <4>1, <5>1 DEF Intrusion
        <5>3. Idle' = Idle
          BY DEF Idle
        <5> QED
          BY <4>1, <5>1, <5>2, <5>3 DEF CalmState, Busy, Mirrored
      <4> QED
        BY <1>3, <2>2, <3>2, <4>1, <4>2, <4>3, <4>4
        DEF Next, open, OpenFails, Crash, Dropped
    <3> QED
      BY <1>1, <3>1, <3>2
  <2> QED
    BY <2>1, <2>2 DEF CalmInv
<1> QED
  BY <1>2, <1>3

LEMMA CalmMirrors == IndexInv /\ CalmInv => CalmMirror
<1> SUFFICES ASSUME IndexInv, CalmInv, calm, Quiet
             PROVE  /\ index.entries = [h \in DOMAIN disk |-> disk[h].len]
                    /\ scratch = [s \in {} |-> "torn"]
  BY DEF CalmMirror, QuietMirror
<1>1. Mirrored(Idle)
  BY Zenon DEF CalmInv, CalmState, Quiet, Busy
<1>2. index.entries = Lens(disk) /\ DOMAIN scratch = {}
  BY <1>1 DEF Mirrored, MirrorOf, Idle
<1>3. scratch \in [DOMAIN scratch -> Content]
  BY DEF IndexInv, TypeOK
<1> QED
  BY <1>2, <1>3 DEF Lens

(***************************************************************************)
(* What open, get and put leave behind when they come one after the other  *)
(* is an index that names exactly the files of the directory and no temp   *)
(* file, for any blobs and budget, however often the process has ended     *)
(* between two of their steps before (cache.rs:266-408).  File-system      *)
(* calls succeed; what is damaged or deleted while the process is down is  *)
(* made good by open.                                                      *)
(***************************************************************************)
THEOREM IndexMirrorsDirectory ==
    ASSUME "io" \notin Faults
    PROVE  CalmSpec => []CalmMirror
<1>1. Init => IndexInv /\ CalmInv
  BY InitIndexInv, InitCalm
<1>2. IndexInv /\ CalmInv /\ [Next /\ Observe]_calmVars => IndexInv' /\ CalmInv'
  <2> SUFFICES ASSUME IndexInv, CalmInv, [Next /\ Observe]_calmVars
               PROVE  IndexInv' /\ CalmInv'
    OBVIOUS
  <2>1. [Next]_vars
    BY DEF calmVars
  <2> QED
    BY <2>1, NextIndexInv, NextCalm
<1> QED
  BY <1>1, <1>2, CalmMirrors, PTL DEF CalmSpec

(***************************************************************************)
(* Cache::put's promise of the footprint (cache.rs:123-125), which         *)
(* overlapping operations can break, holds while they come one after the   *)
(* other: the bytes in the directory are then those the index counts, and  *)
(* these are within the budget.                                            *)
(***************************************************************************)
THEOREM CalmFootprint ==
    ASSUME "io" \notin Faults
    PROVE  CalmSpec => [](calm => FootprintWithinBudget)
<1>1. ASSUME CalmMirror, IndexConsistent, WithinBudget, calm, Quiet
      PROVE  Footprint <= Budget
  <2>1. index.entries = [h \in DOMAIN disk |-> disk[h].len]
    BY <1>1 DEF CalmMirror, QuietMirror
  <2>2. Footprint = index.total
    BY <1>1, <2>1 DEF Footprint, IndexConsistent, IndexOK, TotalIsSum
  <2> QED
    BY <1>1, <2>2 DEF WithinBudget
<1>2. CalmMirror /\ IndexConsistent /\ WithinBudget => (calm => FootprintWithinBudget)
  BY <1>1 DEF FootprintWithinBudget
<1>3. CalmSpec => Spec
  <2>1. [Next /\ Observe]_calmVars => [Next]_vars
    BY DEF calmVars
  <2> QED
    BY <2>1, PTL DEF CalmSpec, Spec
<1> QED
  BY <1>2, <1>3, IndexMirrorsDirectory, IndexAlwaysConsistent, AlwaysWithinBudget, PTL
=============================================================================
