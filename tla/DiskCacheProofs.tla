-------------------------- MODULE DiskCacheProofs --------------------------
(***************************************************************************)
(* The invariants of DiskCache for any number of tasks, blobs and temp     *)
(* names, any sizes and budget, and any combination of faults.             *)
(***************************************************************************)
EXTENDS DiskCache, LruIndexProofs

(***************************************************************************)
(* IndexConsistent and WithinBudget are not inductive alone: insert keeps  *)
(* within the budget only blobs that put did not refuse, and only if the   *)
(* queue and the byte count it evicts by are right.                        *)
(***************************************************************************)
GoodFuture(f) ==
    /\ f \in Future
    /\ f.at # "idle" => f.blob \in Blob
    /\ f.at \in PutSteps => Size[f.blob] <= Budget
    /\ f.at \in {"create", "fill", "rename"} => f.temp \in Scratch
    /\ f.at = "unlink" => f.victims # << >>
    /\ f.at = "touch" => f.data = "whole"
FutureOK == \A t \in Task : GoodFuture(fut[t])

IndexInv == TypeOK /\ IndexConsistent /\ WithinBudget /\ FutureOK

USE DEF vars

\* The empty index, no operations, whole files.
LEMMA InitIndexInv == Init => IndexInv
<1> SUFFICES ASSUME Init PROVE IndexInv
  OBVIOUS
<1> USE DEF Init
<1>1. Sound(index) /\ index.total = 0
  BY EmptyIndexSound
<1>2. Idle \in Future
  BY DEF Idle, Future
<1>3. DOMAIN disk \subseteq Blob /\ disk \in [DOMAIN disk -> File]
  BY SizeAssumption DEF File, Content
<1>4. TypeOK
  BY <1>1, <1>2, <1>3 DEF TypeOK, Sound
<1>5. FutureOK
  BY <1>2 DEF FutureOK, GoodFuture, Idle, PutSteps
<1> QED
  BY <1>1, <1>4, <1>5, BudgetAssumption DEF IndexInv, IndexConsistent, WithinBudget, Sound

\* Files go, whoever removes them: the directory stays well typed.
LEMMA LoseType ==
  ASSUME NEW f, NEW A, NEW B, DOMAIN f \subseteq A, f \in [DOMAIN f -> B],
         NEW g, NEW S, g = Lose(f, S) \/ g = Keep(f, S)
  PROVE  DOMAIN g \subseteq A /\ g \in [DOMAIN g -> B]
<1>1. CASE g = Lose(f, S)
  BY <1>1 DEF Lose
<1>2. CASE g = Keep(f, S)
  BY <1>2 DEF Keep
<1> QED
  BY <1>1, <1>2

\* The scan rebuilds a sound index within the budget from any directory.
LEMMA OpenIndexInv == ASSUME IndexInv, open PROVE IndexInv'
<1> USE DEF IndexInv, IndexConsistent, WithinBudget
<1>1. PICK unread \in Unlucky(DOMAIN disk) :
         LET found == DOMAIN disk \ unread
             sizes == [h \in found |-> disk[h].len]
         IN  \E order \in Bijection(1 .. Cardinality(found), found) :
                LET r == Rebuild(order, sizes, Budget)
                IN  /\ index' = r.index
                    /\ \E kept \in Unlucky(Range(r.evicted)) :
                          disk' = Lose(disk, Range(r.evicted) \ kept)
  BY DEF open
<1> DEFINE found == DOMAIN disk \ unread
           sizes == [h \in found |-> disk[h].len]
<1>2. found \in SUBSET Blob /\ sizes \in [found -> Nat]
  BY DEF TypeOK, File
<1>3. PICK order \in Bijection(1 .. Cardinality(found), found) :
         LET r == Rebuild(order, sizes, Budget)
         IN  /\ index' = r.index
             /\ \E kept \in Unlucky(Range(r.evicted)) :
                   disk' = Lose(disk, Range(r.evicted) \ kept)
  BY <1>1
<1> HIDE DEF found, sizes
<1> DEFINE r == Rebuild(order, sizes, Budget)
<1>4. Sound(r.index) /\ r.index.total <= Budget
  BY <1>2, BudgetAssumption, RebuildSound
<1>5. index' = r.index /\ \E S : disk' = Lose(disk, S)
  BY <1>3
<1> HIDE DEF r
<1>6. Sound(index') /\ index'.total <= Budget
  BY <1>4, <1>5
<1>7. DOMAIN disk' \subseteq Blob /\ disk' \in [DOMAIN disk' -> File]
  <2>1. PICK S : disk' = Lose(disk, S)
    BY <1>5
  <2>2. DOMAIN disk \subseteq Blob /\ disk \in [DOMAIN disk -> File]
    BY DEF TypeOK
  <2> QED
    BY <2>1, <2>2, LoseType
<1>8. DOMAIN scratch' \subseteq Scratch /\ scratch' \in [DOMAIN scratch' -> Content]
  <2>1. PICK S : scratch' = Keep(scratch, S)
    BY DEF open, SweepTemps
  <2>2. DOMAIN scratch \subseteq Scratch /\ scratch \in [DOMAIN scratch -> Content]
    BY DEF TypeOK
  <2> QED
    BY <2>1, <2>2, LoseType
<1>9. TypeOK'
  BY <1>6, <1>7, <1>8 DEF TypeOK, open, Sound
<1>10. FutureOK'
  BY DEF FutureOK, GoodFuture, open
<1> QED
  BY <1>6, <1>9, <1>10 DEF Sound

LEMMA OpenFailsIndexInv == ASSUME IndexInv, OpenFails PROVE IndexInv'
<1>1. DOMAIN scratch' \subseteq Scratch /\ scratch' \in [DOMAIN scratch' -> Content]
  <2>1. PICK S : scratch' = Keep(scratch, S)
    BY DEF OpenFails, SweepTemps
  <2>2. DOMAIN scratch \subseteq Scratch /\ scratch \in [DOMAIN scratch -> Content]
    BY DEF IndexInv, TypeOK
  <2> QED
    BY <2>1, <2>2, LoseType
<1> QED
  BY <1>1 DEF IndexInv, TypeOK, IndexConsistent, WithinBudget, FutureOK, OpenFails

-----------------------------------------------------------------------------
LEMMA IdleGood == GoodFuture(Idle)
BY DEF GoodFuture, Idle, Future, PutSteps

\* A step that gives one task a good future keeps all of them good.
LEMMA SetFuture ==
  ASSUME FutureOK, fut \in [Task -> Future], NEW t \in Task, NEW g, GoodFuture(g),
         fut' = [fut EXCEPT ![t] = g]
  PROVE  fut' \in [Task -> Future] /\ FutureOK'
<1>1. g \in Future
  BY DEF GoodFuture
<1>2. \A u \in Task : fut'[u] = IF u = t THEN g ELSE fut[u]
  OBVIOUS
<1> QED
  BY <1>1, <1>2 DEF FutureOK

\* The same for a step that ends a file call.
LEMMA ResumeFuture ==
  ASSUME FutureOK, fut \in [Task -> Future], NEW t \in Task, NEW f, GoodFuture(f),
         Resume(t, f)
  PROVE  fut' \in [Task -> Future] /\ FutureOK'
<1> DEFINE g == IF fut[t].dropped THEN Idle ELSE f
<1>1. GoodFuture(g)
  BY IdleGood
<1>2. fut' = [fut EXCEPT ![t] = g]
  BY DEF Resume
<1> HIDE DEF g
<1> QED
  BY <1>1, <1>2, SetFuture

\* And for one that ends an operation.
LEMMA ReturnFuture ==
  ASSUME FutureOK, TypeOK, NEW t \in Task,
         NEW v \in Content \cup {"none", "miss"}, Return(t, v)
  PROVE  /\ fut' \in [Task -> Future] /\ FutureOK'
         /\ reply' \in [Task -> Content \cup {"none", "miss"}]
<1>1. fut \in [Task -> Future] /\ reply \in [Task -> Content \cup {"none", "miss"}]
  BY DEF TypeOK
<1>2. fut' = [fut EXCEPT ![t] = Idle] /\ reply' = [reply EXCEPT ![t] = v]
  BY DEF Return
<1>3. fut' \in [Task -> Future] /\ FutureOK'
  BY <1>1, <1>2, IdleGood, SetFuture
<1> QED
  BY <1>1, <1>2, <1>3

LEMMA GetLookupIndexInv ==
  ASSUME IndexInv, NEW t \in Task, NEW h \in Blob, GetLookup(t, h)
  PROVE  IndexInv'
<1> USE DEF IndexInv
<1>1. fut' \in [Task -> Future] /\ FutureOK'
      /\ reply' \in [Task -> Content \cup {"none", "miss"}]
  <2>1. CASE h \in DOMAIN index.entries
    <3> DEFINE g == [Idle EXCEPT !.at = "read", !.blob = h]
    <3>1. GoodFuture(g)
      BY IdleGood DEF GoodFuture, Future, GetSteps, PutSteps
    <3>2. fut' = [fut EXCEPT ![t] = g] /\ reply' = [reply EXCEPT ![t] = "none"]
      BY <2>1 DEF GetLookup
    <3> HIDE DEF g
    <3>3. fut \in [Task -> Future] /\ reply \in [Task -> Content \cup {"none", "miss"}]
      BY DEF TypeOK
    <3> QED
      BY <3>1, <3>2, <3>3, SetFuture
  <2>2. CASE h \notin DOMAIN index.entries
    BY <2>2, ReturnFuture DEF GetLookup
  <2> QED
    BY <2>1, <2>2
<1> QED
  BY <1>1 DEF GetLookup, TypeOK, IndexConsistent, WithinBudget

LEMMA GetReadIndexInv ==
  ASSUME IndexInv, NEW t \in Task, GetRead(t) PROVE IndexInv'
<1> USE DEF IndexInv
<1> DEFINE f == fut[t]
           k == disk[f.blob].kind
           f1 == [f EXCEPT !.data = k, !.at = IF verify(k) THEN "touch" ELSE "unlinkRotten"]
           f2 == [f EXCEPT !.at = "dropMissing"]
<1>1. f \in Future /\ GoodFuture(f) /\ f.at = "read"
  BY DEF TypeOK, FutureOK, GetRead, At
<1>2. f.blob \in DOMAIN disk => GoodFuture(f1)
  <2> SUFFICES ASSUME f.blob \in DOMAIN disk PROVE GoodFuture(f1)
    OBVIOUS
  <2>1. k \in Content
    BY DEF TypeOK, File
  <2> HIDE DEF f, k
  <2> QED
    BY <1>1, <2>1 DEF GoodFuture, Future, GetSteps, PutSteps, verify
<1>3. GoodFuture(f2)
  <2> HIDE DEF f
  <2> QED
    BY <1>1 DEF GoodFuture, Future, GetSteps, PutSteps
<1>4. \/ f.blob \in DOMAIN disk /\ Resume(t, f1)
      \/ Resume(t, f2)
  BY DEF GetRead
<1> HIDE DEF f1, f2, f
<1>5. fut' \in [Task -> Future] /\ FutureOK'
  BY <1>2, <1>3, <1>4, ResumeFuture DEF TypeOK
<1> QED
  BY <1>5 DEF GetRead, TypeOK, IndexConsistent, WithinBudget

LEMMA GetUnlinkRottenIndexInv ==
  ASSUME IndexInv, NEW t \in Task, GetUnlinkRotten(t) PROVE IndexInv'
<1> USE DEF IndexInv
<1> DEFINE f == [fut[t] EXCEPT !.at = "dropRotten"]
<1>1. GoodFuture(fut[t]) /\ fut[t].at = "unlinkRotten"
  BY DEF FutureOK, GetUnlinkRotten, At
<1>2. GoodFuture(f)
  BY <1>1 DEF GoodFuture, Future, GetSteps, PutSteps
<1>3. Resume(t, f)
  BY DEF GetUnlinkRotten
<1> HIDE DEF f
<1>4. fut' \in [Task -> Future] /\ FutureOK'
  BY <1>2, <1>3, ResumeFuture DEF TypeOK
<1>5. DOMAIN disk' \subseteq Blob /\ disk' \in [DOMAIN disk' -> File]
  <2>1. DOMAIN disk \subseteq Blob /\ disk \in [DOMAIN disk -> File]
    BY DEF TypeOK
  <2>2. CASE disk' = disk
    BY <2>1, <2>2
  <2>3. CASE disk' = Lose(disk, {fut[t].blob})
    BY <2>1, <2>3, LoseType
  <2> QED
    BY <2>2, <2>3 DEF GetUnlinkRotten
<1> QED
  BY <1>4, <1>5 DEF GetUnlinkRotten, TypeOK, IndexConsistent, WithinBudget

LEMMA GetDropIndexInv ==
  ASSUME IndexInv, NEW t \in Task, GetDrop(t) PROVE IndexInv'
<1> USE DEF IndexInv
<1>1. fut' \in [Task -> Future] /\ FutureOK'
      /\ reply' \in [Task -> Content \cup {"none", "miss"}]
  BY ReturnFuture DEF GetDrop
<1>2. Sound(index)
  BY DEF TypeOK, IndexConsistent, Sound
<1>3. Sound(index') /\ index'.total <= index.total
  BY <1>2, ForgetSound DEF GetDrop
<1>4. index'.total <= Budget
  BY <1>2, <1>3, BudgetAssumption DEF WithinBudget, Sound, IndexType
<1> QED
  BY <1>1, <1>3, <1>4 DEF GetDrop, TypeOK, IndexConsistent, WithinBudget, Sound

LEMMA GetHitIndexInv ==
  ASSUME IndexInv, NEW t \in Task, GetHit(t) PROVE IndexInv'
<1> USE DEF IndexInv
<1>1. GoodFuture(fut[t]) /\ fut[t].at = "touch"
  BY DEF FutureOK, GetHit, At
<1>2. fut[t].blob \in Blob /\ fut[t].data \in Content \cup {"none", "miss"}
  BY <1>1 DEF GoodFuture, Future
<1>3. fut' \in [Task -> Future] /\ FutureOK'
      /\ reply' \in [Task -> Content \cup {"none", "miss"}]
  BY <1>2, ReturnFuture DEF GetHit
<1>4. Sound(index)
  BY DEF TypeOK, IndexConsistent, Sound
<1>5. Sound(index') /\ index'.total = index.total
  BY <1>2, <1>4, TouchSound DEF GetHit
<1> QED
  BY <1>3, <1>5 DEF GetHit, TypeOK, IndexConsistent, WithinBudget, Sound

-----------------------------------------------------------------------------
LEMMA PutStartIndexInv ==
  ASSUME IndexInv, NEW t \in Task, NEW h \in Blob, PutStart(t, h)
  PROVE  IndexInv'
<1> USE DEF IndexInv
<1>1. fut' \in [Task -> Future] /\ FutureOK'
      /\ reply' \in [Task -> Content \cup {"none", "miss"}]
  <2>1. CASE TooLarge(h)
    BY <2>1, ReturnFuture DEF PutStart
  <2>2. CASE ~TooLarge(h)
    <3>1. PICK s \in Scratch :
             fut' = [fut EXCEPT ![t] = [Idle EXCEPT !.at = "create",
                                           !.blob = h, !.temp = s]]
      BY <2>2 DEF PutStart
    <3> DEFINE g == [Idle EXCEPT !.at = "create", !.blob = h, !.temp = s]
    <3>2. Size[h] <= Budget
      BY <2>2, SizeAssumption, BudgetAssumption DEF TooLarge
    <3>3. GoodFuture(g)
      BY <3>2, IdleGood DEF GoodFuture, Future, GetSteps, PutSteps
    <3>4. fut' = [fut EXCEPT ![t] = g] /\ reply' = [reply EXCEPT ![t] = "none"]
      BY <2>2, <3>1 DEF PutStart
    <3> HIDE DEF g
    <3>5. fut \in [Task -> Future] /\ reply \in [Task -> Content \cup {"none", "miss"}]
      BY DEF TypeOK
    <3> QED
      BY <3>3, <3>4, <3>5, SetFuture
  <2> QED
    BY <2>1, <2>2
<1> QED
  BY <1>1 DEF PutStart, TypeOK, IndexConsistent, WithinBudget

LEMMA PutCreateIndexInv ==
  ASSUME IndexInv, NEW t \in Task, PutCreate(t) PROVE IndexInv'
<1> USE DEF IndexInv
<1>1. GoodFuture(fut[t]) /\ fut[t].at = "create"
  BY DEF FutureOK, PutCreate, At
<1>2. CASE /\ scratch' = [s \in DOMAIN scratch \cup {fut[t].temp} |->
                            IF s = fut[t].temp THEN "torn" ELSE scratch[s]]
           /\ fut' = [fut EXCEPT ![t].at = "fill"]
           /\ fut[t].temp \in Scratch
           /\ UNCHANGED reply
  <2> DEFINE g == [fut[t] EXCEPT !.at = "fill"]
  <2>1. GoodFuture(g)
    BY <1>1 DEF GoodFuture, Future, GetSteps, PutSteps
  <2>2. fut' = [fut EXCEPT ![t] = g]
    BY <1>2
  <2> HIDE DEF g
  <2>3. fut' \in [Task -> Future] /\ FutureOK'
    BY <2>1, <2>2, SetFuture DEF TypeOK
  <2>4. DOMAIN scratch' \subseteq Scratch /\ scratch' \in [DOMAIN scratch' -> Content]
    BY <1>2 DEF TypeOK, Content
  <2> QED
    BY <1>2, <2>3, <2>4 DEF PutCreate, TypeOK, IndexConsistent, WithinBudget
<1>3. CASE Return(t, "none") /\ UNCHANGED scratch
  BY <1>3, ReturnFuture DEF PutCreate, TypeOK, IndexConsistent, WithinBudget
<1> QED
  BY <1>1, <1>2, <1>3 DEF PutCreate, GoodFuture

LEMMA PutFillIndexInv ==
  ASSUME IndexInv, NEW t \in Task, PutFill(t) PROVE IndexInv'
<1> USE DEF IndexInv
<1>1. GoodFuture(fut[t]) /\ fut[t].at = "fill"
  BY DEF FutureOK, PutFill, At
<1>2. CASE /\ scratch' = [s \in DOMAIN scratch |->
                            IF s = fut[t].temp THEN "whole" ELSE scratch[s]]
           /\ Resume(t, [fut[t] EXCEPT !.at = "rename"])
           /\ UNCHANGED reply
  <2> DEFINE g == [fut[t] EXCEPT !.at = "rename"]
  <2>1. GoodFuture(g)
    BY <1>1 DEF GoodFuture, Future, GetSteps, PutSteps
  <2>2. Resume(t, g)
    BY <1>2
  <2> HIDE DEF g
  <2>3. fut' \in [Task -> Future] /\ FutureOK'
    BY <2>1, <2>2, ResumeFuture DEF TypeOK
  <2>4. DOMAIN scratch' \subseteq Scratch /\ scratch' \in [DOMAIN scratch' -> Content]
    BY <1>2 DEF TypeOK, Content
  <2> QED
    BY <1>2, <2>3, <2>4 DEF PutFill, TypeOK, IndexConsistent, WithinBudget
<1>3. CASE Return(t, "none") /\ UNCHANGED scratch
  BY <1>3, ReturnFuture DEF PutFill, TypeOK, IndexConsistent, WithinBudget
<1> QED
  BY <1>2, <1>3 DEF PutFill

LEMMA PutRenameIndexInv ==
  ASSUME IndexInv, NEW t \in Task, PutRename(t) PROVE IndexInv'
<1> USE DEF IndexInv
<1> DEFINE f == fut[t]
<1>1. GoodFuture(f) /\ f.at = "rename" /\ f.blob \in Blob
  BY DEF FutureOK, PutRename, At, GoodFuture
<1>2. CASE /\ f.temp \in DOMAIN scratch
           /\ disk' = [h \in DOMAIN disk \cup {f.blob} |->
                         IF h = f.blob
                         THEN [kind |-> scratch[f.temp], len |-> Size[h]]
                         ELSE disk[h]]
           /\ scratch' = Lose(scratch, {f.temp})
           /\ Resume(t, [f EXCEPT !.at = "insert", !.temp = NoTemp])
           /\ UNCHANGED reply
  <2> DEFINE g == [f EXCEPT !.at = "insert", !.temp = NoTemp]
  <2>1. GoodFuture(g)
    <3> HIDE DEF f
    <3> QED
      BY <1>1 DEF GoodFuture, Future, GetSteps, PutSteps
  <2>2. Resume(t, g)
    BY <1>2
  <2>3. scratch[f.temp] \in Content /\ Size[f.blob] \in Nat
    BY <1>1, <1>2, SizeAssumption DEF TypeOK
  <2>4. DOMAIN disk' \subseteq Blob /\ disk' \in [DOMAIN disk' -> File]
    <3> HIDE DEF f
    <3>1. DOMAIN disk \subseteq Blob /\ disk \in [DOMAIN disk -> File]
      BY DEF TypeOK
    <3>2. [kind |-> scratch[f.temp], len |-> Size[f.blob]] \in File
      BY <2>3 DEF File
    <3> QED
      BY <1>1, <1>2, <3>1, <3>2
  <2> HIDE DEF g
  <2>5. fut' \in [Task -> Future] /\ FutureOK'
    BY <2>1, <2>2, ResumeFuture DEF TypeOK
  <2>6. DOMAIN scratch' \subseteq Scratch /\ scratch' \in [DOMAIN scratch' -> Content]
    <3>1. DOMAIN scratch \subseteq Scratch /\ scratch \in [DOMAIN scratch -> Content]
      BY DEF TypeOK
    <3>2. scratch' = Lose(scratch, {f.temp})
      BY <1>2
    <3> HIDE DEF f
    <3> QED
      BY <3>1, <3>2, LoseType
  <2> QED
    BY <1>2, <2>4, <2>5, <2>6 DEF PutRename, TypeOK, IndexConsistent, WithinBudget
<1>3. CASE Return(t, "none") /\ UNCHANGED <<disk, scratch>>
  BY <1>3, ReturnFuture DEF PutRename, TypeOK, IndexConsistent, WithinBudget
<1> QED
  BY <1>2, <1>3 DEF PutRename

LEMMA PutInsertIndexInv ==
  ASSUME IndexInv, NEW t \in Task, PutInsert(t) PROVE IndexInv'
<1> USE DEF IndexInv
<1> DEFINE f == fut[t]
           r == Insert(index, f.blob, Size[f.blob], Budget)
           g == IF r.evicted = << >> THEN Idle
                ELSE [f EXCEPT !.at = "unlink", !.victims = r.evicted]
<1>1. GoodFuture(f) /\ f.at = "insert"
  BY DEF FutureOK, PutInsert, At
<1>2. f.blob \in Blob /\ Size[f.blob] \in Nat /\ Size[f.blob] <= Budget
  BY <1>1, SizeAssumption DEF GoodFuture, PutSteps
<1>3. Sound(index)
  BY DEF TypeOK, IndexConsistent, Sound
<1>4. Sound(r.index) /\ r.index.total <= Budget /\ r.evicted \in Seq(Blob)
  BY <1>2, <1>3, BudgetAssumption, InsertSound
<1>5. index' = r.index /\ fut' = [fut EXCEPT ![t] = g]
  BY DEF PutInsert
<1> HIDE DEF f, r
<1>6. GoodFuture(g)
  <2>1. CASE r.evicted = << >>
    BY <2>1, IdleGood
  <2>2. CASE r.evicted # << >>
    <3> DEFINE n == [f EXCEPT !.at = "unlink", !.victims = r.evicted]
    <3>1. n \in Future
      BY <1>1, <1>4 DEF GoodFuture, Future, PutSteps
    <3>2. n.at = "unlink" /\ n.victims = r.evicted /\ n.blob = f.blob
      BY <1>1 DEF GoodFuture, Future
    <3>3. g = n
      BY <2>2
    <3> HIDE DEF n, g
    <3> QED
      BY <1>1, <1>2, <2>2, <3>1, <3>2, <3>3 DEF GoodFuture
  <2> QED
    BY <2>1, <2>2
<1> HIDE DEF g
<1>7. fut' \in [Task -> Future] /\ FutureOK'
  BY <1>5, <1>6, SetFuture DEF TypeOK
<1> QED
  BY <1>4, <1>5, <1>7 DEF PutInsert, TypeOK, IndexConsistent, WithinBudget, Sound

LEMMA PutUnlinkIndexInv ==
  ASSUME IndexInv, NEW t \in Task, PutUnlink(t) PROVE IndexInv'
<1> USE DEF IndexInv
<1> DEFINE f == fut[t]
           g == AfterUnlink(f)
<1>1. GoodFuture(f) /\ f.at = "unlink"
  BY DEF FutureOK, PutUnlink, At
<1>2. Resume(t, g)
  BY DEF PutUnlink
<1>3. DOMAIN disk' \subseteq Blob /\ disk' \in [DOMAIN disk' -> File]
  <2>1. DOMAIN disk \subseteq Blob /\ disk \in [DOMAIN disk -> File]
    BY DEF TypeOK
  <2>2. CASE disk' = disk
    BY <2>1, <2>2
  <2>3. CASE disk' = Lose(disk, {Head(f.victims)})
    BY <2>1, <2>3, LoseType
  <2> QED
    BY <2>2, <2>3 DEF PutUnlink
<1> HIDE DEF f
<1>4. GoodFuture(g)
  <2>1. CASE Len(f.victims) = 1
    BY <2>1, IdleGood DEF AfterUnlink
  <2>2. CASE Len(f.victims) # 1
    <3>1. g = [f EXCEPT !.victims = Tail(@)]
      BY <2>2 DEF AfterUnlink
    <3>2. f.victims \in Seq(Blob) /\ f.victims # << >>
      BY <1>1 DEF GoodFuture, Future
    <3>3. Tail(f.victims) \in Seq(Blob) /\ Tail(f.victims) # << >>
      <4>1. Len(f.victims) \in Nat \ {0, 1}
        BY <2>2, <3>2, EmptySeq
      <4>2. Tail(f.victims) \in Seq(Blob) /\ Len(Tail(f.victims)) = Len(f.victims) - 1
        BY <3>2, HeadTailProperties
      <4>3. Len(Tail(f.victims)) # 0
        BY <4>1, <4>2
      <4> QED
        BY <4>2, <4>3, EmptySeq
    <3> HIDE DEF g
    <3> QED
      BY <1>1, <3>1, <3>3 DEF GoodFuture, Future, PutSteps
  <2> QED
    BY <2>1, <2>2
<1> HIDE DEF g
<1>5. fut' \in [Task -> Future] /\ FutureOK'
  BY <1>2, <1>4, ResumeFuture DEF TypeOK
<1> QED
  BY <1>3, <1>5 DEF PutUnlink, TypeOK, IndexConsistent, WithinBudget

-----------------------------------------------------------------------------
LEMMA CancelIndexInv ==
  ASSUME IndexInv, NEW t \in Task, Cancel(t) PROVE IndexInv'
<1> USE DEF IndexInv
<1> DEFINE f == fut[t]
           g == [f EXCEPT !.dropped = TRUE]
<1>1. GoodFuture(f)
  BY DEF FutureOK
<1>2. GoodFuture(g)
  <2> HIDE DEF f
  <2> QED
    BY <1>1 DEF GoodFuture, Future, PutSteps
<1>3. fut' = [fut EXCEPT ![t] = g] \/ fut' = [fut EXCEPT ![t] = Idle]
  BY DEF Cancel
<1> HIDE DEF f, g
<1>4. fut' \in [Task -> Future] /\ FutureOK'
  BY <1>2, <1>3, IdleGood, SetFuture DEF TypeOK
<1> QED
  BY <1>4 DEF Cancel, TypeOK, IndexConsistent, WithinBudget

LEMMA DamageIndexInv ==
  ASSUME IndexInv, NEW h \in Blob, Damage(h) PROVE IndexInv'
<1> USE DEF IndexInv
<1>1. PICK n \in OddLen : disk' = [disk EXCEPT ![h] = [kind |-> "rotten", len |-> n]]
  BY DEF Damage
<1>2. [kind |-> "rotten", len |-> n] \in File
  BY OddLenAssumption DEF File, Content
<1>3. DOMAIN disk' \subseteq Blob /\ disk' \in [DOMAIN disk' -> File]
  BY <1>1, <1>2 DEF TypeOK
<1> QED
  BY <1>3 DEF Damage, TypeOK, IndexConsistent, WithinBudget, FutureOK

LEMMA VanishIndexInv == ASSUME IndexInv, Vanish PROVE IndexInv'
<1> USE DEF IndexInv
<1>1. /\ DOMAIN disk \subseteq Blob /\ disk \in [DOMAIN disk -> File]
      /\ DOMAIN scratch \subseteq Scratch /\ scratch \in [DOMAIN scratch -> Content]
  BY DEF TypeOK
<1>2. CASE /\ \E h \in DOMAIN disk : disk' = Lose(disk, {h})
           /\ UNCHANGED scratch
  <2>1. DOMAIN disk' \subseteq Blob /\ disk' \in [DOMAIN disk' -> File]
    BY <1>1, <1>2, LoseType
  <2> QED
    BY <1>2, <2>1 DEF Vanish, TypeOK, IndexConsistent, WithinBudget, FutureOK
<1>3. CASE /\ \E s \in DOMAIN scratch : scratch' = Lose(scratch, {s})
           /\ UNCHANGED disk
  <2>1. DOMAIN scratch' \subseteq Scratch /\ scratch' \in [DOMAIN scratch' -> Content]
    BY <1>1, <1>3, LoseType
  <2> QED
    BY <1>3, <2>1 DEF Vanish, TypeOK, IndexConsistent, WithinBudget, FutureOK
<1> QED
  BY <1>2, <1>3 DEF Vanish

LEMMA CrashIndexInv == ASSUME IndexInv, Crash PROVE IndexInv'
<1>1. Sound(index') /\ index'.total = 0
  BY EmptyIndexSound DEF Crash
<1>2. fut' \in [Task -> Future] /\ FutureOK'
  BY IdleGood DEF Crash, FutureOK, GoodFuture
<1> QED
  BY <1>1, <1>2, BudgetAssumption
  DEF Crash, IndexInv, TypeOK, IndexConsistent, WithinBudget, Sound

-----------------------------------------------------------------------------
LEMMA NextIndexInv == IndexInv /\ [Next]_vars => IndexInv'
<1> SUFFICES ASSUME IndexInv, [Next]_vars PROVE IndexInv'
  OBVIOUS
<1>1. CASE open
  BY <1>1, OpenIndexInv
<1>2. CASE OpenFails
  BY <1>2, OpenFailsIndexInv
<1>3. ASSUME NEW t \in Task, Progress(t) PROVE IndexInv'
  BY <1>3, GetReadIndexInv, GetUnlinkRottenIndexInv, GetDropIndexInv, GetHitIndexInv,
     PutCreateIndexInv, PutFillIndexInv, PutRenameIndexInv, PutInsertIndexInv,
     PutUnlinkIndexInv DEF Progress
<1>4. ASSUME NEW t \in Task, Cancel(t) PROVE IndexInv'
  BY <1>4, CancelIndexInv
<1>5. ASSUME NEW t \in Task, NEW h \in Blob, GetLookup(t, h) PROVE IndexInv'
  BY <1>5, GetLookupIndexInv
<1>6. ASSUME NEW t \in Task, NEW h \in Blob, PutStart(t, h) PROVE IndexInv'
  BY <1>6, PutStartIndexInv
<1>7. ASSUME NEW h \in Blob, Damage(h) PROVE IndexInv'
  BY <1>7, DamageIndexInv
<1>8. CASE Vanish
  BY <1>8, VanishIndexInv
<1>9. CASE Crash
  BY <1>9, CrashIndexInv
<1>10. CASE UNCHANGED vars
  BY <1>10 DEF IndexInv, TypeOK, IndexConsistent, WithinBudget, FutureOK
<1> QED
  BY <1>1, <1>2, <1>3, <1>4, <1>5, <1>6, <1>7, <1>8, <1>9, <1>10 DEF Next

\* The cache's own accounting is right in every reachable state: the three
\* parts of the index agree, whatever tasks and faults do.
THEOREM IndexAlwaysConsistent == Spec => []IndexConsistent
<1>1. Init => IndexInv
  BY InitIndexInv
<1>2. IndexInv /\ [Next]_vars => IndexInv'
  BY NextIndexInv
<1>3. IndexInv => IndexConsistent
  BY DEF IndexInv
<1> QED
  BY <1>1, <1>2, <1>3, PTL DEF Spec

\* Every variable keeps its type.
THEOREM TypeCorrect == Spec => []TypeOK
<1>1. IndexInv => TypeOK
  BY DEF IndexInv
<1> QED
  BY <1>1, InitIndexInv, NextIndexInv, PTL DEF Spec

\* What eviction is measured against never exceeds cache_budget_bytes.
THEOREM AlwaysWithinBudget == Spec => []WithinBudget
<1>1. IndexInv => WithinBudget
  BY DEF IndexInv
<1> QED
  BY <1>1, InitIndexInv, NextIndexInv, PTL DEF Spec

-----------------------------------------------------------------------------
(***************************************************************************)
(* No torn file: a temp name belongs to one put at a time, and a temp file *)
(* that its put is about to rename has been written to the end.            *)
(***************************************************************************)
TempsApart == \A t, u \in Task :
                  fut[t].temp = fut[u].temp /\ fut[t].temp # NoTemp => t = u
FilledFirst == \A t \in Task :
                  fut[t].at = "rename" /\ fut[t].temp \in DOMAIN scratch =>
                      scratch[fut[t].temp] = "whole"
DroppedInFlight == \A t \in Task : fut[t].dropped => fut[t].at \in FileCalls

FlightInv == TempsApart /\ FilledFirst /\ DroppedInFlight /\ NoTornFile

\* How a step may change one future without disturbing TempsApart and
\* FilledFirst: it keeps or gives up its temp and does not reach the rename.
Calm(f, g) == /\ g.temp \in {f.temp, NoTemp}
              /\ g.at = "rename" => f.at = "rename" /\ g.temp = f.temp
              /\ g.dropped => g.at \in FileCalls

LEMMA CalmStep ==
  ASSUME FlightInv, fut \in [Task -> Future], NEW t \in Task, NEW g,
         fut' = [fut EXCEPT ![t] = g], Calm(fut[t], g),
         \A s \in DOMAIN scratch' : s \in DOMAIN scratch /\ scratch'[s] = scratch[s],
         \A h \in DOMAIN disk' : disk'[h].kind # "torn"
  PROVE  FlightInv'
<1>1. \A u \in Task : fut'[u] = IF u = t THEN g ELSE fut[u]
  OBVIOUS
<1>2. \A u \in Task : /\ fut'[u].temp \in {fut[u].temp, NoTemp}
                      /\ fut'[u].at = "rename" =>
                            fut[u].at = "rename" /\ fut'[u].temp = fut[u].temp
                      /\ fut'[u].dropped => fut'[u].at \in FileCalls
  BY <1>1 DEF Calm, FlightInv, DroppedInFlight
<1>3. TempsApart'
  BY <1>2 DEF FlightInv, TempsApart
<1>4. FilledFirst'
  BY <1>2 DEF FlightInv, FilledFirst
<1>5. DroppedInFlight' /\ NoTornFile'
  BY <1>2 DEF DroppedInFlight, NoTornFile
<1> QED
  BY <1>3, <1>4, <1>5 DEF FlightInv

\* Resume leads from one calm future to another if the next step is calm.
LEMMA CalmResume ==
  ASSUME FlightInv, fut \in [Task -> Future], NEW t \in Task, NEW f,
         Resume(t, f), ~fut[t].dropped => Calm(fut[t], f),
         \A s \in DOMAIN scratch' : s \in DOMAIN scratch /\ scratch'[s] = scratch[s],
         \A h \in DOMAIN disk' : disk'[h].kind # "torn"
  PROVE  FlightInv'
<1> DEFINE g == IF fut[t].dropped THEN Idle ELSE f
<1>1. Calm(fut[t], g)
  BY DEF Calm, Idle
<1>2. fut' = [fut EXCEPT ![t] = g]
  BY DEF Resume
<1> HIDE DEF g
<1> QED
  BY <1>1, <1>2, CalmStep

LEMMA InitFlightInv == Init => FlightInv
<1> SUFFICES ASSUME Init PROVE FlightInv
  OBVIOUS
<1>1. \A t \in Task : fut[t] = Idle
  BY DEF Init
<1>2. TempsApart /\ FilledFirst /\ DroppedInFlight
  BY <1>1 DEF Idle, TempsApart, FilledFirst, DroppedInFlight
<1>3. NoTornFile
  BY DEF Init, NoTornFile
<1> QED
  BY <1>2, <1>3 DEF FlightInv

LEMMA ProgressFlightInv ==
  ASSUME IndexInv, FlightInv, NEW t \in Task, Progress(t)
  PROVE  FlightInv'
<1>1. fut \in [Task -> Future] /\ GoodFuture(fut[t]) /\ fut[t] \in Future
  BY DEF IndexInv, TypeOK, FutureOK
<1>2. fut[t].dropped => fut[t].at \in FileCalls
  BY DEF FlightInv, DroppedInFlight
<1>3. \A h \in DOMAIN disk : disk[h].kind # "torn"
  BY DEF FlightInv, NoTornFile
<1>4. ASSUME Return(t, "none") \/ Return(t, "miss") \/ Return(t, fut[t].data),
             UNCHANGED <<disk, scratch>>
      PROVE  FlightInv'
  <2>1. fut' = [fut EXCEPT ![t] = Idle]
    BY <1>4 DEF Return
  <2>2. Calm(fut[t], Idle)
    BY DEF Calm, Idle
  <2> QED
    BY <1>1, <1>3, <1>4, <2>1, <2>2, CalmStep
<1>5. CASE GetRead(t)
  <2> DEFINE f == fut[t]
             k == disk[f.blob].kind
             f1 == [f EXCEPT !.data = k, !.at = IF verify(k) THEN "touch" ELSE "unlinkRotten"]
             f2 == [f EXCEPT !.at = "dropMissing"]
  <2>1. Resume(t, f1) \/ Resume(t, f2)
    BY <1>5 DEF GetRead
  <2>2. (~f.dropped => Calm(f, f1)) /\ (~f.dropped => Calm(f, f2))
    BY <1>1 DEF Calm, Future
  <2>3. UNCHANGED <<disk, scratch>>
    BY <1>5 DEF GetRead
  <2> HIDE DEF f1, f2
  <2> QED
    BY <1>1, <1>3, <2>1, <2>2, <2>3, CalmResume
<1>6. CASE GetUnlinkRotten(t)
  <2> DEFINE f1 == [fut[t] EXCEPT !.at = "dropRotten"]
  <2>1. Resume(t, f1) /\ (~fut[t].dropped => Calm(fut[t], f1)) /\ UNCHANGED scratch
    BY <1>1, <1>6 DEF GetUnlinkRotten, Calm, Future
  <2>2. \A h \in DOMAIN disk' : disk'[h].kind # "torn"
    BY <1>3, <1>6 DEF GetUnlinkRotten, Lose
  <2> HIDE DEF f1
  <2> QED
    BY <1>1, <2>1, <2>2, CalmResume
<1>7. CASE GetDrop(t)
  BY <1>4, <1>7 DEF GetDrop
<1>8. CASE GetHit(t)
  BY <1>4, <1>8 DEF GetHit
<1>9. CASE PutCreate(t)
  <2>1. CASE Return(t, "none") /\ UNCHANGED scratch
    BY <1>4, <1>9, <2>1 DEF PutCreate
  <2>2. CASE /\ scratch' = [s \in DOMAIN scratch \cup {fut[t].temp} |->
                              IF s = fut[t].temp THEN "torn" ELSE scratch[s]]
             /\ fut' = [fut EXCEPT ![t].at = "fill"]
    <3>1. fut[t].at = "create" /\ fut[t].temp # NoTemp /\ UNCHANGED disk
      BY <1>1, <1>9, NoneAssumption DEF PutCreate, At, GoodFuture
    <3>2. \A u \in Task : /\ fut'[u].temp = fut[u].temp
                          /\ fut'[u].dropped = fut[u].dropped
                          /\ fut'[u].at = IF u = t THEN "fill" ELSE fut[u].at
      BY <1>1, <2>2 DEF Future
    <3>3. TempsApart' /\ DroppedInFlight'
      BY <3>2 DEF FlightInv, TempsApart, DroppedInFlight, FileCalls
    <3>4. \A u \in Task : u # t => fut[u].temp # fut[t].temp
      BY <3>1 DEF FlightInv, TempsApart
    <3>5. FilledFirst'
      BY <2>2, <3>2, <3>4 DEF FlightInv, FilledFirst
    <3>6. NoTornFile'
      BY <1>3, <3>1 DEF NoTornFile
    <3> QED
      BY <3>3, <3>5, <3>6 DEF FlightInv
  <2> QED
    BY <1>9, <2>1, <2>2 DEF PutCreate
<1>10. CASE PutFill(t)
  <2>1. CASE Return(t, "none") /\ UNCHANGED scratch
    BY <1>4, <1>10, <2>1 DEF PutFill
  <2>2. CASE /\ scratch' = [s \in DOMAIN scratch |->
                              IF s = fut[t].temp THEN "whole" ELSE scratch[s]]
             /\ Resume(t, [fut[t] EXCEPT !.at = "rename"])
    <3> DEFINE f == fut[t]
               g == IF f.dropped THEN Idle ELSE [f EXCEPT !.at = "rename"]
    <3>1. fut' = [fut EXCEPT ![t] = g] /\ UNCHANGED disk
      BY <1>10, <2>2 DEF PutFill, Resume
    <3>2. g.temp \in {f.temp, NoTemp} /\ ~g.dropped /\ (g.at = "rename" => g.temp = f.temp)
      BY <1>1 DEF Idle, Future
    <3> HIDE DEF g
    <3>3. \A u \in Task : fut'[u] = IF u = t THEN g ELSE fut[u]
      BY <1>1, <3>1
    <3>4. TempsApart'
      BY <3>2, <3>3 DEF FlightInv, TempsApart
    <3>5. DroppedInFlight'
      BY <3>2, <3>3 DEF FlightInv, DroppedInFlight
    <3>6. FilledFirst'
      BY <2>2, <3>2, <3>3 DEF FlightInv, FilledFirst
    <3>7. NoTornFile'
      BY <1>3, <3>1 DEF NoTornFile
    <3> QED
      BY <3>4, <3>5, <3>6, <3>7 DEF FlightInv
  <2> QED
    BY <1>10, <2>1, <2>2 DEF PutFill
<1>11. CASE PutRename(t)
  <2>1. CASE Return(t, "none") /\ UNCHANGED <<disk, scratch>>
    BY <1>4, <2>1
  <2>2. CASE /\ fut[t].temp \in DOMAIN scratch
             /\ disk' = [h \in DOMAIN disk \cup {fut[t].blob} |->
                            IF h = fut[t].blob
                            THEN [kind |-> scratch[fut[t].temp], len |-> Size[h]]
                            ELSE disk[h]]
             /\ scratch' = Lose(scratch, {fut[t].temp})
             /\ Resume(t, [fut[t] EXCEPT !.at = "insert", !.temp = NoTemp])
    <3> DEFINE f1 == [fut[t] EXCEPT !.at = "insert", !.temp = NoTemp]
    <3>1. fut[t].at = "rename"
      BY <1>11 DEF PutRename, At
    <3>2. scratch[fut[t].temp] = "whole"
      BY <2>2, <3>1 DEF FlightInv, FilledFirst
    <3>3. \A h \in DOMAIN disk' : disk'[h].kind # "torn"
      BY <1>3, <2>2, <3>2
    <3>4. \A s \in DOMAIN scratch' : s \in DOMAIN scratch /\ scratch'[s] = scratch[s]
      BY <2>2 DEF Lose
    <3>5. ~fut[t].dropped => Calm(fut[t], f1)
      BY <1>1 DEF Calm, Future
    <3>6. Resume(t, f1)
      BY <2>2
    <3> HIDE DEF f1
    <3> QED
      BY <1>1, <3>3, <3>4, <3>5, <3>6, CalmResume
  <2> QED
    BY <1>11, <2>1, <2>2 DEF PutRename
<1>12. CASE PutInsert(t)
  <2> DEFINE e == Insert(index, fut[t].blob, Size[fut[t].blob], Budget).evicted
             g == IF e = << >> THEN Idle
                  ELSE [fut[t] EXCEPT !.at = "unlink", !.victims = e]
  <2>1. fut' = [fut EXCEPT ![t] = g] /\ UNCHANGED <<disk, scratch>>
    BY <1>12 DEF PutInsert
  <2> HIDE DEF e
  <2>2. Calm(fut[t], g)
    BY <1>1 DEF Calm, Idle, Future, FileCalls
  <2> HIDE DEF g
  <2> QED
    BY <1>1, <1>3, <2>1, <2>2, CalmStep
<1>13. CASE PutUnlink(t)
  <2> DEFINE f1 == AfterUnlink(fut[t])
  <2>1. Resume(t, f1) /\ UNCHANGED scratch /\ fut[t].at = "unlink"
    BY <1>13 DEF PutUnlink, At
  <2>2. ~fut[t].dropped => Calm(fut[t], f1)
    BY <1>1, <2>1 DEF AfterUnlink, Calm, Idle, Future, FileCalls
  <2>3. \A h \in DOMAIN disk' : disk'[h].kind # "torn"
    BY <1>3, <1>13 DEF PutUnlink, Lose
  <2> HIDE DEF f1
  <2> QED
    BY <1>1, <2>1, <2>2, <2>3, CalmResume
<1> QED
  BY <1>5, <1>6, <1>7, <1>8, <1>9, <1>10, <1>11, <1>12, <1>13 DEF Progress

\* The steps that start an operation, drop one, or are the environment's.
LEMMA NextFlightInv == IndexInv /\ FlightInv /\ [Next]_vars => FlightInv'
<1> SUFFICES ASSUME IndexInv, FlightInv, [Next]_vars PROVE FlightInv'
  OBVIOUS
<1>1. fut \in [Task -> Future] /\ \A t \in Task : fut[t] \in Future
  BY DEF IndexInv, TypeOK
<1>2. \A h \in DOMAIN disk : disk[h].kind # "torn"
  BY DEF FlightInv, NoTornFile
<1>3. ASSUME fut' = fut,
             \A s \in DOMAIN scratch' : s \in DOMAIN scratch /\ scratch'[s] = scratch[s],
             \A h \in DOMAIN disk' : disk'[h].kind # "torn"
      PROVE  FlightInv'
  BY <1>3 DEF FlightInv, TempsApart, FilledFirst, DroppedInFlight, NoTornFile
<1>4. ASSUME NEW t \in Task, Return(t, "none") \/ Return(t, "miss"),
             UNCHANGED <<disk, scratch>>
      PROVE  FlightInv'
  <2>1. fut' = [fut EXCEPT ![t] = Idle]
    BY <1>4 DEF Return
  <2>2. Calm(fut[t], Idle)
    BY DEF Calm, Idle
  <2> QED
    BY <1>1, <1>2, <1>4, <2>1, <2>2, CalmStep
<1>5. CASE open
  <2>1. \A s \in DOMAIN scratch' : s \in DOMAIN scratch /\ scratch'[s] = scratch[s]
    BY <1>5 DEF open, SweepTemps, Keep
  <2>2. PICK S : disk' = Lose(disk, S)
    BY <1>5 DEF open
  <2>3. \A h \in DOMAIN disk' : disk'[h].kind # "torn"
    BY <1>2, <2>2 DEF Lose
  <2> QED
    BY <1>3, <1>5, <2>1, <2>3 DEF open
<1>6. CASE OpenFails
  BY <1>2, <1>3, <1>6 DEF OpenFails, SweepTemps, Keep
<1>7. ASSUME NEW t \in Task, Progress(t) PROVE FlightInv'
  BY <1>7, ProgressFlightInv
<1>8. ASSUME NEW t \in Task, NEW h \in Blob, GetLookup(t, h) PROVE FlightInv'
  <2>1. CASE h \notin DOMAIN index.entries
    BY <1>4, <1>8, <2>1 DEF GetLookup
  <2>2. CASE h \in DOMAIN index.entries
    <3> DEFINE g == [Idle EXCEPT !.at = "read", !.blob = h]
    <3>1. fut' = [fut EXCEPT ![t] = g] /\ UNCHANGED <<disk, scratch>>
      BY <1>8, <2>2 DEF GetLookup
    <3>2. Calm(fut[t], g)
      BY DEF Calm, Idle, FileCalls
    <3> HIDE DEF g
    <3> QED
      BY <1>1, <1>2, <3>1, <3>2, CalmStep
  <2> QED
    BY <2>1, <2>2
<1>9. ASSUME NEW t \in Task, NEW h \in Blob, PutStart(t, h) PROVE FlightInv'
  <2>1. CASE TooLarge(h)
    BY <1>4, <1>9, <2>1 DEF PutStart
  <2>2. CASE ~TooLarge(h)
    <3>1. PICK s \in Scratch :
             /\ FreshTemp(s)
             /\ fut' = [fut EXCEPT ![t] = [Idle EXCEPT !.at = "create",
                                              !.blob = h, !.temp = s]]
      BY <1>9, <2>2 DEF PutStart
    <3> DEFINE g == [Idle EXCEPT !.at = "create", !.blob = h, !.temp = s]
    <3>2. g.temp = s /\ g.at = "create" /\ ~g.dropped
      BY DEF Idle
    <3>3. fut' = [fut EXCEPT ![t] = g] /\ UNCHANGED <<disk, scratch>>
      BY <1>9, <3>1 DEF PutStart
    <3> HIDE DEF g
    <3>4. \A u \in Task : fut'[u] = IF u = t THEN g ELSE fut[u]
      BY <1>1, <3>3
    <3>5. \A u \in Task : fut[u].temp # s
      BY <3>1 DEF FreshTemp
    <3>6. TempsApart'
      BY <3>2, <3>4, <3>5 DEF FlightInv, TempsApart
    <3>7. FilledFirst' /\ DroppedInFlight'
      BY <3>2, <3>3, <3>4 DEF FlightInv, FilledFirst, DroppedInFlight
    <3>8. NoTornFile'
      BY <1>2, <3>3 DEF NoTornFile
    <3> QED
      BY <3>6, <3>7, <3>8 DEF FlightInv
  <2> QED
    BY <2>1, <2>2
<1>10. ASSUME NEW t \in Task, Cancel(t) PROVE FlightInv'
  <2> DEFINE g == [fut[t] EXCEPT !.dropped = TRUE]
  <2>1. \/ fut[t].at \in FileCalls /\ fut' = [fut EXCEPT ![t] = g]
        \/ fut' = [fut EXCEPT ![t] = Idle]
    BY <1>10 DEF Cancel
  <2>2. (fut[t].at \in FileCalls => Calm(fut[t], g)) /\ Calm(fut[t], Idle)
    BY <1>1 DEF Calm, Idle, Future
  <2>3. UNCHANGED <<disk, scratch>>
    BY <1>10 DEF Cancel
  <2> HIDE DEF g
  <2> QED
    BY <1>1, <1>2, <2>1, <2>2, <2>3, CalmStep
<1>11. ASSUME NEW h \in Blob, Damage(h) PROVE FlightInv'
  <2>1. PICK n \in OddLen : disk' = [disk EXCEPT ![h] = [kind |-> "rotten", len |-> n]]
    BY <1>11 DEF Damage
  <2>2. \A g \in DOMAIN disk' : disk'[g].kind # "torn"
    BY <1>2, <2>1
  <2> QED
    BY <1>3, <1>11, <2>2 DEF Damage
<1>12. CASE Vanish
  BY <1>2, <1>3, <1>12 DEF Vanish, Lose
<1>13. CASE Crash
  <2>1. \A t \in Task : fut'[t] = Idle
    BY <1>13 DEF Crash
  <2> QED
    BY <1>2, <1>13, <2>1
    DEF Crash, Idle, FlightInv, TempsApart, FilledFirst, DroppedInFlight, NoTornFile
<1>14. CASE UNCHANGED vars
  BY <1>2, <1>3, <1>14
<1> QED
  BY <1>5, <1>6, <1>7, <1>8, <1>9, <1>10, <1>11, <1>12, <1>13, <1>14 DEF Next

\* No file under a blob's own name was ever half written, for any number of
\* concurrent puts and with every fault.
THEOREM NeverTorn == Spec => []NoTornFile
<1>1. Init => IndexInv /\ FlightInv
  BY InitIndexInv, InitFlightInv
<1>2. IndexInv /\ FlightInv /\ [Next]_vars => IndexInv' /\ FlightInv'
  BY NextIndexInv, NextFlightInv
<1>3. FlightInv => NoTornFile
  BY DEF FlightInv
<1> QED
  BY <1>1, <1>2, <1>3, PTL DEF Spec

-----------------------------------------------------------------------------
\* In a queue without duplicates an older blob is one that stands in front.
LEMMA OlderIsBefore ==
  ASSUME NEW q \in Seq(Blob), IsInjective(q), NEW g, NEW h
  PROVE  Older(q, g, h) <=> Before(q, g, h)
<1>1. \A i \in DOMAIN q : Position(q, q[i]) = i
  BY DEF Position, IsInjective
<1>2. Older(q, g, h) => Before(q, g, h)
  BY <1>1 DEF Older, Before, Range
<1>3. Before(q, g, h) => Older(q, g, h)
  BY <1>1 DEF Older, Before, Range
<1> QED
  BY <1>2, <1>3

\* What a step does to the queue respects the order of the others.
LEMMA NextRecency ==
  ASSUME IndexInv, [Next]_vars, mode = "up", mode' = "up"
  PROVE  RecencyStep
<1>1. /\ Sound(index) /\ index.lru \in Seq(Blob) /\ IsInjective(index.lru)
  BY DEF IndexInv, TypeOK, IndexConsistent, Sound, IndexType, IndexOK, NoDuplicates
<1>2. index'.lru \in Seq(Blob) /\ IsInjective(index'.lru)
  BY NextIndexInv
  DEF IndexInv, TypeOK, IndexConsistent, IndexType, IndexOK, NoDuplicates
<1>3. \A t \in Task : GoodFuture(fut[t])
  BY DEF IndexInv, FutureOK
<1>4. fut \in [Task -> Future]
  BY DEF IndexInv, TypeOK
<1> SUFFICES ASSUME NEW g \in Blob, NEW h \in Blob, Older(index.lru, g, h),
                    g \in Range(index'.lru), ~Before(index'.lru, g, h)
             PROVE  \/ Last(index'.lru) = g /\ \E t \in Task : Serves(t, g)
                    \/ h \notin Range(index'.lru) /\ \E t \in Task : Drops(t, h)
  BY <1>2, OlderIsBefore DEF RecencyStep
<1>5. Before(index.lru, g, h)
  BY <1>1, OlderIsBefore
<1>6. index' # index
  BY <1>5
<1>7. ASSUME NEW t \in Task, GetDrop(t)
      PROVE  h \notin Range(index'.lru) /\ Drops(t, h)
  <2>1. index' = Forget(index, fut[t].blob) /\ fut'[t] = Idle
        /\ fut[t].at \in {"dropMissing", "dropRotten"}
    BY <1>4, <1>7 DEF GetDrop, At, Return
  <2>2. /\ index'.lru = RemoveFirst(index.lru, fut[t].blob)
        /\ Range(index'.lru) = Range(index.lru) \ {fut[t].blob}
    BY <1>1, <2>1, RemoveFirstProperties DEF Forget
  <2>3. h = fut[t].blob
    BY <1>1, <1>5, <2>2, RemoveFirstOrder
  <2> QED
    BY <2>1, <2>2, <2>3 DEF Drops
<1>8. ASSUME NEW t \in Task, GetHit(t)
      PROVE  Last(index'.lru) = g /\ Serves(t, g)
  <2>1. index' = Touch(index, fut[t].blob) /\ fut'[t] = Idle /\ fut[t].at = "touch"
    BY <1>4, <1>8 DEF GetHit, At, Return
  <2>2. fut[t].blob \in Blob
    BY <1>3, <2>1 DEF GoodFuture
  <2>3. g = fut[t].blob /\ Last(index'.lru) = g
    BY <1>1, <1>5, <2>1, <2>2, TouchOrder
  <2>4. fut'[t] # fut[t]
    BY <2>1 DEF Idle
  <2> QED
    BY <2>1, <2>3, <2>4 DEF Serves
<1>9. ASSUME NEW t \in Task, PutInsert(t)
      PROVE  Last(index'.lru) = g /\ Serves(t, g)
  <2> DEFINE x == fut[t].blob
             r == Insert(index, x, Size[x], Budget)
  <2>1. /\ index' = r.index /\ fut[t].at = "insert"
        /\ fut'[t] = IF r.evicted = << >> THEN Idle
                     ELSE [fut[t] EXCEPT !.at = "unlink", !.victims = r.evicted]
    BY <1>4, <1>9 DEF PutInsert, At
  <2>2. x \in Blob /\ Size[x] \in Nat /\ Size[x] <= Budget
    BY <1>3, <2>1, SizeAssumption DEF GoodFuture, PutSteps
  <2>3. g = x /\ Last(index'.lru) = g
    BY <1>1, <1>5, <2>1, <2>2, BudgetAssumption, InsertOrder
  <2>4. fut'[t].at # "insert"
    <3> HIDE DEF r
    <3> QED
      BY <1>4, <2>1 DEF Idle, Future
  <2> QED
    BY <2>1, <2>3, <2>4 DEF Serves
<1>10. \/ \E t \in Task : GetDrop(t) \/ GetHit(t) \/ PutInsert(t)
       \/ index' = index \/ mode = "down" \/ mode' = "down"
  BY DEF Next, Progress, open, OpenFails, Crash, Vanish, Damage, Cancel, GetLookup,
         PutStart, GetRead, GetUnlinkRotten, PutCreate, PutFill, PutRename, PutUnlink
<1> QED
  BY <1>6, <1>7, <1>8, <1>9, <1>10

\* The queue is a recency order: no interleaving of gets and puts lets a blob
\* be evicted before one that was used longer ago.
THEOREM QueueIsRecency == Spec => LruOrder
<1>1. Init => IndexInv
  BY InitIndexInv
<1>2. IndexInv /\ [Next]_vars => IndexInv'
  BY NextIndexInv
<1>3. IndexInv /\ [Next]_vars => [mode' = "up" /\ mode = "up" => RecencyStep]_vars
  BY NextRecency
<1> QED
  BY <1>1, <1>2, <1>3, PTL DEF Spec, LruOrder

\* Only the insert of a put makes victims of blobs.
LEMMA NextFrugal ==
  ASSUME IndexInv, [Next]_vars, NEW t \in Task, At(t, "insert"), fut'[t].at = "unlink"
  PROVE  LET v == fut'[t].victims[Len(fut'[t].victims)]
         IN  index'.total + index.entries[v] > Budget
<1>1. Sound(index) /\ GoodFuture(fut[t]) /\ fut \in [Task -> Future]
  BY DEF IndexInv, TypeOK, IndexConsistent, FutureOK, Sound
<1>2. fut[t].at = "insert" /\ mode = "up"
  BY DEF At
<1>3. ASSUME fut'[t] = fut[t] \/ fut'[t] = Idle PROVE FALSE
  BY <1>2, <1>3 DEF Idle
<1>5. PutInsert(t)
  <2>1. CASE open \/ OpenFails \/ Vanish \/ UNCHANGED vars \/ \E h \in Blob : Damage(h)
    BY <1>3, <2>1 DEF open, OpenFails, Vanish, Damage
  <2>2. CASE Crash
    BY <1>3, <2>2 DEF Crash
  <2>3. ASSUME NEW u \in Task, u # t,
               Progress(u) \/ Cancel(u) \/ \E h \in Blob : GetLookup(u, h) \/ PutStart(u, h)
        PROVE  fut'[t] = fut[t]
    BY <1>1, <2>3
    DEF Progress, Cancel, GetLookup, PutStart, GetRead, GetUnlinkRotten, GetDrop, GetHit,
        PutCreate, PutFill, PutRename, PutInsert, PutUnlink, Return, Resume
  <2>4. CASE Cancel(t)
    BY <1>1, <1>2, <1>3, <2>4 DEF Cancel, FileCalls
  <2>5. CASE Progress(t) \/ \E h \in Blob : GetLookup(t, h) \/ PutStart(t, h)
    BY <1>2, <2>5
    DEF Progress, At, GetLookup, PutStart, GetRead, GetUnlinkRotten, GetDrop, GetHit,
        PutCreate, PutFill, PutRename, PutUnlink
  <2> QED
    BY <1>3, <2>1, <2>2, <2>3, <2>4, <2>5 DEF Next
<1> DEFINE x == fut[t].blob
           r == Insert(index, x, Size[x], Budget)
<1>6. /\ index' = r.index
      /\ fut'[t] = IF r.evicted = << >> THEN Idle
                   ELSE [fut[t] EXCEPT !.at = "unlink", !.victims = r.evicted]
  BY <1>1, <1>5 DEF PutInsert
<1>7. x \in Blob /\ Size[x] \in Nat /\ Size[x] <= Budget
  BY <1>1, <1>2, SizeAssumption DEF GoodFuture, PutSteps
<1> HIDE DEF x
<1>8. r.evicted # << >> =>
         r.index.total + index.entries[r.evicted[Len(r.evicted)]] > Budget
  BY <1>1, <1>7, BudgetAssumption, InsertFrugal
<1> HIDE DEF r
<1>9. r.evicted # << >>
  BY <1>3, <1>6
<1>10. fut'[t].victims = r.evicted
  BY <1>1, <1>6, <1>9 DEF Future
<1> QED
  BY <1>6, <1>8, <1>9, <1>10

\* No put evicts a blob it could have kept, in any state and for any sizes.
THEOREM EvictsNoMore == Spec => FrugalEviction
<1>1. Init => IndexInv
  BY InitIndexInv
<1>2. IndexInv /\ [Next]_vars => IndexInv'
  BY NextIndexInv
<1>3. IndexInv /\ [Next]_vars => [FrugalStep]_vars
  BY NextFrugal DEF FrugalStep
<1> QED
  BY <1>1, <1>2, <1>3, PTL DEF Spec, FrugalEviction

-----------------------------------------------------------------------------
(***************************************************************************)
(* What is safety in OperationsEnd: the steps of a get and of a put come   *)
(* in one order, and the only ones that repeat, the removals of victims,   *)
(* use up a finite list.                                                   *)
(***************************************************************************)
Place(f) == CASE f.at = "create"       -> 6
              [] f.at = "fill"         -> 5
              [] f.at = "rename"       -> 4
              [] f.at \in {"read", "insert"}                    -> 3
              [] f.at = "unlinkRotten" -> 2
              [] f.at \in {"dropMissing", "dropRotten", "touch", "unlink"} -> 1
              [] OTHER                 -> 0

Nearer(t) == \/ Place(fut'[t]) < Place(fut[t])
             \/ /\ fut[t].at = "unlink" /\ fut'[t].at = "unlink"
                /\ Len(fut'[t].victims) < Len(fut[t].victims)
             \/ ~fut[t].dropped /\ fut'[t] = [fut[t] EXCEPT !.dropped = TRUE]
OpRunDown == \A t \in Task : fut[t].at # "idle" /\ fut'[t] # fut[t] => Nearer(t)

\* A future changes by its own steps, by being dropped, and by a crash.
LEMMA OwnSteps ==
  ASSUME IndexInv, [Next]_vars, NEW t \in Task, fut[t].at # "idle", fut'[t] # fut[t]
  PROVE  fut'[t] = Idle \/ Progress(t) \/ Cancel(t)
<1>1. fut \in [Task -> Future]
  BY DEF IndexInv, TypeOK
<1>2. CASE open \/ OpenFails \/ Vanish \/ UNCHANGED vars \/ \E h \in Blob : Damage(h)
  BY <1>2 DEF open, OpenFails, Vanish, Damage
<1>3. CASE Crash
  BY <1>3 DEF Crash
<1>4. ASSUME NEW u \in Task, u # t,
             Progress(u) \/ Cancel(u) \/ \E h \in Blob : GetLookup(u, h) \/ PutStart(u, h)
      PROVE  fut'[t] = fut[t]
  BY <1>1, <1>4
  DEF Progress, Cancel, GetLookup, PutStart, GetRead, GetUnlinkRotten, GetDrop, GetHit,
      PutCreate, PutFill, PutRename, PutInsert, PutUnlink, Return, Resume
<1>5. ~(\E h \in Blob : GetLookup(t, h) \/ PutStart(t, h))
  BY DEF GetLookup, PutStart, At
<1> QED
  BY <1>2, <1>3, <1>4, <1>5 DEF Next

LEMMA EndIsNearer ==
  ASSUME IndexInv, NEW t \in Task, fut[t].at # "idle", fut'[t] = Idle
  PROVE  Nearer(t)
<1>1. fut[t].at \in GetSteps \cup PutSteps /\ fut'[t].at = "idle"
  BY DEF IndexInv, TypeOK, Future, Idle
<1>2. Place(fut'[t]) = 0 /\ Place(fut[t]) > 0
  BY <1>1 DEF Place, GetSteps, PutSteps
<1> QED
  BY <1>2 DEF Nearer

\* The step that a task takes unless it ends.
LEMMA GoesOn ==
  ASSUME IndexInv, NEW t \in Task, Progress(t), fut'[t] # Idle
  PROVE  \/ fut[t].at = "read" /\ fut'[t].at \in {"touch", "unlinkRotten", "dropMissing"}
         \/ fut[t].at = "unlinkRotten" /\ fut'[t].at = "dropRotten"
         \/ fut[t].at = "create" /\ fut'[t].at = "fill"
         \/ fut[t].at = "fill" /\ fut'[t].at = "rename"
         \/ fut[t].at = "rename" /\ fut'[t].at = "insert"
         \/ fut[t].at = "insert" /\ fut'[t].at = "unlink"
         \/ fut[t].at = "unlink" /\ fut'[t] = AfterUnlink(fut[t])
<1>1. fut \in [Task -> Future] /\ fut[t] \in Future
  BY DEF IndexInv, TypeOK
<1>2. ASSUME NEW f, Resume(t, f) PROVE fut'[t] = f
  BY <1>1, <1>2 DEF Resume
<1>3. ASSUME NEW v, Return(t, v) PROVE FALSE
  BY <1>1, <1>3 DEF Return
<1>4. CASE GetRead(t)
  BY <1>1, <1>2, <1>4 DEF GetRead, At, Future
<1>5. CASE GetUnlinkRotten(t)
  BY <1>1, <1>2, <1>5 DEF GetUnlinkRotten, At, Future
<1>6. CASE GetDrop(t) \/ GetHit(t)
  BY <1>3, <1>6 DEF GetDrop, GetHit
<1>7. CASE PutCreate(t)
  BY <1>1, <1>3, <1>7 DEF PutCreate, At, Future
<1>8. CASE PutFill(t)
  BY <1>1, <1>2, <1>3, <1>8 DEF PutFill, At, Future
<1>9. CASE PutRename(t)
  BY <1>1, <1>2, <1>3, <1>9 DEF PutRename, At, Future
<1>10. CASE PutInsert(t)
  <2> DEFINE r == Insert(index, fut[t].blob, Size[fut[t].blob], Budget)
  <2>1. fut' = [fut EXCEPT ![t] = IF r.evicted = << >> THEN Idle
                                  ELSE [@ EXCEPT !.at = "unlink", !.victims = r.evicted]]
    BY <1>10 DEF PutInsert
  <2> HIDE DEF r
  <2>2. fut'[t] = [fut[t] EXCEPT !.at = "unlink", !.victims = r.evicted]
    BY <1>1, <2>1
  <2> QED
    BY <1>1, <1>10, <2>2 DEF PutInsert, At, Future
<1>11. CASE PutUnlink(t)
  BY <1>2, <1>11 DEF PutUnlink, At
<1> QED
  BY <1>4, <1>5, <1>6, <1>7, <1>8, <1>9, <1>10, <1>11 DEF Progress

LEMMA NextRunsDown == ASSUME IndexInv, [Next]_vars PROVE OpRunDown
<1> SUFFICES ASSUME NEW t \in Task, fut[t].at # "idle", fut'[t] # fut[t] PROVE Nearer(t)
  BY DEF OpRunDown
<1>1. GoodFuture(fut[t]) /\ fut \in [Task -> Future] /\ fut[t] \in Future
  BY DEF IndexInv, TypeOK, FutureOK
<1>2. CASE fut'[t] = Idle
  BY <1>2, EndIsNearer
<1>3. CASE Cancel(t) /\ fut'[t] # Idle
  BY <1>1, <1>3 DEF Cancel, Nearer
<1>4. CASE Progress(t) /\ fut'[t] # Idle
  <2>1. CASE fut[t].at # "unlink"
    BY <1>4, <2>1, GoesOn DEF Nearer, Place
  <2>2. CASE fut[t].at = "unlink"
    <3>1. fut'[t] = [fut[t] EXCEPT !.victims = Tail(@)] /\ fut[t].victims # << >>
      BY <1>1, <1>4, <2>2, GoesOn DEF AfterUnlink, GoodFuture
    <3>2. fut'[t].at = "unlink" /\ fut'[t].victims = Tail(fut[t].victims)
      BY <1>1, <2>2, <3>1 DEF Future
    <3>3. fut[t].victims \in Seq(Blob)
      BY <1>1 DEF Future
    <3>4. Len(Tail(fut[t].victims)) < Len(fut[t].victims)
      BY <3>1, <3>3
    <3> QED
      BY <2>2, <3>2, <3>4 DEF Nearer
  <2> QED
    BY <2>1, <2>2
<1> QED
  BY <1>2, <1>3, <1>4, OwnSteps

\* No operation turns back or goes round: whatever other tasks and faults do,
\* each of its steps leaves it fewer to go, and a future that is dropped during
\* a file call ends with it.
THEOREM OperationsRunDown == Spec => [][OpRunDown]_vars
<1>1. Init => IndexInv
  BY InitIndexInv
<1>2. IndexInv /\ [Next]_vars => IndexInv' /\ OpRunDown
  BY NextIndexInv, NextRunsDown
<1> QED
  BY <1>1, <1>2, PTL DEF Spec

-----------------------------------------------------------------------------
(***************************************************************************)
(* DiskCache implements ContentCache under the mapping heldBar, callBar:   *)
(* every step of the detailed cache is a step of the abstract one or       *)
(* leaves it alone.                                                        *)
(***************************************************************************)
\* What a future looks like from outside.
LEMMA CallOfFuture ==
  ASSUME NEW f \in Future
  PROVE  /\ f.dropped => callOf(f) = Abstract!NoCall
         /\ f.at \in {"idle", "create", "fill", "rename", "insert", "unlink"} =>
               callOf(f) = Abstract!NoCall
         /\ ~f.dropped /\ f.at = "read" => callOf(f) = Abstract!Asked(f.blob)
         /\ ~f.dropped /\ f.at = "touch" => callOf(f) = Abstract!Found(f.blob)
         /\ ~f.dropped /\ f.at \in {"dropMissing", "unlinkRotten", "dropRotten"} =>
               callOf(f) = Abstract!Missed
BY DEF callOf, Future, Abstract!NoCall, Abstract!Asked, Abstract!Found, Abstract!Missed

LEMMA CallOfIdle == callOf(Idle) = Abstract!NoCall
<1>1. Idle \in Future /\ Idle.at = "idle"
  BY DEF Idle, Future
<1> QED
  BY <1>1, CallOfFuture

\* A step of one future is a step of that task's call.
LEMMA CallStep ==
  ASSUME fut \in [Task -> Future], NEW t \in Task, NEW g,
         fut' = [fut EXCEPT ![t] = g]
  PROVE  callBar' = [callBar EXCEPT ![t] = callOf(g)] /\ callBar[t] = callOf(fut[t])
<1>1. \A u \in Task : fut'[u] = IF u = t THEN g ELSE fut[u]
  OBVIOUS
<1> QED
  BY <1>1 DEF callBar

LEMMA CallStays ==
  ASSUME fut \in [Task -> Future], NEW t \in Task, NEW g,
         fut' = [fut EXCEPT ![t] = g], callOf(g) = callOf(fut[t])
  PROVE  callBar' = callBar
<1>1. \A u \in Task : callOf(fut'[u]) = callOf(fut[u])
  OBVIOUS
<1> QED
  BY <1>1 DEF callBar

\* Removing files, whoever does it, only takes blobs from the cache.
LEMMA HeldShrinks ==
  ASSUME NEW S, disk' = Lose(disk, S)
  PROVE  heldBar' \subseteq heldBar
BY DEF heldBar, Lose

LEMMA ForgetStep ==
  ASSUME heldBar' \subseteq heldBar, callBar' = callBar, reply' = reply
  PROVE  Abstract!Next
BY DEF Abstract!Next, Abstract!Forget

\* An operation that asks nothing of the abstract cache returns "none".
LEMMA ClearStep ==
  ASSUME fut \in [Task -> Future], NEW t \in Task, NEW g,
         fut' = [fut EXCEPT ![t] = g], UNCHANGED disk,
         callOf(fut[t]) = Abstract!NoCall, callOf(g) = Abstract!NoCall,
         reply' = [reply EXCEPT ![t] = "none"]
  PROVE  Abstract!Next
<1>1. callBar' = callBar /\ callBar[t] = Abstract!NoCall
  BY CallStays, CallStep
<1>2. heldBar' = heldBar
  BY DEF heldBar
<1> QED
  BY <1>1, <1>2 DEF Abstract!Next, Abstract!Clear

LEMMA InitRefines == Init => Abstract!Init
<1> SUFFICES ASSUME Init PROVE Abstract!Init
  OBVIOUS
<1>1. heldBar \in SUBSET Blob
  BY DEF Init, heldBar
<1>2. callBar = [t \in Task |-> Abstract!NoCall]
  <2>1. \A t \in Task : callOf(fut[t]) = Abstract!NoCall
    BY CallOfIdle DEF Init
  <2> QED
    BY <2>1 DEF callBar
<1> QED
  BY <1>1, <1>2 DEF Init, Abstract!Init

\* The steps of get.
LEMMA GetRefines ==
  ASSUME IndexInv, FlightInv, NEW t \in Task,
         \/ \E h \in Blob : GetLookup(t, h)
         \/ GetRead(t) \/ GetUnlinkRotten(t) \/ GetDrop(t) \/ GetHit(t)
  PROVE  Abstract!Next \/ UNCHANGED <<heldBar, callBar, reply>>
<1>1. fut \in [Task -> Future] /\ fut[t] \in Future /\ GoodFuture(fut[t])
  BY DEF IndexInv, TypeOK, FutureOK
<1>2. fut[t].dropped => fut[t].at \in FileCalls
  BY DEF FlightInv, DroppedInFlight
<1>3. ASSUME NEW h \in Blob, GetLookup(t, h) PROVE Abstract!Next
  <2>1. heldBar' = heldBar /\ fut[t].at = "idle" /\ callOf(fut[t]) = Abstract!NoCall
    BY <1>1, <1>3, CallOfFuture DEF GetLookup, At, heldBar
  <2>2. CASE h \in DOMAIN index.entries
    <3> DEFINE g == [Idle EXCEPT !.at = "read", !.blob = h]
    <3>1. fut' = [fut EXCEPT ![t] = g] /\ reply' = [reply EXCEPT ![t] = "none"]
      BY <1>3, <2>2 DEF GetLookup
    <3>2. g \in Future /\ ~g.dropped /\ g.at = "read" /\ g.blob = h
      <4>1. Idle \in Future /\ ~Idle.dropped
        BY DEF Idle, Future
      <4> QED
        BY <4>1 DEF Future, GetSteps
    <3> HIDE DEF g
    <3>3. callOf(g) = Abstract!Asked(h)
      BY <3>2, CallOfFuture
    <3>4. callBar' = [callBar EXCEPT ![t] = Abstract!Asked(h)]
          /\ callBar[t] = Abstract!NoCall
      BY <1>1, <2>1, <3>1, <3>3, CallStep
    <3> QED
      BY <2>1, <3>1, <3>4 DEF Abstract!Next, Abstract!Ask
  <2>3. CASE h \notin DOMAIN index.entries
    <3>1. fut' = [fut EXCEPT ![t] = Idle] /\ reply' = [reply EXCEPT ![t] = "miss"]
      BY <1>3, <2>3 DEF GetLookup, Return
    <3>2. callBar' = callBar /\ callBar[t] = Abstract!NoCall
      BY <1>1, <2>1, <3>1, CallOfIdle, CallStays, CallStep
    <3> QED
      BY <2>1, <3>1, <3>2 DEF Abstract!Next, Abstract!MissAtOnce
  <2> QED
    BY <2>2, <2>3
<1>4. CASE GetRead(t)
  <2> DEFINE f == fut[t]
             k == disk[f.blob].kind
             f1 == [f EXCEPT !.data = k, !.at = IF verify(k) THEN "touch" ELSE "unlinkRotten"]
             f2 == [f EXCEPT !.at = "dropMissing"]
  <2>1. \/ f.blob \in DOMAIN disk /\ Resume(t, f1)
        \/ Resume(t, f2)
    BY <1>4 DEF GetRead
  <2>2. heldBar' = heldBar /\ reply' = reply /\ f.at = "read" /\ f.blob \in Blob
    BY <1>1, <1>4 DEF GetRead, At, heldBar, GoodFuture
  <2>3. CASE f.dropped
    <3>1. fut' = [fut EXCEPT ![t] = Idle]
      BY <2>1, <2>3 DEF Resume
    <3>2. callOf(f) = Abstract!NoCall
      BY <1>1, <2>3, CallOfFuture
    <3> QED
      BY <1>1, <2>2, <3>1, <3>2, CallOfIdle, CallStays
  <2>4. CASE ~f.dropped
    <3>1. callOf(f) = Abstract!Asked(f.blob)
      BY <1>1, <2>2, <2>4, CallOfFuture
    <3>2. ASSUME NEW g \in Future, ~g.dropped, g.at \in {"dropMissing", "unlinkRotten"},
                 fut' = [fut EXCEPT ![t] = g]
          PROVE  Abstract!Next
      <4>1. callOf(g) = Abstract!Missed
        BY <3>2, CallOfFuture
      <4>2. callBar' = [callBar EXCEPT ![t] = Abstract!Missed]
            /\ callBar[t] = Abstract!Asked(f.blob)
        <5> HIDE DEF f1, f2
        <5> QED
          BY <1>1, <3>1, <3>2, <4>1, CallStep
      <4>3. callBar[t].step = "asked"
        BY <4>2 DEF Abstract!Asked
      <4> HIDE DEF f, f1, f2
      <4> QED
        BY <2>2, <4>2, <4>3 DEF Abstract!Next, Abstract!DecideMiss
    <3>3. CASE Resume(t, f2)
      <4>1. f2 \in Future /\ ~f2.dropped /\ f2.at = "dropMissing"
        <5> HIDE DEF f
        <5> QED
          BY <1>1, <2>4 DEF Future, GetSteps, f
      <4>2. fut' = [fut EXCEPT ![t] = f2]
        BY <2>4, <3>3 DEF Resume
      <4> HIDE DEF f2, f1, f
      <4> QED
        BY <3>2, <4>1, <4>2
    <3>4. CASE f.blob \in DOMAIN disk /\ Resume(t, f1)
      <4>1. fut' = [fut EXCEPT ![t] = f1]
        BY <2>4, <3>4 DEF Resume
      <4>2. k \in Content
        BY <3>4 DEF IndexInv, TypeOK, File
      <4>3. f1 \in Future /\ ~f1.dropped /\ f1.blob = f.blob
            /\ f1.at = IF verify(k) THEN "touch" ELSE "unlinkRotten"
        <5> HIDE DEF k
        <5>1. f \in Future
          BY <1>1
        <5> HIDE DEF f
        <5> QED
          BY <2>4, <4>2, <5>1 DEF Future, GetSteps
      <4>4. CASE ~verify(k)
        <5>1. f1.at = "unlinkRotten"
          BY <4>3, <4>4
        <5> HIDE DEF f, k, f1, f2
        <5> QED
          BY <3>2, <4>1, <4>3, <5>1
      <4>5. CASE verify(k)
        <5>1. f1.at = "touch" /\ f.blob \in heldBar
          BY <3>4, <4>3, <4>5 DEF verify, heldBar
        <5>2. callOf(f1) = Abstract!Found(f.blob)
          <6> HIDE DEF f1
          <6> QED
            BY <4>3, <5>1, CallOfFuture
        <5>3. callBar' = [callBar EXCEPT ![t] = Abstract!Found(f.blob)]
              /\ callBar[t] = Abstract!Asked(f.blob)
          <6> HIDE DEF f1
          <6> QED
            BY <1>1, <3>1, <4>1, <5>2, CallStep
        <5> HIDE DEF f, k, f1, f2
        <5> QED
          BY <2>2, <5>1, <5>3 DEF Abstract!Next, Abstract!DecideHit
      <4> QED
        BY <4>4, <4>5
    <3> HIDE DEF f1, f2
    <3> QED
      BY <2>1, <3>3, <3>4
  <2> QED
    BY <2>3, <2>4
<1>5. CASE GetUnlinkRotten(t)
  <2> DEFINE f == [fut[t] EXCEPT !.at = "dropRotten"]
             g == IF fut[t].dropped THEN Idle ELSE f
  <2>1. fut' = [fut EXCEPT ![t] = g] /\ fut[t].at = "unlinkRotten" /\ reply' = reply
    BY <1>5 DEF GetUnlinkRotten, Resume, At
  <2>2. callOf(g) = callOf(fut[t])
    <3>1. f \in Future /\ f.at = "dropRotten" /\ f.dropped = fut[t].dropped
      BY <1>1 DEF Future, GetSteps
    <3>2. CASE fut[t].dropped
      BY <1>1, <3>2, CallOfFuture, CallOfIdle
    <3>3. CASE ~fut[t].dropped
      <4> HIDE DEF f
      <4>1. callOf(f) = Abstract!Missed
        BY <3>1, <3>3, CallOfFuture
      <4>2. callOf(fut[t]) = Abstract!Missed
        BY <1>1, <2>1, <3>3, CallOfFuture
      <4> QED
        BY <3>3, <4>1, <4>2
    <3> QED
      BY <3>2, <3>3
  <2> HIDE DEF g
  <2>3. callBar' = callBar
    BY <1>1, <2>1, <2>2, CallStays
  <2>4. heldBar' \subseteq heldBar
    <3>1. CASE disk' = disk
      BY <3>1 DEF heldBar
    <3>2. CASE disk' = Lose(disk, {fut[t].blob})
      BY <3>2, HeldShrinks
    <3> QED
      BY <1>5, <3>1, <3>2 DEF GetUnlinkRotten
  <2> QED
    BY <2>1, <2>3, <2>4, ForgetStep
<1>6. CASE GetDrop(t)
  <2>1. fut[t].at \in {"dropMissing", "dropRotten"} /\ ~fut[t].dropped
    BY <1>2, <1>6 DEF GetDrop, At, FileCalls
  <2>2. callOf(fut[t]) = Abstract!Missed
    BY <1>1, <2>1, CallOfFuture
  <2>3. fut' = [fut EXCEPT ![t] = Idle] /\ reply' = [reply EXCEPT ![t] = "miss"]
    BY <1>6 DEF GetDrop, Return
  <2>4. callBar' = [callBar EXCEPT ![t] = Abstract!NoCall] /\ callBar[t] = Abstract!Missed
    BY <1>1, <2>2, <2>3, CallOfIdle, CallStep
  <2>5. heldBar' = heldBar
    BY <1>6 DEF GetDrop, heldBar
  <2> QED
    BY <2>3, <2>4, <2>5 DEF Abstract!Next, Abstract!ReturnMiss
<1>7. CASE GetHit(t)
  <2>1. fut[t].at = "touch" /\ ~fut[t].dropped /\ fut[t].data = "whole"
        /\ fut[t].blob \in Blob
    BY <1>1, <1>2, <1>7 DEF GetHit, At, FileCalls, GoodFuture
  <2>2. callOf(fut[t]) = Abstract!Found(fut[t].blob)
    BY <1>1, <2>1, CallOfFuture
  <2>3. fut' = [fut EXCEPT ![t] = Idle] /\ reply' = [reply EXCEPT ![t] = "whole"]
    BY <1>7, <2>1 DEF GetHit, Return
  <2>4. callBar' = [callBar EXCEPT ![t] = Abstract!NoCall]
        /\ callBar[t] = Abstract!Found(fut[t].blob)
    BY <1>1, <2>2, <2>3, CallOfIdle, CallStep
  <2>5. heldBar' = heldBar
    BY <1>7 DEF GetHit, heldBar
  <2>6. callBar[t].step = "found"
    BY <2>4 DEF Abstract!Found
  <2> QED
    BY <2>3, <2>4, <2>5, <2>6 DEF Abstract!Next, Abstract!ReturnHit
<1> QED
  BY <1>3, <1>4, <1>5, <1>6, <1>7

\* The steps of put: only the rename is seen, and it stores a whole file.
LEMMA PutRefines ==
  ASSUME IndexInv, FlightInv, NEW t \in Task,
         \/ \E h \in Blob : PutStart(t, h)
         \/ PutCreate(t) \/ PutFill(t) \/ PutRename(t) \/ PutInsert(t) \/ PutUnlink(t)
  PROVE  Abstract!Next \/ UNCHANGED <<heldBar, callBar, reply>>
<1>1. fut \in [Task -> Future] /\ fut[t] \in Future /\ GoodFuture(fut[t])
  BY DEF IndexInv, TypeOK, FutureOK
<1>2. ASSUME fut[t].at \in {"idle", "create", "fill", "rename", "insert", "unlink"},
             NEW g \in Future, fut' = [fut EXCEPT ![t] = g],
             g.at \in {"idle", "create", "fill", "rename", "insert", "unlink"}
      PROVE  callBar' = callBar /\ callOf(fut[t]) = Abstract!NoCall
             /\ callOf(g) = Abstract!NoCall
  <2>1. callOf(g) = Abstract!NoCall /\ callOf(fut[t]) = Abstract!NoCall
    BY <1>1, <1>2, CallOfFuture
  <2> QED
    BY <1>1, <1>2, <2>1, CallStays
<1>3. Idle \in Future /\ Idle.at = "idle"
  BY DEF Idle, Future
<1>4. ASSUME fut[t].at \in {"idle", "create", "fill", "rename"},
             Return(t, "none"), UNCHANGED disk
      PROVE  Abstract!Next
  <2>1. fut' = [fut EXCEPT ![t] = Idle] /\ reply' = [reply EXCEPT ![t] = "none"]
    BY <1>4 DEF Return
  <2>2. callOf(fut[t]) = Abstract!NoCall /\ callOf(Idle) = Abstract!NoCall
    BY <1>2, <1>3, <1>4, <2>1
  <2> QED
    BY <1>1, <1>4, <2>1, <2>2, ClearStep
<1>5. ASSUME NEW h \in Blob, PutStart(t, h) PROVE Abstract!Next
  <2>1. fut[t].at = "idle" /\ UNCHANGED disk
    BY <1>5 DEF PutStart, At
  <2>2. CASE TooLarge(h)
    BY <1>4, <1>5, <2>1, <2>2 DEF PutStart
  <2>3. CASE ~TooLarge(h)
    <3>1. PICK s \in Scratch :
             fut' = [fut EXCEPT ![t] = [Idle EXCEPT !.at = "create", !.blob = h, !.temp = s]]
      BY <1>5, <2>3 DEF PutStart
    <3> DEFINE g == [Idle EXCEPT !.at = "create", !.blob = h, !.temp = s]
    <3>2. g \in Future /\ g.at = "create"
      BY <1>3 DEF Future, PutSteps
    <3>3. fut' = [fut EXCEPT ![t] = g] /\ reply' = [reply EXCEPT ![t] = "none"]
      BY <1>5, <2>3, <3>1 DEF PutStart
    <3> HIDE DEF g
    <3>4. callOf(fut[t]) = Abstract!NoCall /\ callOf(g) = Abstract!NoCall
      BY <1>2, <2>1, <3>2, <3>3
    <3> QED
      BY <1>1, <2>1, <3>3, <3>4, ClearStep
  <2> QED
    BY <2>2, <2>3
<1>6. CASE PutCreate(t)
  <2>1. fut[t].at = "create" /\ UNCHANGED disk
    BY <1>6 DEF PutCreate, At
  <2>2. CASE Return(t, "none")
    BY <1>4, <2>1, <2>2
  <2>3. CASE fut' = [fut EXCEPT ![t].at = "fill"] /\ UNCHANGED reply
    <3> DEFINE g == [fut[t] EXCEPT !.at = "fill"]
    <3>1. g \in Future /\ g.at = "fill" /\ fut' = [fut EXCEPT ![t] = g]
      BY <1>1, <2>3 DEF Future, PutSteps
    <3> HIDE DEF g
    <3> QED
      BY <1>2, <2>1, <2>3, <3>1 DEF heldBar
  <2> QED
    BY <1>6, <2>2, <2>3 DEF PutCreate
<1>7. CASE PutFill(t)
  <2>1. fut[t].at = "fill" /\ UNCHANGED disk
    BY <1>7 DEF PutFill, At
  <2>2. CASE Return(t, "none")
    BY <1>4, <2>1, <2>2
  <2>3. CASE Resume(t, [fut[t] EXCEPT !.at = "rename"]) /\ UNCHANGED reply
    <3> DEFINE f == [fut[t] EXCEPT !.at = "rename"]
               g == IF fut[t].dropped THEN Idle ELSE f
    <3>1. f \in Future /\ f.at = "rename"
      BY <1>1 DEF Future, PutSteps
    <3>2. fut' = [fut EXCEPT ![t] = g]
      BY <2>3 DEF Resume
    <3> HIDE DEF f
    <3>3. g \in Future /\ g.at \in {"idle", "rename"}
      BY <1>3, <3>1
    <3> HIDE DEF g
    <3> QED
      BY <1>2, <2>1, <2>3, <3>2, <3>3 DEF heldBar
  <2> QED
    BY <1>7, <2>2, <2>3 DEF PutFill
<1>8. CASE PutRename(t)
  <2>1. fut[t].at = "rename" /\ fut[t].blob \in Blob
    BY <1>1, <1>8 DEF PutRename, At, GoodFuture
  <2>2. CASE Return(t, "none") /\ UNCHANGED disk
    BY <1>4, <2>1, <2>2
  <2>3. CASE /\ fut[t].temp \in DOMAIN scratch
             /\ disk' = [h \in DOMAIN disk \cup {fut[t].blob} |->
                           IF h = fut[t].blob
                           THEN [kind |-> scratch[fut[t].temp], len |-> Size[h]]
                           ELSE disk[h]]
             /\ Resume(t, [fut[t] EXCEPT !.at = "insert", !.temp = NoTemp])
             /\ UNCHANGED reply
    <3> DEFINE f == [fut[t] EXCEPT !.at = "insert", !.temp = NoTemp]
               g == IF fut[t].dropped THEN Idle ELSE f
    <3>1. f \in Future /\ f.at = "insert"
      BY <1>1 DEF Future, PutSteps
    <3>2. fut' = [fut EXCEPT ![t] = g]
      BY <2>3 DEF Resume
    <3> HIDE DEF f
    <3>3. g \in Future /\ g.at \in {"idle", "insert"}
      BY <1>3, <3>1
    <3> HIDE DEF g
    <3>4. callBar' = callBar
      BY <1>2, <2>1, <3>2, <3>3
    <3>5. scratch[fut[t].temp] = "whole"
      BY <2>1, <2>3 DEF FlightInv, FilledFirst
    <3>6. heldBar' = heldBar \cup {fut[t].blob}
      BY <2>3, <3>5 DEF heldBar
    <3> QED
      BY <2>1, <2>3, <3>4, <3>6 DEF Abstract!Next, Abstract!Store
  <2> QED
    BY <1>8, <2>2, <2>3 DEF PutRename
<1>9. CASE PutInsert(t)
  <2> DEFINE e == Insert(index, fut[t].blob, Size[fut[t].blob], Budget).evicted
             g == IF e = << >> THEN Idle
                  ELSE [fut[t] EXCEPT !.at = "unlink", !.victims = e]
  <2>1. fut' = [fut EXCEPT ![t] = g] /\ UNCHANGED <<disk, reply>> /\ fut[t].at = "insert"
    BY <1>9 DEF PutInsert, At
  <2>2. e \in Seq(Blob)
    <3>1. Sound(index) /\ fut[t].blob \in Blob /\ Size[fut[t].blob] <= Budget
      BY <1>1, <2>1 DEF IndexInv, TypeOK, IndexConsistent, Sound, GoodFuture, PutSteps
    <3>2. Size[fut[t].blob] \in Nat
      BY <3>1, SizeAssumption
    <3> QED
      BY <3>1, <3>2, BudgetAssumption, InsertSound
  <2> HIDE DEF e
  <2>3. g \in Future /\ g.at \in {"idle", "unlink"}
    BY <1>1, <1>3, <2>2 DEF Future, PutSteps
  <2> HIDE DEF g
  <2> QED
    BY <1>2, <2>1, <2>3 DEF heldBar
<1>10. CASE PutUnlink(t)
  <2> DEFINE f == AfterUnlink(fut[t])
             g == IF fut[t].dropped THEN Idle ELSE f
  <2>1. fut' = [fut EXCEPT ![t] = g] /\ fut[t].at = "unlink" /\ UNCHANGED reply
    BY <1>10 DEF PutUnlink, Resume, At
  <2>2. callOf(g) = callOf(fut[t])
    <3>1. callOf(fut[t]) = Abstract!NoCall
      BY <1>1, <2>1, CallOfFuture
    <3>2. CASE g = Idle
      BY <3>1, <3>2, CallOfIdle
    <3>3. CASE g = [fut[t] EXCEPT !.victims = Tail(@)]
      <4>1. fut[t].victims \in Seq(Blob) /\ fut[t].victims # << >>
        BY <1>1, <2>1 DEF GoodFuture, Future
      <4>2. Tail(fut[t].victims) \in Seq(Blob)
        BY <4>1, HeadTailProperties
      <4>3. g \in Future /\ g.at = "unlink"
        <5> HIDE DEF g, f
        <5> QED
          BY <1>1, <2>1, <3>3, <4>2 DEF Future
      <4> HIDE DEF g, f
      <4> QED
        BY <3>1, <4>3, CallOfFuture
    <3> QED
      BY <3>2, <3>3 DEF AfterUnlink
  <2> HIDE DEF g
  <2>3. callBar' = callBar
    BY <1>1, <2>1, <2>2, CallStays
  <2>4. heldBar' \subseteq heldBar
    <3>1. CASE disk' = disk
      BY <3>1 DEF heldBar
    <3>2. CASE disk' = Lose(disk, {Head(fut[t].victims)})
      BY <3>2, HeldShrinks
    <3> QED
      BY <1>10, <3>1, <3>2 DEF PutUnlink
  <2> QED
    BY <2>1, <2>3, <2>4, ForgetStep
<1> QED
  BY <1>5, <1>6, <1>7, <1>8, <1>9, <1>10

-----------------------------------------------------------------------------
LEMMA NextRefines ==
  IndexInv /\ FlightInv /\ [Next]_vars => [Abstract!Next]_<<heldBar, callBar, reply>>
<1> SUFFICES ASSUME IndexInv, FlightInv, [Next]_vars
             PROVE  Abstract!Next \/ UNCHANGED <<heldBar, callBar, reply>>
  OBVIOUS
<1>1. fut \in [Task -> Future]
  BY DEF IndexInv, TypeOK
<1>2. CASE open
  <2>1. PICK S : disk' = Lose(disk, S)
    BY <1>2 DEF open
  <2>2. heldBar' \subseteq heldBar
    BY <2>1, HeldShrinks
  <2> QED
    BY <1>2, <2>2, ForgetStep DEF open, callBar
<1>3. CASE OpenFails
  BY <1>3 DEF OpenFails, heldBar, callBar
<1>4. ASSUME NEW t \in Task, Progress(t)
      PROVE  Abstract!Next \/ UNCHANGED <<heldBar, callBar, reply>>
  BY <1>4, GetRefines, PutRefines DEF Progress
<1>5. ASSUME NEW t \in Task, NEW h \in Blob, GetLookup(t, h) \/ PutStart(t, h)
      PROVE  Abstract!Next \/ UNCHANGED <<heldBar, callBar, reply>>
  BY <1>5, GetRefines, PutRefines
<1>6. ASSUME NEW t \in Task, Cancel(t)
      PROVE  Abstract!Next \/ UNCHANGED <<heldBar, callBar, reply>>
  <2>1. heldBar' = heldBar /\ reply' = reply
    BY <1>6 DEF Cancel, heldBar
  <2>2. ASSUME NEW g, fut' = [fut EXCEPT ![t] = g], callOf(g) = Abstract!NoCall
        PROVE  Abstract!Next \/ UNCHANGED <<heldBar, callBar, reply>>
    <3>1. CASE callOf(fut[t]) = Abstract!NoCall
      BY <1>1, <2>1, <2>2, <3>1, CallStays
    <3>2. CASE callOf(fut[t]) # Abstract!NoCall
      <4>1. callBar' = [callBar EXCEPT ![t] = Abstract!NoCall]
            /\ callBar[t] # Abstract!NoCall
        BY <1>1, <2>2, <3>2, CallStep
      <4> QED
        BY <2>1, <4>1 DEF Abstract!Next, Abstract!Abandon
    <3> QED
      BY <3>1, <3>2
  <2> DEFINE g == [fut[t] EXCEPT !.dropped = TRUE]
  <2>3. fut' = [fut EXCEPT ![t] = g] \/ fut' = [fut EXCEPT ![t] = Idle]
    BY <1>6 DEF Cancel
  <2>4. g \in Future /\ g.dropped
    BY <1>1 DEF Future
  <2> HIDE DEF g
  <2>5. callOf(g) = Abstract!NoCall
    BY <2>4, CallOfFuture
  <2> QED
    BY <2>2, <2>3, <2>5, CallOfIdle
<1>7. ASSUME NEW h \in Blob, Damage(h) PROVE Abstract!Next
  <2>1. PICK n \in OddLen : disk' = [disk EXCEPT ![h] = [kind |-> "rotten", len |-> n]]
    BY <1>7 DEF Damage
  <2>2. heldBar' \subseteq heldBar
    BY <2>1 DEF heldBar
  <2> QED
    BY <1>7, <2>2, ForgetStep DEF Damage, callBar
<1>8. CASE Vanish
  <2>1. heldBar' \subseteq heldBar
    <3>1. CASE \E h \in DOMAIN disk : disk' = Lose(disk, {h})
      BY <3>1, HeldShrinks
    <3>2. CASE UNCHANGED disk
      BY <3>2 DEF heldBar
    <3> QED
      BY <1>8, <3>1, <3>2 DEF Vanish
  <2> QED
    BY <1>8, <2>1, ForgetStep DEF Vanish, callBar
<1>9. CASE Crash
  <2>1. \A t \in Task : callOf(fut'[t]) = Abstract!NoCall
    BY <1>9, CallOfIdle DEF Crash
  <2>2. callBar' = [t \in Task |-> Abstract!NoCall]
    BY <2>1 DEF callBar
  <2> QED
    BY <1>9, <2>2 DEF Crash, heldBar, Abstract!Next, Abstract!Crash
<1>10. CASE UNCHANGED vars
  BY <1>10 DEF vars, heldBar, callBar
<1> QED
  BY <1>2, <1>3, <1>4, <1>5, <1>6, <1>7, <1>8, <1>9, <1>10 DEF Next

\* A lookup that hits returns exactly the bytes of a blob the cache held
\* during the lookup: the disk cache implements the abstract one, for any
\* number of tasks and blobs and under every fault.
THEOREM ServesOnlyWhatItHolds == Spec => ServesOnlyTheBlob
<1>1. Init => IndexInv /\ FlightInv
  BY InitIndexInv, InitFlightInv
<1>2. IndexInv /\ FlightInv /\ [Next]_vars => IndexInv' /\ FlightInv'
  BY NextIndexInv, NextFlightInv
<1> QED
  BY <1>1, <1>2, InitRefines, NextRefines, PTL
  DEF Spec, ServesOnlyTheBlob, Abstract!Spec, Abstract!vars
=============================================================================
