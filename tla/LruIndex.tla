------------------------------ MODULE LruIndex ------------------------------
(***************************************************************************)
(* The in-memory index of the disk cache: struct LruState of               *)
(* crates/xlb/src/cache.rs and the sections of DiskCache that change it     *)
(* while they hold its mutex.  An index is a record                        *)
(*                                                                         *)
(*    entries  the size of every indexed blob   (HashMap<BlakeHash, u64>)  *)
(*    lru      the blobs, oldest first          (VecDeque<BlakeHash>)      *)
(*    total    the byte count                   (u64)                      *)
(*                                                                         *)
(* and every operator below maps an index to an index.  Sizes and budgets  *)
(* are real file sizes: sums stay far below 2^64, so u64 is Nat here, and  *)
(* saturating_sub is the only arithmetic that can clip.                    *)
(***************************************************************************)
EXTENDS Integers, FiniteSets, Sequences, SequencesExt

CONSTANT Blob       \* the BlakeHash values, one per content
ASSUME BlobAssumption == IsFiniteSet(Blob)

(***************************************************************************)
(* The byte count of a size map is the number of cells <<h, i>> such that  *)
(* i is one of the bytes of h: a sum written as a cardinality, so that the *)
(* finite-set theorems apply to it.                                        *)
(***************************************************************************)
Cells(sizes) == UNION {{h} \X (1 .. sizes[h]) : h \in DOMAIN sizes}
Bytes(sizes) == Cardinality(Cells(sizes))

Keep(f, S) == [h \in DOMAIN f \cap S |-> f[h]]
Lose(f, S) == [h \in DOMAIN f \ S |-> f[h]]

saturating_sub(a, b) == IF a >= b THEN a - b ELSE 0

\* LruState::default()
EmptyIndex == [entries |-> [h \in {} |-> 0], lru |-> << >>, total |-> 0]

\* The caller removes an entry whose file is missing or corrupt.
ForgetEntryOnly(ix, h) ==
    [ix EXCEPT !.entries = Lose(@, {h}),
               !.total = IF h \in DOMAIN ix.entries
                         THEN saturating_sub(@, ix.entries[h]) ELSE @]
Forget(ix, h) ==
    [entries |-> Lose(ix.entries, {h}),
     lru     |-> RemoveFirst(ix.lru, h),
     total   |-> IF h \in DOMAIN ix.entries
                 THEN saturating_sub(ix.total, ix.entries[h]) ELSE ix.total]

\* LruState::touch
TouchToFront(ix, h) ==
    IF h \in Range(ix.lru) THEN [ix EXCEPT !.lru = <<h>> \o RemoveFirst(@, h)] ELSE ix
Touch(ix, h) ==
    IF h \in Range(ix.lru)
    THEN [ix EXCEPT !.lru = Append(RemoveFirst(@, h), h)]
    ELSE ix

(***************************************************************************)
(* The eviction loop shared by LruState::insert and DiskCache::open pops   *)
(* the front while what is left and the bytes needed exceed the budget.    *)
(* Popped(ix, k) is the index after k rounds and EvictCount the round in   *)
(* which the loop stops: the first that fits, or the empty queue.          *)
(***************************************************************************)
PoppedCountsTwice(ix, k) ==
    LET victims == {ix.lru[i] : i \in 1 .. k}
    IN  [entries |-> Lose(ix.entries, victims),
         lru     |-> SubSeq(ix.lru, k + 1, Len(ix.lru)),
         total   |-> ix.total - 2 * Bytes(Keep(ix.entries, victims))]
Popped(ix, k) ==
    LET victims == {ix.lru[i] : i \in 1 .. k}
    IN  [entries |-> Lose(ix.entries, victims),
         lru     |-> SubSeq(ix.lru, k + 1, Len(ix.lru)),
         total   |-> saturating_sub(ix.total, Bytes(Keep(ix.entries, victims)))]

Fits(ix, need, budget) == ix.total + need <= budget

EvictCountStopsEarly(ix, need, budget) ==
    IF Fits(ix, 0, budget) THEN 0
    ELSE CHOOSE k \in 0 .. Len(ix.lru) :
            /\ k = Len(ix.lru) \/ Fits(Popped(ix, k), need, budget)
            /\ \A j \in 0 .. (k - 1) : ~Fits(Popped(ix, j), need, budget)
EvictCountStrict(ix, need, budget) ==
    CHOOSE k \in 0 .. Len(ix.lru) :
        /\ k = Len(ix.lru) \/ Fits(Popped(ix, k), need + 1, budget)
        /\ \A j \in 0 .. (k - 1) : ~Fits(Popped(ix, j), need + 1, budget)
EvictCount(ix, need, budget) ==
    CHOOSE k \in 0 .. Len(ix.lru) :
        /\ k = Len(ix.lru) \/ Fits(Popped(ix, k), need, budget)
        /\ \A j \in 0 .. (k - 1) : ~Fits(Popped(ix, j), need, budget)

\* The index after the loop and the blobs whose files are to be removed.
Evict(ix, need, budget) ==
    LET k == EvictCount(ix, need, budget)
    IN  [index |-> Popped(ix, k), evicted |-> SubSeq(ix.lru, 1, k)]

\* The three assignments that end LruState::insert
Admit(ix, h, size) ==
    [entries |-> [x \in DOMAIN ix.entries \cup {h} |->
                     IF x = h THEN size ELSE ix.entries[x]],
     lru     |-> Append(ix.lru, h),
     total   |-> ix.total + size]

\* LruState::insert
Insert(ix, h, size, budget) ==
    LET base == IF h \in DOMAIN ix.entries THEN Forget(ix, h) ELSE ix
        r    == Evict(base, size, budget)
    IN  [index |-> Admit(r.index, h, size), evicted |-> r.evicted]

(***************************************************************************)
(* The scan in DiskCache::open: `order` lists the files found, oldest      *)
(* mtime first, and sizes gives their lengths; then the eviction loop.     *)
(***************************************************************************)
Rebuild(order, sizes, budget) ==
    LET found == Keep(sizes, Range(order))
    IN  Evict([entries |-> found, lru |-> order, total |-> Bytes(found)],
              0, budget)

-----------------------------------------------------------------------------
(***************************************************************************)
(* The invariant the comment on LruState::lru states (cache.rs:208),       *)
(* completed with what total_bytes must be for the eviction loop to be     *)
(* right: the queue lists each entry once, and the byte count is the sum.  *)
(***************************************************************************)
IndexType(ix) ==
    /\ DOMAIN ix = {"entries", "lru", "total"}
    /\ DOMAIN ix.entries \subseteq Blob
    /\ ix.entries \in [DOMAIN ix.entries -> Nat]
    /\ ix.lru \in Seq(Blob)
    /\ ix.total \in Nat
SameKeys(ix)     == Range(ix.lru) = DOMAIN ix.entries
NoDuplicates(ix) == IsInjective(ix.lru)
TotalIsSum(ix)   == ix.total = Bytes(ix.entries)
IndexOK(ix) == SameKeys(ix) /\ NoDuplicates(ix) /\ TotalIsSum(ix)
=============================================================================
