--------------------------- MODULE LruIndexProofs ---------------------------
(***************************************************************************)
(* What the operators of LruIndex preserve, for every set of blobs, every  *)
(* size and every budget.  DiskCacheProofs cites the lemmas by name.       *)
(***************************************************************************)
EXTENDS LruIndex, FiniteSetTheorems, FunctionTheorems, SequenceTheorems, TLAPS

Column(h, n) == {h} \X (1 .. n)

\* One blob's cells are as many as its bytes.
LEMMA ColumnCount ==
  ASSUME NEW h, NEW n \in Nat
  PROVE  IsFiniteSet(Column(h, n)) /\ Cardinality(Column(h, n)) = n
<1> DEFINE f == [i \in 1 .. n |-> <<h, i>>]
<1>1. f \in Bijection(1 .. n, Column(h, n))
  <2>1. f \in [1 .. n -> Column(h, n)]
    BY DEF Column
  <2>2. \A i, j \in 1 .. n : f[i] = f[j] => i = j
    OBVIOUS
  <2>3. \A c \in Column(h, n) : \E i \in 1 .. n : f[i] = c
    BY DEF Column
  <2> QED
    BY <2>1, <2>2, <2>3, Fun_IsBij
<1>2. ExistsBijection(1 .. n, Column(h, n))
  BY <1>1 DEF ExistsBijection
<1>3. IsFiniteSet(1 .. n) /\ Cardinality(1 .. n) = n
  BY FS_Interval
<1> QED
  BY <1>2, <1>3, FS_Bijection

\* A finite size map has finitely many cells, so Bytes is a number.
LEMMA CellsFinite ==
  ASSUME NEW D, IsFiniteSet(D), NEW s \in [D -> Nat]
  PROVE  IsFiniteSet(Cells(s)) /\ Bytes(s) \in Nat
<1> DEFINE f == [h \in D |-> Column(h, s[h])]
           T == {Column(h, s[h]) : h \in D}
<1>1. f \in Surjection(D, T)
  BY DEF Surjection
<1>2. IsFiniteSet(T)
  BY <1>1, FS_Surjection
<1>3. \A c \in T : IsFiniteSet(c)
  BY ColumnCount
<1>4. Cells(s) = UNION T
  BY DEF Cells, Column
<1>5. IsFiniteSet(Cells(s))
  BY <1>2, <1>3, <1>4, FS_UNION
<1> QED
  BY <1>5, FS_CardinalityType DEF Bytes

\* Any set of blobs splits the byte count in two.
LEMMA BytesSplit ==
  ASSUME NEW D, IsFiniteSet(D), NEW s \in [D -> Nat], NEW S
  PROVE  /\ Keep(s, S) \in [D \cap S -> Nat]
         /\ Lose(s, S) \in [D \ S -> Nat]
         /\ Bytes(Keep(s, S)) \in Nat
         /\ Bytes(Lose(s, S)) \in Nat
         /\ Bytes(s) = Bytes(Keep(s, S)) + Bytes(Lose(s, S))
<1> DEFINE K == Keep(s, S)
           L == Lose(s, S)
<1>1. K \in [D \cap S -> Nat] /\ L \in [D \ S -> Nat]
  BY DEF Keep, Lose
<1>2. IsFiniteSet(D \cap S) /\ IsFiniteSet(D \ S)
  BY FS_Intersection, FS_Difference
<1>3. /\ IsFiniteSet(Cells(K)) /\ Bytes(K) \in Nat
      /\ IsFiniteSet(Cells(L)) /\ Bytes(L) \in Nat
  BY <1>1, <1>2, CellsFinite
<1>4. Cells(s) = Cells(K) \cup Cells(L)
  BY DEF Cells, Keep, Lose
<1>5. Cells(K) \cap Cells(L) = {}
  BY DEF Cells, Keep, Lose
<1>6. Cardinality(Cells(K) \cap Cells(L)) = 0
  BY <1>5, FS_EmptySet
<1> QED
  BY <1>1, <1>3, <1>4, <1>6, FS_Union DEF Bytes

\* The bytes of one entry are its size.
LEMMA BytesOfOne ==
  ASSUME NEW D, NEW s \in [D -> Nat], NEW h \in D
  PROVE  Bytes(Keep(s, {h})) = s[h]
<1>1. Cells(Keep(s, {h})) = Column(h, s[h])
  BY DEF Cells, Keep, Column
<1> QED
  BY <1>1, ColumnCount DEF Bytes

-----------------------------------------------------------------------------
\* In a queue without duplicates a blob stands in one place.
LEMMA RemoveFirstPosition ==
  ASSUME NEW S, NEW q \in Seq(S), IsInjective(q), NEW p \in 1 .. Len(q)
  PROVE  RemoveFirst(q, q[p]) = RemoveAt(q, p)
<1> DEFINE I == {i \in 1 .. Len(q) : q[i] = q[p]}
<1>1. I = {p}
  BY LenProperties DEF IsInjective
<1>2. Min(I) = p
  BY <1>1 DEF Min
<1>3. SelectInSeq(q, LAMBDA v : v = q[p]) = p
  BY <1>1, <1>2 DEF SelectInSeq
<1> QED
  BY <1>3 DEF RemoveFirst

\* What remains of a queue without its p-th blob.
LEMMA RemoveAtContents ==
  ASSUME NEW S, NEW q \in Seq(S), NEW p \in 1 .. Len(q)
  PROVE  /\ RemoveAt(q, p) \in Seq(S)
         /\ Len(RemoveAt(q, p)) = Len(q) - 1
         /\ \A i \in 1 .. Len(q) - 1 :
               RemoveAt(q, p)[i] = IF i < p THEN q[i] ELSE q[i + 1]
<1> DEFINE s1 == SubSeq(q, 1, p - 1)
           s2 == SubSeq(q, p + 1, Len(q))
<1>1. Len(q) \in Nat /\ \A i \in 1 .. Len(q) : q[i] \in S
  BY LenProperties
<1>2. /\ s1 \in Seq(S) /\ Len(s1) = p - 1
      /\ \A i \in 1 .. p - 1 : s1[i] = q[i]
  BY <1>1, SubSeqProperties
<1>3. /\ s2 \in Seq(S) /\ Len(s2) = Len(q) - p
      /\ \A i \in 1 .. Len(q) - p : s2[i] = q[p + i]
  <2> DEFINE m == p + 1
  <2>1. \A i \in m .. Len(q) : q[i] \in S
    BY <1>1
  <2>2. m \in Int /\ Len(q) \in Int
    BY <1>1
  <2> HIDE DEF m
  <2>3. /\ SubSeq(q, m, Len(q)) \in Seq(S)
        /\ Len(SubSeq(q, m, Len(q))) = IF m <= Len(q) THEN Len(q) - m + 1 ELSE 0
        /\ \A i \in 1 .. Len(q) - m + 1 : SubSeq(q, m, Len(q))[i] = q[m + i - 1]
    BY <2>1, <2>2, SubSeqProperties
  <2> USE DEF m
  <2>4. \A i \in 1 .. Len(q) - p : i \in 1 .. Len(q) - m + 1 /\ m + i - 1 = p + i
    BY <1>1
  <2>5. (IF m <= Len(q) THEN Len(q) - m + 1 ELSE 0) = Len(q) - p
    BY <1>1
  <2> HIDE DEF m
  <2>6. s2 = SubSeq(q, m, Len(q))
    BY DEF m
  <2> HIDE DEF s2
  <2> QED
    BY <2>3, <2>4, <2>5, <2>6
<1>4. RemoveAt(q, p) = s1 \o s2
  BY DEF RemoveAt
<1> HIDE DEF s1, s2
<1>5. /\ s1 \o s2 \in Seq(S) /\ Len(s1 \o s2) = Len(s1) + Len(s2)
      /\ \A i \in 1 .. Len(s1) + Len(s2) :
            (s1 \o s2)[i] = IF i <= Len(s1) THEN s1[i] ELSE s2[i - Len(s1)]
  BY <1>2, <1>3, ConcatProperties
<1>6. ASSUME NEW i \in 1 .. Len(q) - 1
      PROVE  (s1 \o s2)[i] = IF i < p THEN q[i] ELSE q[i + 1]
  <2>1. (s1 \o s2)[i] = IF i <= p - 1 THEN s1[i] ELSE s2[i - (p - 1)]
    BY <1>1, <1>2, <1>3, <1>5
  <2>2. CASE i < p
    BY <1>2, <2>1, <2>2
  <2>3. CASE ~(i < p)
    <3>1. i - (p - 1) \in 1 .. Len(q) - p /\ p + (i - (p - 1)) = i + 1
      BY <1>1, <2>3
    <3>2. s2[i - (p - 1)] = q[i + 1]
      BY <1>3, <3>1
    <3> QED
      BY <2>1, <2>3, <3>2
  <2> QED
    BY <2>2, <2>3
<1> QED
  BY <1>1, <1>2, <1>3, <1>4, <1>5, <1>6

\* RemoveFirst takes a blob out of a queue without duplicates, for good.
LEMMA RemoveFirstProperties ==
  ASSUME NEW S, NEW q \in Seq(S), IsInjective(q), NEW h
  PROVE  /\ RemoveFirst(q, h) \in Seq(S)
         /\ IsInjective(RemoveFirst(q, h))
         /\ Range(RemoveFirst(q, h)) = Range(q) \ {h}
<1>1. CASE h \notin Range(q)
  <2>1. RemoveFirst(q, h) = q
    BY <1>1, LenProperties DEF RemoveFirst, Range
  <2> QED
    BY <1>1, <2>1
<1>2. CASE h \in Range(q)
  <2>1. PICK p \in 1 .. Len(q) : q[p] = h
    BY <1>2, LenProperties DEF Range
  <2> DEFINE r == RemoveAt(q, p)
  <2>2. RemoveFirst(q, h) = r
    BY <2>1, RemoveFirstPosition
  <2>3. Len(q) \in Nat /\ DOMAIN q = 1 .. Len(q) /\ \A i \in 1 .. Len(q) : q[i] \in S
    BY LenProperties
  <2>6. /\ r \in Seq(S) /\ Len(r) = Len(q) - 1
        /\ \A i \in 1 .. Len(q) - 1 : r[i] = IF i < p THEN q[i] ELSE q[i + 1]
    BY RemoveAtContents
  <2>7. DOMAIN r = 1 .. Len(q) - 1
    BY <2>6, LenProperties
  <2> HIDE DEF r
  <2>8. IsInjective(r)
    <3> SUFFICES ASSUME NEW i \in 1 .. Len(q) - 1, NEW j \in 1 .. Len(q) - 1,
                        r[i] = r[j]
                 PROVE  i = j
      BY <2>7 DEF IsInjective
    <3> DEFINE up(x) == IF x < p THEN x ELSE x + 1
    <3>1. up(i) \in 1 .. Len(q) /\ up(j) \in 1 .. Len(q) /\ q[up(i)] = q[up(j)]
      BY <2>3, <2>6
    <3>2. up(i) = up(j)
      BY <2>3, <3>1 DEF IsInjective
    <3> QED
      BY <3>2
  <2>9. Range(r) = Range(q) \ {h}
    <3>1. ASSUME NEW x \in Range(r) PROVE x \in Range(q) \ {h}
      <4>1. PICK i \in 1 .. Len(q) - 1 : x = r[i]
        BY <2>7 DEF Range
      <4> DEFINE j == IF i < p THEN i ELSE i + 1
      <4>2. j \in 1 .. Len(q) /\ x = q[j] /\ j # p
        BY <2>3, <2>6, <4>1
      <4> QED
        BY <2>1, <2>3, <4>2 DEF Range, IsInjective
    <3>2. ASSUME NEW x \in Range(q), x # h PROVE x \in Range(r)
      <4>1. PICK j \in 1 .. Len(q) : x = q[j]
        BY <2>3 DEF Range
      <4> DEFINE i == IF j < p THEN j ELSE j - 1
      <4>2. i \in 1 .. Len(q) - 1 /\ r[i] = x
        BY <2>1, <2>3, <2>6, <3>2, <4>1
      <4> QED
        BY <2>7, <4>2 DEF Range
    <3> QED
      BY <3>1, <3>2
  <2> QED
    BY <2>2, <2>6, <2>8, <2>9
<1> QED
  BY <1>1, <1>2

\* Appending a new blob keeps a queue without duplicates so.
LEMMA AppendNew ==
  ASSUME NEW S, NEW q \in Seq(S), IsInjective(q), NEW h \in S, h \notin Range(q)
  PROVE  /\ Append(q, h) \in Seq(S)
         /\ IsInjective(Append(q, h))
         /\ Range(Append(q, h)) = Range(q) \cup {h}
<1> DEFINE r == Append(q, h)
<1>1. Len(q) \in Nat /\ DOMAIN q = 1 .. Len(q)
  BY LenProperties
<1>2. /\ r \in Seq(S) /\ Len(r) = Len(q) + 1
      /\ \A i \in 1 .. Len(q) : r[i] = q[i]
      /\ r[Len(q) + 1] = h
  BY AppendProperties
<1>3. DOMAIN r = 1 .. Len(q) + 1
  BY <1>2, LenProperties
<1> HIDE DEF r
<1>4. IsInjective(r)
  BY <1>1, <1>2, <1>3 DEF IsInjective, Range
<1>5. Range(r) = Range(q) \cup {h}
  <2>1. ASSUME NEW x \in Range(r) PROVE x \in Range(q) \cup {h}
    BY <1>1, <1>2, <1>3 DEF Range
  <2>2. ASSUME NEW x \in Range(q) PROVE x \in Range(r)
    <3>1. PICK i \in 1 .. Len(q) : x = q[i]
      BY <1>1 DEF Range
    <3>2. i \in 1 .. Len(q) + 1 /\ r[i] = x
      BY <1>1, <1>2, <3>1
    <3> QED
      BY <1>3, <3>2 DEF Range
  <2>3. h \in Range(r)
    BY <1>1, <1>2, <1>3 DEF Range
  <2> QED
    BY <2>1, <2>2, <2>3
<1> QED
  BY <1>2, <1>4, <1>5 DEF r

-----------------------------------------------------------------------------
Sound(ix) == IndexType(ix) /\ IndexOK(ix)

\* Nothing is indexed at first.
LEMMA EmptyIndexSound == Sound(EmptyIndex) /\ EmptyIndex.total = 0
<1> DEFINE e == [h \in {} |-> 0]
<1>1. e \in [{} -> Nat] /\ DOMAIN e = {}
  OBVIOUS
<1>2. Cells(e) = {}
  BY DEF Cells
<1>3. Bytes(e) = 0
  BY <1>2, FS_EmptySet DEF Bytes
<1>4. << >> \in Seq(Blob) /\ DOMAIN << >> = {}
  OBVIOUS
<1> QED
  BY <1>1, <1>3, <1>4
  DEF Sound, EmptyIndex, IndexType, IndexOK, SameKeys, NoDuplicates, TotalIsSum,
      Range, IsInjective

\* Removing the entry of a missing or corrupt file keeps the index sound and
\* only lowers its byte count.
LEMMA ForgetSound ==
  ASSUME NEW ix, Sound(ix), NEW h
  PROVE  /\ Sound(Forget(ix, h))
         /\ DOMAIN Forget(ix, h).entries = DOMAIN ix.entries \ {h}
         /\ Forget(ix, h).total <= ix.total
<1> DEFINE e == ix.entries
           D == DOMAIN e
           n == Forget(ix, h)
<1>1. /\ D \subseteq Blob /\ e \in [D -> Nat] /\ ix.lru \in Seq(Blob) /\ ix.total \in Nat
      /\ Range(ix.lru) = D /\ IsInjective(ix.lru) /\ ix.total = Bytes(e)
  BY DEF Sound, IndexType, IndexOK, SameKeys, NoDuplicates, TotalIsSum
<1>2. IsFiniteSet(D)
  BY <1>1, BlobAssumption, FS_Subset
<1>3. /\ n.entries = Lose(e, {h}) /\ n.lru = RemoveFirst(ix.lru, h)
      /\ n.total = IF h \in D THEN saturating_sub(ix.total, e[h]) ELSE ix.total
      /\ DOMAIN n = {"entries", "lru", "total"}
  BY DEF Forget
<1>4. DOMAIN Lose(e, {h}) = D \ {h} /\ Lose(e, {h}) \in [D \ {h} -> Nat]
  BY <1>1 DEF Lose
<1>5. Bytes(e) = Bytes(Keep(e, {h})) + Bytes(Lose(e, {h}))
      /\ Bytes(Keep(e, {h})) \in Nat /\ Bytes(Lose(e, {h})) \in Nat
  <2>1. e \in [D -> Nat]
    BY <1>1
  <2> HIDE DEF e, D
  <2> QED
    BY <1>2, <2>1, BytesSplit
<1>6. n.total = Bytes(Lose(e, {h})) /\ n.total <= ix.total
  <2>1. CASE h \in D
    <3>1. Bytes(Keep(e, {h})) = e[h] /\ e[h] \in Nat
      BY <1>1, <2>1, BytesOfOne
    <3> QED
      BY <1>1, <1>3, <1>5, <2>1, <3>1 DEF saturating_sub
  <2>2. CASE h \notin D
    <3>1. Lose(e, {h}) = e
      BY <1>1, <2>2 DEF Lose
    <3> QED
      BY <1>1, <1>3, <2>2, <3>1
  <2> QED
    BY <2>1, <2>2
<1>7. /\ RemoveFirst(ix.lru, h) \in Seq(Blob)
      /\ IsInjective(RemoveFirst(ix.lru, h))
      /\ Range(RemoveFirst(ix.lru, h)) = D \ {h}
  BY <1>1, RemoveFirstProperties
<1> HIDE DEF n
<1>8. IndexType(n)
  BY <1>1, <1>3, <1>4, <1>5, <1>6, <1>7 DEF IndexType
<1>9. IndexOK(n)
  BY <1>3, <1>4, <1>6, <1>7 DEF IndexOK, SameKeys, NoDuplicates, TotalIsSum
<1> QED
  BY <1>3, <1>4, <1>6, <1>8, <1>9 DEF Sound, n

\* A hit only reorders the queue.
LEMMA TouchSound ==
  ASSUME NEW ix, Sound(ix), NEW h \in Blob
  PROVE  Sound(Touch(ix, h)) /\ Touch(ix, h).total = ix.total
<1> DEFINE r == RemoveFirst(ix.lru, h)
<1>1. /\ DOMAIN ix = {"entries", "lru", "total"} /\ ix.lru \in Seq(Blob)
      /\ IsInjective(ix.lru)
  BY DEF Sound, IndexType, IndexOK, NoDuplicates
<1>2. r \in Seq(Blob) /\ IsInjective(r) /\ Range(r) = Range(ix.lru) \ {h}
  BY <1>1, RemoveFirstProperties
<1>3. CASE h \in Range(ix.lru)
  <2> DEFINE n == Touch(ix, h)
  <2>1. /\ n.entries = ix.entries /\ n.total = ix.total /\ n.lru = Append(r, h)
        /\ DOMAIN n = {"entries", "lru", "total"}
    BY <1>1, <1>3 DEF Touch
  <2>2. /\ Append(r, h) \in Seq(Blob) /\ IsInjective(Append(r, h))
        /\ Range(Append(r, h)) = Range(r) \cup {h}
    BY <1>2, AppendNew
  <2>3. Range(n.lru) = Range(ix.lru)
    BY <1>2, <1>3, <2>1, <2>2
  <2> HIDE DEF n
  <2>4. Sound(n)
    BY <2>1, <2>2, <2>3
    DEF Sound, IndexType, IndexOK, SameKeys, NoDuplicates, TotalIsSum
  <2> QED
    BY <2>1, <2>4 DEF n
<1>4. CASE h \notin Range(ix.lru)
  BY <1>4 DEF Touch
<1> QED
  BY <1>3, <1>4

\* Storing a blob that is not indexed adds its size.
LEMMA AdmitSound ==
  ASSUME NEW ix, Sound(ix), NEW h \in Blob, h \notin DOMAIN ix.entries, NEW size \in Nat
  PROVE  Sound(Admit(ix, h, size)) /\ Admit(ix, h, size).total = ix.total + size
<1> DEFINE e == ix.entries
           D == DOMAIN e
           n == Admit(ix, h, size)
           m == n.entries
<1>1. /\ D \subseteq Blob /\ e \in [D -> Nat] /\ ix.lru \in Seq(Blob) /\ ix.total \in Nat
      /\ Range(ix.lru) = D /\ IsInjective(ix.lru) /\ ix.total = Bytes(e)
  BY DEF Sound, IndexType, IndexOK, SameKeys, NoDuplicates, TotalIsSum
<1>2. IsFiniteSet(D \cup {h})
  BY <1>1, BlobAssumption, FS_Subset
<1>3. /\ DOMAIN n = {"entries", "lru", "total"}
      /\ n.lru = Append(ix.lru, h) /\ n.total = ix.total + size
      /\ m = [x \in D \cup {h} |-> IF x = h THEN size ELSE e[x]]
  BY DEF Admit
<1>4. m \in [D \cup {h} -> Nat] /\ DOMAIN m = D \cup {h}
  BY <1>1, <1>3
<1>5. Bytes(m) = Bytes(Keep(m, {h})) + Bytes(Lose(m, {h}))
  <2> DEFINE E == D \cup {h}
  <2>1. m \in [E -> Nat] /\ IsFiniteSet(E)
    BY <1>2, <1>4
  <2> HIDE DEF m, E
  <2> QED
    BY <2>1, BytesSplit
<1>6. Bytes(Keep(m, {h})) = size
  <2>1. m[h] = size
    BY <1>3
  <2> HIDE DEF m
  <2> QED
    BY <1>4, <2>1, BytesOfOne
<1>7. Lose(m, {h}) = e
  <2>1. h \notin D /\ e = [x \in D |-> e[x]]
    BY <1>1
  <2> HIDE DEF m, e, D
  <2>2. Lose(m, {h}) = [x \in D |-> m[x]]
    BY <1>4, <2>1 DEF Lose
  <2>3. \A x \in D : m[x] = e[x]
    BY <1>3, <2>1
  <2> QED
    BY <2>1, <2>2, <2>3
<1>8. Bytes(m) = ix.total + size
  BY <1>1, <1>5, <1>6, <1>7
<1>9. /\ Append(ix.lru, h) \in Seq(Blob) /\ IsInjective(Append(ix.lru, h))
      /\ Range(Append(ix.lru, h)) = D \cup {h}
  BY <1>1, AppendNew
<1> HIDE DEF n
<1>10. IndexType(n)
  BY <1>1, <1>3, <1>4, <1>9 DEF IndexType
<1>11. IndexOK(n)
  BY <1>3, <1>4, <1>8, <1>9 DEF IndexOK, SameKeys, NoDuplicates, TotalIsSum
<1> QED
  BY <1>3, <1>10, <1>11 DEF Sound, n

-----------------------------------------------------------------------------
\* k rounds of the eviction loop keep the index sound.
LEMMA PoppedSound ==
  ASSUME NEW ix, Sound(ix), NEW k \in 0 .. Len(ix.lru)
  PROVE  /\ Sound(Popped(ix, k))
         /\ Popped(ix, k).total <= ix.total
         /\ DOMAIN Popped(ix, k).entries \subseteq DOMAIN ix.entries
         /\ k = Len(ix.lru) => Popped(ix, k).total = 0
<1> DEFINE e == ix.entries
           D == DOMAIN e
           q == ix.lru
           V == {q[i] : i \in 1 .. k}
           rest == SubSeq(q, k + 1, Len(q))
           n == Popped(ix, k)
<1>1. /\ D \subseteq Blob /\ e \in [D -> Nat] /\ q \in Seq(Blob) /\ ix.total \in Nat
      /\ Range(q) = D /\ IsInjective(q) /\ ix.total = Bytes(e)
  BY DEF Sound, IndexType, IndexOK, SameKeys, NoDuplicates, TotalIsSum
<1>2. IsFiniteSet(D)
  BY <1>1, BlobAssumption, FS_Subset
<1>3. Len(q) \in Nat /\ DOMAIN q = 1 .. Len(q) /\ \A i \in 1 .. Len(q) : q[i] \in Blob
  BY <1>1, LenProperties
<1>4. /\ DOMAIN n = {"entries", "lru", "total"}
      /\ n.entries = Lose(e, V) /\ n.lru = rest
      /\ n.total = saturating_sub(ix.total, Bytes(Keep(e, V)))
  BY DEF Popped
<1>5. /\ Bytes(e) = Bytes(Keep(e, V)) + Bytes(Lose(e, V))
      /\ Bytes(Keep(e, V)) \in Nat /\ Bytes(Lose(e, V)) \in Nat
      /\ Lose(e, V) \in [D \ V -> Nat] /\ DOMAIN Lose(e, V) = D \ V
  <2>1. e \in [D -> Nat]
    BY <1>1
  <2> HIDE DEF e, D, V
  <2>2. /\ Bytes(e) = Bytes(Keep(e, V)) + Bytes(Lose(e, V))
        /\ Bytes(Keep(e, V)) \in Nat /\ Bytes(Lose(e, V)) \in Nat
        /\ Lose(e, V) \in [D \ V -> Nat]
    BY <1>2, <2>1, BytesSplit
  <2> QED
    BY <2>2
<1>6. n.total = Bytes(Lose(e, V)) /\ n.total <= ix.total
  BY <1>1, <1>4, <1>5 DEF saturating_sub
<1>7. /\ rest \in Seq(Blob) /\ Len(rest) = Len(q) - k
      /\ \A i \in 1 .. Len(q) - k : rest[i] = q[k + i]
  <2> DEFINE m == k + 1
  <2>1. /\ m \in Int /\ Len(q) \in Int /\ \A i \in m .. Len(q) : q[i] \in Blob
    BY <1>3
  <2>2. /\ (IF m <= Len(q) THEN Len(q) - m + 1 ELSE 0) = Len(q) - k
        /\ \A i \in 1 .. Len(q) - k : i \in 1 .. Len(q) - m + 1 /\ m + i - 1 = k + i
    BY <1>3
  <2>3. rest = SubSeq(q, m, Len(q))
    OBVIOUS
  <2> HIDE DEF m, rest, q
  <2>4. /\ rest \in Seq(Blob)
        /\ Len(rest) = IF m <= Len(q) THEN Len(q) - m + 1 ELSE 0
        /\ \A i \in 1 .. Len(q) - m + 1 : rest[i] = q[m + i - 1]
    BY <2>1, <2>3, SubSeqProperties
  <2> QED
    BY <2>2, <2>4
<1>8. DOMAIN rest = 1 .. Len(q) - k
  BY <1>7, LenProperties
<1> HIDE DEF rest
<1>9. IsInjective(rest)
  <2> SUFFICES ASSUME NEW i \in 1 .. Len(q) - k, NEW j \in 1 .. Len(q) - k,
                      rest[i] = rest[j]
               PROVE  i = j
    BY <1>8 DEF IsInjective
  <2>1. k + i \in DOMAIN q /\ k + j \in DOMAIN q /\ q[k + i] = q[k + j]
    BY <1>3, <1>7
  <2>2. k + i = k + j
    BY <1>1, <2>1 DEF IsInjective
  <2> QED
    BY <1>3, <2>2
<1>10. Range(rest) = D \ V
  <2>1. ASSUME NEW x \in Range(rest) PROVE x \in D \ V
    <3>1. PICK i \in 1 .. Len(q) - k : x = q[k + i]
      BY <1>7, <1>8 DEF Range
    <3>2. k + i \in DOMAIN q /\ k + i \notin 1 .. k
      BY <1>3
    <3>3. \A j \in 1 .. k : j \in DOMAIN q /\ j # k + i
      BY <1>3, <3>2
    <3>4. \A j \in 1 .. k : q[j] # x
      BY <1>1, <3>1, <3>2, <3>3 DEF IsInjective
    <3> QED
      BY <1>1, <3>1, <3>2, <3>4 DEF Range
  <2>2. ASSUME NEW x \in D, x \notin V PROVE x \in Range(rest)
    <3>1. PICK j \in 1 .. Len(q) : q[j] = x
      BY <1>1, <1>3 DEF Range
    <3>2. j - k \in 1 .. Len(q) - k /\ k + (j - k) = j
      BY <1>3, <2>2, <3>1
    <3>3. rest[j - k] = x
      BY <1>7, <3>1, <3>2
    <3> QED
      BY <1>8, <3>2, <3>3 DEF Range
  <2> QED
    BY <2>1, <2>2
<1>11. k = Len(q) => n.total = 0
  <2> SUFFICES ASSUME k = Len(q) PROVE n.total = 0
    OBVIOUS
  <2>1. D \ V = {}
    BY <1>1, <1>3 DEF Range
  <2>2. Cells(Lose(e, V)) = {}
    BY <1>5, <2>1 DEF Cells
  <2> QED
    BY <1>6, <2>2, FS_EmptySet DEF Bytes
<1> HIDE DEF n, V
<1>12. IndexType(n)
  BY <1>1, <1>4, <1>5, <1>6, <1>7 DEF IndexType
<1>13. IndexOK(n)
  BY <1>4, <1>5, <1>6, <1>9, <1>10 DEF IndexOK, SameKeys, NoDuplicates, TotalIsSum
<1> QED
  BY <1>4, <1>5, <1>6, <1>11, <1>12, <1>13 DEF Sound, n

\* A non-empty set of numbers has a least one.
LEMMA LeastNumber ==
  ASSUME NEW N, N \subseteq Nat, N # {}
  PROVE  \E x \in N : \A y \in N : x <= y
<1>1. PICK x \in N : \A y \in N : <<y, x>> \notin OpToRel(<, Nat)
  BY NatLessThanWellFounded, WFMin
<1>2. \A y \in N : ~(y < x)
  BY <1>1 DEF OpToRel
<1> QED
  BY <1>2

\* The eviction loop ends, in the first round in which what is needed fits or
\* in which the queue is empty.
LEMMA EvictCountExists ==
  ASSUME NEW ix, Sound(ix), NEW need \in Nat, NEW budget \in Nat
  PROVE  LET k == EvictCount(ix, need, budget)
         IN  /\ k \in 0 .. Len(ix.lru)
             /\ k = Len(ix.lru) \/ Fits(Popped(ix, k), need, budget)
             /\ \A j \in 0 .. (k - 1) : ~Fits(Popped(ix, j), need, budget)
<1> DEFINE Stops(k) == k = Len(ix.lru) \/ Fits(Popped(ix, k), need, budget)
           N == {k \in 0 .. Len(ix.lru) : Stops(k)}
<1>1. Len(ix.lru) \in Nat
  BY LenProperties DEF Sound, IndexType
<1>2. N \subseteq Nat /\ Len(ix.lru) \in N
  BY <1>1
<1>3. PICK k \in N : \A j \in N : k <= j
  BY <1>2, LeastNumber
<1>4. \A j \in 0 .. (k - 1) : ~Fits(Popped(ix, j), need, budget)
  <2> SUFFICES ASSUME NEW j \in 0 .. (k - 1) PROVE j \notin N
    BY <1>1, <1>3
  <2> QED
    BY <1>1, <1>3
<1>5. \E i \in 0 .. Len(ix.lru) :
         /\ i = Len(ix.lru) \/ Fits(Popped(ix, i), need, budget)
         /\ \A j \in 0 .. (i - 1) : ~Fits(Popped(ix, j), need, budget)
  BY <1>3, <1>4
<1> QED
  BY <1>5 DEF EvictCount

\* After the eviction loop the index is sound, and what is needed fits unless
\* it never could.
LEMMA EvictSound ==
  ASSUME NEW ix, Sound(ix), NEW need \in Nat, NEW budget \in Nat, need <= budget
  PROVE  LET r == Evict(ix, need, budget)
         IN  /\ Sound(r.index)
             /\ r.index.total + need <= budget
             /\ DOMAIN r.index.entries \subseteq DOMAIN ix.entries
             /\ r.evicted \in Seq(Blob)
<1> DEFINE k == EvictCount(ix, need, budget)
<1>1. /\ k \in 0 .. Len(ix.lru)
      /\ k = Len(ix.lru) \/ Fits(Popped(ix, k), need, budget)
  BY EvictCountExists
<1>2. ix.lru \in Seq(Blob)
  BY DEF Sound, IndexType
<1>3. SubSeq(ix.lru, 1, k) \in Seq(Blob)
  <2>1. \A i \in 1 .. k : ix.lru[i] \in Blob
    BY <1>1, <1>2, LenProperties
  <2>2. k \in Int
    BY <1>1, <1>2, LenProperties
  <2> HIDE DEF k
  <2> QED
    BY <2>1, <2>2, SubSeqProperties
<1> HIDE DEF k
<1>4. /\ Sound(Popped(ix, k))
      /\ DOMAIN Popped(ix, k).entries \subseteq DOMAIN ix.entries
      /\ k = Len(ix.lru) => Popped(ix, k).total = 0
  BY <1>1, PoppedSound
<1>5. Popped(ix, k).total + need <= budget
  BY <1>1, <1>4 DEF Fits
<1> QED
  BY <1>3, <1>4, <1>5 DEF Evict, k

\* LruState::insert keeps the index sound and, for a blob that fits at all,
\* within the budget.
LEMMA InsertSound ==
  ASSUME NEW ix, Sound(ix), NEW h \in Blob, NEW size \in Nat, NEW budget \in Nat,
         size <= budget
  PROVE  LET r == Insert(ix, h, size, budget)
         IN  /\ Sound(r.index)
             /\ r.index.total <= budget
             /\ r.evicted \in Seq(Blob)
<1> DEFINE base == IF h \in DOMAIN ix.entries THEN Forget(ix, h) ELSE ix
           r == Evict(base, size, budget)
<1>1. Sound(base) /\ h \notin DOMAIN base.entries
  BY ForgetSound
<1> HIDE DEF base
<1>2. /\ Sound(r.index) /\ r.index.total + size <= budget
      /\ DOMAIN r.index.entries \subseteq DOMAIN base.entries
      /\ r.evicted \in Seq(Blob)
  BY <1>1, EvictSound
<1> HIDE DEF r
<1>3. /\ Sound(Admit(r.index, h, size))
      /\ Admit(r.index, h, size).total = r.index.total + size
  BY <1>1, <1>2, AdmitSound
<1> QED
  BY <1>2, <1>3 DEF Insert, r, base

\* What the scan found is a sound index, before the eviction loop.
LEMMA FullSound ==
  ASSUME NEW F \in SUBSET Blob, NEW sizes \in [F -> Nat],
         NEW order \in Bijection(1 .. Cardinality(F), F)
  PROVE  LET found == Keep(sizes, Range(order))
         IN  /\ Sound([entries |-> found, lru |-> order, total |-> Bytes(found)])
             /\ found = sizes
<1> DEFINE found == Keep(sizes, Range(order))
           full == [entries |-> found, lru |-> order, total |-> Bytes(found)]
           c == Cardinality(F)
<1>1. IsFiniteSet(F) /\ c \in Nat
  BY BlobAssumption, FS_Subset, FS_CardinalityType
<1>2. /\ order \in [1 .. c -> F] /\ IsInjective(order)
      /\ \A x \in F : \E i \in 1 .. c : order[i] = x
  BY DEF Bijection, Injection, Surjection
<1>3. Range(order) = F
  BY <1>2 DEF Range
<1>4. order \in Seq(Blob)
  <2> HIDE DEF c
  <2>1. order \in [1 .. c -> Blob]
    BY <1>2
  <2> QED
    BY <1>1, <2>1, SeqDef
<1>5. found \in [F -> Nat] /\ DOMAIN found = F /\ found = sizes
  BY <1>3 DEF Keep
<1>6. Bytes(found) \in Nat
  <2> HIDE DEF found
  <2> QED
    BY <1>1, <1>5, CellsFinite
<1> HIDE DEF found
<1>7. Sound(full)
  BY <1>2, <1>3, <1>4, <1>5, <1>6
  DEF Sound, IndexType, IndexOK, SameKeys, NoDuplicates, TotalIsSum
<1> QED
  BY <1>5, <1>7 DEF found

\* The scan in DiskCache::open yields a sound index within the budget.
LEMMA RebuildSound ==
  ASSUME NEW F \in SUBSET Blob, NEW sizes \in [F -> Nat],
         NEW order \in Bijection(1 .. Cardinality(F), F), NEW budget \in Nat
  PROVE  LET r == Rebuild(order, sizes, budget)
         IN  /\ Sound(r.index)
             /\ r.index.total <= budget
             /\ r.evicted \in Seq(Blob)
<1> DEFINE found == Keep(sizes, Range(order))
           full == [entries |-> found, lru |-> order, total |-> Bytes(found)]
<1>1. Sound(full)
  BY FullSound
<1> HIDE DEF full, found
<1>2. /\ Sound(Evict(full, 0, budget).index)
      /\ Evict(full, 0, budget).index.total + 0 <= budget
      /\ Evict(full, 0, budget).evicted \in Seq(Blob)
  <2>1. 0 \in Nat /\ 0 <= budget
    OBVIOUS
  <2> QED
    BY <1>1, <2>1, EvictSound
<1>3. Evict(full, 0, budget).index.total \in Nat
  BY <1>2 DEF Sound, IndexType
<1> QED
  BY <1>2, <1>3 DEF Rebuild, full, found

-----------------------------------------------------------------------------
(***************************************************************************)
(* What is indexed after an insert and after the scan: what was there, and *)
(* what came, without the blobs that were evicted.                         *)
(***************************************************************************)
With(e, h, n) == [x \in DOMAIN e \cup {h} |-> IF x = h THEN n ELSE e[x]]

LEMMA EvictEntries ==
  ASSUME NEW ix, Sound(ix), NEW need \in Nat, NEW budget \in Nat, need <= budget
  PROVE  LET r == Evict(ix, need, budget)
         IN  /\ r.index.entries = Lose(ix.entries, Range(r.evicted))
             /\ Range(r.evicted) \subseteq DOMAIN ix.entries
<1> DEFINE k == EvictCount(ix, need, budget)
           first == SubSeq(ix.lru, 1, k)
           victims == {ix.lru[i] : i \in 1 .. k}
<1>1. k \in 0 .. Len(ix.lru)
  BY EvictCountExists
<1>2. /\ ix.lru \in Seq(Blob) /\ Len(ix.lru) \in Nat /\ DOMAIN ix.lru = 1 .. Len(ix.lru)
      /\ Range(ix.lru) = DOMAIN ix.entries
  BY LenProperties DEF Sound, IndexType, IndexOK, SameKeys
<1> HIDE DEF k
<1>3. \A i \in 1 .. k : i \in 1 .. Len(ix.lru) /\ ix.lru[i] \in Blob
  BY <1>1, <1>2
<1>4. /\ first \in Seq(Blob) /\ Len(first) = k /\ \A i \in 1 .. k : first[i] = ix.lru[i]
  <2>1. k \in Int /\ k \in Nat
    BY <1>1, <1>2
  <2> QED
    BY <1>3, <2>1, SubSeqProperties
<1>5. DOMAIN first = 1 .. k
  BY <1>4, LenProperties
<1> HIDE DEF first
<1>6. Range(first) = victims
  BY <1>4, <1>5 DEF Range
<1>7. victims \subseteq DOMAIN ix.entries
  BY <1>2, <1>3 DEF Range
<1>8. Evict(ix, need, budget).index.entries = Lose(ix.entries, victims)
      /\ Evict(ix, need, budget).evicted = first
  BY DEF Evict, Popped, k, first
<1> QED
  BY <1>6, <1>7, <1>8

LEMMA InsertEntries ==
  ASSUME NEW ix, Sound(ix), NEW h \in Blob, NEW size \in Nat, NEW budget \in Nat,
         size <= budget
  PROVE  LET r == Insert(ix, h, size, budget)
         IN  r.index.entries = Lose(With(ix.entries, h, size), Range(r.evicted))
<1> DEFINE base == IF h \in DOMAIN ix.entries THEN Forget(ix, h) ELSE ix
           r == Evict(base, size, budget)
           V == Range(r.evicted)
<1>1. Sound(base) /\ h \notin DOMAIN base.entries
  BY ForgetSound
<1>2. DOMAIN base.entries = DOMAIN ix.entries \ {h}
      /\ \A x \in DOMAIN base.entries : base.entries[x] = ix.entries[x]
  BY DEF Forget, Lose
<1> HIDE DEF base
<1>3. r.index.entries = Lose(base.entries, V) /\ V \subseteq DOMAIN base.entries
  BY <1>1, EvictEntries
<1>4. /\ Insert(ix, h, size, budget).index = Admit(r.index, h, size)
      /\ Insert(ix, h, size, budget).evicted = r.evicted
  BY DEF Insert, base
<1> HIDE DEF r, V
<1>5. Admit(r.index, h, size).entries = With(r.index.entries, h, size)
  BY DEF Admit, With
<1>6. With(Lose(base.entries, V), h, size) = Lose(With(ix.entries, h, size), V)
  <2> DEFINE a == With(Lose(base.entries, V), h, size)
             b == Lose(With(ix.entries, h, size), V)
  <2>1. DOMAIN a = DOMAIN b
    BY <1>2, <1>3 DEF With, Lose
  <2>2. \A x \in DOMAIN a : a[x] = b[x]
    BY <1>2, <1>3 DEF With, Lose
  <2>3. a = [x \in DOMAIN a |-> a[x]] /\ b = [x \in DOMAIN b |-> b[x]]
    BY DEF With, Lose
  <2> HIDE DEF a, b
  <2> QED
    BY <2>1, <2>2, <2>3 DEF a, b
<1> QED
  BY <1>3, <1>4, <1>5, <1>6 DEF V

LEMMA RebuildEntries ==
  ASSUME NEW F \in SUBSET Blob, NEW sizes \in [F -> Nat],
         NEW order \in Bijection(1 .. Cardinality(F), F), NEW budget \in Nat
  PROVE  LET r == Rebuild(order, sizes, budget)
         IN  r.index.entries = Lose(sizes, Range(r.evicted))
<1> DEFINE found == Keep(sizes, Range(order))
           full == [entries |-> found, lru |-> order, total |-> Bytes(found)]
<1>1. Sound(full) /\ found = sizes
  BY FullSound
<1>2. full.entries = found
  OBVIOUS
<1> HIDE DEF full, found
<1>3. Evict(full, 0, budget).index.entries
         = Lose(full.entries, Range(Evict(full, 0, budget).evicted))
  BY <1>1, EvictEntries
<1> QED
  BY <1>1, <1>2, <1>3 DEF Rebuild, full, found

-----------------------------------------------------------------------------
\* g stands in front of h.
Before(q, g, h) == \E i, j \in DOMAIN q : i < j /\ q[i] = g /\ q[j] = h

\* Taking one blob out of the queue leaves the others in their order.
LEMMA RemoveFirstOrder ==
  ASSUME NEW S, NEW q \in Seq(S), IsInjective(q), NEW x, NEW g, NEW h,
         Before(q, g, h), g # x, h # x
  PROVE  Before(RemoveFirst(q, x), g, h)
<1>1. Len(q) \in Nat /\ DOMAIN q = 1 .. Len(q)
  BY LenProperties
<1>2. CASE x \notin Range(q)
  <2>1. RemoveFirst(q, x) = q
    BY <1>1, <1>2 DEF RemoveFirst, Range
  <2> QED
    BY <2>1
<1>3. CASE x \in Range(q)
  <2>1. PICK p \in 1 .. Len(q) : q[p] = x
    BY <1>1, <1>3 DEF Range
  <2> DEFINE r == RemoveAt(q, p)
             down(i) == IF i < p THEN i ELSE i - 1
  <2>2. RemoveFirst(q, x) = r
    BY <2>1, RemoveFirstPosition
  <2>3. /\ r \in Seq(S) /\ Len(r) = Len(q) - 1
        /\ \A i \in 1 .. Len(q) - 1 : r[i] = IF i < p THEN q[i] ELSE q[i + 1]
    BY RemoveAtContents
  <2>4. DOMAIN r = 1 .. Len(q) - 1
    BY <2>3, LenProperties
  <2> HIDE DEF r
  <2>5. PICK i, j \in 1 .. Len(q) : i < j /\ q[i] = g /\ q[j] = h
    BY <1>1 DEF Before
  <2>6. i # p /\ j # p
    BY <2>1, <2>5
  <2>7. /\ down(i) \in 1 .. Len(q) - 1 /\ down(j) \in 1 .. Len(q) - 1
        /\ down(i) < down(j)
    BY <1>1, <2>5, <2>6
  <2>8. ASSUME NEW m \in 1 .. Len(q), m # p, down(m) \in 1 .. Len(q) - 1
        PROVE  r[down(m)] = q[m]
    <3>1. CASE m < p
      BY <2>3, <2>8, <3>1
    <3>2. CASE ~(m < p)
      <4>1. down(m) = m - 1 /\ ~(m - 1 < p) /\ (m - 1) + 1 = m
        BY <1>1, <2>8, <3>2
      <4> HIDE DEF down
      <4> QED
        BY <2>3, <2>8, <4>1
    <3> QED
      BY <3>1, <3>2
  <2> HIDE DEF down
  <2> QED
    BY <2>2, <2>4, <2>5, <2>6, <2>7, <2>8 DEF Before
<1> QED
  BY <1>2, <1>3

\* A blob that joins the queue does so behind all the others.
LEMMA AppendOrder ==
  ASSUME NEW S, NEW q \in Seq(S), NEW x \in S
  PROVE  /\ Last(Append(q, x)) = x
         /\ \A g, h : Before(q, g, h) => Before(Append(q, x), g, h)
         /\ \A g \in Range(q) : Before(Append(q, x), g, x)
<1> DEFINE r == Append(q, x)
<1>1. Len(q) \in Nat /\ DOMAIN q = 1 .. Len(q)
  BY LenProperties
<1>2. /\ r \in Seq(S) /\ Len(r) = Len(q) + 1
      /\ \A i \in 1 .. Len(q) : r[i] = q[i]
      /\ r[Len(q) + 1] = x
  BY AppendProperties
<1>3. DOMAIN r = 1 .. Len(q) + 1
  BY <1>2, LenProperties
<1> HIDE DEF r
<1>4. Last(r) = x
  BY <1>2 DEF Last
<1>5. ASSUME NEW g, NEW h, Before(q, g, h) PROVE Before(r, g, h)
  <2>1. PICK i, j \in 1 .. Len(q) : i < j /\ q[i] = g /\ q[j] = h
    BY <1>1, <1>5 DEF Before
  <2>2. i \in DOMAIN r /\ j \in DOMAIN r
    BY <1>1, <1>3
  <2> QED
    BY <1>2, <2>1, <2>2 DEF Before
<1>6. ASSUME NEW g \in Range(q) PROVE Before(r, g, x)
  <2>1. PICK i \in 1 .. Len(q) : q[i] = g
    BY <1>1 DEF Range
  <2>2. i \in DOMAIN r /\ Len(q) + 1 \in DOMAIN r /\ i < Len(q) + 1
    BY <1>1, <1>3
  <2> QED
    BY <1>2, <2>1, <2>2 DEF Before
<1> QED
  BY <1>4, <1>5, <1>6 DEF r

\* Eviction takes the front of the queue: who stays was behind who goes, and
\* the rest keep their order.
LEMMA PoppedOrder ==
  ASSUME NEW ix, Sound(ix), NEW k \in 0 .. Len(ix.lru), NEW g, NEW h,
         Before(ix.lru, g, h), g \in Range(Popped(ix, k).lru)
  PROVE  Before(Popped(ix, k).lru, g, h)
<1> DEFINE q == ix.lru
           rest == SubSeq(q, k + 1, Len(q))
<1>1. q \in Seq(Blob) /\ IsInjective(q)
  BY DEF Sound, IndexType, IndexOK, NoDuplicates
<1>2. Len(q) \in Nat /\ DOMAIN q = 1 .. Len(q) /\ \A i \in 1 .. Len(q) : q[i] \in Blob
  BY <1>1, LenProperties
<1>3. /\ rest \in Seq(Blob) /\ Len(rest) = Len(q) - k
      /\ \A i \in 1 .. Len(q) - k : rest[i] = q[k + i]
  <2> DEFINE m == k + 1
  <2>1. /\ m \in Int /\ Len(q) \in Int /\ \A i \in m .. Len(q) : q[i] \in Blob
    BY <1>2
  <2>2. /\ (IF m <= Len(q) THEN Len(q) - m + 1 ELSE 0) = Len(q) - k
        /\ \A i \in 1 .. Len(q) - k : i \in 1 .. Len(q) - m + 1 /\ m + i - 1 = k + i
    BY <1>2
  <2>3. rest = SubSeq(q, m, Len(q))
    OBVIOUS
  <2> HIDE DEF m, rest, q
  <2>4. /\ rest \in Seq(Blob)
        /\ Len(rest) = IF m <= Len(q) THEN Len(q) - m + 1 ELSE 0
        /\ \A i \in 1 .. Len(q) - m + 1 : rest[i] = q[m + i - 1]
    BY <2>1, <2>3, SubSeqProperties
  <2> QED
    BY <2>2, <2>4
<1>4. DOMAIN rest = 1 .. Len(q) - k
  BY <1>3, LenProperties
<1>5. Popped(ix, k).lru = rest
  BY DEF Popped
<1> HIDE DEF rest
<1>6. PICK i, j \in 1 .. Len(q) : i < j /\ q[i] = g /\ q[j] = h
  BY <1>2 DEF Before
<1>7. PICK n \in 1 .. Len(q) - k : rest[n] = g
  BY <1>4, <1>5 DEF Range
<1>8. k + n = i
  <2>1. k + n \in 1 .. Len(q) /\ q[k + n] = q[i]
    BY <1>2, <1>3, <1>6, <1>7
  <2> QED
    BY <1>1, <1>2, <2>1 DEF IsInjective
<1>9. j - k \in 1 .. Len(q) - k /\ n < j - k /\ k + (j - k) = j
  BY <1>2, <1>6, <1>8
<1>10. rest[j - k] = h
  BY <1>3, <1>6, <1>9
<1> QED
  BY <1>4, <1>5, <1>7, <1>9, <1>10 DEF Before

\* A round of the eviction loop takes one entry's bytes.
LEMMA PoppedStep ==
  ASSUME NEW ix, Sound(ix), NEW k \in 1 .. Len(ix.lru)
  PROVE  Popped(ix, k - 1).total = Popped(ix, k).total + ix.entries[ix.lru[k]]
<1> DEFINE v == ix.lru[k]
           a == Popped(ix, k - 1).entries
           b == Popped(ix, k).entries
<1>1. /\ DOMAIN ix.entries \subseteq Blob /\ ix.entries \in [DOMAIN ix.entries -> Nat]
      /\ ix.lru \in Seq(Blob) /\ Range(ix.lru) = DOMAIN ix.entries /\ IsInjective(ix.lru)
  BY DEF Sound, IndexType, IndexOK, SameKeys, NoDuplicates
<1>2. Len(ix.lru) \in Nat /\ DOMAIN ix.lru = 1 .. Len(ix.lru)
  BY <1>1, LenProperties
<1>3. k - 1 \in 0 .. Len(ix.lru) /\ k \in 0 .. Len(ix.lru)
  BY <1>2
<1>4. /\ Popped(ix, k - 1).total = Bytes(a) /\ DOMAIN a \subseteq Blob
      /\ a \in [DOMAIN a -> Nat] /\ Popped(ix, k).total = Bytes(b)
  BY <1>3, PoppedSound DEF Sound, IndexType, IndexOK, TotalIsSum
<1>5. v \in DOMAIN a /\ a[v] = ix.entries[v]
  <2>1. v \in DOMAIN ix.entries
    BY <1>1, <1>2 DEF Range
  <2>2. \A i \in 1 .. k - 1 : i \in DOMAIN ix.lru /\ i # k
    BY <1>2
  <2>3. \A i \in 1 .. k - 1 : ix.lru[i] # v
    BY <1>1, <1>2, <2>2 DEF IsInjective
  <2> QED
    BY <2>1, <2>3 DEF Popped, Lose
<1>6. b = Lose(a, {v})
  <2>1. 1 .. k = (1 .. k - 1) \cup {k}
    BY <1>2
  <2>2. {ix.lru[i] : i \in 1 .. k} = {ix.lru[i] : i \in 1 .. k - 1} \cup {v}
    BY <2>1
  <2> QED
    BY <2>2 DEF Popped, Lose
<1>7. IsFiniteSet(DOMAIN a)
  BY <1>4, BlobAssumption, FS_Subset
<1> HIDE DEF a, b
<1>8. /\ Bytes(a) = Bytes(Keep(a, {v})) + Bytes(Lose(a, {v}))
      /\ Bytes(Keep(a, {v})) \in Nat /\ Bytes(Lose(a, {v})) \in Nat
  <2> DEFINE D == DOMAIN a
  <2>1. a \in [D -> Nat] /\ IsFiniteSet(D)
    BY <1>4, <1>7
  <2> HIDE DEF D, v
  <2>2. /\ Bytes(a) = Bytes(Keep(a, {v})) + Bytes(Lose(a, {v}))
        /\ Bytes(Keep(a, {v})) \in Nat /\ Bytes(Lose(a, {v})) \in Nat
    BY <2>1, BytesSplit
  <2> QED
    BY <2>2
<1>9. Bytes(Keep(a, {v})) = a[v]
  BY <1>4, <1>5, BytesOfOne
<1> QED
  BY <1>4, <1>5, <1>6, <1>8, <1>9

\* The eviction loop stops as soon as it may: without its last round, what is
\* needed would not have fit.
LEMMA EvictFrugal ==
  ASSUME NEW ix, Sound(ix), NEW need \in Nat, NEW budget \in Nat,
         Evict(ix, need, budget).evicted # << >>
  PROVE  LET r == Evict(ix, need, budget)
             v == r.evicted[Len(r.evicted)]
         IN  /\ v \in DOMAIN ix.entries
             /\ r.index.total + need + ix.entries[v] > budget
<1> DEFINE k == EvictCount(ix, need, budget)
           e == SubSeq(ix.lru, 1, k)
<1>1. /\ k \in 0 .. Len(ix.lru)
      /\ \A j \in 0 .. (k - 1) : ~Fits(Popped(ix, j), need, budget)
  BY EvictCountExists
<1>2. /\ ix.lru \in Seq(Blob) /\ Range(ix.lru) = DOMAIN ix.entries
      /\ ix.entries \in [DOMAIN ix.entries -> Nat]
  BY DEF Sound, IndexType, IndexOK, SameKeys
<1>3. Len(ix.lru) \in Nat /\ DOMAIN ix.lru = 1 .. Len(ix.lru)
  BY <1>2, LenProperties
<1>4. Evict(ix, need, budget).evicted = e /\ Evict(ix, need, budget).index = Popped(ix, k)
  BY DEF Evict
<1> HIDE DEF k
<1>5. e \in Seq(Blob) /\ Len(e) = k /\ \A i \in 1 .. k : e[i] = ix.lru[i]
  <2>1. /\ k \in Int /\ \A i \in 1 .. k : ix.lru[i] \in Blob
        /\ (IF 1 <= k THEN k - 1 + 1 ELSE 0) = k /\ k - 1 + 1 = k
        /\ \A i \in 1 .. k : 1 + i - 1 = i
    BY <1>1, <1>2, <1>3, LenProperties
  <2>2. /\ e \in Seq(Blob) /\ Len(e) = IF 1 <= k THEN k - 1 + 1 ELSE 0
        /\ \A i \in 1 .. k - 1 + 1 : e[i] = ix.lru[1 + i - 1]
    BY <2>1, SubSeqProperties
  <2> QED
    BY <2>1, <2>2
<1> HIDE DEF e
<1>6. k # 0
  BY <1>4, <1>5
<1>7. k \in 1 .. Len(ix.lru) /\ k - 1 \in 0 .. (k - 1)
  BY <1>1, <1>3, <1>6
<1>8. e[Len(e)] = ix.lru[k] /\ ix.lru[k] \in DOMAIN ix.entries
  BY <1>2, <1>3, <1>5, <1>7 DEF Range
<1>9. Popped(ix, k - 1).total = Popped(ix, k).total + ix.entries[ix.lru[k]]
  BY <1>7, PoppedStep
<1>10. Popped(ix, k).total \in Nat /\ Popped(ix, k - 1).total \in Nat
  <2>1. k - 1 \in 0 .. Len(ix.lru)
    BY <1>3, <1>7
  <2> QED
    BY <1>1, <2>1, PoppedSound DEF Sound, IndexType
<1>11. ~(Popped(ix, k - 1).total + need <= budget)
  BY <1>1, <1>7 DEF Fits
<1>12. ix.entries[ix.lru[k]] \in Nat
  BY <1>2, <1>8
<1> QED
  BY <1>4, <1>8, <1>9, <1>10, <1>11, <1>12

\* LruState::insert evicts no more than it must.
LEMMA InsertFrugal ==
  ASSUME NEW ix, Sound(ix), NEW h \in Blob, NEW size \in Nat, NEW budget \in Nat,
         size <= budget, Insert(ix, h, size, budget).evicted # << >>
  PROVE  LET r == Insert(ix, h, size, budget)
         IN  r.index.total + ix.entries[r.evicted[Len(r.evicted)]] > budget
<1> DEFINE base == IF h \in DOMAIN ix.entries THEN Forget(ix, h) ELSE ix
           r == Evict(base, size, budget)
           v == r.evicted[Len(r.evicted)]
<1>1. Sound(base) /\ h \notin DOMAIN base.entries
  BY ForgetSound
<1>2. \A x \in DOMAIN base.entries : base.entries[x] = ix.entries[x]
  BY DEF Forget, Lose
<1>3. /\ Insert(ix, h, size, budget).evicted = r.evicted
      /\ Insert(ix, h, size, budget).index = Admit(r.index, h, size)
  BY DEF Insert
<1> HIDE DEF base
<1>4. v \in DOMAIN base.entries /\ r.index.total + size + base.entries[v] > budget
  BY <1>1, <1>3, EvictFrugal
<1>5. /\ Sound(r.index) /\ DOMAIN r.index.entries \subseteq DOMAIN base.entries
  BY <1>1, EvictSound
<1> HIDE DEF r
<1>6. Admit(r.index, h, size).total = r.index.total + size
  BY <1>1, <1>5, AdmitSound
<1> QED
  BY <1>2, <1>3, <1>4, <1>6

\* A hit moves the blob it serves to the back, and no other.
LEMMA TouchOrder ==
  ASSUME NEW ix, Sound(ix), NEW x \in Blob, NEW g, NEW h, Before(ix.lru, g, h)
  PROVE  LET q == Touch(ix, x).lru
         IN  (g = x /\ Last(q) = g) \/ Before(q, g, h)
<1> DEFINE p == RemoveFirst(ix.lru, x)
<1>1. /\ DOMAIN ix = {"entries", "lru", "total"} /\ ix.lru \in Seq(Blob)
      /\ IsInjective(ix.lru) /\ DOMAIN ix.lru = 1 .. Len(ix.lru)
  BY LenProperties DEF Sound, IndexType, IndexOK, NoDuplicates
<1>2. p \in Seq(Blob) /\ Range(p) = Range(ix.lru) \ {x}
  BY <1>1, RemoveFirstProperties
<1>3. g \in Range(ix.lru) /\ h \in Range(ix.lru)
  BY <1>1 DEF Before, Range
<1>4. CASE x \notin Range(ix.lru)
  BY <1>4 DEF Touch
<1>5. CASE x \in Range(ix.lru)
  <2>1. Touch(ix, x).lru = Append(p, x)
    BY <1>1, <1>5 DEF Touch
  <2>2. CASE g = x
    BY <1>2, <2>1, <2>2, AppendOrder
  <2>3. CASE g # x /\ h # x
    <3>1. Before(p, g, h)
      BY <1>1, <2>3, RemoveFirstOrder
    <3> HIDE DEF p
    <3> QED
      BY <1>2, <2>1, <3>1, AppendOrder
  <2>4. CASE g # x /\ h = x
    BY <1>2, <1>3, <2>1, <2>4, AppendOrder
  <2> QED
    BY <2>2, <2>3, <2>4
<1> QED
  BY <1>4, <1>5

\* LruState::insert puts its blob at the back and evicts from the front.
LEMMA InsertOrder ==
  ASSUME NEW ix, Sound(ix), NEW x \in Blob, NEW size \in Nat, NEW budget \in Nat,
         size <= budget, NEW g, NEW h, Before(ix.lru, g, h),
         g \in Range(Insert(ix, x, size, budget).index.lru)
  PROVE  LET q == Insert(ix, x, size, budget).index.lru
         IN  (g = x /\ Last(q) = g) \/ Before(q, g, h)
<1> DEFINE base == IF x \in DOMAIN ix.entries THEN Forget(ix, x) ELSE ix
           k == EvictCount(base, size, budget)
           p == Popped(base, k).lru
<1>1. Sound(base) /\ x \notin DOMAIN base.entries
  BY ForgetSound
<1>2. g # x /\ h # x => Before(base.lru, g, h)
  <2>1. ix.lru \in Seq(Blob) /\ IsInjective(ix.lru)
    BY DEF Sound, IndexType, IndexOK, NoDuplicates
  <2> QED
    BY <2>1, RemoveFirstOrder DEF Forget
<1>3. Insert(ix, x, size, budget).index.lru = Append(p, x)
  BY DEF Insert, Evict, Admit
<1> HIDE DEF base
<1>4. k \in 0 .. Len(base.lru)
  BY <1>1, EvictCountExists
<1> HIDE DEF k
<1>5. Sound(Popped(base, k)) /\ DOMAIN Popped(base, k).entries \subseteq DOMAIN base.entries
  BY <1>1, <1>4, PoppedSound
<1>6. p \in Seq(Blob) /\ IsInjective(p) /\ x \notin Range(p)
  BY <1>1, <1>5 DEF Sound, IndexType, IndexOK, NoDuplicates, SameKeys
<1>7. CASE g = x
  <2> HIDE DEF p
  <2> QED
    BY <1>3, <1>6, <1>7, AppendOrder
<1>8. CASE g # x
  <2>1. g \in Range(p)
    <3> HIDE DEF p
    <3> QED
      BY <1>3, <1>6, <1>8, AppendNew
  <2>2. CASE h = x
    <3> HIDE DEF p
    <3> QED
      BY <1>3, <1>6, <2>1, <2>2, AppendOrder
  <2>3. CASE h # x
    <3>1. Before(p, g, h)
      BY <1>1, <1>2, <1>4, <1>8, <2>1, <2>3, PoppedOrder
    <3> HIDE DEF p
    <3> QED
      BY <1>3, <1>6, <3>1, AppendOrder
  <2> QED
    BY <2>2, <2>3
<1> QED
  BY <1>7, <1>8

=============================================================================
