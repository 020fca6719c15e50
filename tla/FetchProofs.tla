---------------------------- MODULE FetchProofs ----------------------------
(***************************************************************************)
(* The safety properties of Fetch for any number of tasks, blobs and       *)
(* sources, sources of any kind at any tier.                               *)
(***************************************************************************)
EXTENDS Fetch, FiniteSetTheorems, TLAPS

Walk == {"next", "put"} \cup Waits

(***************************************************************************)
(* What a fetch f knows, with lookup c under way, while the cache holds    *)
(* hs, the class has the sources ss and the cache is of flavour fl.        *)
(*                                                                         *)
(* NoSourceSkipped needs Known and Cheapest: the clone holds all that was  *)
(* registered at the start, and whatever is cheaper than the source being  *)
(* asked has been asked.  NoSecondDownload needs Remembered: between its   *)
(* start and its end a fetch of a returned blob finds it in the memory     *)
(* cache.                                                                  *)
(***************************************************************************)
Verified(f) == /\ f.got \in {"none", "whole"}
               /\ f.at = "put" => f.got = "whole"
Known(f, ss) == /\ f.known \subseteq ss
                /\ f.at \in Walk => f.known \subseteq {f.chain[i] : i \in DOMAIN f.chain}
Cheapest(f) == f.at \in Waits \cup {"put"} =>
                  /\ f.asking \in DOMAIN f.chain
                  /\ \A j \in DOMAIN f.chain :
                        Tier[f.chain[j]] < Tier[Asked(f)] => j \in f.tried
Lookup(f, c) == /\ f.at = "cache" => c \in {Cache!Asked(f.blob), Cache!Found(f.blob), Cache!Missed}
                /\ f.at # "cache" => c = Cache!NoCall
Remembered(f, c, hs, fl) ==
    fl = "memory" => /\ f.again => /\ f.at \in {"idle", "cache"} /\ f.blob \in hs
                                   /\ c # Cache!Missed
                     /\ f.at = "cache" /\ c = Cache!Found(f.blob) => f.blob \in hs

Good(f, c, hs, ss, fl) ==
    /\ f \in Fetching
    /\ f.at # "idle" => f.blob \in Blob
    /\ Verified(f) /\ Known(f, ss) /\ Cheapest(f)
    /\ Lookup(f, c) /\ Remembered(f, c, hs, fl)

GoodOf(t) == Good(fetch[t], call[t], held, SourceSet, flavour)

IInv == /\ TypeOK
        /\ ReturnsOnlyTheBlob
        /\ flavour = "memory" => returned \subseteq held
        /\ \A t \in Task : GoodOf(t)

USE DEF vars, cacheVars, classVars, Cache!vars

-----------------------------------------------------------------------------
\* Records of the cache's calls are told apart by their steps.
LEMMA CallsDiffer ==
  ASSUME NEW h, NEW g
  PROVE  /\ Cache!Asked(h) # Cache!Found(g)
         /\ Cache!Asked(h) # Cache!Missed /\ Cache!Asked(h) # Cache!NoCall
         /\ Cache!Found(h) # Cache!Missed /\ Cache!Found(h) # Cache!NoCall
         /\ Cache!Missed # Cache!NoCall
         /\ Cache!Asked(h).step = "asked" /\ Cache!Found(h).step = "found"
         /\ Cache!Missed.step = "missed" /\ Cache!NoCall.step = "none"
         /\ Cache!Found(h) = Cache!Found(g) => h = g
         /\ Cache!Asked(h) = Cache!Asked(g) => h = g
<1>1. /\ Cache!Asked(h).step = "asked" /\ Cache!Found(g).step = "found"
      /\ Cache!Found(h).step = "found"
      /\ Cache!Missed.step = "missed" /\ Cache!NoCall.step = "none"
  BY DEF Cache!Asked, Cache!Found, Cache!Missed, Cache!NoCall
<1>2. /\ Cache!Asked(h).blob = h /\ Cache!Asked(g).blob = g
      /\ Cache!Found(h).blob = h /\ Cache!Found(g).blob = g
  BY DEF Cache!Asked, Cache!Found
<1>3. "asked" # "found" /\ "asked" # "missed" /\ "asked" # "none"
      /\ "found" # "missed" /\ "found" # "none" /\ "missed" # "none"
  OBVIOUS
<1> QED
  BY <1>1, <1>2, <1>3

\* What is good stays good while the sources grow and the memory cache grows.
LEMMA GoodStays ==
  ASSUME NEW f, NEW c, NEW hs, NEW ss, NEW fl, NEW hs2, NEW ss2,
         Good(f, c, hs, ss, fl), ss \subseteq ss2, fl = "memory" => hs \subseteq hs2
  PROVE  Good(f, c, hs2, ss2, fl)
<1>1. Known(f, ss2)
  BY DEF Good, Known
<1>2. Remembered(f, c, hs2, fl)
  BY DEF Good, Remembered
<1> QED
  BY <1>1, <1>2 DEF Good

\* A task without a fetch.
LEMMA NewFetchGood ==
  ASSUME NEW hs, NEW ss, NEW fl
  PROVE  Good(NewFetch, Cache!NoCall, hs, ss, fl)
<1>1. NewFetch \in Fetching
  BY DEF NewFetch, Fetching, Steps, Bytes
<1>2. NewFetch.at = "idle" /\ NewFetch.got = "none" /\ NewFetch.known = {} /\ NewFetch.again = FALSE
  BY DEF NewFetch
<1> QED
  BY <1>1, <1>2 DEF Good, Verified, Known, Cheapest, Lookup, Remembered, Walk, Waits

\* Leaving a source behind keeps a fetch good: everything cheaper than the
\* source it leaves had been asked, and there is no claim before the next.
LEMMA NextInChainGood ==
  ASSUME NEW f, NEW hs, NEW ss, NEW fl,
         Good(f, Cache!NoCall, hs, ss, fl), f.at \in Waits
  PROVE  Good(NextInChain(f), Cache!NoCall, hs, ss, fl)
<1> DEFINE g == NextInChain(f)
<1>1. f \in Fetching /\ f.asking \in DOMAIN f.chain
  BY DEF Good, Cheapest
<1>2. /\ g.at = "next" /\ g.blob = f.blob /\ g.chain = f.chain
      /\ g.tried = f.tried \cup {f.asking} /\ g.asking = 0
      /\ g.got = f.got /\ g.known = f.known /\ g.again = f.again
  BY <1>1 DEF NextInChain, Fetching
<1>3. f.asking \in Nat \ {0}
  BY <1>1 DEF Fetching
<1>4. g \in Fetching
  BY <1>1, <1>3 DEF NextInChain, Fetching, Steps
<1> HIDE DEF g
<1>5. Verified(g) /\ Known(g, ss) /\ Cheapest(g) /\ Lookup(g, Cache!NoCall)
  BY <1>2 DEF Good, Verified, Known, Cheapest, Lookup, Walk, Waits
<1>6. Remembered(g, Cache!NoCall, hs, fl)
  BY <1>2, CallsDiffer DEF Good, Remembered, Waits
<1>7. Good(g, Cache!NoCall, hs, ss, fl)
  BY <1>2, <1>4, <1>5, <1>6 DEF Good, Waits
<1> QED
  BY <1>7 DEF g

-----------------------------------------------------------------------------
\* The cache starts without calls, the class without fetches.
LEMMA InitIInv == ASSUME Init PROVE IInv
<1> USE DEF Init
<1>1. /\ held \in SUBSET Blob /\ call = [t \in Task |-> Cache!NoCall]
      /\ reply = [t \in Task |-> "none"]
  BY DEF Cache!Init
<1>2. sources \in Seq(Source)
  <2> DEFINE cdns == {c \in Source : Kind[c] = "cdn"}
  <2>1. sources \in {<< >>} \cup {<<s>> : s \in cdns}
    OBVIOUS
  <2>2. cdns \subseteq Source
    OBVIOUS
  <2> HIDE DEF cdns
  <2>3. CASE sources = << >>
    BY <2>3
  <2>4. CASE \E s \in cdns : sources = <<s>>
    BY <2>2, <2>4
  <2>5. sources = << >> \/ \E s \in cdns : sources = <<s>>
    BY <2>1, Zenon
  <2> QED
    BY <2>3, <2>4, <2>5
<1>3. \A t \in Task : GoodOf(t)
  <2> TAKE t \in Task
  <2>1. fetch[t] = NewFetch /\ call[t] = Cache!NoCall
    BY <1>1
  <2> QED
    BY <2>1, NewFetchGood DEF GoodOf
<1>4. fetch \in [Task -> Fetching]
  BY NewFetchGood DEF Good
<1>5. Pending \in Result /\ Pending.value = "none"
  BY DEF Pending, Result, Report, NoReport, NoTier
<1>6. Cache!NoCall \in Cache!Call
  BY DEF Cache!Call
<1>7. TypeOK
  BY <1>1, <1>2, <1>4, <1>5, <1>6 DEF TypeOK
<1>8. ReturnsOnlyTheBlob
  BY <1>5 DEF ReturnsOnlyTheBlob
<1> QED
  BY <1>3, <1>7, <1>8 DEF IInv

\* A step of one task: it is enough that its own fetch stays good.
LEMMA TaskStep ==
  ASSUME IInv, NEW t \in Task, NEW f, NEW c \in Cache!Call,
         Goto(t, f), call' = [call EXCEPT ![t] = c],
         UNCHANGED classVars, flavour = "memory" => held \subseteq held',
         Good(f, c, held', SourceSet, flavour)
  PROVE  /\ \A s \in Task : GoodOf(s)'
         /\ fetch' \in [Task -> Fetching]
         /\ call' \in [Task -> Cache!Call]
<1>1. f \in Fetching
  BY DEF Good
<1>2. fetch \in [Task -> Fetching] /\ call \in [Task -> Cache!Call]
  BY DEF IInv, TypeOK
<1>3. fetch' = [fetch EXCEPT ![t] = f]
  BY DEF Goto
<1>4. SourceSet' = SourceSet /\ flavour' = flavour
  BY DEF SourceSet
<1>5. ASSUME NEW s \in Task PROVE GoodOf(s)'
  <2>1. CASE s = t
    <3>1. fetch'[s] = f /\ call'[s] = c
      BY <1>2, <1>3, <2>1
    <3>2. Good(fetch'[s], call'[s], held', SourceSet', flavour')
      BY <3>1, <1>4
    <3> QED
      BY <3>2 DEF GoodOf
  <2>2. CASE s # t
    <3>1. fetch'[s] = fetch[s] /\ call'[s] = call[s]
      BY <1>2, <1>3, <2>2
    <3>2. Good(fetch[s], call[s], held, SourceSet, flavour)
      BY DEF IInv, GoodOf
    <3>3. Good(fetch[s], call[s], held', SourceSet, flavour)
      BY <3>2, GoodStays
    <3>4. Good(fetch'[s], call'[s], held', SourceSet', flavour')
      BY <3>1, <3>3, <1>4
    <3> QED
      BY <3>4 DEF GoodOf
  <2> QED
    BY <2>1, <2>2
<1> QED
  BY <1>1, <1>2, <1>3, <1>5

\* A step outside the fetches: the sources or the memory cache may grow.
LEMMA OtherStep ==
  ASSUME IInv, UNCHANGED <<fetch, call, flavour>>,
         SourceSet \subseteq SourceSet', flavour = "memory" => held \subseteq held'
  PROVE  \A s \in Task : GoodOf(s)'
<1> TAKE s \in Task
<1>1. Good(fetch[s], call[s], held, SourceSet, flavour)
  BY DEF IInv, GoodOf
<1>2. Good(fetch[s], call[s], held', SourceSet', flavour)
  BY <1>1, GoodStays
<1>3. Good(fetch'[s], call'[s], held', SourceSet', flavour')
  BY <1>2
<1> QED
  BY <1>3 DEF GoodOf

\* The end of a fetch with what it promises: the blob, or a failure, and in
\* memory a blob that is remembered.
LEMMA ReturnStep ==
  ASSUME IInv, NEW t \in Task, fetch[t].at # "idle",
         NEW value \in {"whole", "failed"}, NEW tier \in 0 .. NoTier,
         NEW peer \in Source \cup {NoSource}, Return(t, value, tier, peer),
         call' = [call EXCEPT ![t] = Cache!NoCall], held' \subseteq Blob,
         reply' \in [Task -> {"none", "whole", "miss"}],
         flavour = "memory" => held \subseteq held',
         flavour = "memory" /\ value = "whole" => fetch[t].blob \in held',
         UNCHANGED <<classVars, obtained, store, delivered>>
  PROVE  IInv'
<1>1. fetch[t].blob \in Blob
  BY DEF IInv, GoodOf, Good
<1>2. Goto(t, NewFetch)
  BY DEF Return
<1>3. Cache!NoCall \in Cache!Call
  BY DEF Cache!Call
<1>4. /\ \A s \in Task : GoodOf(s)'
      /\ fetch' \in [Task -> Fetching]
      /\ call' \in [Task -> Cache!Call]
  BY <1>2, <1>3, NewFetchGood, TaskStep
<1> DEFINE r == [value |-> value,
                 report |-> [hash |-> fetch[t].blob, tier |-> tier, peer |-> peer]]
<1>5. r \in Result /\ r.value = value
  BY <1>1 DEF Result, Report, Bytes
<1>6. result' = [result EXCEPT ![t] = r]
  BY DEF Return
<1> HIDE DEF r
<1>7. result' \in [Task -> Result] /\ \A s \in Task : result'[s] = IF s = t THEN r ELSE result[s]
  BY <1>5, <1>6 DEF IInv, TypeOK
<1>8. ReturnsOnlyTheBlob'
  BY <1>5, <1>7 DEF IInv, ReturnsOnlyTheBlob
<1>9. /\ returned' \subseteq returned \cup {fetch[t].blob}
      /\ value # "whole" => returned' = returned
  BY DEF Return, Bytes
<1>10. flavour' = "memory" => returned' \subseteq held'
  BY <1>9 DEF IInv
<1>11. TypeOK'
  BY <1>1, <1>4, <1>7, <1>9 DEF IInv, TypeOK
<1> QED
  BY <1>4, <1>8, <1>10, <1>11 DEF IInv

\* A step of a fetch that goes on.
LEMMA WalkStep ==
  ASSUME IInv, NEW t \in Task, NEW f, NEW c \in Cache!Call,
         Goto(t, f), call' = [call EXCEPT ![t] = c],
         Good(f, c, held, SourceSet, flavour),
         obtained' \subseteq Blob, store' \subseteq Blob,
         delivered' \subseteq Source \X Blob,
         reply' \in [Task -> {"none", "whole", "miss"}],
         result' \in [Task -> Result],
         \A s \in Task : result'[s] \in {result[s], Pending},
         UNCHANGED <<held, classVars, returned>>
  PROVE  IInv'
<1>1. /\ \A s \in Task : GoodOf(s)'
      /\ fetch' \in [Task -> Fetching]
      /\ call' \in [Task -> Cache!Call]
  BY TaskStep
<1>2. ReturnsOnlyTheBlob'
  BY DEF IInv, ReturnsOnlyTheBlob, Pending
<1>3. TypeOK'
  BY <1>1 DEF IInv, TypeOK
<1> QED
  BY <1>1, <1>2, <1>3 DEF IInv

\* The same when the cache is left alone.
LEMMA WaitStep ==
  ASSUME IInv, NEW t \in Task, NEW f, Goto(t, f),
         Good(f, Cache!NoCall, held, SourceSet, flavour),
         call[t] = Cache!NoCall,
         obtained' \subseteq Blob, store' \subseteq Blob,
         delivered' \subseteq Source \X Blob,
         UNCHANGED <<cacheVars, classVars, returned, result>>
  PROVE  IInv'
<1>1. call' = [call EXCEPT ![t] = Cache!NoCall]
  BY DEF IInv, TypeOK
<1>2. Cache!NoCall \in Cache!Call
  BY DEF Cache!Call
<1>3. /\ reply' \in [Task -> {"none", "whole", "miss"}]
      /\ result' \in [Task -> Result]
      /\ \A s \in Task : result'[s] \in {result[s], Pending}
  BY DEF IInv, TypeOK
<1> QED
  BY <1>1, <1>2, <1>3, WalkStep

\* What is known of a fetch that waits for a source.
LEMMA Waiter ==
  ASSUME IInv, NEW t \in Task, fetch[t].at # "idle", fetch[t].at # "cache"
  PROVE  /\ Good(fetch[t], Cache!NoCall, held, SourceSet, flavour)
         /\ call[t] = Cache!NoCall /\ fetch[t] \in Fetching
         /\ fetch[t].blob \in Blob
<1>1. Good(fetch[t], call[t], held, SourceSet, flavour)
  BY DEF IInv, GoodOf
<1>2. call[t] = Cache!NoCall
  BY <1>1 DEF Good, Lookup
<1> QED
  BY <1>1, <1>2 DEF Good

\* A source is left behind.
LEMMA SkipInv ==
  ASSUME IInv, NEW t \in Task, fetch[t].at \in Waits, Skip(t),
         store' \subseteq Blob, delivered' \subseteq Source \X Blob,
         UNCHANGED <<cacheVars, classVars, returned, result>>
  PROVE  IInv'
<1>1. /\ Good(fetch[t], Cache!NoCall, held, SourceSet, flavour)
      /\ call[t] = Cache!NoCall
  BY Waiter DEF Waits
<1>2. Good(NextInChain(fetch[t]), Cache!NoCall, held, SourceSet, flavour)
  BY <1>1, NextInChainGood
<1>3. Goto(t, NextInChain(fetch[t])) /\ obtained' \subseteq Blob
  BY DEF Skip, IInv, TypeOK
<1> QED
  BY <1>1, <1>2, <1>3, WaitStep

\* Verified bytes end the walk.
LEMMA PutGood ==
  ASSUME NEW f, NEW hs, NEW ss, NEW fl, NEW bytes,
         Good(f, Cache!NoCall, hs, ss, fl), f.at \in Waits, bytes = "whole"
  PROVE  Good([f EXCEPT !.at = "put", !.got = bytes], Cache!NoCall, hs, ss, fl)
<1> DEFINE g == [f EXCEPT !.at = "put", !.got = bytes]
<1>1. f \in Fetching
  BY DEF Good
<1>2. /\ g.at = "put" /\ g.blob = f.blob /\ g.chain = f.chain
      /\ g.tried = f.tried /\ g.asking = f.asking
      /\ g.got = bytes /\ g.known = f.known /\ g.again = f.again
  BY <1>1 DEF Fetching
<1>3. g \in Fetching
  BY <1>1 DEF Fetching, Steps, Bytes
<1> HIDE DEF g
<1>4. Verified(g) /\ Known(g, ss) /\ Lookup(g, Cache!NoCall)
  BY <1>2 DEF Good, Verified, Known, Lookup, Walk, Waits
<1>5. Cheapest(g)
  BY <1>2 DEF Good, Cheapest, Asked, Waits
<1>6. Remembered(g, Cache!NoCall, hs, fl)
  BY <1>2, CallsDiffer DEF Good, Remembered, Waits
<1>7. Good(g, Cache!NoCall, hs, ss, fl)
  BY <1>2, <1>3, <1>4, <1>5, <1>6 DEF Good, Waits
<1> QED
  BY <1>7 DEF g

LEMMA ReceiveInv ==
  ASSUME IInv, NEW t \in Task, fetch[t].at \in Waits, NEW bytes, Receive(t, bytes),
         store' \subseteq Blob, delivered' \subseteq Source \X Blob,
         UNCHANGED <<cacheVars, classVars, returned, result>>
  PROVE  IInv'
<1>1. CASE bytes = "whole"
  <2>1. /\ Goto(t, [fetch[t] EXCEPT !.at = "put", !.got = bytes])
        /\ obtained' = obtained \cup {fetch[t].blob}
    BY <1>1 DEF Receive, verify
  <2>2. /\ Good(fetch[t], Cache!NoCall, held, SourceSet, flavour)
        /\ call[t] = Cache!NoCall /\ fetch[t].blob \in Blob
    BY Waiter DEF Waits
  <2>3. Good([fetch[t] EXCEPT !.at = "put", !.got = bytes], Cache!NoCall,
             held, SourceSet, flavour)
    BY <1>1, <2>2, PutGood
  <2>4. obtained' \subseteq Blob
    BY <2>1, <2>2 DEF IInv, TypeOK
  <2> QED
    BY <2>1, <2>2, <2>3, <2>4, WaitStep
<1>2. CASE bytes # "whole"
  <2>1. Skip(t)
    BY <1>2 DEF Receive, verify
  <2> QED
    BY <2>1, SkipInv
<1> QED
  BY <1>1, <1>2

-----------------------------------------------------------------------------
\* The waits for the three kinds of sources

LEMMA DialInv == ASSUME IInv, NEW t \in Task, Dial(t) PROVE IInv'
<1>1. /\ fetch[t].at \in Waits /\ fetch[t].at = "dial"
      /\ UNCHANGED <<cacheVars, classVars, returned, result>>
  BY DEF Dial, Waiting, Waits
<1>2. CASE Skip(t) /\ UNCHANGED <<store, delivered>>
  <2>1. store' \subseteq Blob /\ delivered' \subseteq Source \X Blob
    BY <1>2 DEF IInv, TypeOK
  <2> QED
    BY <1>1, <1>2, <2>1, SkipInv
<1>3. ASSUME store' = store \cup {fetch[t].blob}, Receive(t, "whole"),
             \/ delivered' = delivered \cup {<<Asked(fetch[t]), fetch[t].blob>>}
             \/ UNCHANGED delivered
      PROVE  IInv'
  <2>1. fetch[t] \in Fetching /\ fetch[t].blob \in Blob /\ Cheapest(fetch[t])
    BY <1>1, Waiter DEF Waits, Good
  <2>2. Asked(fetch[t]) \in Source
    BY <1>1, <2>1 DEF Cheapest, Asked, Fetching, Waits
  <2>3. store' \subseteq Blob /\ delivered' \subseteq Source \X Blob
    BY <1>3, <2>1, <2>2 DEF IInv, TypeOK
  <2> QED
    BY <1>1, <1>3, <2>3, ReceiveInv
<1> QED
  BY <1>2, <1>3 DEF Dial

LEMMA ConnectInv == ASSUME IInv, NEW t \in Task, Connect(t) PROVE IInv'
<1>1. /\ fetch[t].at \in Waits /\ fetch[t].at = "connect"
      /\ UNCHANGED <<cacheVars, classVars, returned, result>>
      /\ store' \subseteq Blob /\ delivered' \subseteq Source \X Blob
  BY DEF Connect, Waiting, Waits, IInv, TypeOK
<1>2. CASE Skip(t)
  BY <1>1, <1>2, SkipInv
<1>3. CASE Goto(t, [fetch[t] EXCEPT !.at = "body"]) /\ UNCHANGED obtained
  <2> DEFINE f == fetch[t]
             g == [f EXCEPT !.at = "body"]
  <2>1. /\ Good(f, Cache!NoCall, held, SourceSet, flavour)
        /\ call[t] = Cache!NoCall /\ f \in Fetching
    BY <1>1, Waiter
  <2>2. f.at = "connect"
    BY <1>1
  <2> HIDE DEF f
  <2>3. /\ g.at = "body" /\ g.blob = f.blob /\ g.chain = f.chain
        /\ g.tried = f.tried /\ g.asking = f.asking
        /\ g.got = f.got /\ g.known = f.known /\ g.again = f.again
    BY <2>1 DEF Fetching
  <2>4. g \in Fetching
    BY <2>1 DEF Fetching, Steps, Waits
  <2> HIDE DEF g
  <2>5. Verified(g) /\ Known(g, SourceSet) /\ Lookup(g, Cache!NoCall)
    BY <2>1, <2>2, <2>3 DEF Good, Verified, Known, Lookup, Walk, Waits
  <2>6. Cheapest(g)
    BY <2>1, <2>2, <2>3 DEF Good, Cheapest, Asked, Waits
  <2>7. Remembered(g, Cache!NoCall, held, flavour)
    BY <2>1, <2>2, <2>3, CallsDiffer DEF Good, Remembered
  <2>8. Good(g, Cache!NoCall, held, SourceSet, flavour)
    BY <2>1, <2>2, <2>3, <2>4, <2>5, <2>6, <2>7 DEF Good
  <2>9. obtained' \subseteq Blob /\ Goto(t, g)
    BY <1>3 DEF IInv, TypeOK, f, g
  <2> QED
    BY <1>1, <2>1, <2>8, <2>9, WaitStep
<1> QED
  BY <1>2, <1>3 DEF Connect

LEMMA BodyInv == ASSUME IInv, NEW t \in Task, Body(t) PROVE IInv'
<1>1. /\ fetch[t].at \in Waits
      /\ UNCHANGED <<cacheVars, classVars, returned, result>>
      /\ store' \subseteq Blob /\ delivered' \subseteq Source \X Blob
  BY DEF Body, Waiting, Waits, IInv, TypeOK
<1>2. Skip(t) \/ \E bytes \in Bytes : Receive(t, bytes)
  BY DEF Body
<1> QED
  BY <1>1, <1>2, SkipInv, ReceiveInv

LEMMA RawInv == ASSUME IInv, NEW t \in Task, Raw(t) PROVE IInv'
<1>1. /\ fetch[t].at \in Waits
      /\ UNCHANGED <<cacheVars, classVars, returned, result>>
      /\ store' \subseteq Blob /\ delivered' \subseteq Source \X Blob
  BY DEF Raw, Waiting, Waits, IInv, TypeOK
<1>2. Skip(t) \/ \E bytes \in Bytes : Receive(t, bytes)
  BY DEF Raw
<1> QED
  BY <1>1, <1>2, SkipInv, ReceiveInv

-----------------------------------------------------------------------------
\* Whoever is next has no untried source below its tier.
LEMMA NextUpIsCheapest ==
  ASSUME NEW f \in Fetching, NEW i \in NextUp(f)
  PROVE  /\ i \in DOMAIN f.chain /\ f.chain[i] \in Source
         /\ \A j \in DOMAIN f.chain :
               Tier[f.chain[j]] < Tier[f.chain[i]] => j \in f.tried
<1>1. i \in DOMAIN f.chain /\ \A j \in DOMAIN f.chain \ f.tried : Before(f, i, j)
  BY DEF NextUp, Untried
<1>2. \A j \in DOMAIN f.chain : f.chain[j] \in Source
  BY DEF Fetching
<1>3. \A j \in DOMAIN f.chain : Tier[f.chain[j]] \in Int
  BY <1>2, TierAssumption
<1>4. ASSUME NEW j \in DOMAIN f.chain, Tier[f.chain[j]] < Tier[f.chain[i]]
      PROVE  j \in f.tried
  <2>1. ~Before(f, i, j)
    BY <1>1, <1>3, <1>4 DEF Before
  <2> QED
    BY <1>1, <2>1
<1> QED
  BY <1>1, <1>2, <1>4

LEMMA AskInv == ASSUME IInv, NEW t \in Task, Ask(t) PROVE IInv'
<1>1. /\ fetch[t].at = "next"
      /\ UNCHANGED <<cacheVars, classVars, returned, result>>
      /\ store' \subseteq Blob /\ delivered' \subseteq Source \X Blob
  BY DEF Ask, Waiting, IInv, TypeOK
<1> DEFINE f == fetch[t]
<1>2. /\ Good(f, Cache!NoCall, held, SourceSet, flavour)
      /\ call[t] = Cache!NoCall /\ f \in Fetching /\ f.blob \in Blob
  BY <1>1, Waiter
<1>3. PICK i \in NextUp(f), at \in Waits \cup {"put"}, got \in {"none", "whole"} :
        /\ at = "put" => got = "whole"
        /\ Goto(t, [[f EXCEPT !.asking = i] EXCEPT !.at = at, !.got = got])
        /\ obtained' \subseteq obtained \cup {f.blob}
  <2>1. PICK i \in NextUp(f) :
          LET s == f.chain[i]
              g == [f EXCEPT !.asking = i]
          IN  \/ /\ InStore(t, s)
                 /\ Goto(t, [g EXCEPT !.at = "put", !.got = "whole"])
                 /\ obtained' = obtained \cup {g.blob}
              \/ /\ ~InStore(t, s)
                 /\ Goto(t, [g EXCEPT !.at = CASE Kind[s] = "raw"  -> "raw"
                                               [] Kind[s] = "cdn"  -> "connect"
                                               [] Kind[s] = "peer" -> "dial"])
                 /\ UNCHANGED obtained
    BY DEF Ask
  <2> DEFINE s == f.chain[i]
             g == [f EXCEPT !.asking = i]
  <2>2. g.blob = f.blob /\ g.got = f.got
    BY <1>2 DEF Fetching
  <2>3. f.got \in {"none", "whole"}
    BY <1>2 DEF Good, Verified
  <2>4. s \in Source
    BY <1>2, NextUpIsCheapest
  <2>5. g \in Fetching
    <3>1. i \in Nat
      BY <1>2, NextUpIsCheapest DEF Fetching
    <3> QED
      BY <1>2, <3>1 DEF Fetching
  <2>6. CASE InStore(t, s)
    BY <2>1, <2>2, <2>6
  <2>7. CASE ~InStore(t, s)
    <3> DEFINE at == CASE Kind[s] = "raw"  -> "raw"
                       [] Kind[s] = "cdn"  -> "connect"
                       [] Kind[s] = "peer" -> "dial"
    <3>1. at \in Waits
      <4>1. Kind[s] \in {"peer", "cdn", "raw"}
        BY <2>4, KindAssumption DEF Kinds
      <4> QED
        BY <4>1 DEF Waits
    <3>2. Goto(t, [g EXCEPT !.at = at]) /\ UNCHANGED obtained
      BY <2>1, <2>7
    <3> HIDE DEF at, f, s
    <3>3. [g EXCEPT !.at = at] = [g EXCEPT !.at = at, !.got = f.got]
      <4> HIDE DEF g
      <4> QED
        BY <2>2, <2>5 DEF Fetching
    <3>4. at # "put"
      BY <3>1 DEF Waits
    <3>5. Goto(t, [g EXCEPT !.at = at, !.got = f.got])
      BY <3>2, <3>3
    <3> QED
      BY <2>3, <3>1, <3>2, <3>4, <3>5
  <2> QED
    BY <2>6, <2>7
<1> DEFINE g == [[f EXCEPT !.asking = i] EXCEPT !.at = at, !.got = got]
<1>4. f.at = "next"
  BY <1>1
<1> HIDE DEF f
<1>5. i \in Nat
  BY <1>2, NextUpIsCheapest DEF Fetching
<1>6. /\ g.at = at /\ g.blob = f.blob /\ g.chain = f.chain
      /\ g.tried = f.tried /\ g.asking = i
      /\ g.got = got /\ g.known = f.known /\ g.again = f.again
  BY <1>2 DEF Fetching
<1>7. g \in Fetching
  BY <1>2, <1>5 DEF Fetching, Steps, Waits, Bytes
<1> HIDE DEF g
<1>8. Verified(g) /\ Known(g, SourceSet) /\ Lookup(g, Cache!NoCall)
  BY <1>2, <1>3, <1>4, <1>6 DEF Good, Verified, Known, Lookup, Walk, Waits
<1>9. Cheapest(g)
  BY <1>2, <1>6, NextUpIsCheapest DEF Cheapest, Asked
<1>10. Remembered(g, Cache!NoCall, held, flavour)
  BY <1>2, <1>4, <1>6, CallsDiffer DEF Good, Remembered, Waits
<1>11. Good(g, Cache!NoCall, held, SourceSet, flavour)
  BY <1>2, <1>6, <1>7, <1>8, <1>9, <1>10 DEF Good
<1>12. obtained' \subseteq Blob
  BY <1>2, <1>3 DEF IInv, TypeOK
<1>13. Goto(t, g)
  BY <1>3 DEF g
<1> QED
  BY <1>1, <1>2, <1>11, <1>12, <1>13, WaitStep

\* A fetch that moves to another step before the walk, or back to none.
LEMMA MoveGood ==
  ASSUME NEW f, NEW c, NEW hs, NEW ss, NEW fl, NEW at \in {"clone", "cloning"},
         Good(f, c, hs, ss, fl), f.at # "idle",
         fl = "memory" /\ f.again => FALSE
  PROVE  Good([f EXCEPT !.at = at], Cache!NoCall, hs, ss, fl)
<1> DEFINE g == [f EXCEPT !.at = at]
<1>1. f \in Fetching
  BY DEF Good
<1>2. /\ g.at = at /\ g.blob = f.blob /\ g.chain = f.chain
      /\ g.tried = f.tried /\ g.asking = f.asking
      /\ g.got = f.got /\ g.known = f.known /\ g.again = f.again
  BY <1>1 DEF Fetching
<1>3. g \in Fetching
  BY <1>1 DEF Fetching, Steps
<1> HIDE DEF g
<1>4. Verified(g) /\ Known(g, ss) /\ Cheapest(g) /\ Lookup(g, Cache!NoCall)
  BY <1>2 DEF Good, Verified, Known, Cheapest, Lookup, Walk, Waits
<1>5. Remembered(g, Cache!NoCall, hs, fl)
  BY <1>2 DEF Remembered
<1>6. Good(g, Cache!NoCall, hs, ss, fl)
  BY <1>2, <1>3, <1>4, <1>5 DEF Good
<1> QED
  BY <1>6 DEF g

\* The read lock is taken.
LEMMA LockSourcesInv == ASSUME IInv, NEW t \in Task, LockSources(t) PROVE IInv'
<1>1. /\ fetch[t].at = "clone" /\ Goto(t, [fetch[t] EXCEPT !.at = "cloning"])
      /\ UNCHANGED <<cacheVars, classVars, obtained, store, delivered, returned, result>>
  BY DEF LockSources
<1>2. /\ Good(fetch[t], Cache!NoCall, held, SourceSet, flavour)
      /\ call[t] = Cache!NoCall
  BY <1>1, Waiter
<1>3. flavour = "memory" /\ fetch[t].again => FALSE
  BY <1>1, <1>2 DEF Good, Remembered
<1>4. Good([fetch[t] EXCEPT !.at = "cloning"], Cache!NoCall, held, SourceSet, flavour)
  BY <1>1, <1>2, <1>3, MoveGood
<1>5. obtained' \subseteq Blob /\ store' \subseteq Blob /\ delivered' \subseteq Source \X Blob
  BY <1>1 DEF IInv, TypeOK
<1> QED
  BY <1>1, <1>2, <1>4, <1>5, WaitStep

\* The clone holds every source there is, so every source known at the start.
LEMMA CloneSourcesInv == ASSUME IInv, NEW t \in Task, CloneSources(t) PROVE IInv'
<1> DEFINE f == fetch[t]
           g == [f EXCEPT !.at = "next", !.chain = sources]
<1>1. /\ f.at = "cloning" /\ Goto(t, g)
      /\ UNCHANGED <<cacheVars, classVars, obtained, store, delivered, returned, result>>
  BY DEF CloneSources
<1>2. /\ Good(f, Cache!NoCall, held, SourceSet, flavour)
      /\ call[t] = Cache!NoCall /\ f \in Fetching
  BY <1>1, Waiter
<1>3. sources \in Seq(Source)
  BY DEF IInv, TypeOK
<1> HIDE DEF f
<1>4. /\ g.at = "next" /\ g.blob = f.blob /\ g.chain = sources
      /\ g.got = f.got /\ g.known = f.known /\ g.again = f.again
  BY <1>2 DEF Fetching
<1>5. g \in Fetching
  BY <1>2, <1>3 DEF Fetching, Steps
<1> HIDE DEF g
<1>6. Verified(g) /\ Cheapest(g) /\ Lookup(g, Cache!NoCall)
  BY <1>2, <1>4 DEF Good, Verified, Cheapest, Lookup, Waits
<1>7. Known(g, SourceSet)
  BY <1>2, <1>4 DEF Good, Known, SourceSet
<1>8. Remembered(g, Cache!NoCall, held, flavour)
  BY <1>1, <1>2, <1>4 DEF Good, Remembered
<1>9. Good(g, Cache!NoCall, held, SourceSet, flavour)
  BY <1>1, <1>2, <1>4, <1>5, <1>6, <1>7, <1>8 DEF Good
<1>10. obtained' \subseteq Blob /\ store' \subseteq Blob /\ delivered' \subseteq Source \X Blob
  BY <1>1 DEF IInv, TypeOK
<1> QED
  BY <1>1, <1>2, <1>9, <1>10, WaitStep

-----------------------------------------------------------------------------
\* The two ends of a walk

LEMMA GiveUpInv == ASSUME IInv, NEW t \in Task, GiveUp(t) PROVE IInv'
<1>1. /\ fetch[t].at = "next" /\ Return(t, "failed", NoTier, NoSource)
      /\ UNCHANGED <<cacheVars, classVars, obtained, store, delivered>>
  BY DEF GiveUp
<1>2. call[t] = Cache!NoCall
  BY <1>1, Waiter
<1>3. /\ call' = [call EXCEPT ![t] = Cache!NoCall] /\ held' \subseteq Blob
      /\ reply' \in [Task -> {"none", "whole", "miss"}]
  BY <1>1, <1>2 DEF IInv, TypeOK
<1>4. NoTier \in 0 .. NoTier
  BY DEF NoTier
<1> QED
  BY <1>1, <1>3, <1>4, ReturnStep

LEMMA FinishInv == ASSUME IInv, NEW t \in Task, Finish(t) PROVE IInv'
<1> DEFINE s == Asked(fetch[t])
<1>1. /\ fetch[t].at = "put" /\ Put(fetch[t].blob)
      /\ Return(t, fetch[t].got, Tier[s], PeerOf(s))
      /\ UNCHANGED <<classVars, obtained, store, delivered>>
  BY DEF Finish
<1>2. /\ Good(fetch[t], Cache!NoCall, held, SourceSet, flavour)
      /\ call[t] = Cache!NoCall /\ fetch[t].blob \in Blob /\ fetch[t] \in Fetching
  BY <1>1, Waiter
<1>3. UNCHANGED <<call, reply>> /\ (held' = held \/ held' = held \cup {fetch[t].blob})
  BY <1>1 DEF Put, Cache!Store
<1>4. flavour = "memory" => held' = held \cup {fetch[t].blob}
  BY <1>1 DEF Put, Cache!Store
<1>5. /\ call' = [call EXCEPT ![t] = Cache!NoCall] /\ held' \subseteq Blob
      /\ reply' \in [Task -> {"none", "whole", "miss"}]
  BY <1>2, <1>3 DEF IInv, TypeOK
<1>6. fetch[t].got = "whole"
  BY <1>1, <1>2 DEF Good, Verified
<1>7. s \in Source
  BY <1>1, <1>2 DEF Good, Cheapest, Asked, Fetching
<1>8. Tier[s] \in 0 .. NoTier /\ PeerOf(s) \in Source \cup {NoSource}
  BY <1>7, TierAssumption DEF NoTier, PeerOf
<1> HIDE DEF s
<1> QED
  BY <1>1, <1>3, <1>4, <1>5, <1>6, <1>8, ReturnStep

-----------------------------------------------------------------------------
\* The lookup

\* What a fetch is when it asks the cache, or passes it by.
LEMMA StartGood ==
  ASSUME IInv, NEW t \in Task, NEW h \in Blob, NEW at, NEW c,
         \/ at = "cache" /\ c = Cache!Asked(h)
         \/ at = "clone" /\ c = Cache!NoCall /\ MayMiss(h)
  PROVE  Good([[NewFetch EXCEPT !.blob = h, !.known = SourceSet, !.again = h \in returned]
                  EXCEPT !.at = at], c, held, SourceSet, flavour)
<1> DEFINE g == [[NewFetch EXCEPT !.blob = h, !.known = SourceSet, !.again = h \in returned]
                    EXCEPT !.at = at]
<1>1. SourceSet \subseteq Source
  BY DEF IInv, TypeOK, SourceSet
<1>2. NewFetch \in Fetching /\ NewFetch.got = "none"
  <2>1. NewFetch \in Fetching
    BY NewFetchGood DEF Good
  <2> QED
    BY <2>1 DEF NewFetch
<1>3. /\ g.at = at /\ g.blob = h /\ g.got = "none" /\ g.known = SourceSet
      /\ g.again <=> h \in returned
  BY <1>2 DEF Fetching
<1>4. (h \in returned) \in BOOLEAN /\ at \in {"cache", "clone"}
  OBVIOUS
<1>5. g \in Fetching
  BY <1>1, <1>2, <1>4 DEF Fetching, Steps
<1> HIDE DEF g
<1>6. Verified(g) /\ Known(g, SourceSet) /\ Cheapest(g)
  BY <1>3, <1>4 DEF Verified, Known, Cheapest, Walk, Waits
<1>7. Lookup(g, c)
  BY <1>3, <1>4 DEF Lookup
<1>8. Remembered(g, c, held, flavour)
  <2>1. flavour = "memory" => returned \subseteq held
    BY DEF IInv
  <2>2. CASE at = "cache"
    BY <1>3, <2>1, <2>2, CallsDiffer DEF Remembered
  <2>3. CASE at = "clone"
    BY <1>3, <2>1, <2>3 DEF Remembered, MayMiss
  <2> QED
    BY <1>4, <2>2, <2>3
<1>9. Good(g, c, held, SourceSet, flavour)
  BY <1>3, <1>5, <1>6, <1>7, <1>8 DEF Good
<1> QED
  BY <1>9 DEF g

LEMMA StartInv == ASSUME IInv, NEW t \in Task, NEW h \in Blob, Start(t, h) PROVE IInv'
<1> DEFINE f == [NewFetch EXCEPT !.blob = h, !.known = SourceSet, !.again = h \in returned]
<1>1. /\ result' = [result EXCEPT ![t] = Pending]
      /\ UNCHANGED <<classVars, obtained, store, delivered, returned>>
  BY DEF Start
<1>2. PICK at, c : /\ \/ at = "cache" /\ c = Cache!Asked(h)
                      \/ at = "clone" /\ c = Cache!NoCall /\ MayMiss(h)
                   /\ Goto(t, [f EXCEPT !.at = at])
                   /\ call' = [call EXCEPT ![t] = c] /\ UNCHANGED held
                   /\ reply' \in [Task -> {"none", "whole", "miss"}]
  <2>1. reply \in [Task -> {"none", "whole", "miss"}] /\ call \in [Task -> Cache!Call]
    BY DEF IInv, TypeOK
  <2>2. \/ Cache!Ask(t, h) /\ Goto(t, [f EXCEPT !.at = "cache"])
        \/ MayMiss(h) /\ Cache!MissAtOnce(t) /\ Goto(t, [f EXCEPT !.at = "clone"])
    BY DEF Start
  <2> HIDE DEF f
  <2>3. CASE Cache!Ask(t, h) /\ Goto(t, [f EXCEPT !.at = "cache"])
    BY <2>1, <2>3 DEF Cache!Ask
  <2>4. CASE MayMiss(h) /\ Cache!MissAtOnce(t) /\ Goto(t, [f EXCEPT !.at = "clone"])
    BY <2>1, <2>4 DEF Cache!MissAtOnce
  <2> QED
    BY <2>2, <2>3, <2>4
<1>3. Good([f EXCEPT !.at = at], c, held, SourceSet, flavour)
  BY <1>2, StartGood
<1>4. c \in Cache!Call
  BY <1>2 DEF Cache!Call
<1>5. Pending \in Result
  BY DEF Pending, Result, Report, NoReport, NoTier
<1>6. /\ result' \in [Task -> Result]
      /\ \A s \in Task : result'[s] \in {result[s], Pending}
  BY <1>1, <1>5 DEF IInv, TypeOK
<1>7. obtained' \subseteq Blob /\ store' \subseteq Blob /\ delivered' \subseteq Source \X Blob
  BY <1>1 DEF IInv, TypeOK
<1> HIDE DEF f
<1> QED
  BY <1>1, <1>2, <1>3, <1>4, <1>6, <1>7, WalkStep

\* The cache decides: in memory, always for what it holds.
LEMMA CacheDecidesInv == ASSUME IInv, NEW t \in Task, CacheDecides(t) PROVE IInv'
<1> DEFINE f == fetch[t]
<1>1. /\ f.at = "cache"
      /\ UNCHANGED <<classVars, obtained, store, delivered, returned, fetch, result>>
      /\ \/ Cache!DecideHit(t, f.blob)
         \/ MayMiss(f.blob) /\ Cache!DecideMiss(t)
  BY DEF CacheDecides
<1>2. Good(f, call[t], held, SourceSet, flavour)
  BY DEF IInv, GoodOf
<1>3. PICK c \in {Cache!Found(f.blob), Cache!Missed} :
        /\ call' = [call EXCEPT ![t] = c] /\ UNCHANGED <<held, reply>>
        /\ c = Cache!Found(f.blob) => f.blob \in held
        /\ c = Cache!Missed => MayMiss(f.blob)
  <2> HIDE DEF f
  <2>1. CASE Cache!DecideHit(t, f.blob)
    BY <2>1, CallsDiffer DEF Cache!DecideHit
  <2>2. CASE MayMiss(f.blob) /\ Cache!DecideMiss(t)
    BY <2>2, CallsDiffer DEF Cache!DecideMiss
  <2> QED
    BY <1>1, <2>1, <2>2
<1>4. f.blob \in Blob /\ c \in Cache!Call
  BY <1>1, <1>2 DEF Good, Cache!Call
<1>5. Goto(t, f)
  BY <1>1 DEF Goto, IInv, TypeOK
<1>6. Good(f, c, held, SourceSet, flavour)
  <2> HIDE DEF f
  <2>1. Lookup(f, c)
    BY <1>1, <1>3 DEF Lookup
  <2>2. Remembered(f, c, held, flavour)
    BY <1>1, <1>2, <1>3, CallsDiffer DEF Good, Remembered, MayMiss
  <2> QED
    BY <1>2, <2>1, <2>2 DEF Good
<1>7. /\ reply' \in [Task -> {"none", "whole", "miss"}] /\ result' \in [Task -> Result]
      /\ obtained' \subseteq Blob /\ store' \subseteq Blob /\ delivered' \subseteq Source \X Blob
      /\ \A s \in Task : result'[s] \in {result[s], Pending}
  BY <1>1, <1>3 DEF IInv, TypeOK
<1> HIDE DEF f
<1> QED
  BY <1>1, <1>3, <1>4, <1>5, <1>6, <1>7, WalkStep

LEMMA CacheHitInv == ASSUME IInv, NEW t \in Task, CacheHit(t) PROVE IInv'
<1>1. /\ fetch[t].at = "cache" /\ Cache!ReturnHit(t)
      /\ Return(t, reply'[t], CacheTier, NoSource)
      /\ UNCHANGED <<classVars, obtained, store, delivered>>
  BY DEF CacheHit
<1>2. reply \in [Task -> {"none", "whole", "miss"}]
  BY DEF IInv, TypeOK
<1>3. /\ call' = [call EXCEPT ![t] = Cache!NoCall] /\ UNCHANGED held
      /\ reply' = [reply EXCEPT ![t] = "whole"]
      /\ call[t].step = "found"
  BY <1>1 DEF Cache!ReturnHit
<1>4. /\ reply'[t] = "whole" /\ reply' \in [Task -> {"none", "whole", "miss"}]
  BY <1>2, <1>3
<1>5. Good(fetch[t], call[t], held, SourceSet, flavour)
  BY DEF IInv, GoodOf
<1>6. call[t] = Cache!Found(fetch[t].blob)
  BY <1>1, <1>3, <1>5, CallsDiffer DEF Good, Lookup
<1>7. flavour = "memory" => fetch[t].blob \in held'
  BY <1>1, <1>3, <1>5, <1>6 DEF Good, Remembered
<1>8. CacheTier \in 0 .. NoTier /\ held' \subseteq Blob
  BY <1>3 DEF CacheTier, NoTier, IInv, TypeOK
<1> QED
  BY <1>1, <1>3, <1>4, <1>7, <1>8, ReturnStep

LEMMA CacheMissInv == ASSUME IInv, NEW t \in Task, CacheMiss(t) PROVE IInv'
<1>1. /\ fetch[t].at = "cache" /\ Cache!ReturnMiss(t)
      /\ Goto(t, [fetch[t] EXCEPT !.at = "clone"])
      /\ UNCHANGED <<classVars, obtained, store, delivered, returned, result>>
  BY DEF CacheMiss
<1>2. Good(fetch[t], call[t], held, SourceSet, flavour)
  BY DEF IInv, GoodOf
<1>3. /\ call[t] = Cache!Missed /\ call' = [call EXCEPT ![t] = Cache!NoCall]
      /\ UNCHANGED held /\ reply' = [reply EXCEPT ![t] = "miss"]
  BY <1>1 DEF Cache!ReturnMiss
<1>4. flavour = "memory" /\ fetch[t].again => FALSE
  BY <1>2, <1>3 DEF Good, Remembered
<1>5. Good([fetch[t] EXCEPT !.at = "clone"], Cache!NoCall, held, SourceSet, flavour)
  BY <1>1, <1>2, <1>4, MoveGood
<1>6. /\ reply' \in [Task -> {"none", "whole", "miss"}] /\ result' \in [Task -> Result]
      /\ obtained' \subseteq Blob /\ store' \subseteq Blob /\ delivered' \subseteq Source \X Blob
      /\ \A s \in Task : result'[s] \in {result[s], Pending}
  BY <1>1, <1>3 DEF IInv, TypeOK
<1>7. Cache!NoCall \in Cache!Call
  BY DEF Cache!Call
<1> QED
  BY <1>1, <1>3, <1>5, <1>6, <1>7, WalkStep

-----------------------------------------------------------------------------
\* The steps around the fetches

LEMMA AddSourceInv == ASSUME IInv, NEW s \in Source, AddSource(s) \/ AddDropped(s) PROVE IInv'
<1>1. /\ UNCHANGED <<flavour, sources, cacheVars, obtained, store, delivered,
                     returned, fetch, result>>
      /\ adder' \in {adder, s} /\ offered' \subseteq offered \cup {s}
  BY DEF AddSource, AddDropped, NewSource
<1>2. SourceSet' = SourceSet
  BY <1>1 DEF SourceSet
<1>3. \A t \in Task : GoodOf(t)'
  BY <1>1, <1>2, OtherStep
<1>4. TypeOK'
  BY <1>1 DEF IInv, TypeOK
<1>5. ReturnsOnlyTheBlob'
  BY <1>1 DEF IInv, ReturnsOnlyTheBlob
<1> QED
  BY <1>1, <1>3, <1>4, <1>5 DEF IInv

LEMMA AddPushInv == ASSUME IInv, AddPush PROVE IInv'
<1>1. /\ adder \in Source /\ sources \in Seq(Source)
      /\ sources' = Append(sources, adder)
      /\ offered' = offered \cup {adder} /\ adder' = NoSource
      /\ UNCHANGED <<flavour, cacheVars, obtained, store, delivered, returned, fetch, result>>
  BY DEF AddPush, IInv, TypeOK
<1>2. sources' \in Seq(Source)
  BY <1>1
<1>3. SourceSet \subseteq SourceSet'
  BY <1>1 DEF SourceSet
<1>4. \A t \in Task : GoodOf(t)'
  BY <1>1, <1>3, OtherStep
<1>5. TypeOK'
  BY <1>1, <1>2 DEF IInv, TypeOK
<1>6. ReturnsOnlyTheBlob'
  BY <1>1 DEF IInv, ReturnsOnlyTheBlob
<1> QED
  BY <1>1, <1>4, <1>5, <1>6 DEF IInv

LEMMA CacheMovesInv == ASSUME IInv, CacheMoves PROVE IInv'
<1>1. /\ flavour = "disk"
      /\ UNCHANGED <<classVars, obtained, store, delivered, returned, fetch, result>>
      /\ UNCHANGED <<call, reply>> /\ held' \subseteq Blob
  BY DEF CacheMoves, Cache!Forget, Cache!Store, IInv, TypeOK
<1>2. SourceSet' = SourceSet /\ flavour # "memory"
  BY <1>1 DEF SourceSet
<1>3. \A t \in Task : GoodOf(t)'
  BY <1>1, <1>2, OtherStep
<1>4. TypeOK'
  BY <1>1 DEF IInv, TypeOK
<1>5. ReturnsOnlyTheBlob'
  BY <1>1 DEF IInv, ReturnsOnlyTheBlob
<1> QED
  BY <1>1, <1>2, <1>3, <1>4, <1>5 DEF IInv

LEMMA AddBlobInv == ASSUME IInv, NEW h \in Blob, AddBlob(h) PROVE IInv'
<1>1. /\ store' = store \cup {h}
      /\ UNCHANGED <<cacheVars, classVars, obtained, delivered, returned, fetch, result>>
  BY DEF AddBlob
<1>2. SourceSet' = SourceSet
  BY <1>1 DEF SourceSet
<1>3. \A t \in Task : GoodOf(t)'
  BY <1>1, <1>2, OtherStep
<1>4. TypeOK'
  BY <1>1 DEF IInv, TypeOK
<1>5. ReturnsOnlyTheBlob'
  BY <1>1 DEF IInv, ReturnsOnlyTheBlob
<1> QED
  BY <1>1, <1>3, <1>4, <1>5 DEF IInv

LEMMA CancelInv == ASSUME IInv, NEW t \in Task, Cancel(t) PROVE IInv'
<1>1. /\ fetch[t].at # "idle" /\ Goto(t, NewFetch)
      /\ IF fetch[t].at = "cache" THEN Cache!Abandon(t) ELSE UNCHANGED cacheVars
      /\ UNCHANGED <<classVars, obtained, store, delivered, returned, result>>
  BY DEF Cancel
<1>2. call \in [Task -> Cache!Call] /\ reply \in [Task -> {"none", "whole", "miss"}]
  BY DEF IInv, TypeOK
<1>3. call' = [call EXCEPT ![t] = Cache!NoCall] /\ UNCHANGED <<held, reply>>
  <2>1. CASE fetch[t].at = "cache"
    BY <1>1, <2>1 DEF Cache!Abandon
  <2>2. CASE fetch[t].at # "cache"
    BY <1>1, <1>2, <2>2, Waiter
  <2> QED
    BY <2>1, <2>2
<1>4. Good(NewFetch, Cache!NoCall, held, SourceSet, flavour)
  BY NewFetchGood
<1>5. /\ reply' \in [Task -> {"none", "whole", "miss"}] /\ result' \in [Task -> Result]
      /\ obtained' \subseteq Blob /\ store' \subseteq Blob /\ delivered' \subseteq Source \X Blob
      /\ \A s \in Task : result'[s] \in {result[s], Pending}
  BY <1>1, <1>3 DEF IInv, TypeOK
<1>6. Cache!NoCall \in Cache!Call
  BY DEF Cache!Call
<1> QED
  BY <1>1, <1>3, <1>4, <1>5, <1>6, WalkStep

-----------------------------------------------------------------------------
LEMMA NextIInv == ASSUME IInv, [Next]_vars PROVE IInv'
<1>1. CASE UNCHANGED vars
  <2>1. SourceSet' = SourceSet
    BY <1>1 DEF SourceSet
  <2>2. \A t \in Task : GoodOf(t)'
    BY <1>1, <2>1, OtherStep
  <2>3. TypeOK' /\ ReturnsOnlyTheBlob'
    BY <1>1 DEF IInv, TypeOK, ReturnsOnlyTheBlob
  <2> QED
    BY <1>1, <2>2, <2>3 DEF IInv
<1>2. ASSUME NEW t \in Task, \E h \in Blob : Start(t, h) PROVE IInv'
  BY <1>2, StartInv
<1>3. ASSUME NEW t \in Task, OwnStep(t) PROVE IInv'
  BY <1>3, CacheDecidesInv, CacheHitInv, CacheMissInv, LockSourcesInv,
     CloneSourcesInv, AskInv, GiveUpInv, FinishInv DEF OwnStep
<1>4. ASSUME NEW t \in Task, Answer(t) PROVE IInv'
  BY <1>4, DialInv, ConnectInv, BodyInv, RawInv DEF Answer
<1>5. ASSUME NEW t \in Task, Cancel(t) PROVE IInv'
  BY <1>5, CancelInv
<1>6. ASSUME NEW s \in Source, AddSource(s) \/ AddDropped(s) PROVE IInv'
  BY <1>6, AddSourceInv
<1>7. ASSUME NEW h \in Blob, AddBlob(h) PROVE IInv'
  BY <1>7, AddBlobInv
<1> QED
  BY <1>1, <1>2, <1>3, <1>4, <1>5, <1>6, <1>7, AddPushInv, CacheMovesInv DEF Next

\* Every reachable state of every instance satisfies the invariant.
THEOREM Invariance == Spec => []IInv
<1>1. Init => IInv
  BY InitIInv
<1>2. IInv /\ [Next]_vars => IInv'
  BY NextIInv
<1> QED
  BY <1>1, <1>2, PTL DEF Spec

\* A fetch returns exactly the bytes of the blob it was asked for, whatever
\* the sources send: the BLAKE3 check of the chain and of the iroh store.
THEOREM FetchesAreVerified == Spec => []ReturnsOnlyTheBlob
<1>1. IInv => ReturnsOnlyTheBlob
  BY DEF IInv
<1> QED
  BY <1>1, Invariance, PTL

\* Every variable stays in its type.
THEOREM FetchTypeCorrect == Spec => []TypeOK
<1>1. IInv => TypeOK
  BY DEF IInv
<1> QED
  BY <1>1, Invariance, PTL

\* A class that caches in memory asks no source for a blob it has returned.
THEOREM MemoryRemembers == Spec => []NoSecondDownload
<1>1. IInv => NoSecondDownload
  BY DEF IInv, GoodOf, Good, Remembered, NoSecondDownload
<1> QED
  BY <1>1, Invariance, PTL

-----------------------------------------------------------------------------
\* A fetch that walks gets its result from its own end only.
LEMMA OnlyEnds ==
  ASSUME IInv, Next, NEW t \in Task, fetch[t].at = "put" \/ fetch[t].at = "next",
         result'[t] # result[t]
  PROVE  GiveUp(t) \/ Finish(t)
<1>1. result \in [Task -> Result]
  BY DEF IInv, TypeOK
<1>2. ASSUME NEW s \in Task, NEW h \in Blob, Start(s, h) PROVE FALSE
  BY <1>1, <1>2 DEF Start
<1>3. ASSUME NEW s \in Task, CacheHit(s) PROVE FALSE
  BY <1>1, <1>3 DEF CacheHit, Return
<1>4. ASSUME NEW s \in Task, s # t PROVE ~GiveUp(s) /\ ~Finish(s)
  BY <1>1, <1>4 DEF GiveUp, Finish, Return
<1>5. ASSUME NEW s \in Task, OwnStep(s) PROVE GiveUp(t) \/ Finish(t)
  BY <1>3, <1>4, <1>5 DEF OwnStep, CacheDecides, CacheMiss, LockSources, CloneSources,
     Ask, Waiting
<1>6. ASSUME NEW s \in Task, Answer(s) PROVE FALSE
  BY <1>6 DEF Answer, Dial, Connect, Body, Raw, Waiting
<1>7. ASSUME NEW s \in Task, Cancel(s) PROVE FALSE
  BY <1>7 DEF Cancel
<1>8. ~AddPush /\ ~CacheMoves /\ ~(\E h \in Blob : AddBlob(h))
  BY DEF AddPush, CacheMoves, AddBlob
<1>9. ~(\E s \in Source : AddSource(s) \/ AddDropped(s))
  BY DEF AddSource, AddDropped, NewSource
<1> QED
  BY <1>2, <1>5, <1>6, <1>7, <1>8, <1>9 DEF Next

\* However sources were added, a fetch passes by no source of a lower tier
\* than the one that served it, and fails only when all have been asked.
THEOREM ChainSkipsNothing == Spec => NoSourceSkipped
<1>1. ASSUME IInv, Next, NEW t \in Task, fetch[t].at = "put" \/ fetch[t].at = "next",
             result'[t] # result[t]
      PROVE  Cheaper(fetch[t], result'[t].report.tier) \subseteq InVain(fetch[t])
  <2> DEFINE f == fetch[t]
  <2>1. Good(f, Cache!NoCall, held, SourceSet, flavour) /\ f \in Fetching
    BY <1>1, Waiter
  <2>2. f.known \subseteq {f.chain[i] : i \in DOMAIN f.chain}
    BY <1>1, <2>1 DEF Good, Known, Walk
  <2>3. CASE GiveUp(t)
    <3>1. DOMAIN f.chain \subseteq f.tried
      BY <2>3 DEF GiveUp, Untried
    <3> QED
      BY <2>2, <3>1 DEF Cheaper, InVain
  <2>4. CASE Finish(t)
    <3>1. f.at = "put" /\ Return(t, f.got, Tier[Asked(f)], PeerOf(Asked(f)))
      BY <2>4 DEF Finish
    <3>2. result'[t].report.tier = Tier[Asked(f)]
      BY <1>1, <3>1 DEF Return, IInv, TypeOK
    <3>3. \A j \in DOMAIN f.chain : Tier[f.chain[j]] < Tier[Asked(f)] => j \in f.tried
      BY <2>1, <3>1 DEF Good, Cheapest
    <3> HIDE DEF f
    <3>4. Cheaper(f, Tier[Asked(f)]) \subseteq InVain(f)
      BY <2>2, <3>3 DEF Cheaper, InVain
    <3> QED
      BY <3>2, <3>4 DEF f
  <2> QED
    BY <1>1, <2>3, <2>4, OnlyEnds
<1>2. IInv /\ [Next]_vars =>
        [\A t \in Task :
          (fetch[t].at = "put" \/ fetch[t].at = "next") /\ result'[t] # result[t] =>
              Cheaper(fetch[t], result'[t].report.tier) \subseteq InVain(fetch[t])]_vars
  BY <1>1
<1> QED
  BY <1>2, Invariance, PTL DEF Spec, NoSourceSkipped

-----------------------------------------------------------------------------
(***************************************************************************)
(* What is safety in "a fetch ends": every step of a fetch brings it       *)
(* closer to its end.  The stages come in one order, and within the walk   *)
(* each source takes at most three steps: it is asked, it answers, and for *)
(* the CDN the body ends.  A source that has been passed by must not come  *)
(* back (Fresh), or the walk could go round.                               *)
(***************************************************************************)
FreshOf(t) == fetch[t].at \in Waits => fetch[t].asking \in Untried(fetch[t])
Fresh      == \A t \in Task : FreshOf(t)

Stage(f, c) ==
    CASE f.at = "cache"   -> IF c = Cache!Asked(f.blob) THEN 6 ELSE 5
      [] f.at = "clone"   -> 4
      [] f.at = "cloning" -> 3
      [] f.at = "put"     -> 1
      [] f.at = "idle"    -> 0
      [] OTHER            -> 2
Leg(f)      == IF f.at = "next" THEN 0 ELSE IF f.at = "body" THEN 2 ELSE 1
WorkLeft(f) == 3 * Cardinality(Untried(f)) - Leg(f)

Now(t)    == <<fetch[t], call[t]>>
Closer(t) == \/ Stage(fetch'[t], call'[t]) < Stage(fetch[t], call[t])
             \/ /\ fetch[t].at \in Waits \cup {"next"} /\ fetch'[t].at \in Waits \cup {"next"}
                /\ WorkLeft(fetch'[t]) \in Nat
                /\ WorkLeft(fetch'[t]) < WorkLeft(fetch[t])
RunDown   == \A t \in Task : fetch[t].at # "idle" /\ Now(t)' # Now(t) => Closer(t)

\* A step leaves the tasks alone, or is the step of one of them.
LEMMA OneTask ==
  ASSUME IInv, Next, NEW t \in Task, Now(t)' # Now(t)
  PROVE  \/ \E h \in Blob : Start(t, h)
         \/ OwnStep(t) \/ Answer(t) \/ Cancel(t)
<1>1. fetch \in [Task -> Fetching] /\ call \in [Task -> Cache!Call]
  BY DEF IInv, TypeOK
<1> DEFINE Only(s) == fetch' = [fetch EXCEPT ![s] = fetch'[s]] /\ call' = [call EXCEPT ![s] = call'[s]]
<1>2. ASSUME NEW s \in Task, Only(s) PROVE s = t
  BY <1>1, <1>2 DEF Now
<1>3. ASSUME NEW s \in Task, NEW f, Goto(s, f) PROVE fetch' = [fetch EXCEPT ![s] = fetch'[s]]
  BY <1>1, <1>3 DEF Goto
<1>4. call' = call => \A s \in Task : call' = [call EXCEPT ![s] = call'[s]]
  BY <1>1
<1>5. fetch' = fetch => \A s \in Task : fetch' = [fetch EXCEPT ![s] = fetch'[s]]
  BY <1>1
<1>6. ASSUME NEW s \in Task, NEW c, call' = [call EXCEPT ![s] = c]
      PROVE  call' = [call EXCEPT ![s] = call'[s]]
  BY <1>1, <1>6
<1>7. ASSUME NEW s \in Task, NEW h \in Blob, Start(s, h) PROVE Only(s)
  BY <1>3, <1>4, <1>6, <1>7 DEF Start, Cache!Ask, Cache!MissAtOnce
<1>8. ASSUME NEW s \in Task, OwnStep(s) PROVE Only(s)
  <2>1. ASSUME CacheDecides(s) PROVE Only(s)
    BY <1>5, <1>6, <2>1 DEF CacheDecides, Cache!DecideHit, Cache!DecideMiss
  <2>2. ASSUME CacheHit(s) \/ CacheMiss(s) PROVE Only(s)
    BY <1>3, <1>6, <2>2 DEF CacheHit, CacheMiss, Return, Cache!ReturnHit, Cache!ReturnMiss
  <2>3. ASSUME LockSources(s) \/ CloneSources(s) PROVE Only(s)
    BY <1>3, <1>4, <2>3 DEF LockSources, CloneSources
  <2>4. ASSUME Ask(s) PROVE Only(s)
    BY <1>3, <1>4, <2>4 DEF Ask, Waiting
  <2>5. ASSUME GiveUp(s) PROVE Only(s)
    BY <1>3, <1>4, <2>5 DEF GiveUp, Return
  <2>6. ASSUME Finish(s) PROVE Only(s)
    BY <1>3, <1>4, <2>6 DEF Finish, Put, Cache!Store, Return
  <2> QED
    BY <1>8, <2>1, <2>2, <2>3, <2>4, <2>5, <2>6 DEF OwnStep
<1>9. ASSUME NEW s \in Task, Answer(s) PROVE Only(s)
  BY <1>3, <1>4, <1>9 DEF Answer, Dial, Connect, Body, Raw, Waiting, Receive, Skip
<1>10. ASSUME NEW s \in Task, Cancel(s) PROVE Only(s)
  BY <1>3, <1>4, <1>6, <1>10 DEF Cancel, Cache!Abandon
<1>11. ASSUME UNCHANGED <<fetch, call>> PROVE FALSE
  BY <1>11 DEF Now
<1>12. ~AddPush /\ ~CacheMoves /\ ~(\E h \in Blob : AddBlob(h))
  BY <1>11 DEF AddPush, CacheMoves, AddBlob, Cache!Forget, Cache!Store
<1>13. ~(\E s \in Source : AddSource(s) \/ AddDropped(s))
  BY <1>11 DEF AddSource, AddDropped, NewSource
<1> HIDE DEF Only
<1> QED
  BY <1>2, <1>7, <1>8, <1>9, <1>10, <1>12, <1>13 DEF Next

LEMMA UntriedFinite ==
  ASSUME NEW f \in Fetching
  PROVE  IsFiniteSet(Untried(f)) /\ Cardinality(Untried(f)) \in Nat
<1>1. f.chain \in Seq(Source) /\ DOMAIN f.chain = 1 .. Len(f.chain) /\ Len(f.chain) \in Nat
  BY DEF Fetching
<1>2. IsFiniteSet(DOMAIN f.chain)
  BY <1>1, FS_Interval
<1> QED
  BY <1>2, FS_Subset, FS_CardinalityType DEF Untried

\* A source that is left behind is one less.
LEMMA SkipWork ==
  ASSUME NEW f \in Fetching, f.at \in Waits, f.asking \in Untried(f)
  PROVE  /\ NextInChain(f).at = "next"
         /\ WorkLeft(NextInChain(f)) \in Nat /\ WorkLeft(NextInChain(f)) < WorkLeft(f)
<1> DEFINE g == NextInChain(f)
<1>1. g.at = "next" /\ g.chain = f.chain /\ g.tried = f.tried \cup {f.asking}
  BY DEF NextInChain, Fetching
<1>2. Untried(g) = Untried(f) \ {f.asking}
  BY <1>1 DEF Untried
<1>3. /\ Cardinality(Untried(f)) \in Nat /\ Cardinality(Untried(g)) \in Nat
      /\ Cardinality(Untried(g)) = Cardinality(Untried(f)) - 1
  <2>1. IsFiniteSet(Untried(f)) /\ Cardinality(Untried(f)) \in Nat
    BY UntriedFinite
  <2>2. Cardinality(Untried(g)) = Cardinality(Untried(f)) - 1
    BY <1>2, <2>1, FS_RemoveElement
  <2>3. IsFiniteSet(Untried(g))
    BY <1>2, <2>1, FS_Subset
  <2> QED
    BY <2>1, <2>2, <2>3, FS_CardinalityType
<1>4. Leg(f) \in 1 .. 2 /\ Leg(g) = 0
  BY <1>1 DEF Leg, Waits
<1> HIDE DEF g
<1>5. WorkLeft(g) \in Nat /\ WorkLeft(g) < WorkLeft(f)
  BY <1>3, <1>4 DEF WorkLeft
<1> QED
  BY <1>1, <1>5 DEF g

\* To ask a source, and to have its headers, is a step of its three.
LEMMA LegWork ==
  ASSUME NEW f \in Fetching, NEW g, g.chain = f.chain, g.tried = f.tried,
         g.asking \in Untried(f), f.at \in Waits \cup {"next"}, g.at \in Waits,
         Leg(g) > Leg(f)
  PROVE  WorkLeft(g) \in Nat /\ WorkLeft(g) < WorkLeft(f) /\ g.asking \in Untried(g)
<1>1. Untried(g) = Untried(f)
  BY DEF Untried
<1>2. IsFiniteSet(Untried(f)) /\ Cardinality(Untried(f)) \in Nat
  BY UntriedFinite
<1>3. Cardinality(Untried(f)) # 0
  BY <1>2, FS_EmptySet
<1>4. Leg(f) \in 0 .. 2 /\ Leg(g) \in 0 .. 2
  BY DEF Leg
<1> QED
  BY <1>1, <1>2, <1>3, <1>4 DEF WorkLeft

\* Where a task stands after Goto, and that its lookup is what it was.
LEMMA GoneTo ==
  ASSUME IInv, NEW t \in Task, NEW f, Goto(t, f)
  PROVE  fetch'[t] = f
BY DEF IInv, TypeOK, Goto

LEMMA SkipCloser ==
  ASSUME IInv, NEW t \in Task, FreshOf(t), fetch[t].at \in Waits, Skip(t)
  PROVE  Closer(t) /\ FreshOf(t)'
<1>1. fetch[t] \in Fetching /\ fetch'[t] = NextInChain(fetch[t])
  BY GoneTo DEF IInv, TypeOK, Skip
<1>2. /\ fetch'[t].at = "next"
      /\ WorkLeft(fetch'[t]) \in Nat /\ WorkLeft(fetch'[t]) < WorkLeft(fetch[t])
  BY <1>1, SkipWork DEF FreshOf
<1> QED
  BY <1>2 DEF Closer, FreshOf, Waits

LEMMA ReceiveCloser ==
  ASSUME IInv, NEW t \in Task, FreshOf(t), fetch[t].at \in Waits, NEW bytes, Receive(t, bytes)
  PROVE  Closer(t) /\ FreshOf(t)'
<1>1. CASE Skip(t)
  BY <1>1, SkipCloser
<1>2. CASE Goto(t, [fetch[t] EXCEPT !.at = "put", !.got = bytes])
  <2>1. fetch'[t].at = "put"
    <3>1. fetch[t] \in Fetching /\ fetch'[t] = [fetch[t] EXCEPT !.at = "put", !.got = bytes]
      BY <1>2, GoneTo DEF IInv, TypeOK
    <3> QED
      BY <3>1 DEF Fetching
  <2>2. Stage(fetch'[t], call'[t]) = 1 /\ Stage(fetch[t], call[t]) = 2
    BY <2>1 DEF Stage, Waits
  <2> QED
    BY <2>1, <2>2 DEF Closer, FreshOf, Waits
<1> QED
  BY <1>1, <1>2 DEF Receive

LEMMA AnswerCloser ==
  ASSUME IInv, NEW t \in Task, FreshOf(t), Answer(t)
  PROVE  Closer(t) /\ FreshOf(t)'
<1>1. fetch[t].at \in Waits
  BY DEF Answer, Dial, Connect, Body, Raw, Waiting, Waits
<1>2. ASSUME fetch[t].at = "connect", Goto(t, [fetch[t] EXCEPT !.at = "body"])
      PROVE  Closer(t) /\ FreshOf(t)'
  <2>1. fetch[t] \in Fetching /\ fetch'[t] = [fetch[t] EXCEPT !.at = "body"]
    BY <1>2, GoneTo DEF IInv, TypeOK
  <2>2. /\ fetch'[t].at = "body" /\ fetch'[t].asking = fetch[t].asking
        /\ fetch'[t].chain = fetch[t].chain /\ fetch'[t].tried = fetch[t].tried
    BY <2>1 DEF Fetching
  <2>3. Leg(fetch'[t]) > Leg(fetch[t])
    BY <1>2, <2>2 DEF Leg
  <2>4. /\ WorkLeft(fetch'[t]) \in Nat /\ WorkLeft(fetch'[t]) < WorkLeft(fetch[t])
        /\ fetch'[t].asking \in Untried(fetch'[t])
    BY <1>1, <2>1, <2>2, <2>3, LegWork DEF FreshOf, Waits
  <2> QED
    BY <1>1, <2>2, <2>4 DEF Closer, FreshOf, Waits
<1> QED
  BY <1>1, <1>2, SkipCloser, ReceiveCloser DEF Answer, Dial, Connect, Body, Raw, Waiting

LEMMA AskCloser ==
  ASSUME IInv, NEW t \in Task, FreshOf(t), Ask(t)
  PROVE  Closer(t) /\ FreshOf(t)'
<1> DEFINE f == fetch[t]
<1>1. f.at = "next" /\ f \in Fetching /\ Stage(f, call[t]) = 2
  BY DEF Ask, Waiting, IInv, TypeOK, Stage
<1>2. PICK i \in NextUp(f) :
        \/ Goto(t, [[f EXCEPT !.asking = i] EXCEPT !.at = "put", !.got = "whole"])
        \/ \E at \in Waits \ {"body"} : Goto(t, [[f EXCEPT !.asking = i] EXCEPT !.at = at])
  <2>1. \A i \in NextUp(f) : Kind[f.chain[i]] \in Kinds
    BY <1>1, KindAssumption DEF Fetching, NextUp, Untried
  <2> QED
    BY <2>1 DEF Ask, Kinds, Waits
<1>3. i \in Untried(f)
  BY DEF NextUp
<1>4. CASE Goto(t, [[f EXCEPT !.asking = i] EXCEPT !.at = "put", !.got = "whole"])
  <2>1. fetch'[t].at = "put"
    BY <1>1, <1>4, GoneTo DEF Fetching
  <2>2. Stage(fetch'[t], call'[t]) = 1
    BY <2>1 DEF Stage
  <2> QED
    BY <1>1, <2>1, <2>2 DEF Closer, FreshOf, Waits
<1>5. CASE \E at \in Waits \ {"body"} : Goto(t, [[f EXCEPT !.asking = i] EXCEPT !.at = at])
  <2>1. PICK at \in Waits \ {"body"} : Goto(t, [[f EXCEPT !.asking = i] EXCEPT !.at = at])
    BY <1>5
  <2>2. /\ fetch'[t].at = at /\ fetch'[t].asking = i
        /\ fetch'[t].chain = f.chain /\ fetch'[t].tried = f.tried
    <3>1. fetch'[t] = [[f EXCEPT !.asking = i] EXCEPT !.at = at]
      BY <2>1, GoneTo
    <3> QED
      BY <1>1, <3>1 DEF Fetching
  <2>3. Leg(fetch'[t]) > Leg(f)
    BY <1>1, <2>2 DEF Leg, Waits
  <2>4. /\ WorkLeft(fetch'[t]) \in Nat /\ WorkLeft(fetch'[t]) < WorkLeft(f)
        /\ fetch'[t].asking \in Untried(fetch'[t])
    BY <1>1, <1>3, <2>2, <2>3, LegWork
  <2> QED
    BY <1>1, <2>2, <2>4 DEF Closer, FreshOf
<1> QED
  BY <1>2, <1>4, <1>5

\* The lookup, the clone and the end.
LEMMA StagesCloser ==
  ASSUME IInv, NEW t \in Task, Now(t)' # Now(t),
         \/ CacheDecides(t) \/ CacheHit(t) \/ CacheMiss(t)
         \/ LockSources(t) \/ CloneSources(t) \/ GiveUp(t) \/ Finish(t) \/ Cancel(t)
  PROVE  Closer(t) /\ FreshOf(t)'
<1> DEFINE f == fetch[t]
           g == fetch'[t]
<1>1. /\ f \in Fetching /\ Good(f, call[t], held, SourceSet, flavour)
      /\ call \in [Task -> Cache!Call]
  BY DEF IInv, TypeOK, GoodOf
<1>2. ASSUME Goto(t, NewFetch), f.at # "idle" PROVE Closer(t) /\ FreshOf(t)'
  <2>1. g.at = "idle"
    BY <1>2, GoneTo DEF NewFetch
  <2>2. Stage(g, call'[t]) = 0 /\ Stage(f, call[t]) > 0
    BY <1>2, <2>1 DEF Stage
  <2> QED
    BY <2>1, <2>2 DEF Closer, FreshOf, Waits
<1>3. CASE CacheDecides(t)
  <2>1. g = f /\ f.at = "cache"
    BY <1>3 DEF CacheDecides
  <2>2. call[t] = Cache!Asked(f.blob)
    <3>1. call[t] \in {Cache!Asked(f.blob), Cache!Found(f.blob), Cache!Missed}
      BY <1>1, <2>1 DEF Good, Lookup
    <3>2. call[t] = Cache!Asked(f.blob) \/ call[t].step = "asked"
      BY <1>3 DEF CacheDecides, Cache!DecideHit, Cache!DecideMiss
    <3> QED
      BY <3>1, <3>2, CallsDiffer
  <2>3. call'[t] # Cache!Asked(f.blob)
    BY <2>1, <2>2 DEF Now
  <2>4. Stage(f, call[t]) = 6 /\ Stage(g, call'[t]) = 5
    BY <2>1, <2>2, <2>3 DEF Stage
  <2> QED
    BY <2>1, <2>4 DEF Closer, FreshOf, Waits
<1>4. CASE CacheMiss(t)
  <2>1. f.at = "cache" /\ g = [f EXCEPT !.at = "clone"]
    BY <1>4, GoneTo DEF CacheMiss
  <2>2. g.at = "clone"
    BY <1>1, <2>1 DEF Fetching
  <2>3. Stage(f, call[t]) > 4 /\ Stage(g, call'[t]) = 4
    BY <2>1, <2>2 DEF Stage
  <2> QED
    BY <2>2, <2>3 DEF Closer, FreshOf, Waits
<1>5. CASE LockSources(t)
  <2>1. f.at = "clone" /\ g = [f EXCEPT !.at = "cloning"]
    BY <1>5, GoneTo DEF LockSources
  <2>2. g.at = "cloning"
    BY <1>1, <2>1 DEF Fetching
  <2>3. Stage(f, call[t]) = 4 /\ Stage(g, call'[t]) = 3
    BY <2>1, <2>2 DEF Stage
  <2> QED
    BY <2>2, <2>3 DEF Closer, FreshOf, Waits
<1>6. CASE CloneSources(t)
  <2>1. f.at = "cloning" /\ g = [f EXCEPT !.at = "next", !.chain = sources]
    BY <1>6, GoneTo DEF CloneSources
  <2>2. g.at = "next"
    BY <1>1, <2>1 DEF Fetching
  <2>3. Stage(f, call[t]) = 3 /\ Stage(g, call'[t]) = 2
    BY <2>1, <2>2 DEF Stage
  <2> QED
    BY <2>2, <2>3 DEF Closer, FreshOf, Waits
<1> QED
  BY <1>2, <1>3, <1>4, <1>5, <1>6 DEF CacheHit, GiveUp, Finish, Cancel, Return

LEMMA NextRunsDown ==
  ASSUME IInv, Fresh, [Next]_vars
  PROVE  Fresh' /\ RunDown
<1> SUFFICES ASSUME NEW t \in Task
             PROVE  FreshOf(t)' /\ (fetch[t].at # "idle" /\ Now(t)' # Now(t) => Closer(t))
  BY DEF Fresh, RunDown
<1>1. FreshOf(t)
  BY DEF Fresh
<1>2. CASE Now(t)' = Now(t)
  <2>1. fetch'[t] = fetch[t]
    BY <1>2 DEF Now
  <2> QED
    BY <1>1, <1>2, <2>1 DEF FreshOf, Untried
<1>3. CASE Now(t)' # Now(t)
  <2>1. Next
    BY <1>3 DEF Now
  <2>2. ASSUME NEW h \in Blob, Start(t, h) PROVE fetch[t].at = "idle" /\ FreshOf(t)'
    <3> DEFINE f == [NewFetch EXCEPT !.blob = h, !.known = SourceSet, !.again = h \in returned]
    <3>1. PICK at \in {"cache", "clone"} : Goto(t, [f EXCEPT !.at = at])
      BY <2>2 DEF Start
    <3>2. fetch'[t] = [f EXCEPT !.at = at]
      BY <3>1, GoneTo
    <3>3. fetch'[t].at = at
      BY <3>2 DEF NewFetch
    <3> QED
      BY <2>2, <3>3 DEF Start, FreshOf, Waits
  <2> QED
    BY <1>1, <1>3, <2>1, <2>2, OneTask, StagesCloser, AskCloser, AnswerCloser DEF OwnStep
<1> QED
  BY <1>2, <1>3

\* A fetch never turns back: for any chain, whatever the sources answer and
\* whoever adds one meanwhile, each of its steps leaves it fewer to go, so that
\* no source is asked twice and nothing but a source that never answers, or a
\* lock, can keep it from its end (source.rs:136-154).
THEOREM FetchesRunDown == Spec => [][RunDown]_vars
<1>1. Init => IInv /\ Fresh
  <2>1. Init => Fresh
    BY DEF Init, Fresh, FreshOf, NewFetch, Waits
  <2> QED
    BY <2>1, InitIInv
<1>2. IInv /\ Fresh /\ [Next]_vars => IInv' /\ Fresh' /\ RunDown
  BY NextIInv, NextRunsDown
<1> QED
  BY <1>1, <1>2, PTL DEF Spec

-----------------------------------------------------------------------------
\* The fetches use the cache by its contract, the one that DiskCache is proved
\* to keep: what they do to it, taken together, is a behaviour of ContentCache
\* (lib.rs:436-461).
THEOREM CacheByContract == Spec => Cache!Spec
<1>1. Init => IInv /\ Cache!Init
  BY InitIInv DEF Init
<1>2. IInv /\ [Next]_vars => IInv'
  BY NextIInv
<1>3. IInv /\ [Next]_vars => [Cache!Next]_(Cache!vars)
  <2> SUFFICES ASSUME IInv, Next, ~UNCHANGED cacheVars PROVE Cache!Next
    BY DEF Cache!vars
  <2>1. ASSUME NEW t \in Task, NEW h \in Blob, Start(t, h) PROVE Cache!Next
    BY <2>1 DEF Start, Cache!Next
  <2>2. ASSUME NEW t \in Task, CacheDecides(t) PROVE Cache!Next
    <3>1. fetch[t].blob \in Blob
      BY <2>2 DEF CacheDecides, IInv, GoodOf, Good
    <3> QED
      BY <2>2, <3>1 DEF CacheDecides, Cache!Next
  <2>3. ASSUME NEW t \in Task, CacheHit(t) \/ CacheMiss(t) PROVE Cache!Next
    BY <2>3 DEF CacheHit, CacheMiss, Cache!Next
  <2>4. ASSUME NEW t \in Task, Finish(t) PROVE Cache!Next
    <3>1. fetch[t].blob \in Blob
      BY <2>4 DEF Finish, IInv, GoodOf, Good
    <3> QED
      BY <2>4, <3>1 DEF Finish, Put, Cache!Next
  <2>5. ASSUME NEW t \in Task, Cancel(t) PROVE Cache!Next
    BY <2>5 DEF Cancel, Cache!Next
  <2>6. ASSUME CacheMoves PROVE Cache!Next
    BY <2>6 DEF CacheMoves, Cache!Next, IInv, TypeOK
  <2>7. ASSUME NEW t \in Task,
               \/ LockSources(t) \/ CloneSources(t) \/ Ask(t) \/ GiveUp(t) \/ Answer(t)
        PROVE  FALSE
    BY <2>7 DEF LockSources, CloneSources, Ask, GiveUp, Answer, Dial, Connect, Body, Raw, Waiting
  <2>8. ~AddPush /\ ~(\E h \in Blob : AddBlob(h))
    BY DEF AddPush, AddBlob
  <2>9. ~(\E s \in Source : AddSource(s) \/ AddDropped(s))
    BY DEF AddSource, AddDropped, NewSource
  <2> QED
    BY <2>1, <2>2, <2>3, <2>4, <2>5, <2>6, <2>7, <2>8, <2>9 DEF Next, OwnStep
<1> QED
  BY <1>1, <1>2, <1>3, PTL DEF Spec, Cache!Spec
=============================================================================
