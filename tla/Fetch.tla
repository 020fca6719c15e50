-------------------------------- MODULE Fetch --------------------------------
(***************************************************************************)
(* Fetching a blob of one asset class: AssetClass::fetch_bytes_reported    *)
(* (crates/xlb/src/lib.rs), the FetchChain it walks (source.rs) and the    *)
(* sources it asks (transport/blobs.rs, transport/http.rs), while other    *)
(* tasks fetch and add sources.                                            *)
(*                                                                         *)
(* The cache is used through its contract, ContentCache, which DiskCache   *)
(* implements; the in-memory cache is the same contract with nothing ever  *)
(* forgotten.  A fetch moves from one await to the next.                   *)
(***************************************************************************)
EXTENDS Integers, Sequences

CONSTANTS Blob,
          Task,       \* the callers of Asset::fetch
          Source,     \* the sources that may be added, each once
          Kind,       \* Kind[s]: an iroh "peer", the HTTP "cdn", or another
                      \* BlobSource, whose "raw" bytes nobody has verified
          Tier,       \* Tier[s]: its FetchTier, 1 (Lan) to 4 (Cdn)
          NoSource, NoBlob

Kinds     == {"peer", "cdn", "raw"}
CacheTier == 0
NoTier    == 5              \* tier: None, the blob was not obtained

ASSUME KindAssumption == Kind \in [Source -> Kinds]
ASSUME TierAssumption == Tier \in [Source -> 1 .. 4]
ASSUME NoneAssumption == NoSource \notin Source /\ NoBlob \notin Blob

VARIABLES held, call, reply,    \* the cache, see ContentCache
          flavour,      \* "memory" or "disk": config.cache_dir is None or Some
          obtained,     \* blobs handed to Cache::put, which may still be at work
          sources,      \* ClassInner::sources
          adder,        \* the source whose add_source holds the write lock
          offered,      \* sources whose add_source has returned
          store,        \* the blobs in the transport's MemStore
          delivered,    \* <<s, h>>: peer s has sent blob h to this node
          returned,     \* blobs that some fetch has returned
          fetch,        \* the fetch each task is in
          result        \* what the last fetch of each task returned

cacheVars == <<held, call, reply>>
classVars == <<flavour, sources, adder, offered>>
vars == <<cacheVars, classVars, obtained, store, delivered, returned, fetch, result>>

Cache == INSTANCE ContentCache

Bytes    == {"whole", "rotten"}     \* the bytes of the blob, or other bytes
Waits    == {"dial", "connect", "body", "raw"}      \* for a source
Steps    == {"idle", "cache", "clone", "cloning", "next", "put"} \cup Waits
Fetching == [at : Steps,
             blob : Blob \cup {NoBlob},
             chain : Seq(Source),           \* the sources as they were cloned
             tried : SUBSET (Nat \ {0}),    \* positions asked in vain
             asking : Nat,                  \* position being asked, or that served
             got : Bytes \cup {"none"},     \* the verified bytes, hit.bytes
             known : SUBSET Source,         \* the sources when the fetch began
             again : BOOLEAN]               \* the blob had been returned before
Report   == [hash : Blob \cup {NoBlob}, tier : 0 .. NoTier,
             peer : Source \cup {NoSource}]
NoReport == [hash |-> NoBlob, tier |-> NoTier, peer |-> NoSource]
Result   == [value : Bytes \cup {"none", "failed"}, report : Report]

NewFetch == [at |-> "idle", blob |-> NoBlob, chain |-> << >>, tried |-> {},
             asking |-> 0, got |-> "none", known |-> {}, again |-> FALSE]
Pending  == [value |-> "none", report |-> NoReport]

SourceSet == {sources[i] : i \in DOMAIN sources}
Asked(f)  == f.chain[f.asking]      \* the source being asked

-----------------------------------------------------------------------------
\* AssetClass::register wires at most the CDN; the cache may hold anything an
\* earlier run of a disk cache left.
Init ==
    /\ Cache!Init
    /\ flavour \in {"memory", "disk"}
    /\ flavour = "memory" => held = {}
    /\ sources \in {<< >>} \cup {<<s>> : s \in {c \in Source : Kind[c] = "cdn"}}
    /\ adder = NoSource
    /\ offered = {}
    /\ obtained = {} /\ store = {} /\ delivered = {} /\ returned = {}
    /\ fetch = [t \in Task |-> NewFetch]
    /\ result = [t \in Task |-> Pending]

Goto(t, f) == fetch' = [fetch EXCEPT ![t] = f]

\* A fetch returns: AssetClass::report tells the observer on every path.
Return(t, value, tier, peer) ==
    /\ Goto(t, NewFetch)
    /\ result' = [result EXCEPT ![t] =
                    [value  |-> value,
                     report |-> [hash |-> fetch[t].blob, tier |-> tier, peer |-> peer]]]
    /\ returned' = IF value \in Bytes THEN returned \cup {fetch[t].blob} ELSE returned

\* Cache::get may miss what it holds only if it is on disk.
MayMiss(h) == flavour = "disk" \/ h \notin held

-----------------------------------------------------------------------------
\* 1. The local cache
Start(t, h) ==
    /\ fetch[t].at = "idle"
    /\ LET f == [NewFetch EXCEPT !.blob = h, !.known = SourceSet,
                                 !.again = h \in returned]
       IN  \/ Cache!Ask(t, h) /\ Goto(t, [f EXCEPT !.at = "cache"])
           \/ MayMiss(h) /\ Cache!MissAtOnce(t) /\ Goto(t, [f EXCEPT !.at = "clone"])
    /\ result' = [result EXCEPT ![t] = Pending]
    /\ UNCHANGED <<classVars, obtained, store, delivered, returned>>

CacheDecides(t) ==
    /\ fetch[t].at = "cache"
    /\ \/ Cache!DecideHit(t, fetch[t].blob)
       \/ MayMiss(fetch[t].blob) /\ Cache!DecideMiss(t)
    /\ UNCHANGED <<classVars, obtained, store, delivered, returned, fetch, result>>

CacheHit(t) ==
    /\ fetch[t].at = "cache"
    /\ Cache!ReturnHit(t)
    /\ Return(t, reply'[t], CacheTier, NoSource)
    /\ UNCHANGED <<classVars, obtained, store, delivered>>

CacheMiss(t) ==
    /\ fetch[t].at = "cache"
    /\ Cache!ReturnMiss(t)
    /\ Goto(t, [fetch[t] EXCEPT !.at = "clone"])
    /\ UNCHANGED <<classVars, obtained, store, delivered, returned, result>>

\* 2. The source handles, cloned under the read lock
LockSources(t) ==
    /\ fetch[t].at = "clone" /\ adder = NoSource
    /\ Goto(t, [fetch[t] EXCEPT !.at = "cloning"])
    /\ UNCHANGED <<cacheVars, classVars, obtained, store, delivered, returned, result>>

CloneSources(t) ==
    /\ fetch[t].at = "cloning"
    /\ Goto(t, [fetch[t] EXCEPT !.at = "next", !.chain = sources])
    /\ UNCHANGED <<cacheVars, classVars, obtained, store, delivered, returned, result>>

(***************************************************************************)
(* 3. FetchChain: a stable sort by tier, then a walk.  The walk is at the  *)
(* position whose tier is the least of those not tried, and among equals   *)
(* the one that was added first.                                           *)
(***************************************************************************)
Untried(f) == DOMAIN f.chain \ f.tried
AsAdded(f, i, j) == i <= j
Before(f, i, j)  == \/ Tier[f.chain[i]] < Tier[f.chain[j]]
                    \/ Tier[f.chain[i]] = Tier[f.chain[j]] /\ i <= j
NextUp(f) == {i \in Untried(f) : \A j \in Untried(f) : Before(f, i, j)}

\* hash.verify in the chain, and the end of the HTTP fetcher's Verifier
verifyNothing(bytes) == TRUE
verify(bytes)        == bytes = "whole"

\* A source has no answer, or not the right one: on to the next.
AskAgain(f)    == [f EXCEPT !.at = "next", !.asking = 0]
OffByOne(f)    == [f EXCEPT !.at = "next", !.tried = @ \cup {f.asking - 1}, !.asking = 0]
NextInChain(f) == [f EXCEPT !.at = "next", !.tried = @ \cup {f.asking}, !.asking = 0]
Skip(t) == /\ Goto(t, NextInChain(fetch[t]))
           /\ UNCHANGED obtained

Receive(t, bytes) ==
    IF verify(bytes)
    THEN /\ Goto(t, [fetch[t] EXCEPT !.at = "put", !.got = bytes])
         /\ obtained' = obtained \cup {fetch[t].blob}
    ELSE Skip(t)

Waiting(t, s) == /\ fetch[t].at = s
                 /\ UNCHANGED <<cacheVars, classVars, returned, result>>

InStore(t, s) == Kind[s] = "peer" /\ fetch[t].blob \in store

Ask(t) ==
    /\ Waiting(t, "next")
    /\ \E i \in NextUp(fetch[t]) :
          LET s == fetch[t].chain[i]
              f == [fetch[t] EXCEPT !.asking = i]
          IN  \/ /\ InStore(t, s)
                 /\ Goto(t, [f EXCEPT !.at = "put", !.got = "whole"])
                 /\ obtained' = obtained \cup {f.blob}
              \/ /\ ~InStore(t, s)
                 /\ Goto(t, [f EXCEPT !.at = CASE Kind[s] = "raw"  -> "raw"
                                               [] Kind[s] = "cdn"  -> "connect"
                                               [] Kind[s] = "peer" -> "dial"])
                 /\ UNCHANGED obtained
    /\ UNCHANGED <<store, delivered>>

\* IrohFetcher: connect and fetch into the local store, which verifies.  The
\* peer sends only what the store lacks.
Dial(t) ==
    /\ Waiting(t, "dial")
    /\ \/ Skip(t) /\ UNCHANGED <<store, delivered>>
       \/ LET h == fetch[t].blob
          IN  /\ \/ delivered' = delivered \cup {<<Asked(fetch[t]), h>>}
                 \/ h \in store /\ UNCHANGED delivered
              /\ store' = store \cup {h}
              /\ Receive(t, "whole")

\* HttpFetcher: no connection, or another status than 2xx
Connect(t) ==
    /\ Waiting(t, "connect")
    /\ \/ Skip(t)
       \/ Goto(t, [fetch[t] EXCEPT !.at = "body"]) /\ UNCHANGED obtained
    /\ UNCHANGED <<store, delivered>>

\* HttpFetcher: the body breaks off, or ends as any bytes
Body(t) ==
    /\ Waiting(t, "body")
    /\ Skip(t) \/ \E bytes \in Bytes : Receive(t, bytes)
    /\ UNCHANGED <<store, delivered>>

\* Any other source: nothing, or any bytes
Raw(t) ==
    /\ Waiting(t, "raw")
    /\ Skip(t) \/ \E bytes \in Bytes : Receive(t, bytes)
    /\ UNCHANGED <<store, delivered>>

GiveUp(t) ==
    /\ fetch[t].at = "next"
    /\ Untried(fetch[t]) = {}
    /\ Return(t, "failed", NoTier, NoSource)
    /\ UNCHANGED <<cacheVars, classVars, obtained, store, delivered>>

\* 4. Cache::put, whose failure only leaves the cache as it is, and the end
PutSkipped(h) == UNCHANGED cacheVars
Put(h) == IF flavour = "memory" THEN Cache!Store(h) ELSE UNCHANGED cacheVars

PeerOf(s) == IF Kind[s] = "peer" THEN s ELSE NoSource

Finish(t) ==
    /\ fetch[t].at = "put"
    /\ Put(fetch[t].blob)
    /\ LET s == Asked(fetch[t])
       IN  Return(t, fetch[t].got, Tier[s], PeerOf(s))
    /\ UNCHANGED <<classVars, obtained, store, delivered>>

\* What the disk cache does by itself: its puts take effect before, at or
\* after the end of the fetch, and it forgets at any time.
CacheMoves ==
    /\ flavour = "disk"
    /\ Cache!Forget \/ \E h \in obtained : Cache!Store(h)
    /\ UNCHANGED <<classVars, obtained, store, delivered, returned, fetch, result>>

-----------------------------------------------------------------------------
\* add_source tries the write lock and drops the source if it is taken.  The
\* HTTP source is never added: only register wires it.
NewSource(s) == /\ s \notin offered /\ adder # s /\ Kind[s] # "cdn"
                /\ UNCHANGED <<flavour, sources, cacheVars, obtained, store, delivered,
                               returned, fetch, result>>
Locked == adder # NoSource \/ \E t \in Task : fetch[t].at = "cloning"

AddSource(s) ==
    /\ NewSource(s)
    /\ ~Locked /\ adder' = s
    /\ UNCHANGED offered

AddDropped(s) ==
    /\ NewSource(s)
    /\ Locked
    /\ offered' = offered \cup {s}
    /\ UNCHANGED adder

AddPush ==
    /\ adder # NoSource
    /\ sources' = Append(sources, adder)
    /\ offered' = offered \cup {adder}
    /\ adder' = NoSource
    /\ UNCHANGED <<flavour, cacheVars, obtained, store, delivered, returned, fetch, result>>

\* BlobTransport::add_blob: this node seeds a blob of its own.
AddBlob(h) ==
    /\ h \notin store
    /\ store' = store \cup {h}
    /\ UNCHANGED <<cacheVars, classVars, obtained, delivered, returned, fetch, result>>

\* A caller drops the future at any await; the clone has none.
Cancel(t) ==
    /\ fetch[t].at \notin {"idle", "cloning"}
    /\ Goto(t, NewFetch)
    /\ IF fetch[t].at = "cache" THEN Cache!Abandon(t) ELSE UNCHANGED cacheVars
    /\ UNCHANGED <<classVars, obtained, store, delivered, returned, result>>

-----------------------------------------------------------------------------
OwnStep(t) == \/ CacheDecides(t) \/ CacheHit(t) \/ CacheMiss(t)
              \/ LockSources(t) \/ CloneSources(t) \/ Ask(t) \/ GiveUp(t) \/ Finish(t)
Answer(t)  == Dial(t) \/ Connect(t) \/ Body(t) \/ Raw(t)

Next ==
    \/ \E t \in Task : \/ \E h \in Blob : Start(t, h)
                       \/ OwnStep(t) \/ Answer(t) \/ Cancel(t)
    \/ \E s \in Source : AddSource(s) \/ AddDropped(s)
    \/ AddPush
    \/ CacheMoves
    \/ \E h \in Blob : AddBlob(h)

Spec == Init /\ [][Next]_vars

(***************************************************************************)
(* A task that can go on does, and so does the holder of the lock.  No     *)
(* fairness is assumed of a source's answer: a stream may stall for ever,  *)
(* for the HTTP client is built without a timeout (http.rs:38).            *)
(***************************************************************************)
FairSpec == Spec /\ WF_vars(AddPush) /\ \A t \in Task : WF_vars(OwnStep(t))

-----------------------------------------------------------------------------
(***************************************************************************)
(* Properties                                                              *)
(***************************************************************************)

TypeOK ==
    /\ held \subseteq Blob
    /\ call \in [Task -> Cache!Call]
    /\ reply \in [Task -> {"none", "whole", "miss"}]
    /\ flavour \in {"memory", "disk"}
    /\ obtained \subseteq Blob /\ store \subseteq Blob /\ returned \subseteq Blob
    /\ delivered \subseteq Source \X Blob
    /\ sources \in Seq(Source)
    /\ adder \in Source \cup {NoSource}
    /\ offered \subseteq Source
    /\ fetch \in [Task -> Fetching]
    /\ result \in [Task -> Result]

\* A fetch returns the bytes of the blob or fails, whatever a poisoned peer,
\* a tampering CDN or the cache hands over (source.rs:67-68, "a poisoned peer
\* cannot corrupt a download").
ReturnsOnlyTheBlob == \A t \in Task : result[t].value # "rotten"

(***************************************************************************)
(* No source is skipped: when a fetch returns what a source served, every  *)
(* source of a lower tier that was registered when the fetch began has     *)
(* been asked in vain, and when it fails, every registered source has -    *)
(* however sources were added meanwhile, and in whatever order             *)
(* (lib.rs:409-410, source.rs:10-12).                                      *)
(***************************************************************************)
InVain(f) == {f.chain[i] : i \in f.tried}
Cheaper(f, tier) == {s \in f.known : Tier[s] < tier}
NoSourceSkipped ==
    [][\A t \in Task :
          (fetch[t].at = "put" \/ fetch[t].at = "next") /\ result'[t] # result[t] =>
              Cheaper(fetch[t], result'[t].report.tier) \subseteq InVain(fetch[t])]_vars

(***************************************************************************)
(* A class that caches in memory asks no source for a blob that an earlier *)
(* fetch of it, by whatever task, has returned (lib.rs:534, "Subsequent    *)
(* calls return the cached copy without hitting any source").              *)
(***************************************************************************)
NoSecondDownload ==
    \A t \in Task :
        flavour = "memory" /\ fetch[t].again => fetch[t].at \in {"idle", "cache"}

(***************************************************************************)
(* A fetch ends unless a source never answers: the chain is finite, no     *)
(* source is asked twice, and no lock is kept.                             *)
(***************************************************************************)
SourcesAnswer(t) == []<>(fetch[t].at \notin Waits)
FetchEnds(t)     == SourcesAnswer(t) => []<>(fetch[t].at = "idle")
FetchesEnd       == \A t \in Task : FetchEnds(t)

\* The peer a report names is "the peer that served the bytes"
\* (metrics.rs:55-56).
PeerServed ==
    \A t \in Task :
        LET r == result[t].report
        IN  r.peer # NoSource => <<r.peer, r.hash>> \in delivered
=============================================================================
