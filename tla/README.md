# A TLA+ model of xlb

xlb is a library (`crates/xlb`) and a command-line tool with a daemon
(`crates/xlb-cli`) that fetch content-addressed blobs through a chain of
sources, keep them in a cache for each asset class, and seed them to other
peers. This directory holds TLA+ modules translated from its source, the TLC
configurations that check them on small instances, and theorems that TLAPS
proves for every instance.

    tlc -config MC_Fetch_chain.cfg MC_Fetch     # one run
    tlapm FetchProofs.tla                       # one proof

`PROJECT.json` lists the runs, the source lines every definition translates,
the hazards the properties are for, and for every property a mistake in the
code that the property has been seen to catch.

## The system

| Part | Source | State | Operations | What is hard | What makes it right | Model |
|---|---|---|---|---|---|---|
| Disk cache | `xlb/src/cache.rs` | an index (map, queue, byte count) behind a mutex; a file for each blob; temp files | open, get, put | every file call is made without the mutex; crashes, dropped futures, damaged files | index consistent, budget kept, nothing torn or damaged served | `LruIndex`, `DiskCache` |
| Memory cache | `xlb/src/cache.rs` | a map behind a lock | get, put | no eviction, so a blob once returned must stay | a second fetch asks no source | in `Fetch` |
| Asset class | `xlb/src/lib.rs` | its sources, its cache | register, add_source, fetch | no single flight; sources come while fetches run; every path reports | see the chain | `Fetch` |
| Fetch chain, verifier | `xlb/src/source.rs`, `verify.rs` | a sorted copy of the sources, for one fetch | fetch_with_progress | poisoned, failing and silent sources | only the blob is returned; no source passed over; the walk ends | `Fetch` |
| CDN source | `xlb/src/transport/http.rs` | none | fetch | a body that breaks off | as above | `Fetch` |
| iroh fetcher | `xlb/src/transport/blobs.rs` | the transport's blob store | fetch_raw, add_blob | it answers from the store it shares with all other fetchers | the report names who served | `Fetch` |
| Upload limiter | `xlb/src/transport/blobs.rs` | a cap (atomic), a token bucket behind a mutex | set_kbits, acquire | the cap is read before the bucket is locked; many writers in debt at once | rate bounded over every stretch of time, every write let through | `UploadLimiter` |
| Seeding switch | `xlb/src/transport/blobs.rs` | a flag; an accept loop for each connection | accept, set_seeding_cap | the flag is read before a wait and used after it | disabling takes effect | `Seeding` |
| Metrics sink | `xlb-cli/src/metrics_sink.rs` | totals and a ring of rows behind a lock; a broadcast channel; a file behind another lock | emit, totals_for, recent_for | three places told of one fetch at three moments | counted before told; rows of the file whole | `MetricsSink` |
| Control socket | `xlb-cli/src/socket` | a task for each connection | Fetch, ClassStats, SubscribeEvents | replies read under two locks; slow subscribers | events of a fetch in order | `ControlSocket` |
| Dashboard | `xlb-cli/src/gui` | the view, a queue of updates | poll, subscribe, apply | told of every fetch twice, by a poll and by events that may be lost; the daemon ends and starts again between two of its calls | shows only what is counted; never goes back; catches up | `Dashboard` |
| Bandwidth governor | `xlb/src/bandwidth.rs` | battery and metered flags, a policy | set_battery, set_metered, probe_os, effective_caps | the host is read and the flag set afterwards; nothing applies the caps; 0 means "nothing" here and "no cap" in the limiter | on battery nothing is seeded | `Governor`, `GovernedSeeding` |
| R2 publishing | `xlb/src/seed.rs`, `xlb-cli/src/seed_cmd.rs` | none (the bucket; a manifest that is appended to) | seed_blob, sign, append_manifest | upload, then append: a kill between the two; answers that are lost and PUTs that arrive late; rows of two runs cut into one another; dates computed by hand | what is called seeded is held; nothing is uploaded twice; the manifest names only what is held; every date is the calendar's | `Origin`, `Publish`, `SigningDate` |
| Daemon, configuration, commands | `xlb-cli/src/{serve,config,main,inspect,fetch_cmd}.rs` | none | start up, parse, print | the daemon ends at any moment | | its start and end in `Dashboard` |
| Test harness | `xlb/src/testing.rs` | | MockSwarm | | | no |

How they interact: a class calls its cache, then walks its chain; the chain
calls the fetchers, which read and fill the blob store of the transport; the
transport serves that store to others through the accept loops, whose streams
share one limiter. Every fetch of the daemon reports to the metrics sink by a
callback on the thread of its task; the sockets read the sink and subscribe to
its channel; the dashboard polls and subscribes.

## The modules

    ContentCache <--implements-- DiskCache --extends--> LruIndex
        ^ used by (INSTANCE)
      Fetch
    UploadLimiter <--extends-- Seeding <--extends-- GovernedSeeding --extends--> Governor
    MetricsSink <--extends-- ControlSocket <--extends-- Dashboard
    Origin <--implements-- Publish --extends--> SigningDate

    CalmCache --extends--> DiskCache

Most have an `MC_` module with their instances (`MC_DiskCacheLive` that of
`CalmCache`). The theorems about a component are in the module of its name with
`Proofs`, so that the models do not extend TLAPS: those on the limiter in
`SeedingProofs`, those on the sink in `ControlSocketProofs`, those on dates in
`PublishProofs`.

A step of a task is what it does between two points at which another can run:
one critical section, one file call, one answer of a peer. Variables named in
the comments as observers are no part of the code; no guard reads them.

**LruIndex** holds `LruState` and the sections of `DiskCache` that change it,
as operators from an index to an index. The eviction loop is written as the
first number of rounds after which it stops, so there is no recursion; the byte
count is compared with a sum that is the cardinality of a set of cells, so that
the finite-set theorems apply to it.

**DiskCache** has `open`, every step of `get` and of `put`, and the
environment: calls that fail, futures that are dropped (a file call that has
started goes on, for tokio runs it on its blocking pool), damage, deletion and
the death of the process. `mode` is whether there is a process.

**CalmCache** adds to `DiskCache` fairness and the observer `calm`: since the
last `open`, no two operations have overlapped, none was dropped halfway, and
nobody else has touched the directory.

**ContentCache** is what the cache promises, with no files, index or budget: it
may forget and miss at any time, but a hit was held at some moment of the
lookup and hands over exactly the blob. `DiskCache` implements it
(`ServesOnlyTheBlob`): what it holds is the set of its whole files, and a
lookup is decided when the file is read.

**Fetch** is `fetch_bytes_reported` over that contract, in both flavours of the
cache, with the chain as it was cloned and the sources walked by tier. The walk
is a set of tried positions and the least untried one. `CacheMoves` is what the
disk cache does by itself.

**UploadLimiter** is the token bucket, in whole bytes and ticks. The time since
the last charge is counted relative to now and up to `LongAgo`. The assumption
`LongEnough` says for which values of `LongAgo` that loses nothing: by then the
largest debt there can be (`DebtBounded`) is paid back at the smallest cap and the
bucket is full at every cap (theorem `NothingIsLost`). The
observer `meter` is a leaky bucket: it stays at most B if and only if every
stretch of k ticks has at most B + k * rate bytes.

**Seeding** adds the accept loops and the two setters, with
`set_seeding_cap` as the two stores it is.

**Governor** is the two flags, the policy and `detect_battery`, which reads a
directory in whatever order it comes: the first supply with a telling status
decides. **GovernedSeeding** puts it beside the transport. Nothing in the
library joins the two, so the application does, with the one call that takes
caps, `set_upload_cap`.

**Publish** is `xlb seed`: several runs, each a process of its own, against one
origin and one manifest. A run derives the key, signs and sends a HEAD, then a
PUT if the object is missing, then writes its row. `weather` is "bad" while
requests and writes may fail, connections break and runs be killed; a PUT given
up by its sender may still arrive (`late`). A row is several writes without a
lock, so the last line of the manifest is whole, begun by one run, or a mixture
of several. **Origin** is what publishing promises: objects that stay, and a log
that names only those. **SigningDate** is `format_amz_time` with the
civil-from-days algorithm, term by term, and beside it a calendar that knows
only how the date of the next second follows.

**MetricsSink**, **ControlSocket** and **Dashboard** follow one report from the
fetch to the screen. A row of the metrics file is two pieces, for `write_all`
may need two writes. In `Dashboard` the daemon starts (`Start`) and ends (`End`),
with its counters, its channel and its fetches; the classes without an answer
are skipped for the round (`SkipClass`), and what the subscriber's connection
still holds is read afterwards (`ReceiveLate`), perhaps after the first reply of
the next daemon. The observers `daemon` and `from` number the daemons and say
which one a reply is of.

## The runs

Runs marked (v) are expected to fail: they show that the code does not do what
a text of the repository says.

| Run | Instance | What it shows |
|---|---|---|
| cache_faults | 2 tasks, 3 blobs of 1, 1 and 2 bytes, budget 2, every fault | `IndexConsistent`, `WithinBudget`, `NoTornFile`; the queue is a recency order; eviction takes no more than it must; the refinement of `ContentCache` |
| cache_live | 2 tasks, blobs of 1, 2 and 3 bytes, budget 2, crashes and files deleted by others | operations end; an entry without a file does not survive its readers; while operations come one after the other, the index is the directory whenever nothing is in flight, whatever crashed before |
| cache_race (v) | 2 tasks, 2 blobs, budget 1, no fault | the directory stays over the budget when all is quiet |
| fetch_chain | 2 tasks, 1 blob, a LAN source, a peer and the CDN | only the blob returned; no source skipped; the memory cache saves every second download; fetches end whose sources answer |
| fetch_peer (v) | 2 peers of one transport | a report names a peer that has sent nothing |
| limiter_rate | 2 streams, caps 0, 1, 2, writes of 1 and 5 bytes | the rate over every stretch of time; the debt of the bucket does not pile up when the cap changes; writes of more than the bucket holds end |
| seeding_switch | 2 connections, 2 callers, 1 stream | at most one late stream for each connection, and quiet in the end |
| seeding_late (v) | 2 connections, 1 caller | a stream is accepted while seeding is disabled |
| socket_emit | 2 connections, 2 classes, 3 fetches, a ring of 2 | counted before told; rows whole; events in order |
| dashboard_watch | 1 connection, 2 classes, 2 fetches, all caps 1 but the channel's 2, 2 daemons one after the other | the view shows only what is counted; the counters of one daemon only grow, and no daemon is shown after a later one; the view catches up with a daemon that stays |
| publish_retry | 2 publishers, 1 blob, one usable template and one without `{blake3}`, the last second of 1999-02-28, 1999-12-31 and 2024-02-29 and the second after | success is only told of what is held; an object that was there is not uploaded; every date is right; the manifest names only what is held; once nothing fails, a run succeeds and a blob gets its row |
| governed_battery (v) | 1 connection, a policy for one of two tiers, a host with and without a discharging battery | a governor on battery, its caps handed to the transport, and streams are served |

Why the bounds are enough. Two tasks are what every race of this code needs: a
reader and a writer of one blob, a clone and a push, a charge and a change of
the cap, two writers of one file. Sizes and budget are chosen so that a put
evicts nothing, one blob or two, or is refused, and so that a directory found
at `open` may exceed the budget. `Scratch` bounds the temp files that may exist
at once; a put needs a free name, which a process always finds. A write of 5
bytes is larger than the burst at either cap. Every cap of the dashboard is
smaller than what can pile up behind it. The queue of updates is bounded
(`InboxCap`): a full queue delays the poll and the subscriber, where the code's
queue would grow; one place suffices for the two to overtake each other. A daemon lists its
classes in the order of a hash map: the model asks for them in one order, which
stands for any, as the classes differ in nothing else (two daemons that list
them differently are left out). The
order of files found by `open` is left open, which includes their modification
times.

Two publishers of one blob and one manifest are what a race for
a key or a row needs; the clock of a run moves by at most one second
(`MaxTicks`), which takes it over midnight, so that a HEAD and its PUT can be
signed on two days. TLC's integers are 32 bits wide and end in 2038, so the
moments lie before; the theorems on dates have no such bound.

Symmetry is used only in `cache_faults`, `cache_race` and `socket_emit`, which
state no liveness; in the cache two blobs of one size may change places too.

Deadlock is checked everywhere but in `socket_emit`, which ends when the last
fetch (`MaxFetches`) has.

### Fairness

- `DiskCache!FairSpec`: a task that can go on does. tokio polls woken tasks,
  its mutex is fair, and the blocking pool finishes what it was given. Nobody
  has to start an operation, and nothing has to fail or to be retried.
- `Fetch!FairSpec`: the same, and the holder of the write lock pushes its
  source. Nothing is assumed of a source: the HTTP client has no timeout
  (`http.rs:38`) and neither has the dial, so `FetchesEnd` says in its own
  premise that the sources asked do answer.
- `UploadLimiter!FairLimiterSpec`: the clock goes on, a sleeper wakes, a writer
  gets the mutex, which is never held across an await. `Tick` waits for
  sleepers that are due: timers fire on time.
- `Seeding!FairSpec`: that, and an accept loop does what needs no peer. That a
  stream ends needs the peer, and is a premise of `DisabledGoesQuiet`.
- `Publish!FairSpec`: a run that can go on does, and the origin answers: its
  `Advance` has the answers in it. Nothing is assumed of the weather, and
  `RunSucceeds` and `RecordedInTheEnd` have it cleared in their premises. Nobody
  has to run the command again: that a run begins is a premise as well.
- `Dashboard!FairSpec`: the poll loop has no exit, and the event loop drains
  its queue. Nothing is assumed of the daemon's fetches, which may hang, nor
  that a daemon is started: that one stays up is the premise of `CatchesUp`.

## What is proved

TLAPS proves the following for every value of the constants that satisfies the
assumptions the modules state (finitely many blobs; sizes, lengths and budget
natural numbers; a largest write and a largest upload cap; finitely many
streams, and `LongAgo` long enough for them; tiers 1 to 4; a ring of at least one
row; the caps of the dashboard natural numbers). TLC evaluates them in every run.
A theorem that needs more says so in its ASSUME: only `IndexMirrorsDirectory` and
`CalmFootprint` do.

| Theorem | Says | Argument |
|---|---|---|
| `DiskCacheProofs`: `IndexAlwaysConsistent`, `AlwaysWithinBudget`, `TypeCorrect` | the index is consistent and within the budget under every fault and interleaving | `IndexInv`: with it, `FutureOK`, what a future carries (a put in flight is never larger than the budget, or the eviction loop could not make room). `LruIndexProofs` has the lemmas: each operator keeps `IndexOK`, and the eviction loop ends where it fits |
| `QueueIsRecency`, `EvictsNoMore` | a step moves only the blob it serves or stores, to the back; no put evicts a blob it could have kept | `IndexInv`, and lemmas on the queue: removing one, appending one and evicting from the front leave the others in order (`RemoveFirstOrder`, `AppendOrder`, `PoppedOrder`), and one round of the loop takes exactly one entry's bytes (`PoppedStep`) |
| `NeverTorn` | no file under a blob's name was half written | `FlightInv`: no two puts in flight share a temp name, and a temp that is about to be renamed is written to the end |
| `ServesOnlyWhatItHolds` | `DiskCache` implements `ContentCache` | the two invariants above, and a lemma for each action: it maps to an abstract step or to none |
| `CalmCacheProofs`: `IndexMirrorsDirectory` | if no file call fails (`"io" \notin Faults`), the index names exactly the files of the directory whenever nothing is in flight, as long as operations come one after the other: for any blobs, sizes and budget, and whatever damage, crash or dropped future there was before the last `open` | `CalmInv`: at most one operation is under way, and `MirrorOf` says for each of its steps by what the index and the directory then differ (the blob that is about to be inserted, the victims whose files are still there, the rotten blob whose entry is), and that the only temp file is its own. It needs `IndexInv` and, of the index operators, not only that they keep it consistent but which entries they leave (`InsertEntries`, `EvictEntries`, `RebuildEntries` of `LruIndexProofs`) |
| `CalmFootprint` | with the same premise, the bytes in the directory are within the budget whenever nothing is in flight: what `put` promises (`cache.rs:123-125`) and `cache_race` shows broken when operations overlap | `CalmMirror`, `IndexConsistent` and `WithinBudget` together: the directory holds the bytes the index counts |
| `DiskCacheProofs`: `OperationsRunDown` | the safety half of `OperationsEnd`: each step of a get or a put ends it, brings it to a later place, or removes a victim; only being dropped, once, leaves it where it is | the list of victims is not empty where one is removed (`FutureOK`) |
| `FetchProofs`: `FetchesAreVerified`, `MemoryRemembers`, `ChainSkipsNothing`, `FetchTypeCorrect` | the safety properties of `fetch_chain` for any tasks, blobs and sources | `IInv`: what was known at the start is in the clone, and what is cheaper than the source being asked has been tried (`Known`, `Cheapest`); a blob once returned is in the memory cache when its lookup is decided (`Remembered`) |
| `FetchesRunDown` | the safety half of `FetchesEnd`: each step of a fetch leaves it fewer to go, at most three for each source of its chain; no source is asked twice | `Fresh`: the source being asked is one that has not been passed by |
| `CacheByContract` | the fetches use the cache by the contract that `ServesOnlyWhatItHolds` says `DiskCache` keeps | each of their steps is one of `ContentCache`, or leaves the cache alone |
| `SeedingProofs`: `AtMostOneLateStream` | one late stream for each connection at most | `SwitchInv`: a loop that has served a late stream is not waiting for another |
| `RateKept`, `LimiterImplemented`, `SeedingRateKept` | the rate over every stretch of time, for any streams, caps and lengths of writes, by itself and inside the transport | `RateInv`, below |
| `DebtStaysBounded`, `SeedingDebtBounded`, `NothingIsLost` | the debt of the bucket is at most a largest write for each stream and as many again times the ratio of the largest cap to the smallest; it is paid back before the clock stops counting | `DebtInv`, below |
| `LimiterTypeCorrect`, `SeedingTypeCorrect` | the types of limiter and transport; the bucket never holds more than two ticks of the largest cap; nothing writes on a stream that is not served | `RateInv` with `Bounds`; and `OnlyServedWrite`, for a stream ends only between two writes |
| `ControlSocketProofs`: `RowsStayWhole`, `StoriesStayInOrder`, `CountsAreTold`, `SocketTypeCorrect` | the file, the events, the counters behind them, and the types, for any connections, classes and number of fetches | `SocketInv`: ids belong to one fetch, and the stage of a fetch says what the file and the channel hold of it; the last piece of the file is the writer's own, or that of a write that failed; `CountInv`: what is counted is finite, and is what was told and what is about to be |
| `DashboardProofs`: `OnlyCountedIsShown`, `DashboardTypeCorrect` | the view shows no fetch that a daemon has still to count, whichever of the two queues brought it and however late, over any number of daemons | `HonestInv`: what holds of the view holds of every place the rows pass through: the totals the poll has read, the connection of the subscriber, what a lost connection still has, the queue. The set of fetches that nobody has still to count only grows, also when a daemon ends and takes its fetches with it; `NodeInv` is what of the socket's invariant remains true then, of the empty sink of the next daemon |
| `ShownFiguresGrow` | what is shown of a class never goes back within a daemon, nor to an earlier daemon | `OrderInv`: the view, the replies in the queue in their order, the totals the poll is holding and those of the sink are a chain under `Before`; with it, `HonestInv`, for the figures to be numbers and the daemons to exist |
| `PublishProofs`: `StampFollows`, `CivilFollows` | for every second from 1970 on, the date and time of the second after are those a calendar puts next; a stamp has a real month, day, hour, minute and second | the days of an era of 400 years are counted by years, leap days and the months from March: a lemma says when the year of the era steps, one when the month does, and one that eras repeat |
| `SuccessIsTrue`, `NothingTwice`, `DatedByTheCalendar`, `PublishType`, `OriginImplemented` | the safety properties of `publish_retry` for any publishers, blobs, templates and moments | `PublishInv`: the stage of a run says what it knows (`RunOK`): past its requests the key is held, a HEAD answered "found" was true and stays true because the origin only grows, and what is signed is the stamp of the second; `DatedByTheCalendar` rests on `StampFollows` |

Two invariants of the limiter need an idea. `RateInv` is the first. `RateBounded` speaks of the
bytes already let through, but a writer is charged before it sleeps and its
bytes come when it wakes, all in one tick: the meter alone is not inductive.
The invariant says that there is a balance for each sleeper: the level of the
bucket had nothing been charged after it. Balances lie in the order of the
charges, each lower than the one before by at least the size of its own write,
and none is below the bucket. A sleeper's balance reaches zero when its sleep
ends and no tick sooner (`SleepIsExact`), and the meter, the balance and the
size together stay within the burst. So the meter may take the size when the
writer wakes, and everybody charged before it and still asleep moves down by
what the meter has moved up. A sum over the sleepers, which the prover could
not handle, is not needed. The assumption that writes have a largest length is
the length of a frame.

`DebtInv` is the other. `DebtBounded` (`blobs.rs:86`, "can go slightly negative
under burst") is about writers that charge while others sleep. With one cap a
sleeper leaves the bucket at zero, and the debt is a write for each stream. But a
writer sleeps by the cap that it has loaded, and the bucket may since be refilled
by a smaller one: nothing that the bucket holds says how many streams may charge
before it is paid back. The invariant counts them. A stream that may charge at
once has a quota of cells, as many as all streams' largest writes together, and
each tick it has still to sleep takes away as many as the smallest cap is worth.
What is owed, times the streams, and the cells together stay within a constant. A
tick gives back to all streams together at most as many cells as they owe less. A
charge adds one write to the debt of each; and either the debt is now so large
that the sleep is long enough, at any cap, for the stream to give up all its
cells, which is as much, or it is so small that there is room for all the cells
there can be. Cells are a set, and their number is a cardinality, so that the
proof needs no sum over the streams either.

Only model-checked: everything with fairness (`OperationsEnd`, `SelfHealing`,
`FetchesEnd`, `WritesEnd`, `DisabledGoesQuiet`, `CatchesUp`, `RunSucceeds`,
`RecordedInTheEnd`), which the prover does not reach: of two of them the safety
half is a theorem. Every invariant and action property of the passing runs is
a theorem.

## What the violated runs show

- **cache_race**, `FootprintWithinBudget` (`cache.rs:123-125`): a `get` whose
  read failed, because another put had evicted the blob, removes the entry by
  hash after a third operation has stored the blob again. The new file is in
  the directory and in no index; nothing evicts it until the next `open`.
- **fetch_peer**, `PeerServed` (`metrics.rs:55-56`): the fetcher of a peer
  answers from the transport's own store before it dials, and the report names
  that peer.
- **seeding_late**, `NoLateStream` (`blobs.rs:235-236`): the accept loop checks
  the switch before it waits for a stream and not after. `OneLateStream` and
  `DisabledGoesQuiet` say what holds instead.
- **governed_battery**, `PassiveServesNothing` (`crates/xlb/README.md:94-96`):
  a class on battery is promised to seed nothing. No code asks the governor; and
  when the application hands its caps to the transport, the passive 0 is the
  limiter's "no cap", so that passing them on lifts a cap that was there.

## What is not modelled

Hashing, the HMAC of a signature, URI encoding, TLS and the wire are external:
bytes are the blob's, or not, and a signature is its date. `get_object` of the
origin changes no state and no command calls it; `has_policy` is never called.
On macOS `detect_battery` reads the output of `pmset`: one more way to get the
same three answers. A template is its path and whether it has `{blake3}`, which is all that
`derive_key` needs of it.
Progress callbacks change no state. Durations, timestamps and byte counts of
reports are left out. `set_role` of a class writes a field that nothing reads;
`SetRole` and `SetBandwidth` of the socket change nothing; `Inspect` reads
constants. `BlobTransport::shutdown` ends the endpoint. What a second
cache on the same directory does to the first, in this process or another, is
the fault `vanish` of `DiskCache`: its `open` removes the temp files it finds,
its evictions the blobs. What the two keep on disk together, each with a budget
of its own, is not modelled. Lock poisoning is recovered from everywhere. The
text of the dashboard's lines, its selection and drawing are left out, and so is
a daemon started with other classes than the one before: the view keeps the
classes it has seen.

## Plan

1. *Shutdown*: `BlobTransport::shutdown` with streams in flight.
2. *Two caches on one directory*, each with its index and budget: what they
   keep on disk together.
