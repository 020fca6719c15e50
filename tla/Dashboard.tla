----------------------------- MODULE Dashboard -----------------------------
(***************************************************************************)
(* The terminal dashboard (crates/xlb-cli/src/gui) beside the daemon it    *)
(* watches.  One task polls ClassStats, class by class, every few seconds; *)
(* another is subscribed to the events; both feed one queue of updates,    *)
(* which the event loop applies.  A fetch is therefore told twice, at      *)
(* different moments and in either order.                                  *)
(*                                                                         *)
(* The daemon may end and be started again, with the same classes.  While  *)
(* it runs, the hops between the channel and the queue (the subscriber's   *)
(* connection) are one step: each is first in, first out, and only the     *)
(* channel drops what a slow subscriber has not read.  What the connection *)
(* holds when the daemon ends can still be read.                           *)
(***************************************************************************)
EXTENDS ControlSocket

CONSTANTS ReplyCap,    \* RECENT_IN_REPLY: rows of a ClassStats reply
          ViewCap,     \* rows past which an event makes the view drop one
          TailCap,     \* MAX_RECENT: lines of the event tail
          ChanCap,     \* capacity of the broadcast channel
          InboxCap,    \* bound: updates waiting to be applied
          MaxDaemons   \* bound: how often a daemon is started

ASSUME DashboardAssumption == /\ {ReplyCap, ViewCap, TailCap, ChanCap} \subseteq Nat
                              /\ {InboxCap, MaxDaemons} \subseteq Nat

VARIABLES up,          \* whether a daemon runs
          daemon,      \* observer: how many have been started
          wire,        \* events of a daemon that has ended, still to be read
          poll,        \* the poll loop: asleep, or in a round
          listening,   \* whether the subscription exists
          sub,         \* how many events the subscriber has read or missed
          inbox,       \* the queue of updates
          view,        \* App::class_stats, by class
          lines        \* how many lines App::event_tail holds

lifeVars == <<up, daemon>>
dashVars == <<wire, poll, listening, sub, inbox, view, lines>>
vars == <<socketVars, lifeVars, dashVars>>

Asleep == [at |-> "asleep", todo |-> {}]
\* (from: an observer, the daemon a reply is of.)
Unseen == [fetches |-> 0, hits |-> 0, recent |-> <<>>, seen |-> FALSE, from |-> 0]
Stats(n, rs) == [fetches |-> n.fetches, hits |-> n.hits,
                 recent |-> [i \in DOMAIN rs |-> rs[i].id], seen |-> TRUE, from |-> daemon]

\* The dashboard may be opened before there is a daemon.
Init ==
    /\ SocketInit
    /\ up = FALSE /\ daemon = 0
    /\ wire = <<>>
    /\ poll = Asleep
    /\ listening = FALSE /\ sub = 0
    /\ inbox = <<>>
    /\ view = [c \in Class |-> Unseen]
    /\ lines = 0

Room == Len(inbox) < InboxCap
Larger(m, n) == IF m > n THEN m ELSE n

-----------------------------------------------------------------------------
\* A round of the poll loop, over a connection for each class (if there is any),
\* in the order of the daemon's map.  The daemon answers ClassStats by reading
\* the totals and the recent rows under two acquisitions of the lock.
Asked     == CHOOSE c \in poll.todo : TRUE
NextClass == LET rest == poll.todo \ {Asked}
             IN  poll' = IF rest = {} THEN Asleep ELSE [at |-> "ask", todo |-> rest]

PollStart ==
    /\ poll = Asleep /\ up /\ Class # {}
    /\ poll' = [at |-> "ask", todo |-> Class]
    /\ UNCHANGED <<socketVars, lifeVars, wire, listening, sub, inbox, view, lines>>

ReadTotals ==
    /\ poll.at = "ask" /\ up
    /\ poll' = [at |-> "read", todo |-> poll.todo, totals |-> totals_for(Asked)]
    /\ UNCHANGED <<socketVars, lifeVars, wire, listening, sub, inbox, view, lines>>

ReadRecent ==
    /\ poll.at = "read" /\ Room
    /\ inbox' = Append(inbox, [kind |-> "stats", class |-> Asked,
                               stats |-> Stats(poll.totals, recent_for(Asked, ReplyCap))])
    /\ NextClass
    /\ UNCHANGED <<socketVars, lifeVars, wire, listening, sub, view, lines>>

\* No connection, no stats of the class in this round.
SkipClass ==
    /\ poll.at = "ask" /\ ~up
    /\ NextClass
    /\ UNCHANGED <<socketVars, lifeVars, wire, listening, sub, inbox, view, lines>>

-----------------------------------------------------------------------------
\* The subscriber: from the next event on, and past what it was too slow for.
Subscribe ==
    /\ ~listening /\ wire = <<>> /\ up
    /\ listening' = TRUE /\ sub' = Len(sent)
    /\ UNCHANGED <<socketVars, lifeVars, wire, poll, inbox, view, lines>>

\* The channel keeps its latest events: what is older the subscriber has missed.
Overwritten == sub' = IF listening THEN Larger(sub, Len(sent') - ChanCap) ELSE sub

Receive ==
    /\ listening /\ sub < Len(sent) /\ Room
    /\ inbox' = Append(inbox, sent[sub + 1])
    /\ sub' = sub + 1
    /\ UNCHANGED <<socketVars, lifeVars, wire, listening, poll, view, lines>>

ReceiveLate ==
    /\ wire # <<>> /\ Room
    /\ inbox' = Append(inbox, Head(wire))
    /\ wire' = Tail(wire)
    /\ UNCHANGED <<socketVars, lifeVars, listening, sub, poll, view, lines>>

-----------------------------------------------------------------------------
\* A daemon starts with empty counters and an empty channel.
Start ==
    /\ ~up /\ daemon < MaxDaemons
    /\ up' = TRUE /\ daemon' = daemon + 1
    /\ UNCHANGED <<socketVars, dashVars>>

(***************************************************************************)
(* It ends at any moment, and with it its counters, its channel and its    *)
(* fetches; the metrics file stays.  A poll that waits for the answer gets *)
(* none, and the subscriber has before it what its connection held.        *)
(***************************************************************************)
End ==
    /\ up /\ daemon < MaxDaemons
    /\ up' = FALSE
    /\ totals' = [c \in Class |-> [fetches |-> 0, hits |-> 0]]
    /\ rows' = <<>> /\ sent' = <<>>
    /\ task' = [t \in Task |-> Idle]
    /\ listening' = FALSE /\ sub' = 0
    /\ \/ wire' = wire
       \/ /\ listening
          /\ \E n \in (sub + 1) .. Len(sent) : wire' = SubSeq(sent, sub + 1, n)
    /\ \/ poll.at = "read" /\ NextClass
       \/ poll.at # "read" /\ UNCHANGED poll
    /\ UNCHANGED <<log, failed, begun, daemon, inbox, view, lines>>

-----------------------------------------------------------------------------
\* App::apply.
\* (ReplaceOnce, PushUncut and ShowStarted are mistakes that the properties
\* are tried against.)
ReplaceOnce(old, new) == IF old.seen THEN old ELSE new
Replace(old, new)     == new

PushUncut(s, id)  == Append(s, id)
PushRecent(s, id) == LET more == Append(s, id)
                     IN  IF Len(more) > ViewCap THEN Tail(more) ELSE more

Show(v, e) == IF v[e.class].seen
              THEN [v EXCEPT ![e.class].recent = PushRecent(@, e.id)] ELSE v

ShowStarted(v, e)   == IF e.kind \in {"started", "completed"} THEN Show(v, e) ELSE v
ShowCompleted(v, e) == IF e.kind = "completed" THEN Show(v, e) ELSE v

\* The event tail drops its oldest line for a new one.
PushEvent(n) == (IF n >= TailCap THEN n - 1 ELSE n) + 1

Apply ==
    /\ inbox # <<>>
    /\ inbox' = Tail(inbox)
    /\ LET u == Head(inbox)
       IN  \/ /\ u.kind = "stats"
              /\ view' = [view EXCEPT ![u.class] = Replace(@, u.stats)]
              /\ UNCHANGED lines
           \/ /\ u.kind # "stats"
              /\ view' = ShowCompleted(view, u)
              /\ lines' = PushEvent(lines)
    /\ UNCHANGED <<socketVars, lifeVars, wire, poll, listening, sub>>

-----------------------------------------------------------------------------
Daemon == /\ up /\ SocketNext /\ Overwritten
          /\ UNCHANGED <<lifeVars, wire, poll, listening, inbox, view, lines>>

Next == \/ Start \/ End \/ Daemon
        \/ PollStart \/ ReadTotals \/ ReadRecent \/ SkipClass
        \/ Subscribe \/ Receive \/ ReceiveLate
        \/ Apply

Spec == Init /\ [][Next]_vars

\* The poll loop never stops, and the event loop drains the queue.  Nobody has
\* to start a daemon, and the subscriber may stay as slow as it likes.
FairSpec == /\ Spec
            /\ WF_vars(PollStart) /\ WF_vars(ReadTotals) /\ WF_vars(ReadRecent)
            /\ WF_vars(Apply)

-----------------------------------------------------------------------------
\* The view never holds more rows than the larger of its two caps.
TypeOK ==
    /\ SocketTypeOK
    /\ up \in BOOLEAN /\ daemon \in 0 .. MaxDaemons /\ Len(wire) <= ChanCap
    /\ poll.at \in {"asleep", "ask", "read"} /\ poll.todo \subseteq Class
    /\ listening \in BOOLEAN /\ sub \in 0 .. Len(sent)
    /\ Len(inbox) <= InboxCap
    /\ \A c \in Class : /\ view[c].fetches \in 0 .. MaxFetches /\ view[c].hits \in 0 .. MaxFetches
                        /\ view[c].seen \in BOOLEAN /\ view[c].from \in 0 .. daemon
                        /\ Len(view[c].recent) <= Larger(ViewCap, ReplyCap)
    /\ lines \in 0 .. TailCap

(***************************************************************************)
(* fetches_total is "cumulative, not windowed, so a poller can diff it",   *)
(* "since the node started" (protocol.rs:83-84): while what is shown of a  *)
(* class is of one daemon it never goes back, hits and misses both only    *)
(* grow, and no daemon is shown after a later one.                         *)
(***************************************************************************)
NoneLost(old, new) == /\ old.fetches <= new.fetches
                      /\ old.hits <= new.hits
                      /\ old.fetches - old.hits <= new.fetches - new.hits
PollerCanDiff ==
    [][\A c \in Class : \/ view[c].from < view'[c].from
                        \/ view[c].from = view'[c].from /\ NoneLost(view[c], view'[c])]_view

\* The view never shows a fetch that its daemon has not yet counted, by
\* whichever of the two ways its row came.
ShownIsCounted ==
    \A c \in Class : \A i \in DOMAIN view[c].recent :
        /\ view[c].recent[i] <= begun
        /\ \A t \in Task : task[t].at \in {"fetching", "record"}
                              => task[t].row.id # view[c].recent[i]

(***************************************************************************)
(* If a daemon stays up, then once the fetches have stopped the dashboard  *)
(* comes to show, of every class, exactly its totals and its recent rows,  *)
(* however replies and late events of it and of the ones before were       *)
(* interleaved, and whatever events were missed (app.rs:153-154, "the      *)
(* ClassStats poll fills that in").                                        *)
(***************************************************************************)
Current   == \A c \in Class : view[c] = Stats(totals_for(c), recent_for(c, ReplyCap))
CatchesUp == <>[]up => <>[]Current
=============================================================================
