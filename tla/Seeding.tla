------------------------------ MODULE Seeding ------------------------------
(***************************************************************************)
(* The seeding side of a BlobTransport (crates/xlb/src/transport/blobs.rs):*)
(* the accept loop of every incoming connection, the streams it spawns,    *)
(* and the two setters that switch and cap it from other tasks.            *)
(***************************************************************************)
EXTENDS UploadLimiter

CONSTANTS Conn,       \* the incoming connections that may be open at a time
          Caller      \* the tasks that call the setters

VARIABLES enabled,    \* seeding_enabled
          conn,       \* where the accept loop of each connection is
          streams,    \* the streams that handle_stream is serving
          setter,     \* the kbits a set_seeding_cap has still to store
          late        \* observer: streams accepted since seeding was disabled,
                      \* counted up to 2

vars == <<limiterVars, enabled, conn, streams, setter, late>>

Loop == {"none", "arrived", "recheck", "parked"}
Unset == -1

Init ==
    /\ LimiterInit
    /\ enabled = TRUE
    /\ conn = [c \in Conn |-> "none"]
    /\ streams = {}
    /\ setter = [u \in Caller |-> Unset]
    /\ late = [c \in Conn |-> 0]

-----------------------------------------------------------------------------
\* The accept loop: one check when the connection comes, one before each wait
\* for a stream, and none after it.
Goto(c, l) == /\ conn' = [conn EXCEPT ![c] = l]
              /\ UNCHANGED <<limiterVars, enabled, setter>>

Arrive(c) == /\ conn[c] = "none"
             /\ Goto(c, "arrived")
             /\ UNCHANGED <<streams, late>>

CheckOnArrival(c) ==
    /\ conn[c] = "arrived"
    /\ Goto(c, IF enabled THEN "recheck" ELSE "none")
    /\ UNCHANGED <<streams, late>>

StraightToWait == "parked"
AfterStream    == "recheck"

Recheck(c) ==
    /\ conn[c] = "recheck"
    /\ Goto(c, IF enabled THEN "parked" ELSE "none")
    /\ UNCHANGED <<streams, late>>

AcceptStream(c, s) ==
    /\ conn[c] = "parked" /\ s \notin streams
    /\ Goto(c, AfterStream)
    /\ streams' = streams \cup {s}
    /\ late' = IF enabled THEN late ELSE [late EXCEPT ![c] = smaller(@ + 1, 2)]

\* The peer closes the connection: accept_bi fails.
Leave(c) == /\ conn[c] = "parked"
            /\ Goto(c, "none")
            /\ UNCHANGED <<streams, late>>

\* handle_stream: writes of any length, and the end.
Serve(A) == /\ A
            /\ UNCHANGED <<enabled, conn, streams, setter, late>>

EndStream(s) == /\ s \in streams /\ writer[s].at = "ready"
                /\ streams' = streams \ {s}
                /\ UNCHANGED <<limiterVars, enabled, conn, setter, late>>

-----------------------------------------------------------------------------
\* set_seeding_cap: two stores.  Enabling ends what the observer counts.
SetEnabled(u, e, k) ==
    /\ setter[u] = Unset
    /\ enabled' = e
    /\ setter' = [setter EXCEPT ![u] = IF e THEN k ELSE 0]
    /\ late' = IF e THEN [c \in Conn |-> 0] ELSE late
    /\ UNCHANGED <<limiterVars, conn, streams>>

SetKbits(u) ==
    /\ setter[u] # Unset
    /\ set_kbits(setter[u])
    /\ setter' = [setter EXCEPT ![u] = Unset]
    /\ UNCHANGED <<enabled, conn, streams, late>>

SetUploadCap(k) == Serve(set_kbits(k))

-----------------------------------------------------------------------------
Next ==
    \/ \E c \in Conn : \/ Arrive(c) \/ CheckOnArrival(c) \/ Recheck(c) \/ Leave(c)
                       \/ \E s \in Stream : AcceptStream(c, s)
    \/ \E s \in streams : EndStream(s) \/ \E n \in Size : Serve(Load(s, n))
    \/ \E s \in Stream : Serve(Charge(s)) \/ Serve(Wake(s))
    \/ Serve(Tick)
    \/ \E u \in Caller : \/ \E e \in BOOLEAN, k \in Cap : SetEnabled(u, e, k)
                         \/ SetKbits(u)
    \/ \E k \in Cap : SetUploadCap(k)

Spec == Init /\ [][Next]_vars

(***************************************************************************)
(* The clock and the writers go on as in UploadLimiter, and the accept     *)
(* loops do what needs no peer.  Nothing is assumed of the peers.          *)
(***************************************************************************)
FairSpec == /\ Spec /\ WF_vars(Serve(Tick))
            /\ \A s \in Stream : WF_vars(Serve(Charge(s))) /\ WF_vars(Serve(Wake(s)))
            /\ \A c \in Conn : WF_vars(CheckOnArrival(c)) /\ WF_vars(Recheck(c))

-----------------------------------------------------------------------------
TypeOK ==
    /\ LimiterTypeOK
    /\ enabled \in BOOLEAN
    /\ conn \in [Conn -> Loop]
    /\ streams \subseteq Stream
    /\ \A s \in Stream : writer[s].at # "ready" => s \in streams
    /\ setter \in [Caller -> Cap \cup {Unset}]
    /\ late \in [Conn -> 0 .. 2]

(***************************************************************************)
(* However the switch is thrown while connections come, wait and leave, a  *)
(* connection gets at most one more stream before it notices that seeding  *)
(* is disabled (blobs.rs:235-236, "so toggling off takes effect quickly"). *)
(***************************************************************************)
OneLateStream == \A c \in Conn : late[c] <= 1

\* Once seeding stays disabled, and if no peer keeps its stream open for ever,
\* there comes a time after which nothing is served, whoever connects.
StreamsEnd == \A s \in Stream : []<>(s \notin streams)
DisabledGoesQuiet == <>[]~enabled /\ StreamsEnd => <>[](streams = {})

\* "Re-check on each new stream request" (blobs.rs:235-236): no stream is
\* accepted while seeding is disabled.
NoLateStream == \A c \in Conn : late[c] = 0
=============================================================================
