--------------------------- MODULE UploadLimiter ---------------------------
(***************************************************************************)
(* The upload limiter that all outgoing streams share                      *)
(* (crates/xlb/src/transport/blobs.rs, UploadLimiter): a token bucket that *)
(* is charged before the write, after which the writer sleeps until the    *)
(* bucket is back at zero.                                                 *)
(*                                                                         *)
(* A cap is the number of bytes a tick of the clock is worth; 0 is "no     *)
(* cap".  Time is relative: since counts the ticks from the last charge    *)
(* and sleeping writers count down, so that no run of ticks is bounded.    *)
(***************************************************************************)
EXTENDS Integers, FiniteSets

CONSTANTS Stream,     \* the streams that may be open at a time, finitely many
          Cap,        \* the caps that may be set (u32), 0 among them
          Size,       \* the lengths of the writes
          LongAgo     \* ticks after which since is no longer counted

ASSUME CapAssumption     == /\ Cap \subseteq Nat /\ 0 \in Cap
                            /\ \E r \in Cap : \A k \in Cap : k <= r
ASSUME SizeAssumption    == /\ Size \subseteq Nat \ {0}
                            /\ \E n \in Size : \A k \in Size : k <= n
ASSUME LongAgoAssumption == LongAgo \in Nat \ {0}
ASSUME StreamAssumption  == IsFiniteSet(Stream)

Rate         == Cap \ {0}
LargestRate  == CHOOSE r \in Cap : \A k \in Cap : k <= r
SmallestRate == CHOOSE r \in Rate : \A k \in Rate : r <= k
LargestWrite == CHOOSE n \in Size : \A k \in Size : k <= n

\* The most that the bucket can owe, times the smallest rate, and why
\* LongAgo is long enough: by then that is paid back and the bucket is full.
DebtLimit == Cardinality(Stream) * LargestWrite * (LargestRate + SmallestRate)
ASSUME LongEnough ==
    Rate # {} => DebtLimit + 2 * SmallestRate * SmallestRate
                     <= LongAgo * SmallestRate * SmallestRate

VARIABLES cap,        \* cap_kbits
          tokens,     \* LimiterState::tokens
          since,      \* ticks since LimiterState::last_tick, at most LongAgo
          writer,     \* the write each stream is in
          rate,       \* observer: the cap of the last charge
          meter       \* observer: bytes let through above what rate allows

limiterVars == <<cap, tokens, since, writer, rate, meter>>

larger(a, b)  == IF a >= b THEN a ELSE b
smaller(a, b) == IF a <= b THEN a ELSE b

Writer == [at : {"ready", "loaded", "asleep"},
           size : Size \cup {0},
           cap : Cap,           \* the cap that acquire has loaded
           left : Nat,          \* ticks left to sleep
           metered : BOOLEAN]   \* observer: charged at the present rate
Ready  == [at |-> "ready", size |-> 0, cap |-> 0, left |-> 0, metered |-> FALSE]

LimiterInit ==
    /\ cap = 0 /\ tokens = 0 /\ since = 0
    /\ writer = [s \in Stream |-> Ready]
    /\ rate = 0 /\ meter = 0

set_kbits(k) == /\ cap' = k
                /\ UNCHANGED <<tokens, since, writer, rate, meter>>

-----------------------------------------------------------------------------
\* acquire, before the lock: no cap, no wait.
Load(s, n) ==
    /\ writer[s].at = "ready"
    /\ writer' = IF cap = 0 THEN writer
                 ELSE [writer EXCEPT ![s] = [at |-> "loaded", size |-> n, cap |-> cap,
                                             left |-> 0, metered |-> FALSE]]
    /\ UNCHANGED <<cap, tokens, since, rate, meter>>

\* The bucket under rate r: refilled, but by no more than two ticks' worth.
refilledFull(r) == tokens + since * r
refilled(r)     == smaller(tokens + since * r, 2 * r)
\* Ticks until a bucket at b is back at zero.
refillNone(b, r) == 0
refillTime(b, r) == IF b >= 0 THEN 0 ELSE (r - 1 - b) \div r

sinceKept  == since
sinceReset == 0                 \* last_tick = now

\* acquire, under the lock: the whole write is charged at once.  A charge at
\* another rate than the last one opens a new era for the observer.
PreCharge(s) ==
    LET w == writer[s]
        r == w.cap
        b == refilled(r) - w.size
        e == [t \in Stream |-> [writer[t] EXCEPT !.metered = @ /\ r = rate]]
    IN  /\ tokens' = b
        /\ since' = sinceReset
        /\ writer' = [e EXCEPT ![s] = [at |-> "asleep", size |-> w.size, cap |-> r,
                                       left |-> refillTime(b, r), metered |-> TRUE]]
        /\ rate' = r
        /\ meter' = IF r = rate THEN meter ELSE 0
        /\ UNCHANGED cap

ChargeWhenFull(s) == /\ writer[s].at = "loaded"
                     /\ refilled(writer[s].cap) >= writer[s].size
                     /\ PreCharge(s)
Charge(s) == /\ writer[s].at = "loaded"
             /\ PreCharge(s)

\* The sleep is over, or there was none: send_bytes writes.
Wake(s) ==
    /\ writer[s].at = "asleep" /\ writer[s].left = 0
    /\ writer' = [writer EXCEPT ![s] = Ready]
    /\ meter' = IF writer[s].metered THEN meter + writer[s].size ELSE meter
    /\ UNCHANGED <<cap, tokens, since, rate>>

\* A timer fires on time: the clock does not pass a writer whose sleep is over.
Tick ==
    /\ \A s \in Stream : writer[s].at = "asleep" => writer[s].left > 0
    /\ since' = smaller(since + 1, LongAgo)
    /\ writer' = [s \in Stream |-> [writer[s] EXCEPT !.left = larger(@ - 1, 0)]]
    /\ meter' = larger(meter - rate, 0)
    /\ UNCHANGED <<cap, tokens, rate>>

-----------------------------------------------------------------------------
\* One stream's writes, in any number and of any length.
Own(s) == \/ Charge(s) \/ Wake(s)
          \/ \E n \in Size : Load(s, n)

LimiterNext == \/ \E s \in Stream : Own(s)
               \/ \E k \in Cap : set_kbits(k)
               \/ Tick

LimiterSpec == LimiterInit /\ [][LimiterNext]_limiterVars

(***************************************************************************)
(* The clock goes on, a sleeper wakes, and a writer gets the lock, which   *)
(* is never held across an await.                                          *)
(***************************************************************************)
FairLimiterSpec ==
    /\ LimiterSpec /\ WF_limiterVars(Tick)
    /\ \A s \in Stream : WF_limiterVars(Charge(s)) /\ WF_limiterVars(Wake(s))

-----------------------------------------------------------------------------
\* The bucket keeps within its burst, and a writer that waits has a cap.
LimiterTypeOK ==
    /\ cap \in Cap /\ rate \in Cap
    /\ tokens \in Int /\ tokens <= 2 * LargestRate
    /\ since \in 0 .. LongAgo /\ meter \in Nat
    /\ writer \in [Stream -> Writer]
    /\ \A s \in Stream : writer[s].at # "ready" => writer[s].cap \in Rate

(***************************************************************************)
(* The bucket "can go slightly negative under burst" (blobs.rs:86).  How   *)
(* far: every write is charged before it is sent, streams charge while     *)
(* others sleep, and when the cap changes a writer that slept for one rate *)
(* finds the bucket refilled by another.  Still the debt does not pile up: *)
(* it is at most a largest write for each stream, and as many again times  *)
(* the ratio of the largest cap to the smallest.                           *)
(***************************************************************************)
DebtBounded == Rate # {} => -tokens * SmallestRate <= DebtLimit

(***************************************************************************)
(* The ceiling: while one cap is in force, all streams together send in    *)
(* any stretch of time no more than the cap allows for it, beside a burst  *)
(* of two ticks' worth, or one write that is larger (blobs.rs:66-68,       *)
(* 136-137).  The meter is at most B if and only if every stretch of k     *)
(* ticks has at most B + k * rate bytes.                                   *)
(***************************************************************************)
RateBounded == meter <= larger(2 * rate, LargestWrite + rate - 1)

\* Every write is let through in the end, also one that is larger than the
\* bucket can ever hold (blobs.rs:120-123).
WritesEnd == \A s \in Stream : writer[s].at = "loaded" ~> writer[s].at = "ready"
=============================================================================
