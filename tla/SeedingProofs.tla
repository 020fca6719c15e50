--------------------------- MODULE SeedingProofs ---------------------------
(***************************************************************************)
(* The switch, the rate and the debt of Seeding, for any number of         *)
(* connections, streams and callers of the setters, and any caps and       *)
(* lengths of writes.                                                      *)
(***************************************************************************)
EXTENDS Seeding, FiniteSetTheorems, FunctionTheorems, WellFoundedInduction, TLAPS

(***************************************************************************)
(* OneLateStream is not inductive: an accept loop that has served a late   *)
(* stream must not be waiting for another.  It is not, for it came by the  *)
(* check, which lets it through only once seeding is enabled again.        *)
(***************************************************************************)
SwitchInv ==
    /\ conn \in [Conn -> Loop]
    /\ late \in [Conn -> {0, 1}]
    /\ \A c \in Conn : late[c] = 1 => ~enabled /\ conn[c] # "parked"

LEMMA InitSwitch == Init => SwitchInv
BY DEF Init, SwitchInv, Loop

LEMMA ArriveSwitch == ASSUME SwitchInv, NEW c \in Conn, Arrive(c) PROVE SwitchInv'
BY DEF SwitchInv, Arrive, Goto, Loop

LEMMA CheckSwitch == ASSUME SwitchInv, NEW c \in Conn, CheckOnArrival(c) PROVE SwitchInv'
BY DEF SwitchInv, CheckOnArrival, Goto, Loop

\* The loop parks only while seeding is enabled, when nothing is late.
LEMMA RecheckSwitch == ASSUME SwitchInv, NEW c \in Conn, Recheck(c) PROVE SwitchInv'
<1>1. CASE enabled
  <2>1. \A d \in Conn : late[d] = 0
    BY <1>1 DEF SwitchInv
  <2>2. conn' \in [Conn -> Loop] /\ late' = late
    BY <1>1 DEF SwitchInv, Recheck, Goto, Loop
  <2> QED
    BY <2>1, <2>2 DEF SwitchInv
<1>2. CASE ~enabled
  <2>1. conn' = [conn EXCEPT ![c] = "none"] /\ late' = late /\ enabled' = enabled
    BY <1>2 DEF Recheck, Goto
  <2> QED
    BY <2>1 DEF SwitchInv, Loop
<1> QED
  BY <1>1, <1>2

\* A parked loop has served nothing late, so this is the first, and the loop
\* goes to the check.
LEMMA AcceptSwitch ==
  ASSUME SwitchInv, NEW c \in Conn, NEW s \in Stream, AcceptStream(c, s)
  PROVE  SwitchInv'
<1>1. /\ conn[c] = "parked" /\ conn' = [conn EXCEPT ![c] = "recheck"] /\ enabled' = enabled
  BY DEF AcceptStream, Goto, AfterStream
<1>2. late[c] = 0
  BY <1>1 DEF SwitchInv
<1>3. CASE enabled
  BY <1>1, <1>3 DEF SwitchInv, AcceptStream, Loop
<1>4. CASE ~enabled
  <2>1. late' = [late EXCEPT ![c] = smaller(late[c] + 1, 2)]
    BY <1>4 DEF AcceptStream
  <2>2. late' = [late EXCEPT ![c] = 1]
    BY <1>2, <2>1 DEF smaller
  <2> QED
    BY <1>1, <1>4, <2>2 DEF SwitchInv, Loop
<1> QED
  BY <1>3, <1>4

LEMMA LeaveSwitch == ASSUME SwitchInv, NEW c \in Conn, Leave(c) PROVE SwitchInv'
BY DEF SwitchInv, Leave, Goto, Loop

LEMMA SetSwitch ==
  ASSUME SwitchInv, NEW u \in Caller, NEW e \in BOOLEAN, NEW k \in Cap, SetEnabled(u, e, k)
  PROVE  SwitchInv'
<1>1. CASE e
  BY <1>1 DEF SwitchInv, SetEnabled
<1>2. CASE ~e
  <2>1. late' = late /\ conn' = conn /\ enabled' = FALSE
    BY <1>2 DEF SetEnabled
  <2> QED
    BY <2>1 DEF SwitchInv
<1> QED
  BY <1>1, <1>2

\* The streams, the writers, the clock and the caps do not touch the loops.
LEMMA OtherSwitch == ASSUME SwitchInv, UNCHANGED <<enabled, conn, late>> PROVE SwitchInv'
BY DEF SwitchInv

LEMMA NextSwitch == ASSUME SwitchInv, [Next]_vars PROVE SwitchInv'
<1>1. CASE UNCHANGED vars
  BY <1>1, OtherSwitch DEF vars
<1>2. ASSUME NEW c \in Conn, \/ Arrive(c) \/ CheckOnArrival(c) \/ Recheck(c) \/ Leave(c)
                             \/ \E s \in Stream : AcceptStream(c, s)
      PROVE  SwitchInv'
  BY <1>2, ArriveSwitch, CheckSwitch, RecheckSwitch, LeaveSwitch, AcceptSwitch
<1>3. ASSUME NEW s \in streams, EndStream(s) PROVE SwitchInv'
  BY <1>3, OtherSwitch DEF EndStream
<1>4. ASSUME NEW s, NEW n \in Size, Serve(Load(s, n)) PROVE SwitchInv'
  BY <1>4, OtherSwitch DEF Serve
<1>5. ASSUME NEW s \in Stream, Serve(Charge(s)) \/ Serve(Wake(s)) PROVE SwitchInv'
  BY <1>5, OtherSwitch DEF Serve
<1>6. ASSUME Serve(Tick) PROVE SwitchInv'
  BY <1>6, OtherSwitch DEF Serve
<1>7. ASSUME NEW u \in Caller, NEW e \in BOOLEAN, NEW k \in Cap, SetEnabled(u, e, k)
      PROVE  SwitchInv'
  BY <1>7, SetSwitch
<1>8. ASSUME NEW u \in Caller, SetKbits(u) PROVE SwitchInv'
  BY <1>8, OtherSwitch DEF SetKbits
<1>9. ASSUME NEW k \in Cap, SetUploadCap(k) PROVE SwitchInv'
  BY <1>9, OtherSwitch DEF SetUploadCap, Serve
<1> QED
  BY <1>1, <1>2, <1>3, <1>4, <1>5, <1>6, <1>7, <1>8, <1>9 DEF Next

\* However many callers throw the switch, a connection gets at most one
\* stream in any one stretch of time in which seeding is disabled.
THEOREM AtMostOneLateStream == Spec => []OneLateStream
<1>1. Init => SwitchInv
  BY InitSwitch
<1>2. SwitchInv /\ [Next]_vars => SwitchInv'
  BY NextSwitch
<1>3. SwitchInv => OneLateStream
  BY DEF SwitchInv, OneLateStream
<1> QED
  BY <1>1, <1>2, <1>3, PTL DEF Spec
-----------------------------------------------------------------------------
(***************************************************************************)
(* The rate.  RateBounded says nothing of the writers that are still       *)
(* asleep, whose bytes come later and all in one tick.  The invariant      *)
(* gives each of them a balance: the level the bucket would be at had      *)
(* nothing been charged after it.  Writers are ordered by their charges,   *)
(* a later one lower by its size, and a sleeper's balance reaches zero     *)
(* when its sleep ends, not a tick later: what is metered when it wakes,   *)
(* its bytes included, is still within the burst.                          *)
(***************************************************************************)
Burst   == larger(2 * rate, LargestWrite + rate - 1)
Metered == {s \in Stream : writer[s].at = "asleep" /\ writer[s].metered}

RateType ==
    /\ cap \in Cap /\ rate \in Cap
    /\ tokens \in Int /\ since \in Nat /\ meter \in Nat
    /\ writer \in [Stream -> Writer]
    /\ \A s \in Stream : writer[s].at # "ready" =>
           writer[s].cap \in Rate /\ writer[s].size \in Size

\* What bal says of one sleeper, and of two.
Balance(bal, s) ==
    /\ bal[s] >= refilled(rate)
    /\ bal[s] + writer[s].left * rate >= 0
    /\ writer[s].left > 0 => bal[s] + writer[s].left * rate < rate
    /\ meter + bal[s] + writer[s].size <= Burst
Apart(bal, s, t) == bal[s] >= bal[t] + writer[t].size \/ bal[t] >= bal[s] + writer[s].size

Balanced(bal) ==
    /\ \A s \in Metered : Balance(bal, s)
    /\ \A s, t \in Metered : s # t => Apart(bal, s, t)

RateInv ==
    /\ RateType
    /\ rate = 0 => Metered = {}
    /\ meter <= Burst
    /\ meter + refilled(rate) <= Burst
    /\ \E bal \in [Stream -> Int] : Balanced(bal)

\* The arithmetic that the steps need.
LEMMA LargestIsNat == LargestWrite \in Nat /\ \A n \in Size : n <= LargestWrite
BY SizeAssumption DEF LargestWrite

LEMMA CapsAreNat == Cap \subseteq Nat /\ Rate \subseteq Nat \ {0} /\ 0 \in Cap
BY CapAssumption DEF Rate

\* A sleep is the least number of ticks that brings the bucket back to zero.
LEMMA SleepIsExact ==
  ASSUME NEW b \in Int, NEW r \in Nat \ {0}
  PROVE  /\ refillTime(b, r) \in Nat
         /\ b + refillTime(b, r) * r >= 0
         /\ refillTime(b, r) > 0 => b + refillTime(b, r) * r < r
<1>1. CASE b >= 0
  BY <1>1 DEF refillTime
<1>2. CASE ~(b >= 0)
  <2> DEFINE j == (r - 1 - b) \div r
  <2>1. j \in Int /\ j * r <= r - 1 - b /\ r - 1 - b < j * r + r
    <3> DEFINE m == (r - 1 - b) % r
    <3>1. r - 1 - b = r * j + m /\ m \in 0 .. r - 1 /\ j \in Int
      BY SMT
    <3> QED
      BY <3>1, SMT
  <2>2. j >= 0
    BY <1>2, <2>1, SMT
  <2> QED
    BY <1>2, <2>1, <2>2 DEF refillTime
<1> QED
  BY <1>1, <1>2

LEMMA Products ==
  ASSUME NEW i \in Nat, NEW j \in Nat, NEW r \in Nat, i <= j
  PROVE  i * r \in Nat /\ i * r <= j * r /\ (j + 1) * r = j * r + r
<1>1. PICK k \in Nat : j = i + k
  <2>1. j - i \in Nat /\ j = i + (j - i)
    OBVIOUS
  <2> QED
    BY <2>1
<1>2. i * r \in Nat /\ k * r \in Nat
  OBVIOUS
<1>3. (i + k) * r = i * r + k * r /\ (j + 1) * r = j * r + r
  OBVIOUS
<1> QED
  BY <1>1, <1>2, <1>3

LEMMA WriterIsRecord ==
  ASSUME NEW w \in Writer
  PROVE  /\ w = [at |-> w.at, size |-> w.size, cap |-> w.cap, left |-> w.left,
                 metered |-> w.metered]
         /\ w.at \in {"ready", "loaded", "asleep"} /\ w.size \in Nat /\ w.cap \in Nat
         /\ w.left \in Nat /\ w.metered \in BOOLEAN
BY CapsAreNat, SizeAssumption DEF Writer

LEMMA InitRate == LimiterInit => RateInv
<1> SUFFICES ASSUME LimiterInit PROVE RateInv
  OBVIOUS
<1>1. RateType
  BY CapsAreNat DEF LimiterInit, RateType, Writer, Ready
<1>2. Metered = {}
  BY DEF LimiterInit, Metered, Ready
<1>3. meter = 0 /\ Burst \in Nat /\ refilled(rate) = 0
  BY LargestIsNat DEF LimiterInit, Burst, larger, refilled, smaller
<1>4. [s \in Stream |-> 0] \in [Stream -> Int] /\ Balanced([s \in Stream |-> 0])
  BY <1>2 DEF Balanced
<1> QED
  BY <1>1, <1>2, <1>3, <1>4 DEF RateInv

\* What is not a charge, a waking or a tick leaves the sleepers alone.
LEMMA SameRate ==
  ASSUME RateInv, RateType', Metered' = Metered, UNCHANGED <<tokens, since, rate, meter>>,
         \A s \in Metered : writer'[s] = writer[s]
  PROVE  RateInv'
<1> PICK bal \in [Stream -> Int] : Balanced(bal)
  BY DEF RateInv
<1>1. Burst' = Burst /\ refilled(rate)' = refilled(rate)
  BY DEF Burst, refilled
<1>2. Balanced(bal)'
  BY <1>1 DEF Balanced, Balance, Apart
<1> QED
  BY <1>1, <1>2 DEF RateInv

LEMMA SetRate == ASSUME RateInv, NEW k \in Cap, set_kbits(k) PROVE RateInv'
<1>1. RateType' /\ Metered' = Metered
  BY DEF RateInv, RateType, set_kbits, Metered
<1> QED
  BY <1>1, SameRate DEF set_kbits

LEMMA LoadRate == ASSUME RateInv, NEW s \in Stream, NEW n \in Size, Load(s, n) PROVE RateInv'
<1>1. CASE cap = 0
  <2>1. UNCHANGED limiterVars
    BY <1>1 DEF Load, limiterVars
  <2>2. RateType' /\ Metered' = Metered
    BY <2>1 DEF limiterVars, RateInv, RateType, Metered
  <2> QED
    BY <2>1, <2>2, SameRate DEF limiterVars
<1>2. CASE cap # 0
  <2> DEFINE w == [at |-> "loaded", size |-> n, cap |-> cap, left |-> 0, metered |-> FALSE]
  <2>1. writer' = [writer EXCEPT ![s] = w]
    BY <1>2 DEF Load
  <2>2. w \in Writer /\ w.cap \in Rate
    BY <1>2 DEF RateInv, RateType, Writer, Rate
  <2>3. RateType'
    BY <2>1, <2>2 DEF RateInv, RateType, Load
  <2>4. Metered' = Metered /\ \A t \in Metered : writer'[t] = writer[t]
    BY <2>1 DEF RateInv, RateType, Load, Metered
  <2> QED
    BY <2>3, <2>4, SameRate DEF Load
<1> QED
  BY <1>1, <1>2

\* The write goes in at the bottom: every balance is at least what the bucket
\* holds, and the new one is what it holds less the size.
LEMMA ChargeRate == ASSUME RateInv, NEW s \in Stream, Charge(s) PROVE RateInv'
<1> DEFINE w == writer[s]
           r == w.cap
           b == refilled(r) - w.size
           v == [at |-> "asleep", size |-> w.size, cap |-> r, left |-> refillTime(b, r),
                 metered |-> TRUE]
<1> PICK bal \in [Stream -> Int] : Balanced(bal)
  BY DEF RateInv
<1>1. /\ w \in Writer /\ r \in Rate /\ w.size \in Size
      /\ r \in Nat \ {0} /\ w.size \in Nat \ {0} /\ w.size <= LargestWrite
      /\ tokens \in Int /\ since \in Nat /\ meter \in Nat /\ rate \in Cap /\ rate \in Nat
  BY CapsAreNat, LargestIsNat, SizeAssumption DEF Charge, RateInv, RateType
<1>2. refilled(r) \in Int /\ refilled(r) <= 2 * r /\ b \in Int
  <2>1. since * r \in Int
    BY <1>1
  <2> QED
    BY <1>1, <2>1 DEF refilled, smaller
<1>3. /\ tokens' = b /\ since' = 0 /\ rate' = r /\ cap' = cap
      /\ meter' = IF r = rate THEN meter ELSE 0
  BY DEF Charge, PreCharge, sinceReset
<1>4. refilled(rate)' = b
  BY <1>1, <1>2, <1>3 DEF refilled, smaller
<1>5. /\ writer' \in [Stream -> Writer] /\ writer'[s] = v
      /\ \A t \in Stream \ {s} :
             writer'[t] = [writer[t] EXCEPT !.metered = writer[t].metered /\ r = rate]
  <2>1. v \in Writer
    BY <1>1, <1>2, SleepIsExact DEF Writer
  <2>2. \A t \in Stream :
            [writer[t] EXCEPT !.metered = writer[t].metered /\ r = rate] \in Writer
    BY DEF RateInv, RateType, Writer
  <2>3. writer' = [[t \in Stream |-> [writer[t] EXCEPT !.metered = writer[t].metered /\ r = rate]]
                       EXCEPT ![s] = v]
    BY DEF Charge, PreCharge
  <2> QED
    BY <2>1, <2>2, <2>3
<1>6. RateType'
  BY <1>1, <1>2, <1>3, <1>5 DEF RateInv, RateType, Writer
<1>7. s \in Metered' /\ s \notin Metered
  BY <1>5 DEF Metered, Charge
<1>8. CASE r = rate
  <2>1. Metered' = Metered \cup {s} /\ \A t \in Metered : writer'[t] = writer[t]
    BY <1>5, <1>7, <1>8 DEF Metered, RateInv, RateType, Writer
  <2>2. Burst' = Burst /\ meter' = meter /\ Burst \in Int
    BY <1>1, <1>3, <1>8, LargestIsNat DEF Burst, larger
  <2> PICK ban \in [Stream -> Int] : ban = [bal EXCEPT ![s] = b]
    BY <1>2
  <2>3. ban[s] = b /\ \A t \in Metered : ban[t] = bal[t] /\ ban[t] >= b + w.size
    BY <1>1, <1>2, <1>7, <1>8 DEF Balanced, Balance, Metered
  <2>4. meter' <= Burst' /\ meter' + b <= Burst' /\ meter' + b + w.size <= Burst'
    BY <1>1, <1>2, <1>8, <2>2 DEF RateInv
  <2>5. ASSUME NEW t \in Metered' PROVE Balance(ban, t)'
    <3>1. CASE t = s
      BY <1>1, <1>2, <1>3, <1>4, <1>5, <2>3, <2>4, <3>1, SleepIsExact DEF Balance
    <3>2. CASE t \in Metered
      <4>1. Balance(bal, t)
        BY <3>2 DEF Balanced
      <4>2. ban[t] = bal[t] /\ ban[t] >= b /\ writer'[t] = writer[t]
        <5>1. bal[t] \in Int
          BY <3>2 DEF Metered
        <5> QED
          BY <1>1, <1>2, <2>1, <2>3, <3>2, <5>1
      <4> QED
        BY <1>3, <1>4, <1>8, <2>2, <4>1, <4>2 DEF Balance
    <3> QED
      BY <2>1, <3>1, <3>2
  <2>6. ASSUME NEW t \in Metered', NEW u \in Metered', t # u PROVE Apart(ban, t, u)'
    <3>1. CASE t # s /\ u # s
      <4>1. t \in Metered /\ u \in Metered
        BY <2>1, <3>1
      <4>2. Apart(bal, t, u)
        BY <2>6, <4>1 DEF Balanced
      <4> QED
        BY <2>1, <2>3, <4>1, <4>2 DEF Apart
    <3>2. CASE t = s
      BY <1>5, <2>1, <2>3, <2>6, <3>2 DEF Apart
    <3>3. CASE u = s
      BY <1>5, <2>1, <2>3, <2>6, <3>3 DEF Apart
    <3> QED
      BY <3>1, <3>2, <3>3
  <2>7. Balanced(ban)'
    BY <2>5, <2>6 DEF Balanced
  <2>8. rate' # 0 /\ (meter <= Burst)' /\ (meter + refilled(rate) <= Burst)'
    BY <1>1, <1>3, <1>4, <2>4
  <2> QED
    BY <1>6, <2>7, <2>8 DEF RateInv
<1>9. CASE r # rate
  <2>1. Metered' = {s}
    BY <1>5, <1>7, <1>9 DEF Metered, RateInv, RateType, Writer
  <2>2. meter' = 0 /\ Burst' \in Int /\ Burst' >= 2 * r
    BY <1>1, <1>3, <1>9, LargestIsNat DEF Burst, larger
  <2> PICK ban \in [Stream -> Int] : ban = [t \in Stream |-> b]
    BY <1>2
  <2>3. Balance(ban, s)'
    <3>1. ban[s] = b /\ meter' + b + w.size <= Burst'
      BY <1>1, <1>2, <2>2
    <3> QED
      BY <1>1, <1>2, <1>3, <1>4, <1>5, <3>1, SleepIsExact DEF Balance
  <2>4. Balanced(ban)'
    BY <2>1, <2>3 DEF Balanced
  <2>5. rate' # 0 /\ (meter <= Burst)' /\ (meter + refilled(rate) <= Burst)'
    BY <1>1, <1>2, <1>3, <1>4, <2>2
  <2> QED
    BY <1>6, <2>4, <2>5 DEF RateInv
<1> QED
  BY <1>8, <1>9

\* Who was charged before the one that wakes, and has not woken, moves down by
\* what the meter moves up; who was charged after it has room for it already.
LEMMA WakeRate == ASSUME RateInv, NEW s \in Stream, Wake(s) PROVE RateInv'
<1> PICK bal \in [Stream -> Int] : Balanced(bal)
  BY DEF RateInv
<1> DEFINE n == writer[s].size
<1>1. writer[s] \in Writer /\ n \in Nat \ {0} /\ writer[s].left = 0
  BY SizeAssumption DEF RateInv, RateType, Wake
<1>2. /\ rate \in Nat /\ meter \in Nat /\ Burst \in Int /\ refilled(rate) \in Int
      /\ \A t \in Stream : writer[t].size \in Nat /\ writer[t].left \in Nat
  <2>1. rate \in Nat /\ meter \in Nat /\ tokens \in Int /\ since \in Nat
    BY CapsAreNat DEF RateInv, RateType
  <2>2. Burst \in Int /\ refilled(rate) \in Int
    BY <2>1, LargestIsNat DEF Burst, larger, refilled, smaller
  <2> QED
    BY <2>1, <2>2, WriterIsRecord DEF RateInv, RateType
<1>3. writer' = [writer EXCEPT ![s] = Ready] /\ UNCHANGED <<cap, tokens, since, rate>>
  BY DEF Wake
<1>4. Metered' = Metered \ {s} /\ \A t \in Metered \ {s} : writer'[t] = writer[t]
  BY <1>3 DEF Metered, Ready, RateInv, RateType
<1>5. Burst' = Burst /\ refilled(rate)' = refilled(rate)
  BY <1>3 DEF Burst, refilled
<1>6. RateType'
  <2>1. Ready \in Writer
    BY CapsAreNat DEF Ready, Writer
  <2>2. meter' \in Nat
    BY <1>1, <1>2 DEF Wake
  <2> QED
    BY <1>3, <2>1, <2>2 DEF RateInv, RateType, Ready
<1>7. CASE s \notin Metered
  <2>1. meter' = meter /\ Metered' = Metered
    BY <1>4, <1>7 DEF Wake, Metered
  <2> QED
    BY <1>3, <1>4, <1>6, <2>1, SameRate
<1>8. CASE s \in Metered
  <2>1. meter' = meter + n
    BY <1>8 DEF Wake, Metered
  <2>2. bal[s] \in Int /\ bal[s] >= 0 /\ bal[s] >= refilled(rate) /\ meter + bal[s] + n <= Burst
    BY <1>1, <1>2, <1>8 DEF Balanced, Balance
  <2> PICK ban \in [Stream -> Int] :
        ban = [t \in Stream |-> IF bal[t] >= bal[s] + n THEN bal[t] - n ELSE bal[t]]
    <3>1. \A t \in Stream : (IF bal[t] >= bal[s] + n THEN bal[t] - n ELSE bal[t]) \in Int
      BY <1>1, <2>2
    <3> QED
      BY <3>1
  <2>3. ASSUME NEW t \in Metered \ {s}
        PROVE  /\ t \in Stream /\ bal[t] \in Int /\ writer[t].size \in Nat /\ writer[t].left \in Nat
               /\ Balance(bal, t)
               /\ \/ bal[t] >= bal[s] + n /\ ban[t] = bal[t] - n
                  \/ bal[s] >= bal[t] + writer[t].size /\ bal[t] < bal[s] + n /\ ban[t] = bal[t]
    <3>1. t \in Stream /\ t \in Metered /\ Balance(bal, t)
      BY DEF Metered, Balanced
    <3>2. Apart(bal, s, t)
      BY <1>8, <3>1 DEF Balanced
    <3> QED
      BY <1>1, <1>2, <2>2, <3>1, <3>2 DEF Apart
  <2>4. ASSUME NEW t \in Metered' PROVE Balance(ban, t)'
    <3> DEFINE d == writer[t].left * rate
    <3>1. writer'[t] = writer[t] /\ t \in Metered \ {s}
      BY <1>4
    <3>2. d \in Nat
      <4>1. writer[t].left \in Nat
        BY <2>3, <3>1
      <4> QED
        BY <1>2, <4>1, Products
    <3>3. /\ bal[t] >= refilled(rate) /\ bal[t] + d >= 0
          /\ writer[t].left > 0 => bal[t] + d < rate
          /\ meter + bal[t] + writer[t].size <= Burst
      BY <2>3, <3>1 DEF Balance
    <3> HIDE DEF d
    <3>4. /\ ban[t] >= refilled(rate) /\ ban[t] + d >= 0
          /\ writer[t].left > 0 => ban[t] + d < rate
          /\ meter + n + ban[t] + writer[t].size <= Burst
      <4>1. CASE bal[t] >= bal[s] + n /\ ban[t] = bal[t] - n
        BY <1>1, <1>2, <2>2, <2>3, <3>1, <3>2, <3>3, <4>1
      <4>2. CASE bal[s] >= bal[t] + writer[t].size /\ ban[t] = bal[t]
        BY <1>1, <1>2, <2>2, <2>3, <3>1, <3>2, <3>3, <4>2
      <4> QED
        BY <2>3, <3>1, <4>1, <4>2
    <3> QED
      BY <1>3, <1>5, <2>1, <3>1, <3>4 DEF Balance, d
  <2>5. ASSUME NEW t \in Metered', NEW u \in Metered', t # u PROVE Apart(ban, t, u)'
    <3>1. writer'[t] = writer[t] /\ t \in Metered \ {s} /\ writer'[u] = writer[u] /\ u \in Metered \ {s}
      BY <1>4
    <3> DEFINE nt == writer[t].size
               nu == writer[u].size
    <3>2. bal[t] >= bal[u] + nu \/ bal[u] >= bal[t] + nt
      BY <2>5, <3>1 DEF Balanced, Apart
    <3>3. /\ bal[t] \in Int /\ nt \in Nat
          /\ \/ bal[t] >= bal[s] + n /\ ban[t] = bal[t] - n
             \/ bal[s] >= bal[t] + nt /\ bal[t] < bal[s] + n /\ ban[t] = bal[t]
      BY <2>3, <3>1
    <3>4. /\ bal[u] \in Int /\ nu \in Nat
          /\ \/ bal[u] >= bal[s] + n /\ ban[u] = bal[u] - n
             \/ bal[s] >= bal[u] + nu /\ bal[u] < bal[s] + n /\ ban[u] = bal[u]
      BY <2>3, <3>1
    <3> HIDE DEF n, nt, nu
    <3>5. ban[t] >= ban[u] + nu \/ ban[u] >= ban[t] + nt
      BY <1>1, <2>2, <3>2, <3>3, <3>4
    <3> QED
      BY <3>1, <3>5 DEF Apart, nt, nu
  <2>6. (meter <= Burst)' /\ (meter + refilled(rate) <= Burst)' /\ (rate = 0 => Metered = {})'
    BY <1>1, <1>2, <1>3, <1>4, <1>5, <1>8, <2>1, <2>2 DEF RateInv
  <2> QED
    BY <1>6, <2>4, <2>5, <2>6 DEF Balanced, RateInv
<1> QED
  BY <1>7, <1>8

\* A tick refills every balance and drains the meter by one rate.  When the
\* meter was lower, a sleeper's balance was below zero, and is below the rate.
LEMMA TickRate == ASSUME RateInv, Tick PROVE RateInv'
<1> PICK bal \in [Stream -> Int] : Balanced(bal)
  BY DEF RateInv
<1>1. /\ rate \in Nat /\ meter \in Nat /\ tokens \in Int /\ since \in Nat
      /\ LargestWrite \in Nat
      /\ \A t \in Stream : writer[t] \in Writer
  BY CapsAreNat, LargestIsNat DEF RateInv, RateType
<1>2. /\ since' = smaller(since + 1, LongAgo) /\ meter' = larger(meter - rate, 0)
      /\ writer' = [s \in Stream |-> [writer[s] EXCEPT !.left = larger(writer[s].left - 1, 0)]]
      /\ UNCHANGED <<cap, tokens, rate>>
  BY DEF Tick
<1>3. /\ Burst' = Burst /\ Burst \in Int /\ Burst >= 2 * rate /\ Burst >= LargestWrite + rate - 1
      /\ meter' \in Nat
  BY <1>1, <1>2 DEF Burst, larger
<1>4. /\ refilled(rate) \in Int /\ refilled(rate)' \in Int
      /\ refilled(rate)' <= refilled(rate) + rate /\ refilled(rate)' <= 2 * rate
      /\ since' \in Nat
  <2>1. since' \in Nat /\ since' <= since + 1
    BY <1>1, <1>2, LongAgoAssumption DEF smaller
  <2> DEFINE x == since * rate
             y == since' * rate
  <2>2. x \in Int /\ y \in Int /\ y <= x + rate
    <3>1. x \in Nat /\ (since + 1) * rate = x + rate
      BY <1>1, Products
    <3>2. y \in Nat /\ y <= (since + 1) * rate
      <4>1. since + 1 \in Nat
        BY <1>1
      <4> QED
        BY <1>1, <2>1, <4>1, Products
    <3> HIDE DEF x, y
    <3> QED
      BY <1>1, <3>1, <3>2
  <2>3. refilled(rate) = smaller(tokens + x, 2 * rate) /\ refilled(rate)' = smaller(tokens + y, 2 * rate)
    BY <1>2 DEF refilled
  <2> HIDE DEF x, y
  <2> QED
    BY <1>1, <2>1, <2>2, <2>3 DEF smaller
<1>5. \A t \in Stream : /\ writer'[t] = [writer[t] EXCEPT !.left = larger(writer[t].left - 1, 0)]
                        /\ writer'[t] \in Writer /\ writer'[t].at = writer[t].at
                        /\ writer'[t].size = writer[t].size /\ writer'[t].cap = writer[t].cap
                        /\ writer'[t].metered = writer[t].metered
                        /\ writer'[t].left = larger(writer[t].left - 1, 0)
  <2> TAKE t \in Stream
  <2> DEFINE w == writer[t]
             j == larger(w.left - 1, 0)
  <2>1. w \in Writer /\ writer'[t] = [w EXCEPT !.left = j]
    BY <1>1, <1>2
  <2>2. w = [at |-> w.at, size |-> w.size, cap |-> w.cap, left |-> w.left, metered |-> w.metered]
    BY <2>1, WriterIsRecord
  <2>3. j \in Nat
    BY <2>1, WriterIsRecord DEF larger
  <2> HIDE DEF w, j
  <2>4. [w EXCEPT !.left = j]
          = [at |-> w.at, size |-> w.size, cap |-> w.cap, left |-> j, metered |-> w.metered]
    BY <2>2
  <2>5. [at |-> w.at, size |-> w.size, cap |-> w.cap, left |-> j, metered |-> w.metered] \in Writer
    BY <2>1, <2>3 DEF Writer
  <2> QED
    BY <2>1, <2>4, <2>5 DEF w, j
<1>6. RateType'
  BY <1>2, <1>3, <1>4, <1>5 DEF RateInv, RateType, Writer
<1>7. Metered' = Metered
  BY <1>5 DEF Metered
<1> PICK ban \in [Stream -> Int] : ban = [t \in Stream |-> bal[t] + rate]
  <2>1. \A t \in Stream : bal[t] + rate \in Int
    <3>1. \A i \in Int : i + rate \in Int
      BY <1>1
    <3> QED
      BY <3>1
  <2> QED
    BY <2>1
<1>8. ASSUME NEW t \in Metered
      PROVE  /\ ban[t] = bal[t] + rate /\ bal[t] \in Int /\ writer'[t].size = writer[t].size
             /\ writer[t].size \in Nat /\ writer[t].size <= LargestWrite
             /\ writer[t].left \in Nat \ {0} /\ writer'[t].left = writer[t].left - 1
  BY <1>1, <1>5, LargestIsNat, SizeAssumption DEF Metered, RateInv, RateType, Writer, Tick, larger
<1>9. ASSUME NEW t \in Metered' PROVE Balance(ban, t)'
  <2> DEFINE d == writer[t].left * rate
             f == writer'[t].left * rate
             n == writer[t].size
             v == refilled(rate)
  <2>1. t \in Metered
    BY <1>7
  <2>2. d \in Int /\ f = d - rate /\ d >= rate
    <3> DEFINE j == writer'[t].left
    <3>1. j \in Nat /\ writer[t].left = j + 1
      BY <1>8, <2>1
    <3>2. j * rate \in Nat /\ (j + 1) * rate = j * rate + rate
      BY <1>1, <3>1, Products
    <3> QED
      BY <1>1, <3>1, <3>2
  <2>3. bal[t] >= v /\ bal[t] + d >= 0 /\ bal[t] + d < rate /\ meter + bal[t] + n <= Burst
    BY <1>8, <2>1 DEF Balanced, Balance
  <2>4. ban[t] = bal[t] + rate /\ bal[t] \in Int /\ n \in Nat /\ n <= LargestWrite
    BY <1>8, <2>1
  <2>5. v \in Int /\ v' \in Int /\ v' <= v + rate
    BY <1>4
  <2> HIDE DEF d, f, n, v
  <2>6. bal[t] <= -1
    BY <1>1, <2>2, <2>3, <2>4
  <2>7. ban[t] >= v' /\ ban[t] + f >= 0 /\ ban[t] + f < rate
    BY <1>1, <2>2, <2>3, <2>4, <2>5
  <2>8. meter' + ban[t] + n <= Burst
    <3>1. CASE meter >= rate
      BY <1>1, <1>2, <1>3, <2>3, <2>4, <3>1 DEF larger
    <3>2. CASE meter < rate
      <4>1. meter' = 0
        BY <1>1, <1>2, <3>2 DEF larger
      <4> QED
        BY <1>1, <1>3, <2>4, <2>6, <4>1
    <3> QED
      BY <1>1, <3>1, <3>2
  <2> QED
    BY <1>2, <1>3, <1>8, <2>1, <2>7, <2>8 DEF Balance, f, n, v
<1>10. ASSUME NEW t \in Metered', NEW u \in Metered', t # u PROVE Apart(ban, t, u)'
  <2> DEFINE nt == writer[t].size
             nu == writer[u].size
  <2>1. t \in Metered /\ u \in Metered
    BY <1>7
  <2>2. bal[t] >= bal[u] + nu \/ bal[u] >= bal[t] + nt
    BY <1>10, <2>1 DEF Balanced, Apart
  <2>3. /\ ban[t] = bal[t] + rate /\ bal[t] \in Int /\ nt \in Nat /\ writer'[t].size = nt
        /\ ban[u] = bal[u] + rate /\ bal[u] \in Int /\ nu \in Nat /\ writer'[u].size = nu
    BY <1>8, <2>1
  <2> HIDE DEF nt, nu
  <2> QED
    BY <1>1, <2>2, <2>3 DEF Apart
<1>11. (meter <= Burst)' /\ (meter + refilled(rate) <= Burst)' /\ (rate = 0 => Metered = {})'
  BY <1>1, <1>2, <1>3, <1>4, <1>7 DEF RateInv, larger
<1> QED
  BY <1>6, <1>9, <1>10, <1>11 DEF Balanced, RateInv

LEMMA NextRate == ASSUME RateInv, [LimiterNext]_limiterVars PROVE RateInv'
<1>1. CASE UNCHANGED limiterVars
  <2>1. RateType' /\ Metered' = Metered
    BY <1>1 DEF limiterVars, RateInv, RateType, Metered
  <2> QED
    BY <1>1, <2>1, SameRate DEF limiterVars
<1> QED
  BY <1>1, ChargeRate, WakeRate, LoadRate, SetRate, TickRate DEF LimiterNext, Own

\* However many streams share the bucket, whatever they write and however the
\* cap is changed between the load of it and the charge: while one cap is in
\* force no stretch of time carries more than the cap allows and the burst.
THEOREM RateKept == LimiterSpec => []RateBounded
<1>1. LimiterInit => RateInv
  BY InitRate
<1>2. RateInv /\ [LimiterNext]_limiterVars => RateInv'
  BY NextRate
<1>3. RateInv => RateBounded
  BY DEF RateInv, RateBounded, Burst
<1> QED
  BY <1>1, <1>2, <1>3, PTL DEF LimiterSpec

(***************************************************************************)
(* The types of the limiter.  RateInv has all of them but the two bounds:  *)
(* of the bucket, which a charge leaves below the burst of the rate it is  *)
(* charged at, and of the clock.                                           *)
(***************************************************************************)
Bounds == since \in 0 .. LongAgo /\ tokens <= 2 * LargestRate

LEMMA LargestRateIsNat == LargestRate \in Nat /\ \A r \in Cap : r <= LargestRate
BY CapAssumption DEF LargestRate

LEMMA InitBounds == LimiterInit => Bounds
BY LargestRateIsNat, LongAgoAssumption DEF LimiterInit, Bounds

LEMMA ChargeBounds ==
  ASSUME RateInv, Bounds, NEW s \in Stream, Charge(s)
  PROVE  Bounds'
<1> DEFINE r == writer[s].cap
           n == writer[s].size
           x == since * r
<1>1. r \in Rate /\ r \in Nat /\ n \in Nat /\ tokens \in Int /\ since \in Nat
  BY CapsAreNat, SizeAssumption DEF Charge, RateInv, RateType
<1>2. x \in Int
  BY <1>1
<1>3. tokens' = smaller(tokens + x, 2 * r) - n /\ since' = 0
  BY DEF Charge, PreCharge, refilled, sinceReset
<1>4. r <= LargestRate /\ LargestRate \in Nat
  BY <1>1, LargestRateIsNat DEF Rate
<1>5. LargestRate' = LargestRate
  BY DEF LargestRate
<1> HIDE DEF r, n, x
<1>6. tokens' <= 2 * LargestRate
  BY <1>1, <1>2, <1>3, <1>4 DEF smaller
<1> QED
  BY <1>3, <1>5, <1>6, LongAgoAssumption DEF Bounds

LEMMA NextBounds ==
  ASSUME RateInv, Bounds, [LimiterNext]_limiterVars
  PROVE  Bounds'
<1>1. ASSUME NEW s \in Stream, Charge(s) PROVE Bounds'
  BY <1>1, ChargeBounds
<1>2. ASSUME Tick PROVE Bounds'
  BY <1>2, LongAgoAssumption DEF Tick, Bounds, smaller, LargestRate
<1>3. ASSUME UNCHANGED <<tokens, since>> PROVE Bounds'
  BY <1>3 DEF Bounds, LargestRate
<1>4. ASSUME NEW s \in Stream, Wake(s) \/ \E n \in Size : Load(s, n) PROVE Bounds'
  BY <1>3, <1>4 DEF Wake, Load
<1>5. ASSUME NEW k \in Cap, set_kbits(k) PROVE Bounds'
  BY <1>3, <1>5 DEF set_kbits
<1>6. CASE UNCHANGED limiterVars
  BY <1>3, <1>6 DEF limiterVars
<1> QED
  BY <1>1, <1>2, <1>4, <1>5, <1>6 DEF LimiterNext, Own

\* The bucket never holds more than two ticks of the largest cap, and a writer
\* is charged or made to wait only at a cap above zero.
THEOREM LimiterTypeCorrect == LimiterSpec => []LimiterTypeOK
<1>1. LimiterInit => RateInv /\ Bounds
  BY InitRate, InitBounds
<1>2. RateInv /\ Bounds /\ [LimiterNext]_limiterVars => RateInv' /\ Bounds'
  BY NextRate, NextBounds
<1>3. RateInv /\ Bounds => LimiterTypeOK
  BY DEF RateInv, RateType, Bounds, LimiterTypeOK
<1> QED
  BY <1>1, <1>2, <1>3, PTL DEF LimiterSpec

-----------------------------------------------------------------------------
(***************************************************************************)
(* The debt.  Time is what bounds it, and nothing in the bucket says how   *)
(* much of it must pass: a sleeper's rate need not be the one the bucket   *)
(* is refilled by.  So the invariant counts what the streams may still     *)
(* charge soon.  A stream that may charge has Quota cells, and each tick   *)
(* left to sleep takes SmallestRate of them away.  A tick gives every      *)
(* stream at most as many cells back as all streams together owe less; a   *)
(* charge takes all the cells of its stream, if the debt is so large that  *)
(* the sleep is as long, or there is room for all cells there can be.      *)
(***************************************************************************)
Quota      == Cardinality(Stream) * LargestWrite
CellsOf(w) == {c \in Stream \X (1 .. Quota) : c[2] + SmallestRate * w[c[1]].left <= Quota}
Owed       == -tokens - since * SmallestRate

DebtInv ==
    /\ \A s \in Stream : writer[s].at # "asleep" => writer[s].left = 0
    /\ -tokens * SmallestRate <= DebtLimit
    /\ SmallestRate * (Cardinality(Stream) * Owed + Cardinality(CellsOf(writer)))
           <= Cardinality(Stream) * DebtLimit

LEMMA LeastOf ==
  ASSUME NEW N, N \subseteq Nat, N # {}
  PROVE  \E x \in N : \A y \in N : x <= y
<1>1. PICK x \in N : \A y \in N : <<y, x>> \notin OpToRel(<, Nat)
  BY NatLessThanWellFounded, WFMin
<1>2. \A y \in N : ~(y < x)
  BY <1>1 DEF OpToRel
<1> QED
  BY <1>2

LEMMA SmallestIsLeast ==
  ASSUME Rate # {}
  PROVE  SmallestRate \in Rate /\ \A k \in Rate : SmallestRate <= k
<1>1. Rate \subseteq Nat
  BY CapsAreNat
<1>2. \E r \in Rate : \A k \in Rate : r <= k
  BY <1>1, LeastOf
<1> QED
  BY <1>2 DEF SmallestRate

\* The numbers of the invariant.
LEMMA DebtNumbers ==
  ASSUME Rate # {}
  PROVE  /\ Cardinality(Stream) \in Nat /\ LargestWrite \in Nat /\ Quota \in Nat
         /\ SmallestRate \in Nat \ {0} /\ LargestRate \in Nat \ {0}
         /\ SmallestRate <= LargestRate
         /\ DebtLimit = Quota * LargestRate + Quota * SmallestRate
<1>1. Cardinality(Stream) \in Nat /\ LargestWrite \in Nat
  BY StreamAssumption, FS_CardinalityType, LargestIsNat
<1>2. SmallestRate \in Rate /\ SmallestRate \in Nat \ {0}
  BY SmallestIsLeast, CapsAreNat
<1>3. LargestRate \in Nat /\ SmallestRate <= LargestRate
  BY <1>2, LargestRateIsNat DEF Rate
<1>4. Quota \in Nat
  BY <1>1 DEF Quota
<1>5. DebtLimit = Quota * (LargestRate + SmallestRate)
  BY DEF DebtLimit, Quota
<1>6. \A q, x, y \in Nat : q * (x + y) = q * x + q * y
  OBVIOUS
<1> QED
  BY <1>1, <1>2, <1>3, <1>4, <1>5, <1>6

LEMMA Times ==
  ASSUME NEW i \in Int, NEW j \in Int, NEW k \in Nat, i <= j
  PROVE  k * i \in Int /\ k * i <= k * j
<1>1. k * (j - i) \in Nat
  <2>1. j - i \in Nat
    OBVIOUS
  <2> QED
    BY <2>1
<1>2. k * (j - i) = k * j - k * i /\ k * i \in Int /\ k * j \in Int
  OBVIOUS
<1> QED
  BY <1>1, <1>2

LEMMA Over ==
  ASSUME NEW i \in Int, NEW j \in Int, NEW k \in Nat \ {0}, k * i <= k * j
  PROVE  i <= j
<1> SUFFICES ASSUME j + 1 <= i PROVE FALSE
  OBVIOUS
<1>1. k * (j + 1) <= k * i
  BY Times
<1>2. k * (j + 1) = k * j + k /\ k * j \in Int /\ k * i \in Int
  OBVIOUS
<1> QED
  BY <1>1, <1>2

-----------------------------------------------------------------------------
\* The cells.
LEMMA FirstNumbers ==
  ASSUME NEW n \in Nat
  PROVE  IsFiniteSet(1 .. n) /\ Cardinality(1 .. n) = n
<1>1. IsFiniteSet(1 .. n) /\ Cardinality(1 .. n) = IF 1 > n THEN 0 ELSE n - 1 + 1
  BY FS_Interval
<1> QED
  BY <1>1

LEMMA CellsAreFew ==
  ASSUME Rate # {}, NEW w
  PROVE  /\ IsFiniteSet(CellsOf(w)) /\ Cardinality(CellsOf(w)) \in Nat
         /\ Cardinality(CellsOf(w)) <= Cardinality(Stream) * Quota
<1> DEFINE all == Stream \X (1 .. Quota)
<1>1. IsFiniteSet(1 .. Quota) /\ Cardinality(1 .. Quota) = Quota
  <2>1. Quota \in Nat
    BY DebtNumbers
  <2> QED
    BY <2>1, FirstNumbers
<1>2. IsFiniteSet(all) /\ Cardinality(all) = Cardinality(Stream) * Quota
  BY <1>1, StreamAssumption, FS_Product
<1>3. CellsOf(w) \in SUBSET all
  BY DEF CellsOf
<1> HIDE DEF all
<1> QED
  BY <1>2, <1>3, FS_Subset, FS_CardinalityType

LEMMA SameCells ==
  ASSUME NEW w, NEW v, \A t \in Stream : v[t].left = w[t].left
  PROVE  CellsOf(v) = CellsOf(w)
BY DEF CellsOf

\* A tick brings each stream at most SmallestRate cells.
LEMMA TickCells ==
  ASSUME Rate # {}, NEW w, NEW v,
         \A t \in Stream : w[t].left \in Nat /\ v[t].left = larger(w[t].left - 1, 0)
  PROVE  Cardinality(CellsOf(v))
             <= Cardinality(CellsOf(w)) + Cardinality(Stream) * SmallestRate
<1> DEFINE m   == SmallestRate
           new == CellsOf(v) \ CellsOf(w)
           fit == Stream \X (1 .. m)
           pos(c) == c[2] + m * w[c[1]].left - Quota
           f   == [c \in new |-> <<c[1], pos(c)>>]
<1>1. m \in Nat \ {0} /\ Quota \in Nat
  BY DebtNumbers
<1>2. ASSUME NEW c \in new
      PROVE  /\ c \in Stream \X (1 .. Quota) /\ c[1] \in Stream /\ c[2] \in Nat
             /\ m * w[c[1]].left \in Nat /\ pos(c) \in 1 .. m
  <2> DEFINE j == w[c[1]].left
             k == v[c[1]].left
  <2>1. c \in Stream \X (1 .. Quota) /\ c[1] \in Stream /\ c[2] \in Nat
    BY <1>1 DEF CellsOf
  <2>2. c[2] + m * k <= Quota /\ ~(c[2] + m * j <= Quota)
    BY <2>1 DEF CellsOf
  <2>3. j \in Nat /\ k = larger(j - 1, 0)
    BY <2>1
  <2> HIDE DEF j, k, m
  <2>4. j # 0
    BY <2>2, <2>3 DEF larger
  <2>5. k \in Nat /\ j = k + 1
    BY <2>3, <2>4 DEF larger
  <2>6. m * k \in Nat /\ m * (k + 1) = m * k + m
    BY <1>1, <2>5
  <2>7. m * j = m * k + m
    BY <2>5, <2>6
  <2>8. c[2] + m * j - Quota \in 1 .. m
    BY <1>1, <2>1, <2>2, <2>6, <2>7
  <2>9. m * j \in Nat
    BY <1>1, <2>6, <2>7
  <2> QED
    BY <2>1, <2>8, <2>9 DEF j
<1>3. f \in [new -> fit]
  BY <1>2
<1>4. ASSUME NEW c \in new, NEW d \in new, f[c] = f[d] PROVE c = d
  <2>1. c[1] = d[1] /\ pos(c) = pos(d)
    <3> DEFINE x == pos(c)
               y == pos(d)
    <3>1. f[c] = <<c[1], x>> /\ f[d] = <<d[1], y>>
      OBVIOUS
    <3>2. <<c[1], x>> = <<d[1], y>>
      BY <1>4, <3>1
    <3>3. c[1] = d[1] /\ x = y
      <4> HIDE DEF x, y
      <4> QED
        BY <3>2
    <3> QED
      BY <3>3
  <2> DEFINE x == m * w[c[1]].left
  <2>2. c[2] \in Nat /\ d[2] \in Nat /\ x \in Nat
    BY <1>2
  <2>3. c[2] + x - Quota = d[2] + x - Quota
    BY <2>1
  <2> HIDE DEF x
  <2>4. c[2] = d[2]
    BY <1>1, <2>2, <2>3
  <2>5. c = <<c[1], c[2]>> /\ d = <<d[1], d[2]>>
    BY <1>2
  <2> QED
    BY <2>1, <2>4, <2>5
<1>5. f \in Injection(new, fit)
  <2>1. \A c, d \in new : f[c] = f[d] => c = d
    BY <1>4
  <2> HIDE DEF f, new, fit
  <2> QED
    BY <1>3, <2>1, Fun_IsInj
<1>6. IsFiniteSet(fit) /\ Cardinality(fit) = Cardinality(Stream) * m
  <2>1. IsFiniteSet(1 .. m) /\ Cardinality(1 .. m) = m
    BY <1>1, FirstNumbers
  <2> QED
    BY <2>1, StreamAssumption, FS_Product
<1> HIDE DEF fit, f, new
<1>7. IsFiniteSet(new) /\ Cardinality(new) \in Nat /\ Cardinality(new) <= Cardinality(Stream) * m
  BY <1>5, <1>6, FS_Injection, FS_CardinalityType
<1> DEFINE both == CellsOf(w) \cup new
<1>8. /\ IsFiniteSet(both) /\ Cardinality(both) \in Nat
      /\ Cardinality(both) <= Cardinality(CellsOf(w)) + Cardinality(new)
  <2>1. IsFiniteSet(CellsOf(w)) /\ Cardinality(CellsOf(w)) \in Nat
    BY CellsAreFew
  <2>2. /\ IsFiniteSet(both)
        /\ Cardinality(both) = Cardinality(CellsOf(w)) + Cardinality(new)
                                   - Cardinality(CellsOf(w) \cap new)
    BY <1>7, <2>1, FS_Union
  <2>3. Cardinality(CellsOf(w) \cap new) \in Nat
    BY <2>1, FS_Intersection, FS_CardinalityType
  <2> QED
    BY <1>7, <2>1, <2>2, <2>3, FS_CardinalityType
<1>9. CellsOf(v) \in SUBSET both
  BY DEF new
<1>10. Cardinality(CellsOf(v)) <= Cardinality(both) /\ Cardinality(CellsOf(v)) \in Nat
  BY <1>8, <1>9, FS_Subset, CellsAreFew
<1>11. Cardinality(CellsOf(w)) \in Nat /\ Cardinality(Stream) * m \in Nat
  BY <1>1, DebtNumbers, CellsAreFew
<1> HIDE DEF m, both
<1>12. Cardinality(CellsOf(v)) <= Cardinality(CellsOf(w)) + Cardinality(Stream) * m
  BY <1>7, <1>8, <1>10, <1>11
<1> QED
  BY <1>12 DEF m

\* A stream that goes to sleep for long gives up all its cells.
LEMMA SleepCells ==
  ASSUME Rate # {}, NEW s \in Stream, NEW w, NEW v,
         w[s].left = 0, v[s].left \in Nat, SmallestRate * v[s].left >= Quota,
         \A t \in Stream \ {s} : v[t].left = w[t].left
  PROVE  Cardinality(CellsOf(v)) = Cardinality(CellsOf(w)) - Quota
<1> DEFINE column == {s} \X (1 .. Quota)
<1>1. SmallestRate \in Nat /\ Quota \in Nat
  BY DebtNumbers
<1>2. IsFiniteSet(column) /\ Cardinality(column) = Quota
  <2>1. IsFiniteSet(1 .. Quota) /\ Cardinality(1 .. Quota) = Quota
    BY <1>1, FirstNumbers
  <2>2. IsFiniteSet({s}) /\ Cardinality({s}) = 1
    BY FS_Singleton
  <2>3. IsFiniteSet(column) /\ Cardinality(column) = Cardinality({s}) * Cardinality(1 .. Quota)
    BY <2>1, <2>2, FS_Product
  <2> QED
    BY <1>1, <2>1, <2>2, <2>3
<1>3. column \subseteq CellsOf(w)
  <2>1. SmallestRate * w[s].left = 0
    BY <1>1
  <2> QED
    BY <1>1, <2>1 DEF CellsOf
<1>4. CellsOf(v) = CellsOf(w) \ column
  <2>1. \A i \in 1 .. Quota : ~(i + SmallestRate * v[s].left <= Quota)
    <3>1. SmallestRate * v[s].left \in Nat
      BY <1>1
    <3> QED
      BY <1>1, <3>1
  <2>2. \A c \in CellsOf(v) : c \notin column
    BY <2>1 DEF CellsOf
  <2>3. \A c \in Stream \X (1 .. Quota) : c \notin column => (c \in CellsOf(v) <=> c \in CellsOf(w))
    BY DEF CellsOf
  <2>4. CellsOf(v) \subseteq Stream \X (1 .. Quota) /\ CellsOf(w) \subseteq Stream \X (1 .. Quota)
    BY DEF CellsOf
  <2> HIDE DEF column
  <2> QED
    BY <2>2, <2>3, <2>4
<1>5. IsFiniteSet(CellsOf(w)) /\ CellsOf(w) \cap column = column
  BY <1>3, CellsAreFew
<1> HIDE DEF column
<1>6. Cardinality(CellsOf(w) \ column) = Cardinality(CellsOf(w)) - Cardinality(CellsOf(w) \cap column)
  BY <1>5, FS_Difference
<1> QED
  BY <1>2, <1>4, <1>5, <1>6
-----------------------------------------------------------------------------
\* The steps.  Only a charge and a tick touch the debt or the time to sleep.
LEMMA InitDebt == ASSUME Rate # {}, LimiterInit PROVE DebtInv
<1>1. tokens = 0 /\ since = 0 /\ \A s \in Stream : writer[s].left = 0
  BY DEF LimiterInit, Ready
<1> DEFINE n == Cardinality(Stream)
           m == SmallestRate
           c == Cardinality(CellsOf(writer))
<1>2. /\ n \in Nat /\ m \in Nat /\ Quota \in Nat /\ LargestRate \in Nat
      /\ DebtLimit = Quota * LargestRate + Quota * m
  BY DebtNumbers
<1>3. c \in Nat /\ c <= n * Quota
  BY CellsAreFew
<1>4. Owed = 0
  BY <1>1, <1>2 DEF Owed
<1> HIDE DEF n, m, c
<1>5. m * c <= m * (n * Quota)
  <2>1. n * Quota \in Nat
    BY <1>2
  <2> QED
    BY <1>2, <1>3, <2>1, Times
<1>6. m * (n * Owed + c) = m * c
  BY <1>2, <1>3, <1>4
<1>7. n * (Quota * LargestRate + Quota * m) = n * (Quota * LargestRate) + m * (n * Quota)
  BY <1>2
<1>8. n * (Quota * LargestRate) \in Nat /\ m * (n * Quota) \in Nat /\ m * c \in Nat
  BY <1>2, <1>3
<1>9. m * (n * Owed + c) <= n * DebtLimit
  BY <1>2, <1>5, <1>6, <1>7, <1>8
<1>10. -tokens * m <= DebtLimit
  <2>1. Quota * LargestRate \in Nat /\ Quota * m \in Nat /\ -tokens * m = 0
    BY <1>1, <1>2
  <2> QED
    BY <1>2, <2>1
<1> QED
  BY <1>1, <1>9, <1>10 DEF DebtInv, n, m, c

LEMMA SameDebt ==
  ASSUME Rate # {}, DebtInv, UNCHANGED <<tokens, since>>,
         \A s \in Stream : /\ writer'[s].left = writer[s].left
                           /\ writer'[s].at # "asleep" => writer'[s].left = 0
  PROVE  DebtInv'
<1>1. CellsOf(writer') = CellsOf(writer)
  BY SameCells
<1>2. Owed' = Owed /\ CellsOf(writer)' = CellsOf(writer')
  BY DEF Owed, CellsOf
<1>3. SmallestRate' = SmallestRate /\ DebtLimit' = DebtLimit
  BY DEF SmallestRate, DebtLimit
<1> QED
  BY <1>1, <1>2, <1>3 DEF DebtInv

LEMMA LoadDebt ==
  ASSUME Rate # {}, RateType, DebtInv, NEW s \in Stream, NEW k \in Size, Load(s, k)
  PROVE  DebtInv'
<1>1. \A t \in Stream : /\ writer'[t].left = writer[t].left
                        /\ writer'[t].at # "asleep" => writer'[t].left = 0
  BY DEF Load, DebtInv, RateType
<1> QED
  BY <1>1, SameDebt DEF Load

LEMMA WakeDebt ==
  ASSUME Rate # {}, RateType, DebtInv, NEW s \in Stream, Wake(s)
  PROVE  DebtInv'
<1>1. \A t \in Stream : /\ writer'[t].left = writer[t].left
                        /\ writer'[t].at # "asleep" => writer'[t].left = 0
  BY DEF Wake, DebtInv, RateType, Ready
<1> QED
  BY <1>1, SameDebt DEF Wake

\* The bucket at the smallest rate owes at least what it owes at any.
LEMMA ChargeDebt ==
  ASSUME Rate # {}, RateType, DebtInv, NEW s \in Stream, Charge(s)
  PROVE  DebtInv'
<1> DEFINE n == Cardinality(Stream)
           m == SmallestRate
           r == writer[s].cap
           b == refilled(r) - writer[s].size
           left == refillTime(b, r)
           c == Cardinality(CellsOf(writer))
           d == Cardinality(CellsOf(writer'))
<1>1. /\ n \in Nat \ {0} /\ m \in Nat \ {0} /\ Quota \in Nat /\ LargestRate \in Nat \ {0}
      /\ m <= LargestRate /\ LargestWrite \in Nat
      /\ DebtLimit = Quota * LargestRate + Quota * m
  <2>1. n # 0
    BY StreamAssumption, FS_EmptySet
  <2> QED
    BY <2>1, DebtNumbers
<1>2. /\ tokens \in Int /\ since \in Nat /\ r \in Nat \ {0} /\ m <= r /\ r <= LargestRate
      /\ writer[s].size \in Nat /\ writer[s].size <= LargestWrite
  <2>1. r \in Rate /\ writer[s].size \in Size
    BY DEF Charge, RateType
  <2> QED
    BY <2>1, CapsAreNat, LargestIsNat, SizeAssumption, LargestRateIsNat, SmallestIsLeast
    DEF RateType, Rate
<1>3. /\ tokens' = b /\ since' = 0 /\ writer'[s].left = left /\ writer'[s].at = "asleep"
      /\ \A t \in Stream \ {s} : writer'[t].left = writer[t].left /\ writer'[t].at = writer[t].at
  BY DEF Charge, PreCharge, sinceReset, RateType, Writer
<1>4. /\ b \in Int
      /\ \/ -b <= Owed + LargestWrite
         \/ b = 2 * r - writer[s].size
  <2> DEFINE x == since * r
             y == since * m
  <2>1. x \in Int /\ y \in Int /\ y <= x
    <3>1. x = since * r /\ y = since * m
      OBVIOUS
    <3> HIDE DEF x, y
    <3> QED
      BY <1>1, <1>2, <3>1, Times
  <2>2. refilled(r) = smaller(tokens + x, 2 * r) /\ Owed = -tokens - y
    BY DEF refilled, Owed
  <2> HIDE DEF x, y, m, r
  <2> QED
    BY <1>1, <1>2, <2>1, <2>2 DEF smaller
<1>5. left \in Nat /\ -b <= left * r
  BY <1>2, <1>4, SleepIsExact
<1>6. c \in Nat /\ d \in Nat /\ d <= n * Quota
  BY CellsAreFew
<1>7. writer[s].left = 0
  BY DEF Charge, DebtInv
<1>8. m * (n * Owed + c) <= n * DebtLimit
  BY DEF DebtInv
<1>9. Owed \in Int
  <2>1. since * m \in Int
    BY <1>1, <1>2
  <2> QED
    BY <1>2, <2>1 DEF Owed
<1>10. \/ m * (-b) < Quota * LargestRate
       \/ m * left >= Quota /\ -b <= Owed + LargestWrite
  <2> SUFFICES ASSUME ~(m * (-b) < Quota * LargestRate)
               PROVE  m * left >= Quota /\ -b <= Owed + LargestWrite
    OBVIOUS
  <2> HIDE DEF n, m, r, b, left, c, d
  <2>1. m * (-b) \in Int /\ Quota * LargestRate \in Nat /\ m * (-b) >= Quota * LargestRate
    BY <1>1, <1>4
  <2>2. m * left >= Quota
    <3>1. -b <= left * LargestRate /\ left * LargestRate \in Nat
      <4>1. left * r <= left * LargestRate /\ left * r \in Int /\ left * LargestRate \in Nat
        BY <1>1, <1>2, <1>5, Times
      <4> QED
        BY <1>4, <1>5, <4>1
    <3>2. m * (-b) <= m * (left * LargestRate)
      BY <1>1, <1>4, <3>1, Times
    <3>3. m * (left * LargestRate) = LargestRate * (m * left) /\ m * left \in Nat
      BY <1>1, <1>5
    <3>4. LargestRate * Quota <= LargestRate * (m * left)
      <4>1. LargestRate * Quota = Quota * LargestRate /\ LargestRate * (m * left) \in Nat
        BY <1>1, <3>3
      <4> QED
        BY <2>1, <3>2, <3>3, <4>1
    <3> QED
      BY <1>1, <3>3, <3>4, Over
  <2>3. ~(b = 2 * r - writer[s].size)
    <3> SUFFICES ASSUME b = 2 * r - writer[s].size PROVE FALSE
      OBVIOUS
    <3>1. -b < LargestWrite
      BY <1>1, <1>2, <1>4
    <3>2. Quota >= LargestWrite
      <4>1. LargestWrite * 1 <= LargestWrite * n
        BY <1>1, Times
      <4>2. LargestWrite * n = Quota
        BY <1>1 DEF Quota, n
      <4> QED
        BY <1>1, <4>1, <4>2
    <3>3. m * (-b) <= m * (LargestWrite - 1) /\ m * (LargestWrite - 1) = m * LargestWrite - m
      <4>1. -b \in Int /\ LargestWrite - 1 \in Int /\ -b <= LargestWrite - 1
        BY <1>1, <1>4, <3>1
      <4>2. m * (-b) <= m * (LargestWrite - 1)
        BY <1>1, <4>1, Times
      <4> QED
        BY <1>1, <4>2
    <3>4. m * LargestWrite <= m * Quota /\ m * LargestWrite \in Nat
      BY <1>1, <3>2, Times
    <3>5. Quota * m <= Quota * LargestRate /\ Quota * m = m * Quota /\ m * Quota \in Nat
      BY <1>1, Times
    <3> QED
      BY <1>1, <2>1, <3>3, <3>4, <3>5
  <2> QED
    BY <1>4, <2>2, <2>3
<1>11. m * (n * (-b) + d) <= n * DebtLimit
  <2>1. CASE m * (-b) < Quota * LargestRate
    <3> HIDE DEF n, m, r, b, left, c, d
    <3> DEFINE x == m * (-b)
               y == Quota * LargestRate
               z == n * Quota
    <3>1. x \in Int /\ y \in Nat /\ z \in Nat /\ x <= y
      BY <1>1, <1>4, <2>1
    <3>2. n * x <= n * y /\ m * d <= m * z
      <4> HIDE DEF x, y, z
      <4>1. d <= z
        BY <1>6 DEF z
      <4> QED
        BY <1>1, <1>6, <3>1, <4>1, Times
    <3>3. m * (n * (-b) + d) = n * x + m * d
      BY <1>1, <1>4, <1>6
    <3>4. n * DebtLimit = n * y + m * z
      BY <1>1
    <3>5. n * x \in Int /\ n * y \in Int /\ m * d \in Int /\ m * z \in Int
      <4> HIDE DEF x, y, z
      <4> QED
        BY <1>1, <1>6, <3>1
    <3> HIDE DEF x, y, z
    <3> QED
      BY <3>2, <3>3, <3>4, <3>5
  <2>2. CASE m * left >= Quota /\ -b <= Owed + LargestWrite
    <3>1. d = c - Quota
      BY <1>3, <1>5, <1>7, <2>2, SleepCells
    <3> HIDE DEF n, m, r, b, left, c, d
    <3>2. n * (-b) <= n * Owed + Quota
      <4>1. n * (-b) <= n * (Owed + LargestWrite)
        <5>1. -b \in Int /\ Owed + LargestWrite \in Int
          BY <1>1, <1>4, <1>9
        <5> QED
          BY <1>1, <2>2, <5>1, Times
      <4>2. n * (Owed + LargestWrite) = n * Owed + n * LargestWrite /\ n * LargestWrite = Quota
        BY <1>1, <1>9 DEF Quota, n
      <4>3. n * (-b) \in Int /\ n * Owed \in Int
        BY <1>1, <1>4, <1>9
      <4> QED
        BY <1>1, <4>1, <4>2, <4>3
    <3>3. n * (-b) \in Int /\ n * Owed \in Int
      BY <1>1, <1>4, <1>9
    <3> DEFINE x == n * (-b) + d
               y == n * Owed + c
    <3>4. x \in Int /\ y \in Int /\ x <= y
      BY <1>1, <1>6, <3>1, <3>2, <3>3
    <3>5. m * x <= m * y /\ m * x \in Int /\ m * y \in Int /\ n * DebtLimit \in Int
      <4>1. n * DebtLimit \in Int
        BY <1>1
      <4> HIDE DEF x, y
      <4> QED
        BY <1>1, <3>4, <4>1, Times
    <3> QED
      BY <1>8, <3>5
  <2> QED
    BY <1>10, <2>1, <2>2
<1>12. m * (-b) <= DebtLimit
  <2> HIDE DEF n, m, r, b, left, c, d
  <2> DEFINE x == m * (-b)
  <2>1. x \in Int /\ n * x \in Int /\ m * d \in Nat /\ DebtLimit \in Nat /\ n * DebtLimit \in Nat
    BY <1>1, <1>4, <1>6
  <2>2. m * (n * (-b) + d) = n * x + m * d
    BY <1>1, <1>4, <1>6
  <2> HIDE DEF x
  <2>3. n * x <= n * DebtLimit
    BY <1>11, <2>1, <2>2
  <2>4. x <= DebtLimit
    BY <1>1, <2>1, <2>3, Over
  <2> QED
    BY <2>4 DEF x
<1>13. Owed' = -b /\ CellsOf(writer)' = CellsOf(writer') /\ SmallestRate' = m /\ DebtLimit' = DebtLimit
  <2>1. Owed' = -b - 0 * m
    BY <1>3 DEF Owed, SmallestRate
  <2>2. Owed' = -b
    <3> HIDE DEF b, m
    <3> QED
      BY <1>1, <1>4, <2>1
  <2> QED
    BY <2>2 DEF CellsOf, SmallestRate, DebtLimit, Quota
<1>14. -tokens' * m <= DebtLimit
  <2> HIDE DEF b, m
  <2>1. -b * m = m * (-b)
    BY <1>1, <1>4
  <2> QED
    BY <1>3, <1>12, <2>1
<1>15. \A t \in Stream : writer'[t].at # "asleep" => writer'[t].left = 0
  BY <1>3 DEF DebtInv
<1> QED
  BY <1>11, <1>13, <1>14, <1>15 DEF DebtInv

\* Where the ticks are no longer counted, the bucket owes nothing.
LEMMA TickDebt ==
  ASSUME Rate # {}, RateType, Bounds, DebtInv, Tick
  PROVE  DebtInv'
<1> DEFINE n == Cardinality(Stream)
           m == SmallestRate
           c == Cardinality(CellsOf(writer))
           d == Cardinality(CellsOf(writer'))
           o == Owed'
<1>1. /\ n \in Nat /\ m \in Nat \ {0} /\ Quota \in Nat /\ LargestRate \in Nat \ {0}
      /\ DebtLimit = Quota * LargestRate + Quota * m /\ DebtLimit \in Nat /\ n * DebtLimit \in Nat
  BY DebtNumbers
<1>2. /\ tokens \in Int /\ since \in Nat /\ since <= LongAgo /\ LongAgo \in Nat \ {0}
      /\ since' = smaller(since + 1, LongAgo) /\ tokens' = tokens
  BY LongAgoAssumption DEF RateType, Bounds, Tick
<1>3. \A t \in Stream : /\ writer[t].left \in Nat /\ writer'[t].left = larger(writer[t].left - 1, 0)
                        /\ writer'[t].at = writer[t].at
  BY DEF Tick, RateType, Writer
<1>4. \A t \in Stream : writer'[t].at # "asleep" => writer'[t].left = 0
  BY <1>3 DEF DebtInv, larger
<1>5. c \in Nat /\ d \in Nat /\ d <= n * Quota /\ d <= c + n * m
  BY <1>3, CellsAreFew, TickCells
<1>6. m * (n * Owed + c) <= n * DebtLimit /\ -tokens * m <= DebtLimit
  BY DEF DebtInv
<1>7. o = -tokens - since' * m /\ Owed = -tokens - since * m
  BY <1>2 DEF Owed, SmallestRate
<1>8. m * (n * o + d) <= n * DebtLimit
  <2>1. CASE since < LongAgo
    <3> HIDE DEF n, m, c, d, o
    <3>1. since' = since + 1
      BY <1>2, <2>1 DEF smaller
    <3>2. o = Owed - m /\ Owed \in Int
      <4>1. (since + 1) * m = since * m + m /\ since * m \in Int
        BY <1>1, <1>2
      <4> QED
        BY <1>1, <1>2, <1>7, <3>1, <4>1
    <3> DEFINE x == n * o + d
               y == n * Owed + c
    <3>3. x \in Int /\ y \in Int /\ x <= y
      <4>1. n * (Owed - m) = n * Owed - n * m /\ n * Owed \in Int /\ n * m \in Int
        BY <1>1, <3>2
      <4> QED
        BY <1>1, <1>5, <3>2, <4>1
    <3>4. m * x <= m * y /\ m * x \in Int /\ m * y \in Int
      <4> HIDE DEF x, y
      <4> QED
        BY <1>1, <3>3, Times
    <3> QED
      BY <1>1, <1>6, <3>4
  <2>2. CASE since = LongAgo
    <3>0. DebtLimit + 2 * m * m <= LongAgo * m * m
      BY LongEnough
    <3> HIDE DEF n, m, c, d, o
    <3>1. since' = LongAgo
      BY <1>2, <2>2 DEF smaller
    <3>2. o \in Int /\ o <= 0
      <4> DEFINE x == LongAgo * m
      <4>1. x \in Nat /\ LongAgo * m * m = m * x /\ 2 * m * m \in Nat /\ m * x \in Nat
        BY <1>1, <1>2
      <4>2. -tokens * m = m * (-tokens) /\ m * (-tokens) \in Int
        BY <1>1, <1>2
      <4>3. m * (-tokens) <= m * x
        BY <1>1, <1>6, <3>0, <4>1, <4>2
      <4>4. -tokens <= x
        <5> HIDE DEF x
        <5>1. -tokens \in Int
          BY <1>2
        <5> QED
          BY <1>1, <4>1, <4>3, <5>1, Over
      <4> QED
        BY <1>2, <1>7, <3>1, <4>1, <4>4
    <3>3. n * o <= 0 /\ n * o \in Int
      <4>1. n * o <= n * 0 /\ n * o \in Int
        BY <1>1, <3>2, Times
      <4> QED
        BY <1>1, <4>1
    <3> DEFINE x == n * o + d
               z == n * Quota
    <3>4. x \in Int /\ z \in Nat /\ x <= z
      BY <1>1, <1>5, <3>3
    <3>5. m * x <= m * z /\ m * x \in Int /\ m * z \in Int
      <4> HIDE DEF x, z
      <4> QED
        BY <1>1, <3>4, Times
    <3>6. n * DebtLimit = n * (Quota * LargestRate) + m * z /\ n * (Quota * LargestRate) \in Nat
      BY <1>1
    <3> HIDE DEF z
    <3> QED
      BY <1>1, <3>5, <3>6
  <2> QED
    BY <1>2, <2>1, <2>2
<1>9. CellsOf(writer)' = CellsOf(writer') /\ SmallestRate' = m /\ DebtLimit' = DebtLimit
  BY DEF CellsOf, SmallestRate, DebtLimit, Quota
<1> QED
  BY <1>2, <1>4, <1>6, <1>8, <1>9 DEF DebtInv

LEMMA NextDebt ==
  ASSUME Rate # {}, RateType, Bounds, DebtInv, [LimiterNext]_limiterVars
  PROVE  DebtInv'
<1>1. CASE UNCHANGED limiterVars
  BY <1>1, SameDebt DEF limiterVars, DebtInv
<1>2. ASSUME NEW k \in Cap, set_kbits(k) PROVE DebtInv'
  BY <1>2, SameDebt DEF set_kbits, DebtInv
<1> QED
  BY <1>1, <1>2, ChargeDebt, WakeDebt, LoadDebt, TickDebt DEF LimiterNext, Own

\* The debt of the bucket stays within the limit, for any number of streams,
\* any caps and any lengths of writes, however the cap is changed.
THEOREM DebtStaysBounded == LimiterSpec => []DebtBounded
<1> DEFINE Inv == RateInv /\ Bounds /\ (Rate # {} => DebtInv)
<1>1. LimiterInit => Inv
  BY InitRate, InitBounds, InitDebt
<1>2. Inv /\ [LimiterNext]_limiterVars => Inv'
  <2> SUFFICES ASSUME Inv, [LimiterNext]_limiterVars PROVE Inv'
    OBVIOUS
  <2>1. RateInv' /\ Bounds' /\ Rate' = Rate
    BY NextRate, NextBounds DEF Rate
  <2>2. Rate # {} => DebtInv'
    BY NextDebt DEF RateInv
  <2> QED
    BY <2>1, <2>2
<1>3. Inv => DebtBounded
  BY DEF DebtInv, DebtBounded
<1> QED
  BY <1>1, <1>2, <1>3, PTL DEF LimiterSpec

(***************************************************************************)
(* So it loses nothing that since is not counted beyond LongAgo: by then   *)
(* the bucket is full at every rate, and stays full.                       *)
(***************************************************************************)
FullByThen == since = LongAgo => \A r \in Rate : refilled(r) = 2 * r

LEMMA PaidBackIsFull ==
  ASSUME tokens \in Int, DebtBounded, since = LongAgo, NEW r \in Rate
  PROVE  refilled(r) = 2 * r
<1> DEFINE m == SmallestRate
<1>1. /\ m \in Nat \ {0} /\ r \in Nat \ {0} /\ m <= r /\ LongAgo \in Nat
      /\ DebtLimit = Quota * LargestRate + Quota * m /\ Quota \in Nat /\ LargestRate \in Nat
  BY DebtNumbers, SmallestIsLeast, CapsAreNat, LongAgoAssumption
<1>2. DebtLimit \in Nat /\ -tokens * m <= DebtLimit /\ DebtLimit + 2 * m * m <= LongAgo * m * m
  <2>1. -tokens * m <= DebtLimit /\ DebtLimit + 2 * m * m <= LongAgo * m * m
    BY LongEnough DEF DebtBounded
  <2>2. Quota * LargestRate \in Nat /\ Quota * m \in Nat
    BY <1>1
  <2> QED
    BY <1>1, <2>1, <2>2
<1> HIDE DEF m
<1> DEFINE x == LongAgo * m
<1>3. x \in Nat /\ LongAgo * m * m = m * x /\ 2 * m * m = m * (2 * m)
  BY <1>1
<1>4. -tokens + 2 * m <= x
  <2> HIDE DEF x
  <2>1. m * (-tokens + 2 * m) = -tokens * m + m * (2 * m) /\ -tokens * m \in Int /\ m * (2 * m) \in Nat
    BY <1>1
  <2>2. m * (-tokens + 2 * m) <= m * x /\ -tokens + 2 * m \in Int
    <3>1. m * x \in Int
      BY <1>1, <1>3
    <3> QED
      BY <1>1, <1>2, <1>3, <2>1, <3>1
  <2> QED
    BY <1>1, <1>3, <2>2, Over
<1>5. LongAgo >= 2
  <2>1. m * (2 * m) <= m * x /\ m * x \in Int /\ m * (2 * m) \in Int
    <3> HIDE DEF x
    <3>1. m * x \in Int /\ m * (2 * m) \in Int
      BY <1>1, <1>3
    <3> QED
      BY <1>2, <1>3, <3>1
  <2>2. 2 * m <= x
    <3> HIDE DEF x
    <3>1. 2 * m \in Int
      BY <1>1
    <3> QED
      BY <1>1, <1>3, <2>1, <3>1, Over
  <2>3. m * 2 <= m * LongAgo
    BY <1>1, <2>2
  <2> QED
    BY <1>1, <2>3, Over
<1>6. x - 2 * m <= LongAgo * r - 2 * r
  <2>1. (LongAgo - 2) * m <= (LongAgo - 2) * r
    BY <1>1, <1>5, Times
  <2>2. (LongAgo - 2) * m = LongAgo * m - 2 * m /\ (LongAgo - 2) * r = LongAgo * r - 2 * r
    BY <1>1
  <2> QED
    BY <2>1, <2>2
<1>7. LongAgo * r \in Nat
  BY <1>1
<1> HIDE DEF x
<1>8. tokens + LongAgo * r >= 2 * r
  BY <1>1, <1>3, <1>4, <1>6, <1>7
<1> QED
  BY <1>1, <1>7, <1>8 DEF refilled, smaller

THEOREM NothingIsLost == LimiterSpec => []FullByThen
<1>1. tokens \in Int /\ DebtBounded => FullByThen
  BY PaidBackIsFull DEF FullByThen
<1>2. LimiterTypeOK => tokens \in Int
  BY DEF LimiterTypeOK
<1> QED
  BY <1>1, <1>2, LimiterTypeCorrect, DebtStaysBounded, PTL

-----------------------------------------------------------------------------
(***************************************************************************)
(* The limiter inside the transport: connections, streams and setters make *)
(* only the limiter's own steps.                                           *)
(***************************************************************************)
Attached == streams \subseteq Stream /\ setter \in [Caller -> Cap \cup {Unset}]

LEMMA AttachedStays == ASSUME Attached, [Next]_vars PROVE Attached'
<1>1. CASE UNCHANGED vars
  BY <1>1 DEF vars, Attached
<1>2. ASSUME NEW c \in Conn, NEW s \in Stream, AcceptStream(c, s) PROVE Attached'
  BY <1>2 DEF AcceptStream, Goto, Attached
<1>3. ASSUME NEW u \in Caller, NEW e \in BOOLEAN, NEW k \in Cap, SetEnabled(u, e, k)
      PROVE  Attached'
  <2>1. (IF e THEN k ELSE 0) \in Cap \cup {Unset}
    BY CapsAreNat
  <2> QED
    BY <1>3, <2>1 DEF SetEnabled, Attached
<1>4. ASSUME NEW u \in Caller, SetKbits(u) PROVE Attached'
  BY <1>4 DEF SetKbits, Attached
<1>5. ASSUME NEW s \in streams, EndStream(s) PROVE Attached'
  BY <1>5 DEF EndStream, Attached
<1>6. ASSUME UNCHANGED <<streams, setter>> PROVE Attached'
  BY <1>6 DEF Attached
<1> QED
  BY <1>1, <1>2, <1>3, <1>4, <1>5, <1>6
  DEF Next, Arrive, CheckOnArrival, Recheck, Leave, Goto, Serve, SetUploadCap

LEMMA LimiterStep == ASSUME Attached, [Next]_vars PROVE [LimiterNext]_limiterVars
<1>1. ASSUME NEW u \in Caller, SetKbits(u) PROVE LimiterNext
  BY <1>1 DEF SetKbits, Attached, LimiterNext
<1>2. ASSUME NEW s \in streams, NEW n \in Size, Serve(Load(s, n)) PROVE LimiterNext
  BY <1>2 DEF Serve, Attached, LimiterNext, Own
<1>3. ASSUME NEW s \in Stream, Serve(Charge(s)) \/ Serve(Wake(s)) PROVE LimiterNext
  BY <1>3 DEF Serve, LimiterNext, Own
<1>4. ASSUME Serve(Tick) PROVE LimiterNext
  BY <1>4 DEF Serve, LimiterNext
<1>5. ASSUME NEW k \in Cap, SetUploadCap(k) PROVE LimiterNext
  BY <1>5 DEF Serve, SetUploadCap, LimiterNext
<1>6. ASSUME UNCHANGED limiterVars PROVE [LimiterNext]_limiterVars
  BY <1>6
<1>7. ASSUME NEW s \in streams, EndStream(s) PROVE UNCHANGED limiterVars
  BY <1>7 DEF EndStream
<1>8. ASSUME NEW u \in Caller, NEW e \in BOOLEAN, NEW k \in Cap, SetEnabled(u, e, k)
      PROVE  UNCHANGED limiterVars
  BY <1>8 DEF SetEnabled
<1>9. ASSUME NEW c \in Conn, \/ Arrive(c) \/ CheckOnArrival(c) \/ Recheck(c) \/ Leave(c)
                             \/ \E s \in Stream : AcceptStream(c, s)
      PROVE  UNCHANGED limiterVars
  BY <1>9 DEF Arrive, CheckOnArrival, Recheck, Leave, AcceptStream, Goto
<1>10. CASE UNCHANGED vars
  BY <1>10 DEF vars
<1>11. CASE Next
  BY <1>1, <1>2, <1>3, <1>4, <1>5, <1>6, <1>7, <1>8, <1>9, <1>11 DEF Next
<1> QED
  BY <1>10, <1>11

\* The transport runs its limiter as the limiter is meant to be run.
THEOREM LimiterImplemented == Spec => LimiterSpec
<1>1. Init => LimiterInit /\ Attached
  BY DEF Init, Attached
<1>2. Attached /\ [Next]_vars => Attached' /\ [LimiterNext]_limiterVars
  BY AttachedStays, LimiterStep
<1> QED
  BY <1>1, <1>2, PTL DEF Spec, LimiterSpec

\* So the rate is kept while seeding is switched, capped and uncapped.
THEOREM SeedingRateKept == Spec => []RateBounded
BY LimiterImplemented, RateKept, PTL

\* And so is the bound of the debt, under setters that overtake each other.
THEOREM SeedingDebtBounded == Spec => []DebtBounded
BY LimiterImplemented, DebtStaysBounded, PTL

(***************************************************************************)
(* The types of the transport.  What is not the limiter's, the switch's or *)
(* the setters' is that only a stream that is being served is in a write.  *)
(***************************************************************************)
Idle  == {s \in Stream : writer[s].at = "ready"}
Writing == Stream \ Idle
OnlyServedWrite == enabled \in BOOLEAN /\ Writing \subseteq streams

LEMMA InitServed == Init => OnlyServedWrite
BY DEF Init, LimiterInit, Ready, OnlyServedWrite, Writing, Idle

\* Nothing but the load of a cap, by a stream that is served, begins a write.
LEMMA ServedWrite ==
  ASSUME NEW s \in streams, NEW n \in Size, RateType, Attached, OnlyServedWrite,
         Serve(Load(s, n))
  PROVE  OnlyServedWrite'
<1>1. writer \in [Stream -> Writer] /\ streams' = streams /\ enabled' = enabled
  BY DEF RateType, Serve
<1>2. \A t \in Stream : t # s => writer'[t] = writer[t]
  BY <1>1 DEF Serve, Load
<1>3. Writing' \subseteq Writing \cup {s}
  BY <1>2 DEF Writing, Idle
<1> QED
  BY <1>1, <1>3 DEF OnlyServedWrite

LEMMA NextServed ==
  ASSUME RateType, Attached, OnlyServedWrite, [Next]_vars
  PROVE  OnlyServedWrite'
<1>1. writer \in [Stream -> Writer]
  BY DEF RateType
<1>2. ASSUME Writing' \subseteq Writing, streams \subseteq streams', enabled' = enabled
      PROVE  OnlyServedWrite'
  BY <1>2 DEF OnlyServedWrite
<1>3. ASSUME writer' = writer PROVE Writing' = Writing
  BY <1>3 DEF Writing, Idle
<1>4. ASSUME NEW c \in Conn, \/ Arrive(c) \/ CheckOnArrival(c) \/ Recheck(c) \/ Leave(c)
                             \/ \E s \in Stream : AcceptStream(c, s)
      PROVE  OnlyServedWrite'
  <2>1. writer' = writer /\ streams \subseteq streams' /\ enabled' = enabled
    BY <1>4 DEF Arrive, CheckOnArrival, Recheck, Leave, AcceptStream, Goto, limiterVars
  <2> QED
    BY <1>2, <1>3, <2>1
<1>5. ASSUME NEW s \in streams, EndStream(s) PROVE OnlyServedWrite'
  <2>1. writer' = writer /\ enabled' = enabled /\ streams' = streams \ {s}
    BY <1>5 DEF EndStream, limiterVars
  <2>2. s \notin Writing
    BY <1>5 DEF EndStream, Writing, Idle
  <2> QED
    BY <1>3, <2>1, <2>2 DEF OnlyServedWrite
<1>6. ASSUME NEW s \in streams, NEW n \in Size, Serve(Load(s, n)) PROVE OnlyServedWrite'
  BY <1>6, ServedWrite
<1>7. ASSUME NEW s \in Stream, Serve(Charge(s)) PROVE OnlyServedWrite'
  <2>1. /\ writer[s].at = "loaded" /\ streams' = streams /\ enabled' = enabled
        /\ \A t \in Stream : t # s => writer'[t].at = writer[t].at
    BY <1>1, <1>7 DEF Serve, Charge, PreCharge, Writer
  <2> QED
    BY <1>2, <2>1 DEF Writing, Idle
<1>8. ASSUME NEW s \in Stream, Serve(Wake(s)) PROVE OnlyServedWrite'
  <2>1. /\ streams' = streams /\ enabled' = enabled
        /\ \A t \in Stream : t # s => writer'[t] = writer[t]
        /\ writer[s].at = "asleep"
    BY <1>1, <1>8 DEF Serve, Wake
  <2> QED
    BY <1>2, <2>1 DEF Writing, Idle
<1>9. ASSUME Serve(Tick) PROVE OnlyServedWrite'
  <2>1. streams' = streams /\ enabled' = enabled
    BY <1>9 DEF Serve
  <2>2. \A t \in Stream : writer'[t].at = writer[t].at
    BY <1>1, <1>9 DEF Serve, Tick, Writer
  <2> QED
    BY <1>2, <2>1, <2>2 DEF Writing, Idle
<1>10. ASSUME NEW u \in Caller, NEW e \in BOOLEAN, NEW k \in Cap, SetEnabled(u, e, k)
       PROVE  OnlyServedWrite'
  <2>1. writer' = writer /\ streams' = streams
    BY <1>10 DEF SetEnabled, limiterVars
  <2>2. enabled' \in BOOLEAN
    BY <1>10, Zenon DEF SetEnabled
  <2> QED
    BY <1>3, <2>1, <2>2, Zenon DEF OnlyServedWrite
<1>11. ASSUME UNCHANGED <<writer, streams, enabled>> PROVE OnlyServedWrite'
  BY <1>2, <1>3, <1>11
<1>12. ASSUME NEW u \in Caller, SetKbits(u) PROVE OnlyServedWrite'
  BY <1>11, <1>12 DEF SetKbits, set_kbits
<1>13. ASSUME NEW k \in Cap, SetUploadCap(k) PROVE OnlyServedWrite'
  BY <1>11, <1>13 DEF SetUploadCap, Serve, set_kbits
<1>14. CASE UNCHANGED vars
  BY <1>11, <1>14 DEF vars, limiterVars
<1> QED
  BY <1>4, <1>5, <1>6, <1>7, <1>8, <1>9, <1>10, <1>12, <1>13, <1>14 DEF Next

\* The transport keeps the types of its limiter, and nothing writes on a stream
\* that is not, or no longer, served.
THEOREM SeedingTypeCorrect == Spec => []TypeOK
<1>1. Init => SwitchInv /\ Attached /\ OnlyServedWrite
  BY InitSwitch, InitServed DEF Init, Attached
<1>2. LimiterTypeOK /\ RateInv /\ SwitchInv /\ Attached /\ OnlyServedWrite /\ [Next]_vars
        => SwitchInv' /\ Attached' /\ OnlyServedWrite'
  BY NextSwitch, AttachedStays, NextServed DEF RateInv
<1>3. LimiterTypeOK /\ SwitchInv /\ Attached /\ OnlyServedWrite => TypeOK
  <2> SUFFICES ASSUME LimiterTypeOK, SwitchInv, Attached, OnlyServedWrite PROVE TypeOK
    OBVIOUS
  <2>1. \A s \in Stream : writer[s].at # "ready" => s \in streams
    BY DEF OnlyServedWrite, Writing, Idle
  <2>2. late \in [Conn -> 0 .. 2] /\ conn \in [Conn -> Loop]
    BY DEF SwitchInv
  <2>3. enabled \in BOOLEAN
    BY Zenon DEF OnlyServedWrite
  <2> QED
    BY <2>1, <2>2, <2>3, Zenon DEF TypeOK, Attached
<1>4. Spec => []LimiterTypeOK
  BY LimiterImplemented, LimiterTypeCorrect, PTL
<1>5. Spec => []RateInv
  <2>1. LimiterInit => RateInv
    BY InitRate
  <2>2. RateInv /\ [LimiterNext]_limiterVars => RateInv'
    BY NextRate
  <2> QED
    BY <2>1, <2>2, LimiterImplemented, PTL DEF LimiterSpec
<1> QED
  BY <1>1, <1>2, <1>3, <1>4, <1>5, PTL DEF Spec
=============================================================================
