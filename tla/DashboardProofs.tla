-------------------------- MODULE DashboardProofs --------------------------
(***************************************************************************)
(* What the dashboard shows, for any number of connections, classes,       *)
(* fetches and daemons, and any caps.                                      *)
(***************************************************************************)
EXTENDS Dashboard, ControlSocketProofs, SequenceTheorems, WellFoundedInduction

USE DEF vars, lifeVars, dashVars

Count0 == 0 .. MaxFetches
Reply  == [fetches : Count0, hits : Count0, recent : Seq(Nat), seen : BOOLEAN, from : Nat]
Update == [kind : {"stats"}, class : Class, stats : Reply] \cup Told

\* What is said of a class is of one of d daemons, and shows only fetches of K.
Honest(s, K, d) ==
    /\ s \in Reply /\ s.from \in 0 .. d
    /\ Len(s.recent) <= Larger(ViewCap, ReplyCap)
    /\ \A i \in DOMAIN s.recent : s.recent[i] \in K
HonestUpdate(u, K, d) ==
    /\ u \in Update
    /\ u.kind = "stats" => Honest(u.stats, K, d)
    /\ u.kind = "completed" => u.id \in K

LifeInv == up \in BOOLEAN /\ daemon \in 0 .. MaxDaemons

PollInv ==
    \/ poll = Asleep
    \/ /\ poll.at \in {"ask", "read"} /\ poll.todo # {} /\ poll.todo \subseteq Class
       /\ poll.at = "read" => up /\ poll.totals \in [fetches : Count0, hits : Count0]

\* The channel holds what the subscriber has not read, at most ChanCap events.
WireInv ==
    /\ listening \in BOOLEAN /\ sub \in 0 .. Len(sent)
    /\ listening => Len(sent) <= sub + ChanCap
    /\ wire \in Seq(Told) /\ Len(wire) <= ChanCap
    /\ \A i \in DOMAIN wire : HonestUpdate(wire[i], Counted, daemon)

InboxInv == /\ inbox \in Seq(Update) /\ Len(inbox) <= InboxCap
            /\ \A i \in DOMAIN inbox : HonestUpdate(inbox[i], Counted, daemon)
ViewInv  == /\ view \in [Class -> Reply] /\ \A c \in Class : Honest(view[c], Counted, daemon)
            /\ lines \in 0 .. TailCap

HonestInv == NodeInv /\ LifeInv /\ PollInv /\ WireInv /\ InboxInv /\ ViewInv

-----------------------------------------------------------------------------
(***************************************************************************)
(* The reply to ClassStats.                                                *)
(***************************************************************************)
LEMMA LeastOf ==
    ASSUME NEW N, N \subseteq Nat, N # {}
    PROVE  \E x \in N : \A y \in N : x <= y
<1>1. PICK x \in N : \A y \in N : <<y, x>> \notin OpToRel(<, Nat)
  BY NatLessThanWellFounded, WFMin
<1>2. \A y \in N : ~(y < x)
  BY <1>1 DEF OpToRel
<1> QED
  BY <1>2

\* Of finitely many places there is an nth from the end.
LEMMA NthFromTheEnd ==
    ASSUME NEW m \in Nat, NEW S, S \subseteq 1 .. m, NEW n \in 1 .. Cardinality(S)
    PROVE  FromTheEnd(S, n) \in S
<1> DEFINE After(x) == {j \in S : j >= x}
           N == {x \in Nat : Cardinality(After(x)) < n}
<1>1. IsFiniteSet(S) /\ Cardinality(S) \in Nat /\ n \in Nat /\ 1 <= n /\ n <= Cardinality(S)
  <2>1. IsFiniteSet(1 .. m)
    BY FS_Interval
  <2>2. IsFiniteSet(S)
    BY <2>1, FS_Subset
  <2> QED
    BY <2>2, FS_CardinalityType
<1>2. \A x \in Nat : IsFiniteSet(After(x)) /\ Cardinality(After(x)) \in Nat
  <2> SUFFICES ASSUME NEW x \in Nat
               PROVE  IsFiniteSet(After(x)) /\ Cardinality(After(x)) \in Nat
    OBVIOUS
  <2>1. After(x) \subseteq S
    OBVIOUS
  <2> HIDE DEF After
  <2> QED
    BY <1>1, <2>1, FS_Subset, FS_CardinalityType
<1>0. \A j \in S : j \in Nat /\ j >= 0 /\ ~(j >= m + 1)
  OBVIOUS
<1>3. After(m + 1) = {} /\ After(0) = S
  BY <1>0, Zenon
<1>4. m + 1 \in N /\ 0 \notin N
  <2>1. Cardinality(After(m + 1)) = 0
    BY <1>3, FS_EmptySet
  <2> QED
    BY <1>1, <1>3, <2>1
<1>5. PICK x \in N : \A y \in N : x <= y
  <2>1. N \subseteq Nat /\ N # {}
    BY <1>4
  <2> HIDE DEF N
  <2> QED
    BY <2>1, LeastOf
<1>6. x \in Nat /\ x # 0 /\ x - 1 \in Nat /\ x - 1 \notin N
  <2>1. x \in Nat /\ x # 0
    BY <1>4, <1>5
  <2>2. x - 1 \in Nat /\ ~(x <= x - 1)
    BY <2>1
  <2> HIDE DEF N
  <2> QED
    BY <1>5, <2>1, <2>2
<1>7. Cardinality(After(x)) < n /\ Cardinality(After(x - 1)) >= n
  <2>1. Cardinality(After(x)) < n
    BY <1>5, Zenon
  <2>2. ~(Cardinality(After(x - 1)) < n)
    BY <1>6, Zenon
  <2>3. Cardinality(After(x - 1)) \in Nat
    BY <1>2, <1>6
  <2> HIDE DEF After, N
  <2> QED
    BY <1>1, <2>1, <2>2, <2>3
<1>8. /\ After(x - 1) = (IF x - 1 \in S THEN After(x) \cup {x - 1} ELSE After(x))
      /\ x - 1 \notin After(x)
  <2>1. \A j \in S : j >= x - 1 <=> j >= x \/ j = x - 1
    BY <1>0, <1>6
  <2>2. ~(x - 1 >= x)
    BY <1>6
  <2> QED
    BY <2>1, <2>2, Zenon
<1> HIDE DEF After, N
<1>9. x - 1 \in S /\ Cardinality(After(x - 1)) = Cardinality(After(x)) + 1
  <2>1. Cardinality(After(x)) \in Nat /\ IsFiniteSet(After(x))
    BY <1>2, <1>6
  <2>2. x - 1 \in S
    BY <1>1, <1>7, <1>8, <2>1
  <2> QED
    BY <1>8, <2>1, <2>2, OneMore
<1>10. Cardinality(After(x - 1)) = n
  BY <1>1, <1>2, <1>6, <1>7, <1>9
<1> QED
  BY <1>9, <1>10 DEF FromTheEnd, After

LEMMA RecentOf ==
    ASSUME RingInv, NEW c
    PROVE  /\ \E n \in Nat : n <= ReplyCap /\ DOMAIN recent_for(c, ReplyCap) = 1 .. n
           /\ \A k \in DOMAIN recent_for(c, ReplyCap) :
                 \E i \in DOMAIN rows : recent_for(c, ReplyCap)[k] = rows[i]
<1> DEFINE S == Places(c)
           found == Cardinality(S)
           n == IF found <= ReplyCap THEN found ELSE ReplyCap
<1>1. Len(rows) \in Nat /\ S \subseteq 1 .. Len(rows) /\ S \subseteq DOMAIN rows
  BY DEF RingInv, Places
<1>2. found \in Nat
  <2>1. IsFiniteSet(1 .. Len(rows))
    BY <1>1, FS_Interval
  <2> HIDE DEF S
  <2> QED
    BY <1>1, <2>1, FS_Subset, FS_CardinalityType
<1>3. recent_for(c, ReplyCap) = [k \in 1 .. n |-> rows[FromTheEnd(S, n - k + 1)]]
  BY DEF recent_for
<1> HIDE DEF S, found
<1>4. n \in Nat /\ n <= ReplyCap /\ n <= found
  BY <1>2, DashboardAssumption
<1> HIDE DEF n
<1>5. \A k \in 1 .. n : n - k + 1 \in 1 .. Cardinality(S)
  BY <1>2, <1>4 DEF found
<1>6. \A k \in 1 .. n : FromTheEnd(S, n - k + 1) \in S
  BY <1>1, <1>5, NthFromTheEnd
<1> QED
  BY <1>1, <1>3, <1>4, <1>6

-----------------------------------------------------------------------------
(***************************************************************************)
(* HonestInv is inductive.  What was honest stays so, because a fetch that *)
(* is counted is counted for good and daemons only get more.               *)
(***************************************************************************)
LEMMA CapsAreNumbers ==
    /\ ReplyCap \in Nat /\ ViewCap \in Nat /\ TailCap \in Nat /\ ChanCap \in Nat
    /\ InboxCap \in Nat /\ MaxDaemons \in Nat
BY DashboardAssumption

LEMMA HonestLater ==
    ASSUME NEW K, NEW L, K \subseteq L, NEW d \in Nat, NEW e \in Nat, d <= e
    PROVE  /\ \A s : Honest(s, K, d) => Honest(s, L, e)
           /\ \A u : HonestUpdate(u, K, d) => HonestUpdate(u, L, e)
<1>1. ASSUME NEW s, Honest(s, K, d) PROVE Honest(s, L, e)
  <2>1. s.from \in 0 .. e
    BY <1>1 DEF Honest
  <2> QED
    BY <1>1, <2>1 DEF Honest
<1> QED
  BY <1>1 DEF HonestUpdate

LEMMA QueuesStay ==
    ASSUME HonestInv, Counted \subseteq Counted', daemon' \in Nat, daemon <= daemon'
    PROVE  /\ \A c \in Class : Honest(view[c], Counted', daemon')
           /\ \A i \in DOMAIN inbox : HonestUpdate(inbox[i], Counted', daemon')
           /\ \A i \in DOMAIN wire : HonestUpdate(wire[i], Counted', daemon')
<1>1. daemon \in Nat
  BY CapsAreNumbers DEF HonestInv, LifeInv
<1>2. /\ \A s : Honest(s, Counted, daemon) => Honest(s, Counted', daemon')
      /\ \A u : HonestUpdate(u, Counted, daemon) => HonestUpdate(u, Counted', daemon')
  BY <1>1, HonestLater
<1> QED
  BY <1>2, Zenon DEF HonestInv, ViewInv, InboxInv, WireInv

LEMMA InitHonest == Init => HonestInv
<1> SUFFICES ASSUME Init PROVE HonestInv
  OBVIOUS
<1> USE DEF Init
<1>1. NodeInv /\ sent = <<>>
  BY InitNode DEF SocketInit, SinkInit
<1>2. LifeInv /\ PollInv
  <2>1. up \in BOOLEAN /\ poll = Asleep
    BY Zenon
  <2>2. daemon \in 0 .. MaxDaemons
    BY CapsAreNumbers
  <2> QED
    BY <2>1, <2>2, Zenon DEF LifeInv, PollInv
<1>3. WireInv /\ InboxInv
  <2>1. Len(sent) = 0 /\ Len(wire) = 0 /\ Len(inbox) = 0
    BY <1>1
  <2>2. 0 <= ChanCap /\ 0 <= InboxCap /\ sub \in 0 .. 0
    BY CapsAreNumbers
  <2>3. listening \in BOOLEAN /\ ~listening
    BY Zenon
  <2>4. wire \in Seq(Told) /\ inbox \in Seq(Update) /\ DOMAIN wire = {} /\ DOMAIN inbox = {}
    OBVIOUS
  <2> QED
    BY <2>1, <2>2, <2>3, <2>4 DEF WireInv, InboxInv
<1>4. Unseen \in Reply /\ Unseen.from = 0 /\ Unseen.recent = <<>>
  BY BoundAssumption DEF Unseen, Reply, Count0
<1>5. Honest(Unseen, Counted, daemon)
  <2>1. Len(Unseen.recent) = 0 /\ DOMAIN Unseen.recent = {}
    BY <1>4
  <2>2. 0 <= Larger(ViewCap, ReplyCap)
    BY CapsAreNumbers DEF Larger
  <2>3. Len(Unseen.recent) <= Larger(ViewCap, ReplyCap)
    BY <2>1, <2>2
  <2> QED
    BY <1>4, <2>1, <2>3 DEF Honest
<1>6. view = [c \in Class |-> Unseen] /\ lines = 0
  OBVIOUS
<1>7. ViewInv
  BY <1>4, <1>5, <1>6, CapsAreNumbers DEF ViewInv
<1> QED
  BY <1>1, <1>2, <1>3, <1>7 DEF HonestInv

\* The poll loop, and the actions that leave the node alone.
LEMMA AskedInTodo == poll.todo # {} => Asked \in poll.todo
BY DEF Asked

LEMMA NextClassPoll ==
    ASSUME PollInv, poll # Asleep, NextClass
    PROVE  PollInv'
<1>1. poll.todo \subseteq Class
  BY DEF PollInv
<1> QED
  BY <1>1 DEF NextClass, PollInv, Asleep

LEMMA NodeStays ==
    ASSUME HonestInv, UNCHANGED <<socketVars, lifeVars>>
    PROVE  /\ NodeInv' /\ LifeInv' /\ Counted \subseteq Counted' /\ sent' = sent
           /\ \A c \in Class : Honest(view[c], Counted', daemon')
           /\ \A i \in DOMAIN inbox : HonestUpdate(inbox[i], Counted', daemon')
           /\ \A i \in DOMAIN wire : HonestUpdate(wire[i], Counted', daemon')
<1>1. NodeInv' /\ Counted \subseteq Counted'
  BY NextNode DEF HonestInv
<1>2. LifeInv' /\ daemon' \in Nat /\ daemon <= daemon'
  BY CapsAreNumbers DEF HonestInv, LifeInv
<1> QED
  BY <1>1, <1>2, QueuesStay DEF socketVars, sinkVars

LEMMA PollStartHonest == HonestInv /\ PollStart => HonestInv'
<1> SUFFICES ASSUME HonestInv, PollStart PROVE HonestInv'
  OBVIOUS
<1>1. UNCHANGED <<socketVars, lifeVars, wire, listening, sub, inbox, view, lines>>
  BY DEF PollStart
<1>2. PollInv'
  BY DEF PollStart, PollInv
<1> QED
  BY <1>1, <1>2, NodeStays DEF HonestInv, WireInv, InboxInv, ViewInv

LEMMA SkipClassHonest == HonestInv /\ SkipClass => HonestInv'
<1> SUFFICES ASSUME HonestInv, SkipClass PROVE HonestInv'
  OBVIOUS
<1>1. UNCHANGED <<socketVars, lifeVars, wire, listening, sub, inbox, view, lines>>
  BY DEF SkipClass
<1>2. PollInv'
  BY NextClassPoll DEF SkipClass, Asleep, HonestInv
<1> QED
  BY <1>1, <1>2, NodeStays DEF HonestInv, WireInv, InboxInv, ViewInv

LEMMA ReadTotalsHonest == HonestInv /\ ReadTotals => HonestInv'
<1> SUFFICES ASSUME HonestInv, ReadTotals PROVE HonestInv'
  OBVIOUS
<1>1. UNCHANGED <<socketVars, lifeVars, wire, listening, sub, inbox, view, lines>>
  BY DEF ReadTotals
<1>2. /\ up' /\ poll.todo # {} /\ poll.todo \subseteq Class
      /\ poll' = [at |-> "read", todo |-> poll.todo, totals |-> totals[Asked]]
  BY <1>1 DEF ReadTotals, totals_for, HonestInv, PollInv, Asleep
<1>3. totals[Asked] \in [fetches : Count0, hits : Count0]
  BY <1>2, AskedInTodo, NodeTyped DEF HonestInv, SocketTypeOK, Count0
<1>4. PollInv'
  BY <1>2, <1>3 DEF PollInv
<1> QED
  BY <1>1, <1>4, NodeStays DEF HonestInv, WireInv, InboxInv, ViewInv

-----------------------------------------------------------------------------
(***************************************************************************)
(* The queues.                                                             *)
(***************************************************************************)
\* What the channel carries may be shown.
LEMMA SentHonest ==
    ASSUME NodeInv, NEW d, NEW i \in DOMAIN sent
    PROVE  HonestUpdate(sent[i], Counted, d) /\ sent[i] \in Told
<1>1. sent[i] \in Told
  BY DEF NodeInv, ChannelInv
<1>2. sent[i].kind # "stats"
  BY <1>1 DEF Told, Kinds
<1> QED
  BY <1>1, <1>2 DEF NodeInv, ChannelInv, HonestUpdate, Update

LEMMA ToInbox ==
    ASSUME HonestInv, Room, NEW u, inbox' = Append(inbox, u),
           HonestUpdate(u, Counted', daemon'),
           \A i \in DOMAIN inbox : HonestUpdate(inbox[i], Counted', daemon')
    PROVE  InboxInv'
<1>1. inbox \in Seq(Update) /\ u \in Update /\ Len(inbox) < InboxCap
  BY DEF HonestInv, InboxInv, HonestUpdate, Room
<1>2. /\ inbox' \in Seq(Update) /\ Len(inbox') = Len(inbox) + 1 /\ Len(inbox) \in Nat
      /\ DOMAIN inbox = 1 .. Len(inbox) /\ DOMAIN inbox' = 1 .. Len(inbox) + 1
      /\ inbox'[Len(inbox) + 1] = u
      /\ \A i \in 1 .. Len(inbox) : inbox'[i] = inbox[i]
  BY <1>1, AppendedTo
<1>3. \A i \in DOMAIN inbox' : HonestUpdate(inbox'[i], Counted', daemon')
  BY <1>2
<1>4. Len(inbox') <= InboxCap
  BY <1>1, <1>2, CapsAreNumbers
<1> QED
  BY <1>2, <1>3, <1>4 DEF InboxInv

LEMMA TakeFirst ==
    ASSUME NEW S, NEW s \in Seq(S), s # <<>>
    PROVE  /\ Head(s) = s[1] /\ 1 \in DOMAIN s /\ Tail(s) \in Seq(S)
           /\ Len(s) \in Nat /\ Len(Tail(s)) = Len(s) - 1
           /\ DOMAIN s = 1 .. Len(s) /\ DOMAIN Tail(s) = 1 .. Len(s) - 1
           /\ \A i \in DOMAIN Tail(s) : Tail(s)[i] = s[i + 1] /\ i + 1 \in DOMAIN s
<1>1. /\ Len(s) \in Nat /\ Len(s) # 0 /\ DOMAIN s = 1 .. Len(s)
  OBVIOUS
<1>2. Tail(s) \in Seq(S) /\ Len(Tail(s)) = Len(s) - 1
  BY <1>1
<1>3. DOMAIN Tail(s) = 1 .. Len(Tail(s))
  BY <1>2, LenProperties
<1>4. \A i \in 1 .. Len(s) - 1 : Tail(s)[i] = s[i + 1]
  BY <1>1
<1> QED
  BY <1>1, <1>2, <1>3, <1>4

LEMMA SubscribeHonest == HonestInv /\ Subscribe => HonestInv'
<1> SUFFICES ASSUME HonestInv, Subscribe PROVE HonestInv'
  OBVIOUS
<1>1. UNCHANGED <<socketVars, lifeVars, wire, poll, inbox, view, lines>>
      /\ listening' = TRUE /\ sub' = Len(sent)
  BY DEF Subscribe
<1>2. sent' = sent /\ \A i \in DOMAIN wire : HonestUpdate(wire[i], Counted', daemon')
  BY <1>1, NodeStays
<1>3. Len(sent) \in Nat
  BY DEF HonestInv, NodeInv, ChannelInv
<1>4. WireInv'
  BY <1>1, <1>2, <1>3, CapsAreNumbers DEF HonestInv, WireInv
<1> QED
  BY <1>1, <1>4, NodeStays DEF HonestInv, PollInv, InboxInv, ViewInv

LEMMA ReceiveHonest == HonestInv /\ Receive => HonestInv'
<1> SUFFICES ASSUME HonestInv, Receive PROVE HonestInv'
  OBVIOUS
<1>1. /\ UNCHANGED <<socketVars, lifeVars, wire, listening, poll, view, lines>>
      /\ listening /\ sub < Len(sent) /\ Room
      /\ inbox' = Append(inbox, sent[sub + 1]) /\ sub' = sub + 1
  BY DEF Receive
<1>2. /\ sent' = sent /\ NodeInv' /\ LifeInv' /\ Counted \subseteq Counted'
      /\ \A c \in Class : Honest(view[c], Counted', daemon')
      /\ \A i \in DOMAIN inbox : HonestUpdate(inbox[i], Counted', daemon')
      /\ \A i \in DOMAIN wire : HonestUpdate(wire[i], Counted', daemon')
  BY <1>1, NodeStays
<1>3. Len(sent) \in Nat /\ DOMAIN sent = 1 .. Len(sent) /\ sub \in 0 .. Len(sent)
  BY DEF HonestInv, NodeInv, ChannelInv, WireInv
<1>4. sub + 1 \in DOMAIN sent
  BY <1>1, <1>3
<1>5. HonestUpdate(sent[sub + 1], Counted', daemon')
  <2>1. HonestUpdate(sent[sub + 1], Counted, daemon)
    BY <1>4, SentHonest DEF HonestInv
  <2>2. daemon \in Nat /\ daemon' \in Nat /\ daemon <= daemon'
    BY <1>1, CapsAreNumbers DEF HonestInv, LifeInv
  <2>3. \A u : HonestUpdate(u, Counted, daemon) => HonestUpdate(u, Counted', daemon')
    BY <1>2, <2>2, HonestLater
  <2> QED
    BY <2>1, <2>3, Zenon
<1>6. InboxInv'
  BY <1>1, <1>2, <1>5, ToInbox
<1>7. WireInv'
  <2>1. sub' \in 0 .. Len(sent') /\ Len(sent') <= sub' + ChanCap
    BY <1>1, <1>2, <1>3, CapsAreNumbers DEF HonestInv, WireInv
  <2> QED
    BY <1>1, <1>2, <2>1 DEF HonestInv, WireInv
<1> QED
  BY <1>1, <1>2, <1>6, <1>7 DEF HonestInv, PollInv, ViewInv

LEMMA ReceiveLateHonest == HonestInv /\ ReceiveLate => HonestInv'
<1> SUFFICES ASSUME HonestInv, ReceiveLate PROVE HonestInv'
  OBVIOUS
<1>1. /\ UNCHANGED <<socketVars, lifeVars, listening, sub, poll, view, lines>>
      /\ wire # <<>> /\ Room /\ inbox' = Append(inbox, Head(wire)) /\ wire' = Tail(wire)
  BY DEF ReceiveLate
<1>2. /\ sent' = sent /\ NodeInv' /\ LifeInv'
      /\ \A c \in Class : Honest(view[c], Counted', daemon')
      /\ \A i \in DOMAIN inbox : HonestUpdate(inbox[i], Counted', daemon')
      /\ \A i \in DOMAIN wire : HonestUpdate(wire[i], Counted', daemon')
  BY <1>1, NodeStays
<1>3. wire \in Seq(Told) /\ Len(wire) <= ChanCap
  BY DEF HonestInv, WireInv
<1>4. /\ Head(wire) = wire[1] /\ 1 \in DOMAIN wire /\ wire' \in Seq(Told)
      /\ Len(wire) \in Nat /\ Len(wire') = Len(wire) - 1
      /\ \A i \in DOMAIN wire' : wire'[i] = wire[i + 1] /\ i + 1 \in DOMAIN wire
  BY <1>1, <1>3, TakeFirst
<1>5. InboxInv'
  BY <1>1, <1>2, <1>4, ToInbox
<1>6. Len(wire') <= ChanCap
  BY <1>3, <1>4, CapsAreNumbers
<1>7. \A i \in DOMAIN wire' : HonestUpdate(wire'[i], Counted', daemon')
  BY <1>2, <1>4
<1>8. WireInv'
  BY <1>1, <1>2, <1>4, <1>6, <1>7 DEF HonestInv, WireInv
<1> QED
  BY <1>1, <1>2, <1>5, <1>8 DEF HonestInv, PollInv, ViewInv

\* What a reply shows of the ring.
LEMMA StatsHonest ==
    ASSUME HonestInv, NEW c \in Class, NEW n \in [fetches : Count0, hits : Count0]
    PROVE  Honest(Stats(n, recent_for(c, ReplyCap)), Counted, daemon)
<1> DEFINE rs == recent_for(c, ReplyCap)
           s == Stats(n, rs)
<1>1. PICK m \in Nat : m <= ReplyCap /\ DOMAIN rs = 1 .. m
  BY RecentOf DEF HonestInv, NodeInv
<1>2. \A k \in DOMAIN rs : \E i \in DOMAIN rows : rs[k] = rows[i]
  BY RecentOf DEF HonestInv, NodeInv
<1>3. \A i \in DOMAIN rows : rows[i].id \in Nat /\ rows[i].id \in Counted
  <2>1. \A i \in DOMAIN rows : rows[i] \in Report /\ rows[i].id \in Counted
    BY DEF HonestInv, NodeInv, RingInv
  <2> QED
    BY <2>1 DEF Report
<1> HIDE DEF rs
<1>4. /\ s.fetches = n.fetches /\ s.hits = n.hits /\ s.seen = TRUE /\ s.from = daemon
      /\ s.recent = [k \in 1 .. m |-> rs[k].id]
      /\ s = [fetches |-> n.fetches, hits |-> n.hits, recent |-> s.recent,
              seen |-> TRUE, from |-> daemon]
  BY <1>1 DEF Stats
<1>5. \A k \in 1 .. m : rs[k].id \in Nat /\ rs[k].id \in Counted
  BY <1>1, <1>2, <1>3
<1>6. s.recent \in Seq(Nat) /\ Len(s.recent) = m /\ DOMAIN s.recent = 1 .. m
  <2>1. s.recent \in [1 .. m -> Nat]
    BY <1>4, <1>5
  <2> HIDE DEF s
  <2> QED
    BY <2>1
<1>7. daemon \in Nat /\ daemon \in 0 .. daemon
  BY CapsAreNumbers DEF HonestInv, LifeInv
<1> HIDE DEF s
<1>8. s \in Reply
  BY <1>4, <1>6, <1>7 DEF Reply
<1>9. Len(s.recent) <= Larger(ViewCap, ReplyCap)
  BY <1>1, <1>6, CapsAreNumbers DEF Larger
<1>10. \A k \in DOMAIN s.recent : s.recent[k] \in Counted
  BY <1>4, <1>5, <1>6
<1> QED
  BY <1>4, <1>7, <1>8, <1>9, <1>10 DEF Honest, s, rs

LEMMA ReadRecentHonest == HonestInv /\ ReadRecent => HonestInv'
<1> SUFFICES ASSUME HonestInv, ReadRecent PROVE HonestInv'
  OBVIOUS
<1> DEFINE s == Stats(poll.totals, recent_for(Asked, ReplyCap))
           u == [kind |-> "stats", class |-> Asked, stats |-> s]
<1>1. /\ UNCHANGED <<socketVars, lifeVars, wire, listening, sub, view, lines>>
      /\ poll.at = "read" /\ Room /\ inbox' = Append(inbox, u) /\ NextClass
  BY DEF ReadRecent
<1>2. Asked \in Class /\ poll.totals \in [fetches : Count0, hits : Count0]
  BY <1>1, AskedInTodo DEF HonestInv, PollInv, Asleep
<1>3. Honest(s, Counted, daemon)
  BY <1>2, StatsHonest
<1> HIDE DEF s
<1>4. /\ NodeInv' /\ LifeInv' /\ Counted \subseteq Counted' /\ sent' = sent
      /\ \A c \in Class : Honest(view[c], Counted', daemon')
      /\ \A i \in DOMAIN inbox : HonestUpdate(inbox[i], Counted', daemon')
      /\ \A i \in DOMAIN wire : HonestUpdate(wire[i], Counted', daemon')
  BY <1>1, NodeStays
<1>5. HonestUpdate(u, Counted', daemon')
  <2>1. daemon \in Nat /\ daemon' \in Nat /\ daemon <= daemon'
    BY <1>1, CapsAreNumbers DEF HonestInv, LifeInv
  <2>2. Honest(s, Counted', daemon')
    BY <1>3, <1>4, <2>1, HonestLater
  <2>3. u \in Update /\ u.kind = "stats" /\ u.stats = s
    BY <1>2, <1>3 DEF Update, Honest
  <2> QED
    BY <2>2, <2>3 DEF HonestUpdate
<1> HIDE DEF u
<1>6. InboxInv'
  BY <1>1, <1>4, <1>5, ToInbox
<1>7. PollInv'
  BY <1>1, NextClassPoll DEF HonestInv, Asleep
<1> QED
  BY <1>1, <1>4, <1>6, <1>7 DEF HonestInv, WireInv, ViewInv

\* App::apply: what is put on the screen was in the queue.
LEMMA PushedRecent ==
    ASSUME NEW q \in Seq(Nat), NEW n \in Nat, Len(q) <= Larger(ViewCap, ReplyCap)
    PROVE  /\ PushRecent(q, n) \in Seq(Nat)
           /\ Len(PushRecent(q, n)) <= Larger(ViewCap, ReplyCap)
           /\ \A i \in DOMAIN PushRecent(q, n) : \/ PushRecent(q, n)[i] = n
                                                 \/ \E j \in DOMAIN q : PushRecent(q, n)[i] = q[j]
<1> DEFINE a == Append(q, n)
<1>1. /\ a \in Seq(Nat) /\ Len(q) \in Nat /\ Len(a) = Len(q) + 1
      /\ DOMAIN q = 1 .. Len(q) /\ DOMAIN a = 1 .. Len(q) + 1 /\ a[Len(q) + 1] = n
      /\ \A i \in 1 .. Len(q) : a[i] = q[i]
  BY AppendedTo
<1>2. \A i \in DOMAIN a : a[i] = n \/ \E j \in DOMAIN q : a[i] = q[j]
  <2> SUFFICES ASSUME NEW i \in 1 .. Len(q) + 1 PROVE a[i] = n \/ \E j \in DOMAIN q : a[i] = q[j]
    BY <1>1
  <2>1. i = Len(q) + 1 \/ i \in 1 .. Len(q)
    BY <1>1
  <2> QED
    BY <1>1, <2>1
<1> HIDE DEF a
<1>3. PushRecent(q, n) = IF Len(a) > ViewCap THEN Tail(a) ELSE a
  BY DEF PushRecent, a
<1>4. CASE Len(a) > ViewCap
  <2>1. a # <<>>
    BY <1>1
  <2>2. /\ Tail(a) \in Seq(Nat) /\ Len(Tail(a)) = Len(a) - 1
        /\ \A i \in DOMAIN Tail(a) : Tail(a)[i] = a[i + 1] /\ i + 1 \in DOMAIN a
    <3>1. a \in Seq(Nat)
      BY <1>1
    <3> QED
      BY <2>1, <3>1, TakeFirst
  <2>3. Len(Tail(a)) = Len(q)
    BY <1>1, <2>2
  <2> QED
    BY <1>2, <1>3, <1>4, <2>2, <2>3
<1>5. CASE ~(Len(a) > ViewCap)
  <2>1. Len(a) <= Larger(ViewCap, ReplyCap)
    BY <1>1, <1>5, CapsAreNumbers DEF Larger
  <2> QED
    BY <1>1, <1>2, <1>3, <1>5, <2>1
<1> QED
  BY <1>4, <1>5

LEMMA ShownHonest ==
    ASSUME NEW s, NEW K, NEW d, Honest(s, K, d), NEW n \in Nat, n \in K
    PROVE  Honest([s EXCEPT !.recent = PushRecent(@, n)], K, d)
<1> DEFINE q == PushRecent(s.recent, n)
           z == [s EXCEPT !.recent = q]
<1>1. s \in Reply /\ s.recent \in Seq(Nat) /\ Len(s.recent) <= Larger(ViewCap, ReplyCap)
  BY DEF Honest, Reply
<1>2. /\ q \in Seq(Nat) /\ Len(q) <= Larger(ViewCap, ReplyCap)
      /\ \A i \in DOMAIN q : q[i] = n \/ \E j \in DOMAIN s.recent : q[i] = s.recent[j]
  BY <1>1, PushedRecent
<1> HIDE DEF q
<1>3. z \in Reply /\ z.recent = q /\ z.from = s.from
  BY <1>1, <1>2 DEF Reply
<1>4. \A i \in DOMAIN q : q[i] \in K
  BY <1>2 DEF Honest
<1> HIDE DEF z
<1>5. Honest(z, K, d)
  BY <1>2, <1>3, <1>4 DEF Honest
<1> QED
  BY <1>5 DEF z, q

LEMMA ApplyHonest == HonestInv /\ Apply => HonestInv'
<1> SUFFICES ASSUME HonestInv, Apply PROVE HonestInv'
  OBVIOUS
<1> DEFINE u == Head(inbox)
<1>1. /\ inbox # <<>> /\ inbox' = Tail(inbox)
      /\ UNCHANGED <<socketVars, lifeVars, wire, poll, listening, sub>>
      /\ \/ /\ u.kind = "stats" /\ lines' = lines
            /\ view' = [view EXCEPT ![u.class] = u.stats]
         \/ /\ u.kind # "stats" /\ view' = ShowCompleted(view, u)
            /\ lines' = PushEvent(lines)
  BY DEF Apply, Replace
<1>2. /\ sent' = sent /\ NodeInv' /\ LifeInv' /\ Counted \subseteq Counted'
      /\ \A c \in Class : Honest(view[c], Counted', daemon')
      /\ \A i \in DOMAIN inbox : HonestUpdate(inbox[i], Counted', daemon')
      /\ \A i \in DOMAIN wire : HonestUpdate(wire[i], Counted', daemon')
  BY <1>1, NodeStays
<1>3. inbox \in Seq(Update) /\ Len(inbox) <= InboxCap
  BY DEF HonestInv, InboxInv
<1>4. /\ u = inbox[1] /\ 1 \in DOMAIN inbox /\ Tail(inbox) \in Seq(Update)
      /\ Len(inbox) \in Nat /\ Len(Tail(inbox)) = Len(inbox) - 1
      /\ \A i \in DOMAIN Tail(inbox) : Tail(inbox)[i] = inbox[i + 1] /\ i + 1 \in DOMAIN inbox
  BY <1>1, <1>3, TakeFirst
<1> HIDE DEF u
<1>5. HonestUpdate(u, Counted', daemon') /\ u \in Update
  BY <1>2, <1>4 DEF HonestUpdate
<1>6. InboxInv'
  <2>1. Len(inbox') <= InboxCap
    BY <1>1, <1>3, <1>4, CapsAreNumbers
  <2>2. \A i \in DOMAIN inbox' : HonestUpdate(inbox'[i], Counted', daemon')
    BY <1>1, <1>2, <1>4
  <2> QED
    BY <1>1, <1>4, <2>1, <2>2 DEF InboxInv
<1>7. u.class \in Class
  BY <1>5 DEF Update, Told
<1>8. view \in [Class -> Reply] /\ lines \in 0 .. TailCap
  BY DEF HonestInv, ViewInv
<1>9. lines' \in 0 .. TailCap
  <2>1. PushEvent(lines) \in 0 .. TailCap
    BY <1>8, CapsAreNumbers DEF PushEvent
  <2> QED
    BY <1>1, <1>8, <2>1
<1>10. ASSUME NEW s, Honest(s, Counted', daemon'), view' = [view EXCEPT ![u.class] = s]
       PROVE  view' \in [Class -> Reply] /\ \A c \in Class : Honest(view'[c], Counted', daemon')
  <2>1. s \in Reply
    BY <1>10 DEF Honest
  <2>2. view' \in [Class -> Reply]
    BY <1>7, <1>8, <1>10, <2>1
  <2>3. \A c \in Class : view'[c] = IF c = u.class THEN s ELSE view[c]
    BY <1>8, <1>10
  <2> QED
    BY <1>2, <1>10, <2>2, <2>3
<1>11. view' \in [Class -> Reply] /\ \A c \in Class : Honest(view'[c], Counted', daemon')
  <2>1. CASE u.kind = "stats"
    <3>1. Honest(u.stats, Counted', daemon') /\ view' = [view EXCEPT ![u.class] = u.stats]
      BY <1>1, <1>5, <2>1 DEF HonestUpdate
    <3> QED
      BY <3>1, <1>10
  <2>2. CASE u.kind # "stats" /\ view' = view
    BY <1>2, <1>8, <2>2
  <2>3. CASE u.kind = "completed" /\ view[u.class].seen
    <3> DEFINE s == [view[u.class] EXCEPT !.recent = PushRecent(@, u.id)]
    <3>1. u.id \in Nat /\ u.id \in Counted'
      BY <1>5, <2>3 DEF HonestUpdate, Update, Told
    <3>2. Honest(s, Counted', daemon')
      BY <1>2, <1>7, <3>1, ShownHonest
    <3>3. view' = [view EXCEPT ![u.class] = s]
      BY <1>1, <2>3 DEF ShowCompleted, Show
    <3> HIDE DEF s
    <3> QED
      BY <3>2, <3>3, <1>10
  <2> QED
    BY <1>1, <2>1, <2>2, <2>3 DEF ShowCompleted, Show
<1> QED
  BY <1>1, <1>2, <1>6, <1>9, <1>11 DEF HonestInv, PollInv, WireInv, ViewInv

-----------------------------------------------------------------------------
(***************************************************************************)
(* The daemon: it works, it ends, it starts again.                         *)
(***************************************************************************)
LEMMA ChannelGrows ==
    ASSUME NodeInv, SocketNext
    PROVE  Len(sent) \in Nat /\ Len(sent') \in Nat /\ Len(sent') >= Len(sent)
<1>1. PICK t \in Task : \E f \in {Idle} \cup Busy : Moves(t, f)
  BY EveryStepMoves DEF NodeInv
<1>2. sent' = sent \/ \E e \in Told : sent' = Append(sent, e)
  BY <1>1 DEF Moves, Opens, Counts, GoesOn
<1>3. sent \in Seq(Told) /\ Len(sent) \in Nat
  BY DEF NodeInv, ChannelInv
<1>4. CASE \E e \in Told : sent' = Append(sent, e)
  <2>1. Len(sent') = Len(sent) + 1
    BY <1>3, <1>4, AppendedTo
  <2> QED
    BY <1>3, <2>1
<1> QED
  BY <1>2, <1>3, <1>4

LEMMA DaemonHonest == HonestInv /\ Daemon => HonestInv'
<1> SUFFICES ASSUME HonestInv, Daemon PROVE HonestInv'
  OBVIOUS
<1>1. /\ SocketNext /\ UNCHANGED <<lifeVars, wire, poll, listening, inbox, view, lines>>
      /\ sub' = IF listening THEN Larger(sub, Len(sent') - ChanCap) ELSE sub
  BY DEF Daemon, Overwritten
<1>2. NodeInv' /\ Counted \subseteq Counted'
  BY <1>1, NextNode DEF HonestInv
<1>3. LifeInv' /\ daemon' \in Nat /\ daemon <= daemon'
  BY <1>1, CapsAreNumbers DEF HonestInv, LifeInv
<1>4. /\ \A c \in Class : Honest(view[c], Counted', daemon')
      /\ \A i \in DOMAIN inbox : HonestUpdate(inbox[i], Counted', daemon')
      /\ \A i \in DOMAIN wire : HonestUpdate(wire[i], Counted', daemon')
  BY <1>2, <1>3, QueuesStay
<1>5. sub' \in 0 .. Len(sent') /\ (listening => Len(sent') <= sub' + ChanCap)
  <2>1. Len(sent) \in Nat /\ Len(sent') \in Nat /\ Len(sent') >= Len(sent)
    BY <1>1, ChannelGrows DEF HonestInv
  <2>2. sub \in 0 .. Len(sent)
    BY DEF HonestInv, WireInv
  <2> QED
    BY <1>1, <2>1, <2>2, CapsAreNumbers DEF Larger
<1>6. WireInv'
  BY <1>1, <1>4, <1>5 DEF HonestInv, WireInv
<1> QED
  BY <1>1, <1>2, <1>3, <1>4, <1>6 DEF HonestInv, PollInv, InboxInv, ViewInv

LEMMA StartHonest == HonestInv /\ Start => HonestInv'
<1> SUFFICES ASSUME HonestInv, Start PROVE HonestInv'
  OBVIOUS
<1>1. /\ ~up /\ daemon < MaxDaemons /\ up' = TRUE /\ daemon' = daemon + 1
      /\ UNCHANGED <<socketVars, wire, poll, listening, sub, inbox, view, lines>>
  BY DEF Start
<1>2. NodeInv' /\ Counted \subseteq Counted' /\ sent' = sent
  BY <1>1, NextNode DEF HonestInv, socketVars, sinkVars
<1>3. LifeInv' /\ daemon' \in Nat /\ daemon <= daemon'
  BY <1>1, CapsAreNumbers DEF HonestInv, LifeInv
<1>4. /\ \A c \in Class : Honest(view[c], Counted', daemon')
      /\ \A i \in DOMAIN inbox : HonestUpdate(inbox[i], Counted', daemon')
      /\ \A i \in DOMAIN wire : HonestUpdate(wire[i], Counted', daemon')
  BY <1>2, <1>3, QueuesStay
<1> QED
  BY <1>1, <1>2, <1>3, <1>4 DEF HonestInv, PollInv, WireInv, InboxInv, ViewInv

\* With the daemon its fetches, its counters and its channel are gone; what
\* it has counted is counted still.
LEMMA EndNode ==
    ASSUME NodeInv, End
    PROVE  NodeInv' /\ Counted \subseteq Counted'
<1>1. /\ totals' = [c \in Class |-> [fetches |-> 0, hits |-> 0]]
      /\ rows' = <<>> /\ sent' = <<>> /\ task' = [t \in Task |-> Idle]
      /\ UNCHANGED <<log, failed, begun>>
  BY DEF End
<1>2. begun \in Nat
  BY DEF NodeInv, TaskInv
<1>3. \A t \in Task : task'[t] = Idle /\ ~Waits(Idle)
  BY <1>1 DEF Waits, Idle
<1>4. TaskInv'
  BY <1>1, <1>3 DEF NodeInv, TaskInv, OwnIds
<1>5. TallyInv'
  <2>1. Pending' = {}
    BY <1>3 DEF Pending, Waits
  <2>2. IsFiniteSet(Pending') /\ Cardinality(Pending') = 0
    BY <2>1, FS_EmptySet
  <2> QED
    BY <1>1, <1>2, <2>2 DEF TallyInv
<1>6. RingInv' /\ ChannelInv'
  BY <1>1, SinkAssumption DEF RingInv, ChannelInv
<1>7. FileBounds'
  BY <1>1 DEF NodeInv, FileBounds
<1>8. Counted \subseteq Counted'
  BY <1>1, <1>3 DEF Counted, Waits
<1> QED
  BY <1>4, <1>5, <1>6, <1>7, <1>8 DEF NodeInv

LEMMA EndHonest == HonestInv /\ End => HonestInv'
<1> SUFFICES ASSUME HonestInv, End PROVE HonestInv'
  OBVIOUS
<1>1. NodeInv' /\ Counted \subseteq Counted'
  BY EndNode DEF HonestInv
<1>2. /\ up' = FALSE /\ daemon' = daemon /\ sent' = <<>> /\ listening' = FALSE /\ sub' = 0
      /\ UNCHANGED <<inbox, view, lines>>
      /\ \/ wire' = wire
         \/ /\ listening
            /\ \E n \in (sub + 1) .. Len(sent) : wire' = SubSeq(sent, sub + 1, n)
  BY DEF End
<1>3. LifeInv' /\ daemon' \in Nat /\ daemon <= daemon'
  <2>1. up' \in BOOLEAN
    BY <1>2, Zenon
  <2>2. daemon \in 0 .. MaxDaemons /\ daemon' = daemon
    BY <1>2, Zenon DEF HonestInv, LifeInv
  <2>3. daemon' \in 0 .. MaxDaemons /\ daemon' \in Nat /\ daemon <= daemon'
    BY <2>2, CapsAreNumbers
  <2> QED
    BY <2>1, <2>3, Zenon DEF LifeInv
<1>4. /\ \A c \in Class : Honest(view[c], Counted', daemon')
      /\ \A i \in DOMAIN inbox : HonestUpdate(inbox[i], Counted', daemon')
      /\ \A i \in DOMAIN wire : HonestUpdate(wire[i], Counted', daemon')
  BY <1>1, <1>3, QueuesStay
<1>5. PollInv'
  <2>1. CASE poll.at = "read" /\ NextClass
    BY <2>1 DEF NextClass, HonestInv, PollInv, Asleep
  <2>2. CASE poll.at # "read" /\ UNCHANGED poll
    BY <2>2 DEF HonestInv, PollInv
  <2> QED
    BY <2>1, <2>2 DEF End
<1>6. /\ wire' \in Seq(Told) /\ Len(wire') <= ChanCap
      /\ \A i \in DOMAIN wire' : HonestUpdate(wire'[i], Counted', daemon')
  <2>1. CASE wire' = wire
    BY <1>4, <2>1 DEF HonestInv, WireInv
  <2>2. ASSUME listening, NEW n \in (sub + 1) .. Len(sent), wire' = SubSeq(sent, sub + 1, n)
        PROVE  /\ wire' \in Seq(Told) /\ Len(wire') <= ChanCap
               /\ \A i \in DOMAIN wire' : HonestUpdate(wire'[i], Counted', daemon')
    <3>1. /\ sent \in Seq(Told) /\ Len(sent) \in Nat /\ DOMAIN sent = 1 .. Len(sent)
          /\ sub \in 0 .. Len(sent) /\ Len(sent) <= sub + ChanCap
      BY <2>2 DEF HonestInv, NodeInv, ChannelInv, WireInv
    <3>2. sub + 1 \in 1 .. Len(sent) + 1 /\ n \in sub .. Len(sent) /\ n \in Nat /\ sub \in Nat
      BY <2>2, <3>1
    <3>3. /\ wire' \in Seq(Told) /\ Len(wire') = n - sub
          /\ \A i \in 1 .. n - sub : wire'[i] = sent[sub + i]
      <4>1. \A i \in sub + 1 .. n : sent[i] \in Told
        BY <3>1, <3>2
      <4>2. /\ wire' \in Seq(Told)
            /\ Len(wire') = IF sub + 1 <= n THEN n - (sub + 1) + 1 ELSE 0
            /\ \A i \in 1 .. n - (sub + 1) + 1 : wire'[i] = sent[(sub + 1) + i - 1]
        BY <2>2, <3>2, <4>1, SubSeqProperties
      <4>3. n - (sub + 1) + 1 = n - sub /\ \A i \in Int : (sub + 1) + i - 1 = sub + i
        BY <3>2
      <4>4. \A i \in 1 .. n - sub : i \in Int
        OBVIOUS
      <4> QED
        BY <3>2, <4>2, <4>3, <4>4
    <3>4. DOMAIN wire' = 1 .. n - sub
      BY <3>3, LenProperties
    <3>5. Len(wire') <= ChanCap
      BY <3>1, <3>2, <3>3, CapsAreNumbers
    <3>6. ASSUME NEW i \in DOMAIN wire' PROVE HonestUpdate(wire'[i], Counted', daemon')
      <4>1. sub + i \in DOMAIN sent /\ wire'[i] = sent[sub + i]
        BY <3>1, <3>2, <3>3, <3>4
      <4>2. HonestUpdate(sent[sub + i], Counted, daemon)
        BY <4>1, SentHonest DEF HonestInv
      <4>3. daemon \in Nat
        BY CapsAreNumbers DEF HonestInv, LifeInv
      <4>4. \A u : HonestUpdate(u, Counted, daemon) => HonestUpdate(u, Counted', daemon')
        BY <1>1, <1>3, <4>3, HonestLater
      <4> QED
        BY <4>1, <4>2, <4>4, Zenon
    <3> QED
      BY <3>3, <3>5, <3>6
  <2> QED
    BY <1>2, <2>1, <2>2
<1>7. WireInv'
  <2>1. sub' \in 0 .. Len(sent')
    <3>1. sent' = <<>> /\ sub' = 0
      BY <1>2, Zenon
    <3> QED
      BY <3>1
  <2>2. listening' \in BOOLEAN /\ ~listening'
    BY <1>2, Zenon
  <2> QED
    BY <1>6, <2>1, <2>2, Zenon DEF WireInv
<1> QED
  BY <1>1, <1>2, <1>3, <1>4, <1>5, <1>7 DEF HonestInv, InboxInv, ViewInv

LEMMA NextHonest == HonestInv /\ [Next]_vars => HonestInv'
<1> SUFFICES ASSUME HonestInv, [Next]_vars PROVE HonestInv'
  OBVIOUS
<1>1. CASE UNCHANGED vars
  BY <1>1, NodeStays DEF HonestInv, PollInv, WireInv, InboxInv, ViewInv
<1> QED
  BY <1>1, StartHonest, EndHonest, DaemonHonest, PollStartHonest, ReadTotalsHonest,
     ReadRecentHonest, SkipClassHonest, SubscribeHonest, ReceiveHonest, ReceiveLateHonest,
     ApplyHonest DEF Next

LEMMA HonestHolds == Spec => []HonestInv
<1> QED
  BY InitHonest, NextHonest, PTL DEF Spec

LEMMA HonestTyped == HonestInv => TypeOK
<1> SUFFICES ASSUME HonestInv PROVE TypeOK
  OBVIOUS
<1>1. SocketTypeOK
  BY NodeTyped DEF HonestInv
<1>2. up \in BOOLEAN /\ daemon \in 0 .. MaxDaemons /\ Len(wire) <= ChanCap
  BY Zenon DEF HonestInv, LifeInv, WireInv
<1>3. poll.at \in {"asleep", "ask", "read"} /\ poll.todo \subseteq Class
  BY DEF HonestInv, PollInv, Asleep
<1>4. listening \in BOOLEAN /\ sub \in 0 .. Len(sent) /\ Len(inbox) <= InboxCap /\ lines \in 0 .. TailCap
  BY Zenon DEF HonestInv, WireInv, InboxInv, ViewInv
<1>5. ASSUME NEW c \in Class
      PROVE  /\ view[c].fetches \in 0 .. MaxFetches /\ view[c].hits \in 0 .. MaxFetches
             /\ view[c].seen \in BOOLEAN /\ view[c].from \in 0 .. daemon
             /\ Len(view[c].recent) <= Larger(ViewCap, ReplyCap)
  <2>1. Honest(view[c], Counted, daemon)
    BY DEF HonestInv, ViewInv
  <2>2. view[c] \in Reply /\ view[c].from \in 0 .. daemon
        /\ Len(view[c].recent) <= Larger(ViewCap, ReplyCap)
    BY <2>1, Zenon DEF Honest
  <2>3. view[c].fetches \in Count0 /\ view[c].hits \in Count0 /\ view[c].seen \in BOOLEAN
    BY <2>2 DEF Reply
  <2> QED
    BY <2>2, <2>3, Zenon DEF Count0
<1> QED
  BY <1>1, <1>2, <1>3, <1>4, <1>5, Zenon DEF TypeOK

(***************************************************************************)
(* No queue, list or counter of the dashboard and of the daemon it watches *)
(* outgrows its cap, whatever the caps are and however often the daemon    *)
(* ends and is started again (app.rs:107-158, control.rs:204-242).         *)
(***************************************************************************)
THEOREM DashboardTypeCorrect == Spec => []TypeOK
<1> QED
  BY HonestHolds, HonestTyped, PTL

(***************************************************************************)
(* A row is on the screen only of a fetch that the daemon has counted: the *)
(* sink records before it tells (metrics_sink.rs:168-170), and an event    *)
(* that is not a completion shows nothing (app.rs:153-179).                *)
(***************************************************************************)
THEOREM OnlyCountedIsShown == Spec => []ShownIsCounted
<1>1. HonestInv => ShownIsCounted
  <2> SUFFICES ASSUME HonestInv, NEW c \in Class, NEW i \in DOMAIN view[c].recent
               PROVE  /\ view[c].recent[i] <= begun
                      /\ \A t \in Task : task[t].at \in {"fetching", "record"}
                                            => task[t].row.id # view[c].recent[i]
    BY DEF ShownIsCounted
  <2>1. view[c].recent[i] \in Counted
    BY DEF HonestInv, ViewInv, Honest
  <2>2. begun \in Nat
    BY DEF HonestInv, NodeInv, TaskInv
  <2> QED
    BY <2>1, <2>2 DEF Counted, Waits
<1> QED
  BY <1>1, HonestHolds, PTL

-----------------------------------------------------------------------------
(***************************************************************************)
(* The order in which a class is told of.  What is shown of it, the        *)
(* replies in the queue, the totals the poll has read, and those of the    *)
(* daemon: each comes before the next, of an earlier daemon or with        *)
(* figures that none of the next are smaller than.                         *)
(***************************************************************************)
Before(x, y) == \/ x.from < y.from
                \/ x.from = y.from /\ NoneLost(x, y)

Replies(c) == {i \in DOMAIN inbox : inbox[i].kind = "stats" /\ inbox[i].class = c}
Now(c)     == [fetches |-> totals[c].fetches, hits |-> totals[c].hits, from |-> daemon]
Polled     == [fetches |-> poll.totals.fetches, hits |-> poll.totals.hits, from |-> daemon]

OrderOf(c) ==
    /\ up => Before(view[c], Now(c))
    /\ \A i \in Replies(c) : /\ Before(view[c], inbox[i].stats)
                             /\ up => Before(inbox[i].stats, Now(c))
    /\ \A i, j \in Replies(c) : i < j => Before(inbox[i].stats, inbox[j].stats)
    /\ poll.at = "read" /\ c = Asked =>
          /\ Before(view[c], Polled) /\ Before(Polled, Now(c))
          /\ \A i \in Replies(c) : Before(inbox[i].stats, Polled)

OrderInv == \A c \in Class : OrderOf(c)

Figures(x) == x.fetches \in Nat /\ x.hits \in Nat /\ x.from \in Nat

LEMMA BeforeIsOrder ==
    ASSUME NEW x, NEW y, NEW z, Figures(x), Figures(y), Figures(z)
    PROVE  /\ Before(x, x)
           /\ Before(x, y) /\ Before(y, z) => Before(x, z)
BY DEF Before, NoneLost, Figures

LEMMA AllAreFigures ==
    ASSUME HonestInv, NEW c \in Class
    PROVE  /\ Figures(view[c]) /\ Figures(Now(c))
           /\ \A i \in Replies(c) : Figures(inbox[i].stats) /\ inbox[i].stats.from <= daemon
           /\ poll.at = "read" => Figures(Polled)
           /\ view[c].from <= daemon
<1>0. daemon \in Nat /\ MaxFetches \in Nat
  BY CapsAreNumbers, BoundAssumption DEF HonestInv, LifeInv
<1>1. ASSUME NEW s, Honest(s, Counted, daemon) PROVE Figures(s) /\ s.from <= daemon
  <2>1. s \in Reply /\ s.from \in 0 .. daemon
    BY <1>1 DEF Honest
  <2>2. s.fetches \in Count0 /\ s.hits \in Count0
    BY <2>1 DEF Reply
  <2> QED
    BY <1>0, <2>1, <2>2 DEF Figures, Count0
<1>2. Honest(view[c], Counted, daemon)
  BY DEF HonestInv, ViewInv
<1>3. \A i \in Replies(c) : Honest(inbox[i].stats, Counted, daemon)
  BY DEF HonestInv, InboxInv, HonestUpdate, Replies
<1>4. Figures(Now(c))
  <2>1. totals[c].fetches \in Nat /\ totals[c].hits \in Nat
    BY DEF HonestInv, NodeInv, TallyInv
  <2> QED
    BY <1>0, <2>1 DEF Figures, Now
<1>5. poll.at = "read" => Figures(Polled)
  <2>1. poll.at = "read" => poll.totals.fetches \in Count0 /\ poll.totals.hits \in Count0
    BY DEF HonestInv, PollInv, Asleep
  <2> QED
    BY <1>0, <2>1 DEF Figures, Polled, Count0
<1> QED
  BY <1>1, <1>2, <1>3, <1>4, <1>5

\* The counters of a running daemon only grow.
LEMMA TotalsGrow ==
    ASSUME NodeInv, SocketNext, NEW c \in Class
    PROVE  NoneLost(totals[c], totals'[c])
<1>1. PICK t \in Task : \E f \in {Idle} \cup Busy : Moves(t, f)
  BY EveryStepMoves DEF NodeInv
<1>2. PICK f \in {Idle} \cup Busy : Moves(t, f)
  BY <1>1
<1>3. totals \in [Class -> [fetches : Nat, hits : Nat]] /\ totals[c].fetches \in Nat /\ totals[c].hits \in Nat
  BY DEF NodeInv, TallyInv
<1>4. CASE totals' = totals
  BY <1>3, <1>4 DEF NoneLost
<1>5. CASE Counts(t, f)
  <2> DEFINE r == f.row
  <2>1. r \in Report /\ totals' = [totals EXCEPT ![r.class] = Count(@, r)]
    BY <1>5 DEF Counts, Busy
  <2> HIDE DEF r
  <2>2. r.class \in Class
    BY <2>1 DEF Report
  <2>3. totals'[c] = IF c = r.class THEN Count(totals[c], r) ELSE totals[c]
    BY <1>3, <2>1, <2>2
  <2>4. CASE c = r.class
    BY <1>3, <2>3, <2>4 DEF Count, NoneLost
  <2>5. CASE c # r.class
    BY <1>3, <2>3, <2>5 DEF NoneLost
  <2> QED
    BY <2>4, <2>5
<1> QED
  BY <1>2, <1>4, <1>5 DEF Moves, Opens, GoesOn

-----------------------------------------------------------------------------
(***************************************************************************)
(* OrderInv is kept.  What the dashboard does to the queue, first.         *)
(***************************************************************************)
LEMMA InitOrder == Init => OrderInv
<1> SUFFICES ASSUME Init, NEW c \in Class PROVE OrderOf(c)
  BY DEF OrderInv
<1>1. up = FALSE /\ inbox = <<>> /\ poll.at = "asleep"
  BY DEF Init, Asleep
<1>2. Replies(c) = {}
  BY <1>1 DEF Replies
<1> QED
  BY <1>1, <1>2 DEF OrderOf

\* What is told of a class is not touched.
LEMMA SameOrder ==
    ASSUME NEW c \in Class, OrderOf(c), UNCHANGED <<totals, daemon, up, view, inbox>>,
           poll'.at = "read" => poll' = poll
    PROVE  OrderOf(c)'
<1>1. Replies(c)' = Replies(c) /\ Now(c)' = Now(c)
  BY DEF Replies, Now
<1>2. poll'.at = "read" => Polled' = Polled /\ Asked' = Asked
  BY DEF Polled, Asked
<1> QED
  BY <1>1, <1>2 DEF OrderOf

\* An event at the end of the queue is no reply.
LEMMA EventOrder ==
    ASSUME HonestInv, NEW c \in Class, OrderOf(c), NEW u \in Told, inbox' = Append(inbox, u),
           UNCHANGED <<totals, daemon, up, view, poll>>
    PROVE  OrderOf(c)'
<1>1. /\ DOMAIN inbox = 1 .. Len(inbox) /\ DOMAIN inbox' = 1 .. Len(inbox) + 1 /\ Len(inbox) \in Nat
      /\ inbox'[Len(inbox) + 1] = u /\ \A i \in DOMAIN inbox : inbox'[i] = inbox[i]
  <2>1. inbox \in Seq(Update) /\ u \in Update
    BY DEF HonestInv, InboxInv, Update
  <2> QED
    BY <2>1, AppendedTo
<1>2. u.kind # "stats"
  BY DEF Told, Kinds
<1>3. Replies(c)' = Replies(c) /\ \A i \in Replies(c) : inbox'[i] = inbox[i]
  BY <1>1, <1>2 DEF Replies
<1>4. Now(c)' = Now(c) /\ Polled' = Polled /\ Asked' = Asked
  BY DEF Now, Polled, Asked
<1> QED
  BY <1>3, <1>4 DEF OrderOf

\* The poll reads the totals of the daemon as they are now.
LEMMA ReadTotalsOrder ==
    ASSUME HonestInv, NEW c \in Class, OrderOf(c), ReadTotals
    PROVE  OrderOf(c)'
<1>1. /\ up /\ UNCHANGED <<totals, daemon, up, view, inbox>>
      /\ poll' = [at |-> "read", todo |-> poll.todo, totals |-> totals[Asked]]
  BY DEF ReadTotals, totals_for, socketVars, sinkVars
<1>2. Replies(c)' = Replies(c) /\ Now(c)' = Now(c) /\ Asked' = Asked
  BY <1>1 DEF Replies, Now, Asked
<1>3. c = Asked => Polled' = Now(c)
  BY <1>1 DEF Polled, Now
<1>4. Figures(Now(c)) /\ Before(Now(c), Now(c))
  BY AllAreFigures, BeforeIsOrder
<1> QED
  BY <1>1, <1>2, <1>3, <1>4 DEF OrderOf

\* A reply goes into the queue with the totals that were read before.
LEMMA ReadRecentOrder ==
    ASSUME HonestInv, NEW c \in Class, OrderOf(c), ReadRecent
    PROVE  OrderOf(c)'
<1> DEFINE s == Stats(poll.totals, recent_for(Asked, ReplyCap))
           u == [kind |-> "stats", class |-> Asked, stats |-> s]
<1>1. /\ UNCHANGED <<totals, daemon, up, view>> /\ poll.at = "read"
      /\ inbox' = Append(inbox, u) /\ poll'.at # "read"
  BY DEF ReadRecent, NextClass, Asleep, socketVars, sinkVars
<1>2. Asked \in Class /\ poll.totals \in [fetches : Count0, hits : Count0]
  BY <1>1, AskedInTodo DEF HonestInv, PollInv, Asleep
<1>3. Honest(s, Counted, daemon)
  BY <1>2, StatsHonest
<1>4. s.fetches = Polled.fetches /\ s.hits = Polled.hits /\ s.from = Polled.from
  BY DEF Stats, Polled
<1> HIDE DEF s
<1>5. u \in Update /\ u.kind = "stats" /\ u.class = Asked /\ u.stats = s
  BY <1>2, <1>3 DEF Update, Honest
<1> HIDE DEF u
<1>6. /\ DOMAIN inbox = 1 .. Len(inbox) /\ DOMAIN inbox' = 1 .. Len(inbox) + 1 /\ Len(inbox) \in Nat
      /\ inbox'[Len(inbox) + 1] = u /\ \A i \in DOMAIN inbox : inbox'[i] = inbox[i]
  <2>1. inbox \in Seq(Update)
    BY DEF HonestInv, InboxInv
  <2> QED
    BY <1>1, <1>5, <2>1, AppendedTo
<1>7. Now(c)' = Now(c)
  BY <1>1 DEF Now
<1>8. CASE c # Asked
  <2>1. Replies(c)' = Replies(c) /\ \A i \in Replies(c) : inbox'[i] = inbox[i]
    BY <1>5, <1>6, <1>8 DEF Replies
  <2> QED
    BY <1>1, <1>7, <2>1 DEF OrderOf
<1>9. CASE c = Asked
  <2>1. /\ \A i \in Replies(c)' : i \in Replies(c) \/ i = Len(inbox) + 1
        /\ \A i \in Replies(c) : inbox'[i] = inbox[i] /\ i \in 1 .. Len(inbox)
        /\ inbox'[Len(inbox) + 1].stats = s
    BY <1>5, <1>6 DEF Replies
  <2>2. \A x : (Before(x, Polled) => Before(x, s)) /\ (Before(Polled, x) => Before(s, x))
    BY <1>4 DEF Before, NoneLost
  <2>3. up' => Before(view'[c], Now(c)')
    BY <1>1, <1>7 DEF OrderOf
  <2>4. ASSUME NEW i \in Replies(c)'
        PROVE  Before(view'[c], inbox'[i].stats) /\ (up' => Before(inbox'[i].stats, Now(c)'))
    BY <1>1, <1>7, <1>9, <2>1, <2>2, <2>4 DEF OrderOf
  <2>5. ASSUME NEW i \in Replies(c)', NEW j \in Replies(c)', i < j
        PROVE  Before(inbox'[i].stats, inbox'[j].stats)
    <3>1. i \in Replies(c)
      BY <1>6, <2>1, <2>5
    <3>2. CASE j \in Replies(c)
      BY <2>1, <2>5, <3>1, <3>2 DEF OrderOf
    <3>3. CASE j = Len(inbox) + 1
      <4>1. Before(inbox[i].stats, Polled)
        BY <1>1, <1>9, <3>1 DEF OrderOf
      <4> QED
        BY <2>1, <2>2, <3>1, <3>3, <4>1
    <3> QED
      BY <2>1, <3>2, <3>3
  <2> QED
    BY <1>1, <2>3, <2>4, <2>5 DEF OrderOf
<1> QED
  BY <1>8, <1>9

\* The first of the queue is put on the screen: a reply as it is, of an event
\* only the row.
LEMMA ApplyShows ==
    ASSUME HonestInv, Apply, NEW c \in Class
    PROVE  \/ 1 \in Replies(c) /\ view'[c] = inbox[1].stats
           \/ /\ view'[c].fetches = view[c].fetches /\ view'[c].hits = view[c].hits
              /\ view'[c].from = view[c].from
<1> DEFINE u == Head(inbox)
<1>1. /\ inbox # <<>>
      /\ \/ u.kind = "stats" /\ view' = [view EXCEPT ![u.class] = u.stats]
         \/ u.kind # "stats" /\ view' = ShowCompleted(view, u)
  BY DEF Apply, Replace
<1>2. inbox \in Seq(Update) /\ view \in [Class -> Reply]
  BY DEF HonestInv, InboxInv, ViewInv
<1>3. u = inbox[1] /\ 1 \in DOMAIN inbox
  BY <1>1, <1>2, TakeFirst
<1> HIDE DEF u
<1>4. CASE u.kind = "stats" /\ view' = [view EXCEPT ![u.class] = u.stats]
  BY <1>2, <1>3, <1>4 DEF Replies
<1>5. CASE view' = ShowCompleted(view, u)
  <2>1. CASE view' = view
    BY <2>1
  <2>2. CASE view' = [view EXCEPT ![u.class].recent = PushRecent(@, u.id)]
    <3>1. CASE c = u.class
      <4>1. view'[c] = [view[c] EXCEPT !.recent = PushRecent(@, u.id)] /\ view[c] \in Reply
        BY <1>2, <2>2, <3>1
      <4> QED
        BY <4>1 DEF Reply
    <3>2. CASE c # u.class
      BY <1>2, <2>2, <3>2
    <3> QED
      BY <3>1, <3>2
  <2> QED
    BY <1>5, <2>1, <2>2 DEF ShowCompleted, Show
<1> QED
  BY <1>1, <1>4, <1>5

LEMMA ApplyOrder ==
    ASSUME HonestInv, NEW c \in Class, OrderOf(c), Apply
    PROVE  OrderOf(c)'
<1>1. /\ inbox # <<>> /\ inbox' = Tail(inbox) /\ UNCHANGED <<totals, daemon, up, poll>>
  BY DEF Apply, socketVars, sinkVars
<1>2. /\ Len(inbox) \in Nat /\ DOMAIN inbox = 1 .. Len(inbox) /\ DOMAIN inbox' = 1 .. Len(inbox) - 1
      /\ \A i \in DOMAIN inbox' : inbox'[i] = inbox[i + 1] /\ i + 1 \in DOMAIN inbox
  <2>1. inbox \in Seq(Update)
    BY DEF HonestInv, InboxInv
  <2> QED
    BY <1>1, <2>1, TakeFirst
<1>3. Now(c)' = Now(c) /\ Polled' = Polled /\ Asked' = Asked
  BY <1>1 DEF Now, Polled, Asked
<1>4. \A i \in Replies(c)' : i \in Nat /\ i + 1 \in Replies(c) /\ 1 < i + 1 /\ inbox'[i] = inbox[i + 1]
  BY <1>2 DEF Replies
<1>5. \A x : \/ /\ 1 \in Replies(c)
                /\ Before(view'[c], x) <=> Before(inbox[1].stats, x)
             \/ Before(view'[c], x) <=> Before(view[c], x)
  BY ApplyShows DEF Before, NoneLost
<1>6. up' => Before(view'[c], Now(c)')
  BY <1>1, <1>3, <1>5 DEF OrderOf
<1>7. ASSUME NEW i \in Replies(c)'
      PROVE  Before(view'[c], inbox'[i].stats) /\ (up' => Before(inbox'[i].stats, Now(c)'))
  BY <1>1, <1>3, <1>4, <1>5, <1>7 DEF OrderOf
<1>8. ASSUME NEW i \in Replies(c)', NEW j \in Replies(c)', i < j
      PROVE  Before(inbox'[i].stats, inbox'[j].stats)
  <2>1. i + 1 < j + 1
    BY <1>4, <1>8
  <2> QED
    BY <1>4, <1>8, <2>1 DEF OrderOf
<1>9. ASSUME poll'.at = "read", c = Asked'
      PROVE  /\ Before(view'[c], Polled') /\ Before(Polled', Now(c)')
             /\ \A i \in Replies(c)' : Before(inbox'[i].stats, Polled')
  BY <1>1, <1>3, <1>4, <1>5, <1>9 DEF OrderOf
<1> QED
  BY <1>6, <1>7, <1>8, <1>9 DEF OrderOf

\* The daemon counts on.
LEMMA DaemonOrder ==
    ASSUME HonestInv, HonestInv', NEW c \in Class, OrderOf(c), Daemon
    PROVE  OrderOf(c)'
<1>1. SocketNext /\ UNCHANGED <<daemon, up, poll, inbox, view>>
  BY DEF Daemon
<1>2. Replies(c)' = Replies(c) /\ Polled' = Polled /\ Asked' = Asked
  BY <1>1 DEF Replies, Polled, Asked
<1>3. Before(Now(c), Now(c)')
  BY <1>1, TotalsGrow DEF HonestInv, Now, Before, NoneLost
<1>4. Figures(Now(c)) /\ Figures(Now(c)')
  <2>1. Figures(Now(c))
    BY AllAreFigures
  <2>2. totals'[c].fetches \in Nat /\ totals'[c].hits \in Nat /\ daemon' \in Nat
    BY CapsAreNumbers DEF HonestInv, NodeInv, TallyInv, LifeInv
  <2> QED
    BY <2>1, <2>2 DEF Figures, Now
<1>5. \A x : Figures(x) /\ Before(x, Now(c)) => Before(x, Now(c)')
  BY <1>3, <1>4, BeforeIsOrder
<1>6. /\ Figures(view[c]) /\ \A i \in Replies(c) : Figures(inbox[i].stats)
      /\ poll.at = "read" => Figures(Polled)
  BY AllAreFigures
<1> QED
  BY <1>1, <1>2, <1>5, <1>6 DEF OrderOf

\* A daemon that has ended is before no one, and the next one after all.
LEMMA EndOrder ==
    ASSUME HonestInv, NEW c \in Class, OrderOf(c), End
    PROVE  OrderOf(c)'
<1>1. up' = FALSE /\ UNCHANGED <<inbox, view>> /\ poll'.at # "read"
  BY DEF End, NextClass, Asleep
<1>2. Replies(c)' = Replies(c)
  BY <1>1 DEF Replies
<1> QED
  BY <1>1, <1>2 DEF OrderOf

LEMMA StartOrder ==
    ASSUME HonestInv, NEW c \in Class, OrderOf(c), Start
    PROVE  OrderOf(c)'
<1>1. ~up /\ daemon' = daemon + 1 /\ UNCHANGED <<inbox, view, poll>>
  BY DEF Start
<1>2. Replies(c)' = Replies(c) /\ poll.at # "read"
  BY <1>1 DEF Replies, HonestInv, PollInv, Asleep
<1>3. Now(c)'.from = daemon + 1 /\ daemon \in Nat
  BY <1>1, CapsAreNumbers DEF Now, HonestInv, LifeInv
<1>4. \A x : Figures(x) /\ x.from <= daemon => Before(x, Now(c)')
  BY <1>3 DEF Before, Figures
<1> QED
  BY <1>1, <1>2, <1>4, AllAreFigures DEF OrderOf

LEMMA NextOrder ==
    ASSUME HonestInv, HonestInv', OrderInv, [Next]_vars
    PROVE  OrderInv'
<1> SUFFICES ASSUME NEW c \in Class PROVE OrderOf(c)'
  BY DEF OrderInv
<1>1. OrderOf(c)
  BY DEF OrderInv
<1>2. CASE UNCHANGED vars \/ PollStart \/ SkipClass \/ Subscribe
  <2>1. /\ UNCHANGED <<totals, daemon, up, view, inbox>>
        /\ poll'.at = "read" => poll' = poll
    BY <1>2 DEF PollStart, SkipClass, Subscribe, NextClass, Asleep, socketVars, sinkVars
  <2> QED
    BY <1>1, <2>1, SameOrder
<1>3. CASE Receive
  <2>1. UNCHANGED <<totals, daemon, up, view, poll>> /\ inbox' = Append(inbox, sent[sub + 1])
    BY <1>3 DEF Receive, socketVars, sinkVars
  <2>2. sub + 1 \in DOMAIN sent
    <3>1. sub < Len(sent) /\ sub \in 0 .. Len(sent) /\ sent \in Seq(Told)
      BY <1>3 DEF Receive, HonestInv, WireInv, NodeInv, ChannelInv
    <3> QED
      BY <3>1
  <2>3. sent[sub + 1] \in Told
    BY <2>2 DEF HonestInv, NodeInv, ChannelInv
  <2> QED
    BY <1>1, <2>1, <2>3, EventOrder
<1>4. CASE ReceiveLate
  <2>1. UNCHANGED <<totals, daemon, up, view, poll>> /\ inbox' = Append(inbox, Head(wire)) /\ wire # <<>>
    BY <1>4 DEF ReceiveLate, socketVars, sinkVars
  <2>2. Head(wire) \in Told
    BY <2>1 DEF HonestInv, WireInv
  <2> QED
    BY <1>1, <2>1, <2>2, EventOrder
<1> QED
  BY <1>1, <1>2, <1>3, <1>4, ReadTotalsOrder, ReadRecentOrder, ApplyOrder, DaemonOrder, EndOrder,
     StartOrder DEF Next

(***************************************************************************)
(* Whatever the poll, the events and the ends of daemons do in between,    *)
(* the figures shown of a class only grow while they are of one daemon,    *)
(* and a later daemon is never followed by an earlier one                  *)
(* (protocol.rs:83-84, app.rs:107-112).                                    *)
(***************************************************************************)
THEOREM ShownFiguresGrow == Spec => PollerCanDiff
<1>1. Init => HonestInv /\ OrderInv
  BY InitHonest, InitOrder
<1>2. HonestInv /\ OrderInv /\ [Next]_vars => HonestInv' /\ OrderInv'
  BY NextHonest, NextOrder
<1>3. ASSUME HonestInv, OrderInv, [Next]_vars
      PROVE  [\A c \in Class : \/ view[c].from < view'[c].from
                               \/ view[c].from = view'[c].from /\ NoneLost(view[c], view'[c])]_view
  <2>1. CASE Apply
    <3> SUFFICES ASSUME NEW c \in Class PROVE Before(view[c], view'[c])
      BY DEF Before
    <3>1. OrderOf(c)
      BY <1>3 DEF OrderInv
    <3>2. CASE 1 \in Replies(c) /\ view'[c] = inbox[1].stats
      BY <3>1, <3>2 DEF OrderOf
    <3>3. CASE /\ view'[c].fetches = view[c].fetches /\ view'[c].hits = view[c].hits
               /\ view'[c].from = view[c].from
      <4>1. Figures(view[c])
        BY <1>3, AllAreFigures
      <4> QED
        BY <3>3, <4>1 DEF Before, NoneLost, Figures
    <3> QED
      BY <1>3, <2>1, <3>2, <3>3, ApplyShows
  <2>2. CASE ~Apply
    <3>1. view' = view
      BY <1>3, <2>2 DEF Next, Start, End, Daemon, PollStart, ReadTotals, ReadRecent, SkipClass,
                        Subscribe, Receive, ReceiveLate
    <3> QED
      BY <3>1
  <2> QED
    BY <2>1, <2>2
<1> QED
  BY <1>1, <1>2, <1>3, PTL DEF Spec, PollerCanDiff
=============================================================================
