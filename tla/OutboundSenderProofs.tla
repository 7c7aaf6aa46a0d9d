------------------------ MODULE OutboundSenderProofs ------------------------
(***************************************************************************)
(* Proofs about OutboundSender, for any peers, queue depth and number of   *)
(* messages: per-peer order and the accounting of what is not sent.        *)
(***************************************************************************)
EXTENDS OutboundSender, SequenceTheorems, FiniteSetTheorems, TLAPS

Msgs == 1 .. MaxMsgs

\* Every element of S comes before every element of T.
Before(S, T) == \A x \in S, y \in T : x < y

\* What PerPeerFifo says of peer p, part by part.
Ordered(p) ==
    /\ Increasing(delivered[p]) /\ Increasing(batch[p]) /\ Increasing(queue[p])
    /\ Before(Range(delivered[p]), Range(batch[p]))
    /\ Before(Range(delivered[p]), Range(queue[p]))
    /\ Before(Range(batch[p]), Range(queue[p]))

(***************************************************************************)
(* The inductive invariant.  The order of the whole line of a peer is kept *)
(* because a batch is only replaced when the one before it is through: the *)
(* task that selects holds no message.  A running call was given no more   *)
(* messages than the bound leaves.                                         *)
(***************************************************************************)
IInv ==
    /\ TypeOK
    /\ \A p \in Peers : Ordered(p)
    /\ task # "sending" => batch = Nothing
    /\ produced + loop.left <= MaxMsgs
    /\ NothingLostSilently

-----------------------------------------------------------------------------

\* What pushing a message at the back of a queue does to its elements, and to
\* their order when the message is newer than all of them.
LEMMA PushBack ==
    ASSUME NEW s \in Seq(Msgs), NEW e \in Msgs
    PROVE  /\ Range(Append(s, e)) = Range(s) \cup {e}
           /\ Increasing(s) /\ Before(Range(s), {e}) => Increasing(Append(s, e))
<1>1. /\ Append(s, e) \in Seq(Msgs)
      /\ Len(Append(s, e)) = Len(s) + 1
      /\ \A i \in 1 .. Len(s) : Append(s, e)[i] = s[i]
      /\ Append(s, e)[Len(s) + 1] = e
    BY AppendProperties
<1>2. /\ DOMAIN Append(s, e) = 1 .. (Len(s) + 1)
      /\ DOMAIN s = 1 .. Len(s)
      /\ Len(s) \in Nat
    BY <1>1, LenProperties
<1>3. Range(Append(s, e)) = Range(s) \cup {e}
    BY <1>1, <1>2 DEF Range
<1>4. ASSUME Increasing(s), Before(Range(s), {e})
      PROVE  Increasing(Append(s, e))
    BY <1>1, <1>2, <1>4 DEF Range, Increasing, Before
<1> QED
    BY <1>3, <1>4

\* What popping the message at the front of a batch does.
LEMMA PopFront ==
    ASSUME NEW s \in Seq(Msgs), s # << >>
    PROVE  /\ Head(s) \in Msgs /\ Tail(s) \in Seq(Msgs)
           /\ Range(s) = {Head(s)} \cup Range(Tail(s))
           /\ Increasing(s) => /\ Increasing(Tail(s))
                               /\ Before({Head(s)}, Range(Tail(s)))
<1>1. /\ Head(s) \in Msgs /\ Tail(s) \in Seq(Msgs)
      /\ Len(Tail(s)) = Len(s) - 1
      /\ \A i \in 1 .. Len(Tail(s)) : Tail(s)[i] = s[i + 1]
    BY HeadTailProperties
<1>2. /\ DOMAIN s = 1 .. Len(s) /\ DOMAIN Tail(s) = 1 .. (Len(s) - 1)
      /\ Len(s) \in Nat /\ Len(s) > 0 /\ Head(s) = s[1]
    BY <1>1, LenProperties, EmptySeq
<1>3. Range(s) \subseteq {Head(s)} \cup Range(Tail(s))
    <2> SUFFICES ASSUME NEW i \in 1 .. Len(s), i # 1
                 PROVE  s[i] \in Range(Tail(s))
        BY <1>2 DEF Range
    <2>1. i - 1 \in DOMAIN Tail(s) /\ Tail(s)[i - 1] = s[i]
        BY <1>1, <1>2
    <2> QED
        BY <2>1, Zenon DEF Range
<1>4. {Head(s)} \cup Range(Tail(s)) \subseteq Range(s)
    BY <1>1, <1>2 DEF Range
<1>5. ASSUME Increasing(s)
      PROVE  Increasing(Tail(s)) /\ Before({Head(s)}, Range(Tail(s)))
    BY <1>1, <1>2, <1>5 DEF Range, Increasing, Before
<1> QED
    BY <1>1, <1>3, <1>4, <1>5

\* The three parts of a peer's line in order, and each before the next, make
\* the whole line increase.
LEMMA LineIncreases ==
    ASSUME NEW s \in Seq(Msgs), NEW t \in Seq(Msgs), Increasing(s), Increasing(t),
           Before(Range(s), Range(t))
    PROVE  /\ s \o t \in Seq(Msgs) /\ Increasing(s \o t)
           /\ Range(s \o t) = Range(s) \cup Range(t)
<1>1. /\ s \o t \in Seq(Msgs) /\ Len(s \o t) = Len(s) + Len(t)
      /\ \A i \in 1 .. Len(s) + Len(t) : (s \o t)[i] =
                IF i <= Len(s) THEN s[i] ELSE t[i - Len(s)]
    BY ConcatProperties
<1>2. /\ DOMAIN s = 1 .. Len(s) /\ DOMAIN t = 1 .. Len(t)
      /\ DOMAIN (s \o t) = 1 .. (Len(s) + Len(t))
      /\ Len(s) \in Nat /\ Len(t) \in Nat
    BY <1>1, LenProperties
<1>3. ASSUME NEW m \in DOMAIN (s \o t), NEW n \in DOMAIN (s \o t), m < n
      PROVE  (s \o t)[m] < (s \o t)[n]
    <2>1. CASE n <= Len(s)
        BY <1>1, <1>2, <1>3, <2>1 DEF Increasing
    <2>2. CASE m <= Len(s) /\ n > Len(s)
        <3>1. s[m] \in Range(s) /\ t[n - Len(s)] \in Range(t)
            BY <1>2, <1>3, <2>2 DEF Range
        <3> QED
            BY <1>1, <1>2, <1>3, <2>2, <3>1 DEF Before
    <2>3. CASE m > Len(s)
        BY <1>1, <1>2, <1>3, <2>3 DEF Increasing
    <2> QED
        BY <1>2, <1>3, <2>1, <2>2, <2>3
<1>4. Range(s \o t) = Range(s) \cup Range(t)
    <2>1. Range(s \o t) = Range(s) \cup Range(t)
        BY RangeConcatenation
    <2> QED
        BY <2>1, Zenon DEF Range
<1> QED
    BY <1>1, <1>3, <1>4 DEF Increasing

\* The order of the parts gives PerPeerFifo.
LEMMA OrderedIsFifo ==
    ASSUME TypeOK, \A p \in Peers : Ordered(p)
    PROVE  PerPeerFifo
<1> SUFFICES ASSUME NEW p \in Peers
             PROVE  Increasing(delivered[p] \o batch[p] \o queue[p])
    BY DEF PerPeerFifo
<1> DEFINE d == delivered[p]
           b == batch[p]
           q == queue[p]
<1>1. d \in Seq(Msgs) /\ b \in Seq(Msgs) /\ q \in Seq(Msgs)
    BY DEF TypeOK, Msgs
<1>2. /\ Increasing(d) /\ Increasing(b) /\ Increasing(q)
      /\ Before(Range(d), Range(b)) /\ Before(Range(d), Range(q))
      /\ Before(Range(b), Range(q))
    BY DEF Ordered
<1> HIDE DEF d, b, q
<1>3. /\ d \o b \in Seq(Msgs) /\ Increasing(d \o b)
      /\ Range(d \o b) = Range(d) \cup Range(b)
    BY <1>1, <1>2, LineIncreases
<1>4. Before(Range(d \o b), Range(q))
    BY <1>2, <1>3 DEF Before
<1>5. Increasing((d \o b) \o q)
    BY <1>1, <1>2, <1>3, <1>4, LineIncreases, Zenon
<1> QED
    BY <1>5 DEF d, b, q

-----------------------------------------------------------------------------

\* Which messages are accounted for, and which are held for a peer, depends on
\* the line of that peer only.
LEMMA HeldUnchanged ==
    ASSUME UNCHANGED <<queue, batch, delivered>>
    PROVE  \A p \in Peers : Held(p)' = Held(p) /\ Ordered(p)' = Ordered(p)
BY DEF Held, Ordered

\* The lost messages are finitely many: counting one more of them adds one.
LEMMA CountOneMore ==
    ASSUME TypeOK, NEW m, m \notin lost
    PROVE  /\ Cardinality(lost) \in Nat
           /\ Cardinality(lost \cup {m}) = Cardinality(lost) + 1
<1>1. IsFiniteSet(1 .. produced)
    BY FS_Interval DEF TypeOK
<1>2. IsFiniteSet(lost)
    BY <1>1, FS_Subset, Zenon DEF TypeOK
<1> QED
    BY <1>2, FS_AddElement, FS_CardinalityType

\* The call of enqueue_outbound itself sets its local variables only.
LEMMA BeginKeepsInv ==
    ASSUME IInv, NEW n \in 1 .. MaxBatch, EnqueueOutbound(n)
    PROVE  IInv'
<1>1. UNCHANGED <<queue, wakes, batch, task, dropped, delivered, produced, lost>>
    BY DEF EnqueueOutbound
<1>2. loop' = [left |-> n, dropped |-> 0, enqueued |-> FALSE, running |-> TRUE]
    BY Zenon DEF EnqueueOutbound, Idle
<1>3. TypeOK'
    BY <1>1, <1>2, OutboundAssumption DEF IInv, TypeOK, Call
<1>4. loop.dropped = 0 /\ loop'.dropped = 0
    BY <1>2 DEF EnqueueOutbound, Idle
<1>5. NothingLostSilently'
    BY <1>1, <1>4, HeldUnchanged DEF IInv, NothingLostSilently
<1>6. (produced + loop.left <= MaxMsgs)'
    BY <1>1, <1>2 DEF EnqueueOutbound
<1> QED
    BY <1>1, <1>3, <1>5, <1>6, HeldUnchanged DEF IInv, Nothing

\* Its end moves the drops it counted into the shared counter.
LEMMA EndKeepsInv ==
    ASSUME IInv, EndEnqueue
    PROVE  IInv'
<1>1. UNCHANGED <<queue, batch, task, delivered, produced, lost>>
    BY DEF EndEnqueue
<1>2. /\ loop' = [left |-> 0, dropped |-> 0, enqueued |-> FALSE, running |-> FALSE]
      /\ dropped' = dropped + loop.dropped
      /\ wakes' = wakes + (IF loop.enqueued THEN 1 ELSE 0)
    BY DEF EndEnqueue, Idle
<1>3. loop.dropped \in Nat /\ dropped \in Nat /\ wakes \in Nat
    BY DEF IInv, TypeOK, Call
<1>4. wakes' \in Nat /\ dropped' \in Nat /\ dropped' + loop'.dropped = dropped + loop.dropped
    BY <1>2, <1>3
<1>5. TypeOK'
    <2>1. loop' \in Call
        BY ONLY <1>2, OutboundAssumption DEF Call
    <2>2. TypeOK
        BY DEF IInv
    <2>3. {wakes', dropped'} \subseteq Nat
        BY ONLY <1>4
    <2> QED
        BY ONLY <1>1, <2>1, <2>2, <2>3, Zenon DEF TypeOK
<1>6. NothingLostSilently'
    BY <1>1, <1>4, HeldUnchanged DEF IInv, NothingLostSilently
<1>7. (produced + loop.left <= MaxMsgs)'
    BY <1>1, <1>2 DEF IInv, EndEnqueue
<1> QED
    BY <1>1, <1>5, <1>6, <1>7, HeldUnchanged DEF IInv, Nothing

\* One turn of the loop leaves one message fewer.
LEMMA TurnOfLoop ==
    ASSUME IInv, NEW to, EnqueueOne(to)
    PROVE  /\ loop' \in Call /\ loop'.left = loop.left - 1
           /\ produced \in Nat /\ produced + 1 <= MaxMsgs
           /\ produced' \in {produced, produced + 1}
           /\ (produced + loop.left <= MaxMsgs)'
<1>1. /\ loop \in Call /\ loop.left \in Nat /\ loop.left > 0 /\ loop.dropped \in Nat
      /\ produced \in Nat /\ MaxMsgs \in Nat /\ produced + loop.left <= MaxMsgs
      /\ MaxBatch \in Nat /\ loop.left <= MaxBatch
    BY OutboundAssumption DEF EnqueueOne, IInv, TypeOK, Call
<1>2. loop.left - 1 \in 0 .. MaxBatch /\ loop.dropped + 1 \in Nat
    BY <1>1
<1>3. \/ loop' = [loop EXCEPT !.left = loop.left - 1]
      \/ loop' = [loop EXCEPT !.left = loop.left - 1, !.dropped = loop.dropped + 1]
      \/ loop' = [loop EXCEPT !.left = loop.left - 1, !.enqueued = TRUE]
    BY <1>1 DEF EnqueueOne, Call
<1>4. loop' \in Call /\ loop'.left = loop.left - 1
    <2> HIDE DEF IInv
    <2> DEFINE k == loop.left - 1
               e == loop.dropped + 1
               L == 0 .. MaxBatch
    <2>1. /\ k \in L /\ e \in Nat
          /\ loop \in [left : L, dropped : Nat, enqueued : BOOLEAN, running : BOOLEAN]
          /\ \/ loop' = [loop EXCEPT !.left = k]
             \/ loop' = [loop EXCEPT !.left = k, !.dropped = e]
             \/ loop' = [loop EXCEPT !.left = k, !.enqueued = TRUE]
        BY <1>1, <1>2, <1>3 DEF Call
    <2> HIDE DEF k, e, L
    <2>2. /\ loop' \in [left : L, dropped : Nat, enqueued : BOOLEAN, running : BOOLEAN]
          /\ loop'.left = k
        BY ONLY <2>1, Zenon
    <2> QED
        BY <2>2 DEF k, L, Call
<1>5. produced' \in {produced, produced + 1}
    BY DEF EnqueueOne
<1> QED
    BY <1>1, <1>4, <1>5

\* The message that is not queued is lost and counted; the one that is queued
\* is newer than everything its peer holds.
LEMMA EnqueueKeepsInv ==
    ASSUME IInv, NEW to \in Peers \cup Strangers \cup {Self}, EnqueueOne(to)
    PROVE  IInv'
<1> DEFINE m == produced + 1
<1>1. /\ UNCHANGED <<wakes, batch, task, dropped, delivered>>
      /\ (task # "sending" => batch = Nothing)'
    BY DEF EnqueueOne, IInv, Nothing
<1>2. /\ loop' \in Call /\ (produced + loop.left <= MaxMsgs)'
      /\ produced \in Nat /\ m \in Msgs /\ MaxMsgs \in Nat
      /\ produced' \in 0 .. MaxMsgs /\ loop \in Call
      /\ loop.dropped \in Nat /\ dropped \in Nat
    <2>1. /\ loop' \in Call /\ produced \in Nat /\ produced + 1 <= MaxMsgs
          /\ produced' \in {produced, produced + 1} /\ (produced + loop.left <= MaxMsgs)'
        BY TurnOfLoop
    <2>2. loop \in Call /\ dropped \in Nat
        BY DEF IInv, TypeOK
    <2>3. loop.dropped \in Nat
        BY ONLY <2>2, Zenon DEF Call
    <2>4. MaxMsgs \in Nat
        BY ONLY OutboundAssumption
    <2>5. m \in Msgs /\ produced' \in 0 .. MaxMsgs
        BY ONLY <2>1, <2>4 DEF Msgs
    <2> QED
        BY ONLY <2>1, <2>2, <2>3, <2>4, <2>5
<1>3. /\ m \notin lost /\ \A p \in Peers : m \notin Held(p)
      /\ \A p \in Peers : Held(p) \subseteq 1 .. produced
      /\ 1 .. m = (1 .. produced) \cup {m}
    BY <1>2 DEF IInv, NothingLostSilently
<1>4. CASE to = Self
    <2>1. UNCHANGED <<queue, produced, lost>> /\ loop'.dropped = loop.dropped
        BY <1>2, <1>4, OutboundAssumption DEF EnqueueOne, Call
    <2>2. TypeOK'
        BY <1>1, <1>2, <2>1 DEF IInv, TypeOK
    <2>3. NothingLostSilently'
        BY <1>1, <2>1, HeldUnchanged DEF IInv, NothingLostSilently
    <2> QED
        BY <1>1, <1>2, <2>1, <2>2, <2>3, HeldUnchanged DEF IInv
<1>5. CASE to \in Strangers \/ (to \in Peers /\ Full(to))
    <2>1. /\ UNCHANGED queue /\ loop'.dropped = loop.dropped + 1
          /\ produced' = m /\ lost' = lost \cup {m}
        BY <1>2, <1>5, OutboundAssumption, Zenon DEF EnqueueOne, Call
    <2>2. TypeOK'
        BY <1>1, <1>2, <1>3, <2>1 DEF IInv, TypeOK
    <2>3. \A p \in Peers : Held(p)' = Held(p) /\ Ordered(p)' = Ordered(p)
        BY <1>1, <2>1, HeldUnchanged
    <2>4. Cardinality(lost) \in Nat /\ Cardinality(lost') = Cardinality(lost) + 1
        BY <1>3, <2>1, CountOneMore DEF IInv
    <2>5. dropped' + loop'.dropped = Cardinality(lost')
        BY <1>1, <1>2, <2>1, <2>4 DEF IInv, NothingLostSilently
    <2>6. NothingLostSilently'
        BY <1>3, <2>1, <2>3, <2>5 DEF IInv, NothingLostSilently
    <2> QED
        BY <1>1, <1>2, <2>2, <2>3, <2>6 DEF IInv
<1>6. CASE to \in Peers /\ ~Full(to)
    <2>1. /\ UNCHANGED lost /\ loop'.dropped = loop.dropped
          /\ produced' = m /\ queue' = [queue EXCEPT ![to] = Append(queue[to], m)]
        BY <1>2, <1>6, OutboundAssumption, Zenon DEF EnqueueOne, Call
    <2>2. /\ queue[to] \in Seq(Msgs) /\ queue \in [Peers -> Seq(Msgs)]
          /\ Len(queue[to]) < Depth /\ Depth \in Nat /\ Len(queue[to]) \in Nat
        BY <1>6, OutboundAssumption DEF IInv, TypeOK, Msgs, Full
    <2>3. /\ Append(queue[to], m) \in Seq(Msgs)
          /\ Len(Append(queue[to], m)) = Len(queue[to]) + 1
        BY <1>2, <2>2, AppendProperties
    <2>4. /\ queue' \in [Peers -> Seq(Msgs)]
          /\ queue'[to] = Append(queue[to], m)
          /\ \A p \in Peers \ {to} : queue'[p] = queue[p]
        BY <1>6, <2>1, <2>2, <2>3
    <2>5. \A p \in Peers : Len(queue'[p]) <= Depth
        <3>1. Len(queue'[to]) <= Depth
            BY <2>2, <2>3, <2>4
        <3>2. \A p \in Peers \ {to} : Len(queue'[p]) <= Depth
            BY <2>4 DEF IInv, TypeOK
        <3> QED
            BY <3>1, <3>2
    <2>6. lost' \subseteq 1 .. produced'
        BY <1>3, <2>1 DEF IInv, TypeOK
    <2>7. TypeOK'
        <3>1. TypeOK
            BY DEF IInv
        <3> QED
            BY ONLY <1>1, <1>2, <2>4, <2>5, <2>6, <3>1, Zenon DEF TypeOK, Msgs
    <2>8. /\ Range(queue'[to]) = Range(queue[to]) \cup {m}
          /\ Before(Range(queue[to]), {m}) => Increasing(queue'[to])
        <3>1. to \in Peers /\ m \in Msgs /\ queue[to] \in Seq(Msgs)
              /\ queue'[to] = Append(queue[to], m)
            BY <1>2, <1>6, <2>2, <2>4
        <3>2. Increasing(queue[to])
            BY <3>1 DEF IInv, Ordered
        <3> HIDE DEF m
        <3> QED
            BY ONLY <3>1, <3>2, PushBack, Zenon
    <2>9. /\ Held(to)' = Held(to) \cup {m}
          /\ \A p \in Peers \ {to} : Held(p)' = Held(p) /\ Ordered(p)' = Ordered(p)
        BY <1>1, <2>4, <2>8 DEF Held, Ordered
    <2>10. Before(Held(to), {m})
        BY <1>2, <1>3, <1>6 DEF Before
    <2>11. Ordered(to)'
        BY <1>1, <1>6, <2>8, <2>10 DEF IInv, Ordered, Held, Before
    <2>12. NothingLostSilently'
        <3>1. (1 .. produced)' = lost' \cup UNION {Held(p)' : p \in Peers}
            <4>1. UNION {Held(p)' : p \in Peers} = {m} \cup UNION {Held(p) : p \in Peers}
                BY <1>6, <2>9
            <4> QED
                BY <1>3, <2>1, <4>1 DEF IInv, NothingLostSilently
        <3>2. \A p \in Peers : Held(p)' \cap lost' = {}
            BY <1>3, <2>1, <2>9 DEF IInv, NothingLostSilently
        <3>3. \A p, q \in Peers : p # q => Held(p)' \cap Held(q)' = {}
            BY <1>3, <2>9 DEF IInv, NothingLostSilently
        <3> QED
            BY <1>1, <2>1, <3>1, <3>2, <3>3 DEF IInv, NothingLostSilently
    <2> QED
        BY <1>1, <1>2, <2>7, <2>9, <2>11, <2>12 DEF IInv
<1> QED
    BY <1>4, <1>5, <1>6

\* The empty queue holds nothing and is in order.
LEMMA EmptyLine ==
    /\ << >> \in Seq(Msgs) /\ Len(<< >>) = 0
    /\ Range(<< >>) = {} /\ Increasing(<< >>)
<1>1. << >> \in Seq(Msgs) /\ Len(<< >>) = 0
    BY EmptySeq
<1>2. DOMAIN << >> = {}
    OBVIOUS
<1> QED
    BY <1>1, <1>2 DEF Range, Increasing

\* A wake moves every queue behind what its peer was already sent: the batch
\* before it is through.
LEMMA DrainKeepsInv ==
    ASSUME IInv, Drain
    PROVE  IInv'
<1>1. /\ UNCHANGED <<loop, dropped, delivered, produced, lost>>
      /\ wakes' = wakes - 1 /\ wakes > 0
      /\ batch' = queue /\ queue' = Nothing /\ batch = Nothing
      /\ task' = IF queue = Nothing THEN "select" ELSE "sending"
    BY DEF Drain, IInv
<1>2. \A p \in Peers : batch[p] = << >> /\ queue'[p] = << >> /\ batch'[p] = queue[p]
    BY <1>1 DEF Nothing
<1>3. wakes' \in Nat
    BY <1>1 DEF IInv, TypeOK
<1>4. queue' \in [Peers -> Seq(Msgs)] /\ \A p \in Peers : Len(queue'[p]) <= Depth
    BY <1>1, <1>2, EmptyLine, OutboundAssumption DEF Nothing
<1>5. TypeOK'
    BY <1>1, <1>3, <1>4 DEF IInv, TypeOK, Msgs
<1>6. \A p \in Peers : Held(p)' = Held(p)
    BY <1>1, <1>2, EmptyLine DEF Held
<1>7. \A p \in Peers : Ordered(p)'
    BY <1>1, <1>2, EmptyLine DEF IInv, Ordered, Before
<1>8. NothingLostSilently'
    BY <1>1, <1>6 DEF IInv, NothingLostSilently
<1>9. (task # "sending" => batch = Nothing)'
    BY <1>1 DEF Nothing
<1> QED
    BY <1>1, <1>5, <1>7, <1>8, <1>9 DEF IInv

\* A send takes the oldest message of the batch: it is delivered behind what
\* the peer has, or lost and counted.
LEMMA SendKeepsInv ==
    ASSUME IInv, NEW p \in Peers, NEW ok \in BOOLEAN, Send(p, ok)
    PROVE  IInv'
<1> DEFINE h == Head(batch[p])
<1>1. /\ UNCHANGED <<queue, loop, wakes, produced>>
      /\ task = "sending" /\ batch[p] # << >>
      /\ batch' = [batch EXCEPT ![p] = Tail(batch[p])]
      /\ task' = IF batch' = Nothing THEN "select" ELSE "sending"
    BY DEF Send
<1>2. /\ batch \in [Peers -> Seq(Msgs)] /\ delivered \in [Peers -> Seq(Msgs)]
      /\ batch[p] \in Seq(Msgs) /\ delivered[p] \in Seq(Msgs)
      /\ dropped \in Nat /\ loop.dropped \in Nat
    BY DEF IInv, TypeOK, Msgs, Call
<1>3. /\ h \in Msgs /\ Tail(batch[p]) \in Seq(Msgs)
      /\ Range(batch[p]) = {h} \cup Range(Tail(batch[p]))
      /\ Increasing(Tail(batch[p])) /\ Before({h}, Range(Tail(batch[p])))
    BY <1>1, <1>2, PopFront, Zenon DEF IInv, Ordered
<1>4. /\ batch' \in [Peers -> Seq(Msgs)] /\ batch'[p] = Tail(batch[p])
      /\ \A q \in Peers \ {p} : batch'[q] = batch[q]
    BY <1>1, <1>2, <1>3
<1>5. /\ h \in Held(p) /\ h \notin lost
      /\ lost \subseteq 1 .. produced /\ Held(p) \subseteq 1 .. produced
    BY <1>3 DEF IInv, NothingLostSilently, Held
<1>6. (task # "sending" => batch = Nothing)' /\ (produced + loop.left <= MaxMsgs)'
    BY <1>1 DEF IInv, Nothing
<1>7. CASE ok
    <2>1. /\ delivered' = [delivered EXCEPT ![p] = Append(delivered[p], h)]
          /\ UNCHANGED <<dropped, lost>>
        BY <1>7 DEF Send
    <2>2. Append(delivered[p], h) \in Seq(Msgs)
        BY <1>2, <1>3, AppendProperties
    <2>3. /\ delivered' \in [Peers -> Seq(Msgs)]
          /\ delivered'[p] = Append(delivered[p], h)
          /\ \A q \in Peers \ {p} : delivered'[q] = delivered[q]
        BY <1>2, <2>1, <2>2
    <2>4. TypeOK'
        <3>1. TypeOK
            BY DEF IInv
        <3> QED
            BY ONLY <1>1, <1>4, <2>1, <2>3, <3>1 DEF TypeOK, Msgs
    <2>5. Before(Range(delivered[p]), {h})
        BY <1>3 DEF IInv, Ordered, Before
    <2>6. /\ Range(delivered'[p]) = Range(delivered[p]) \cup {h}
          /\ Increasing(delivered'[p])
        <3>1. /\ delivered[p] \in Seq(Msgs) /\ h \in Msgs /\ Increasing(delivered[p])
              /\ delivered'[p] = Append(delivered[p], h)
            BY <1>2, <1>3, <2>3 DEF IInv, Ordered
        <3>2. /\ Range(Append(delivered[p], h)) = Range(delivered[p]) \cup {h}
              /\ Increasing(Append(delivered[p], h))
            BY ONLY <2>5, <3>1, PushBack, Zenon
        <3> QED
            BY ONLY <3>1, <3>2, Zenon
    <2>7. \A q \in Peers : Held(q)' = Held(q)
        BY <1>1, <1>3, <1>4, <2>3, <2>6, Zenon DEF Held
    <2>8. Ordered(p)'
        BY <1>1, <1>3, <1>4, <2>6, Zenon DEF IInv, Ordered, Before
    <2>9. \A q \in Peers \ {p} : Ordered(q)'
        BY <1>1, <1>4, <2>3, Zenon DEF IInv, Ordered
    <2>10. NothingLostSilently'
        BY <1>1, <2>1, <2>7 DEF IInv, NothingLostSilently
    <2> QED
        BY <1>6, <2>4, <2>8, <2>9, <2>10 DEF IInv
<1>8. CASE ~ok
    <2>1. /\ UNCHANGED delivered
          /\ dropped' = dropped + 1 /\ lost' = lost \cup {h}
        BY <1>8 DEF Send
    <2>2. TypeOK'
        <3> HIDE DEF h
        <3>1. dropped' \in Nat
            BY <1>2, <2>1
        <3>2. lost' \subseteq 1 .. produced'
            BY <1>1, <1>5, <2>1, Zenon
        <3> QED
            BY <1>1, <1>4, <2>1, <3>1, <3>2 DEF IInv, TypeOK, Msgs
    <2>3. h \notin Range(Tail(batch[p])) \cup Range(delivered[p]) \cup Range(queue[p])
        BY <1>3 DEF IInv, Ordered, Before, Msgs
    <2>4. Held(p)' = Held(p) \ {h}
        BY <1>1, <1>3, <1>4, <2>1, <2>3 DEF Held
    <2>5. \A q \in Peers \ {p} : Held(q)' = Held(q) /\ Ordered(q)'
        BY <1>1, <1>4, <2>1 DEF IInv, Ordered, Held
    <2>6. Ordered(p)'
        BY <1>1, <1>3, <1>4, <2>1 DEF IInv, Ordered, Before
    <2>7. Cardinality(lost) \in Nat /\ Cardinality(lost') = Cardinality(lost) + 1
        BY <1>5, <2>1, CountOneMore, Zenon DEF IInv
    <2>8. dropped' + loop'.dropped = Cardinality(lost')
        BY <1>1, <1>2, <2>1, <2>7 DEF IInv, NothingLostSilently
    <2>9. \A q \in Peers \ {p} : h \notin Held(q)
        BY <1>5 DEF IInv, NothingLostSilently
    <2>10. (1 .. produced)' = lost' \cup UNION {Held(q)' : q \in Peers}
        BY <1>1, <1>5, <2>1, <2>4, <2>5 DEF IInv, NothingLostSilently
    <2>11. \A q \in Peers : Held(q)' \cap lost' = {}
        BY <2>1, <2>4, <2>5, <2>9 DEF IInv, NothingLostSilently
    <2>12. \A q, r \in Peers : q # r => Held(q)' \cap Held(r)' = {}
        BY <2>4, <2>5 DEF IInv, NothingLostSilently
    <2> QED
        BY <1>6, <2>2, <2>5, <2>6, <2>8, <2>10, <2>11, <2>12 DEF IInv, NothingLostSilently
<1> QED
    BY <1>7, <1>8

-----------------------------------------------------------------------------

\* The invariant holds in every state.
LEMMA IInvHolds == Spec => []IInv
<1>1. Init => IInv
    <2> SUFFICES ASSUME Init
                 PROVE  IInv
        OBVIOUS
    <2>1. /\ queue = Nothing /\ batch = Nothing /\ delivered = Nothing /\ lost = {}
          /\ produced = 0 /\ wakes = 0 /\ dropped = 0 /\ loop = Idle /\ task = "select"
        BY DEF Init
    <2>2. Nothing \in [Peers -> Seq(Msgs)] /\ \A p \in Peers : Nothing[p] = << >>
        BY EmptyLine DEF Nothing
    <2>3. Idle \in Call /\ Idle.dropped = 0 /\ Idle.left = 0
        BY OutboundAssumption DEF Idle, Call
    <2>4. TypeOK
        BY <2>1, <2>2, <2>3, EmptyLine, OutboundAssumption DEF TypeOK, Msgs
    <2>5. \A p \in Peers : Ordered(p) /\ Held(p) = {}
        BY <2>1, <2>2, EmptyLine DEF Ordered, Held, Before
    <2>6. Cardinality(lost) = 0
        BY <2>1, FS_EmptySet
    <2>7. NothingLostSilently
        BY <2>1, <2>3, <2>5, <2>6 DEF NothingLostSilently
    <2> QED
        BY <2>1, <2>3, <2>4, <2>5, <2>7, OutboundAssumption DEF IInv
<1>2. IInv /\ [Next]_vars => IInv'
    <2> SUFFICES ASSUME IInv, [Next]_vars
                 PROVE  IInv'
        OBVIOUS
    <2>1. CASE UNCHANGED vars
        BY <2>1 DEF vars, IInv, TypeOK, Ordered, NothingLostSilently, Held, Nothing
    <2>2. CASE Stop
        BY <2>2 DEF Stop, IInv, TypeOK, Ordered, NothingLostSilently, Held, Nothing
    <2> QED
        BY <2>1, <2>2, BeginKeepsInv, EndKeepsInv, EnqueueKeepsInv, DrainKeepsInv,
           SendKeepsInv DEF Next, Enqueue
<1> QED
    BY <1>1, <1>2, PTL DEF Spec

\* The queues keep their types and a queue never exceeds OUTBOUND_QUEUE_DEPTH.
THEOREM TypeCorrect == Spec => []TypeOK
BY IInvHolds, PTL DEF IInv

\* Raft's I2, for any number of peers, any queue depth and any interleaving of
\* enqueue_outbound with run_outbound_sender: what a peer was sent, is being
\* sent and will be sent is in the order raft produced it.
THEOREM FifoHolds == Spec => []PerPeerFifo
<1>1. IInv => PerPeerFifo
    BY OrderedIsFifo DEF IInv
<1> QED
    BY <1>1, IInvHolds, PTL

\* Every message is sent, waiting or counted in dropped_sends, exactly once.
THEOREM NothingLost == Spec => []NothingLostSilently
BY IInvHolds, PTL DEF IInv

=============================================================================
