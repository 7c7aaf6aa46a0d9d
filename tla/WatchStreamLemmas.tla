------------------------- MODULE WatchStreamLemmas -------------------------
(***************************************************************************)
(* The inductive invariant of WatchStream and the lemmas that every step   *)
(* keeps it, up to one fact about finite sets: that the events of a batch  *)
(* can be put in some order.  WatchStreamProofs adds it and states the     *)
(* theorems.                                                               *)
(***************************************************************************)
EXTENDS WatchStream, TLAPS

(***************************************************************************)
(* What is said of one subscription s, given the rest of the state: the    *)
(* applied entries wr, the skipped indexes sk, the apply task's unsent and *)
(* refused index un and re, the channel ch and the watermark dr.           *)
(***************************************************************************)
\* The events the consumer has, or has queued.
Has(s) == Range(s.seen) \cup Range(s.queue)

\* Events in the order of their indexes, none twice.
Sorted(d) ==
    \A i, j \in 1 .. Len(d) : i < j => d[i].index <= d[j].index /\ d[i] # d[j]

\* The write of k at index i is owed and not there.
Lacks(s, wr, sk, i, k) ==
    /\ i \in s.filter + 1 .. Len(wr) /\ i \notin sk
    /\ k \in wr[i] /\ k \in s.range
    /\ [index |-> i, key |-> k] \notin Has(s)

\* What the subscription has is newer than its snapshot, and older than
\* everything on its way.
Ahead(s, wr, un, ch) ==
    \A e \in Has(s) :
        /\ s.filter < e.index /\ e.index <= Len(wr)
        /\ \A c \in Range(ch) : e.index < c
        /\ un # 0 => e.index < un

\* No drop is impending or noted from before a registration that was clear.
Fresh(s, un, re, dr) ==
    s.held /\ s.clear =>
        /\ s.filter < dr
        /\ un # 0 => s.filter < un
        /\ re # 0 => s.filter < re

HoleFree(s, wr, sk) ==
    s.open /\ s.clear =>
        \A i \in 1 .. Len(wr), k \in Keys :
            Lacks(s, wr, sk, i, k) => \A e \in Has(s) : e.index <= i

Coming(s, wr, sk, un, re, ch, dr) ==
    s.held /\ s.open /\ s.clear =>
        \A i \in 1 .. Len(wr), k \in Keys :
            Lacks(s, wr, sk, i, k) => i \in {un, re} \/ i \in Range(ch) \/ dr <= i

SubSound(s, wr, sk, un, re, ch, dr) ==
    /\ Sorted(s.seen \o s.queue)
    /\ Ahead(s, wr, un, ch)
    /\ Fresh(s, un, re, dr)
    /\ HoleFree(s, wr, sk)
    /\ Coming(s, wr, sk, un, re, ch, dr)

\* The batches on their way are in log order, the apply task's own last.
InLine(wr, un, re, ch) ==
    /\ \A i, j \in 1 .. Len(ch) : i < j => ch[i] < ch[j]
    /\ un # 0 => re = 0 /\ un = Len(wr) /\ \A i \in 1 .. Len(ch) : ch[i] < un
    /\ re # 0 => un = 0 /\ re = Len(wr)

(***************************************************************************)
(* The inductive invariant.  The order of events rests on the order of the *)
(* batches on their way; that there is no hole rests on what is missing    *)
(* being on its way, and this on the watermark being newer than the        *)
(* snapshot of every clear registration it is to end.                      *)
(***************************************************************************)
IInv ==
    /\ TypeOK
    /\ InLine(wrote, unsent, refused, channel)
    /\ \A w \in Watchers :
          SubSound(subs[w], wrote, skipped, unsent, refused, channel, dropped)

-----------------------------------------------------------------------------
(***************************************************************************)
(* Sequences.                                                              *)
(***************************************************************************)
\* The elements of a sequence.
LEMMA SeqIs ==
    ASSUME NEW T, NEW q \in Seq(T)
    PROVE  /\ Len(q) \in Nat /\ DOMAIN q = 1 .. Len(q)
           /\ \A i \in 1 .. Len(q) : q[i] \in T
           /\ (q = << >>) <=> (Len(q) = 0)
OBVIOUS

\* A sequence over a set is one over any larger set.
LEMMA SeqWiden ==
    ASSUME NEW T, NEW U, T \subseteq U, NEW q \in Seq(T)
    PROVE  q \in Seq(U)
OBVIOUS

\* Two sequences put together.
LEMMA ConcatIs ==
    ASSUME NEW T, NEW q \in Seq(T), NEW r \in Seq(T)
    PROVE  /\ q \o r \in Seq(T) /\ Len(q \o r) = Len(q) + Len(r)
           /\ \A i \in 1 .. Len(q) + Len(r) :
                 (q \o r)[i] = IF i <= Len(q) THEN q[i] ELSE r[i - Len(q)]
OBVIOUS

\* Three sequences put together.
LEMMA ConcatAssoc ==
    ASSUME NEW T, NEW q \in Seq(T), NEW r \in Seq(T), NEW p \in Seq(T)
    PROVE  (q \o r) \o p = q \o (r \o p)
OBVIOUS

\* The empty sequence adds nothing.
LEMMA ConcatEmpty ==
    ASSUME NEW T, NEW q \in Seq(T)
    PROVE  q \o << >> = q /\ << >> \o q = q
OBVIOUS

\* One element added at the end.
LEMMA AppendIs ==
    ASSUME NEW T, NEW q \in Seq(T), NEW e \in T
    PROVE  /\ Append(q, e) \in Seq(T) /\ Len(Append(q, e)) = Len(q) + 1
           /\ \A i \in 1 .. Len(q) : Append(q, e)[i] = q[i]
           /\ Append(q, e)[Len(q) + 1] = e
           /\ Append(q, e) = q \o <<e>>
OBVIOUS

\* The first n elements of a sequence.
LEMMA PrefixIs ==
    ASSUME NEW T, NEW q \in Seq(T), NEW n \in 0 .. Len(q)
    PROVE  /\ SubSeq(q, 1, n) \in Seq(T) /\ Len(SubSeq(q, 1, n)) = n
           /\ \A i \in 1 .. n : SubSeq(q, 1, n)[i] = q[i]
OBVIOUS

\* What the range of a sequence is.
LEMMA RangeIs ==
    ASSUME NEW T, NEW q \in Seq(T)
    PROVE  /\ Range(q) = {q[i] : i \in 1 .. Len(q)}
           /\ Range(q) \subseteq T
BY DEF Range

\* The range of two sequences put together.
LEMMA RangeOfConcat ==
    ASSUME NEW T, NEW q \in Seq(T), NEW r \in Seq(T)
    PROVE  Range(q \o r) = Range(q) \cup Range(r)
<1>1. /\ q \o r \in Seq(T) /\ Len(q \o r) = Len(q) + Len(r)
      /\ \A i \in 1 .. Len(q) + Len(r) :
            (q \o r)[i] = IF i <= Len(q) THEN q[i] ELSE r[i - Len(q)]
    BY ConcatIs
<1>2. /\ Range(q) = {q[i] : i \in 1 .. Len(q)} /\ Len(q) \in Nat
      /\ Range(r) = {r[i] : i \in 1 .. Len(r)} /\ Len(r) \in Nat
      /\ Range(q \o r) = {(q \o r)[i] : i \in 1 .. Len(q \o r)}
    BY <1>1, RangeIs, SeqIs, Zenon
<1>3. \A i \in 1 .. Len(q) + Len(r) : (q \o r)[i] \in Range(q) \cup Range(r)
    BY <1>1, <1>2
<1>4. \A i \in 1 .. Len(q) : q[i] = (q \o r)[i] /\ i \in 1 .. Len(q) + Len(r)
    BY <1>1, <1>2
<1>5. \A i \in 1 .. Len(r) :
          r[i] = (q \o r)[i + Len(q)] /\ i + Len(q) \in 1 .. Len(q) + Len(r)
    BY <1>1, <1>2
<1>6. Range(q \o r) \subseteq Range(q) \cup Range(r)
    BY ONLY <1>1, <1>2, <1>3
<1>7. Range(q) \subseteq Range(q \o r)
    BY ONLY <1>1, <1>2, <1>4
<1>8. Range(r) \subseteq Range(q \o r)
    BY ONLY <1>1, <1>2, <1>5
<1> QED
    BY ONLY <1>6, <1>7, <1>8

\* The first n of the elements of B, put in the order q.
LEMMA PrefixOfOrder ==
    ASSUME NEW B, NEW q \in Seq(B), Range(q) = B, IsInjective(q),
           NEW n \in 0 .. Len(q)
    PROVE  /\ SubSeq(q, 1, n) \in Seq(B) /\ Len(SubSeq(q, 1, n)) = n
           /\ Range(SubSeq(q, 1, n)) \subseteq B /\ IsInjective(SubSeq(q, 1, n))
           /\ n = Len(q) => Range(SubSeq(q, 1, n)) = B
<1> DEFINE p == SubSeq(q, 1, n)
<1>1. p \in Seq(B) /\ Len(p) = n /\ \A i \in 1 .. n : p[i] = q[i]
    BY PrefixIs
<1> HIDE DEF p
<1>2. Range(p) = {p[i] : i \in 1 .. Len(p)} /\ Range(p) \subseteq B
    BY ONLY <1>1, RangeIs, Zenon
<1>3. B = {q[i] : i \in 1 .. Len(q)}
    BY RangeIs, Zenon
<1>4. DOMAIN p = 1 .. n /\ DOMAIN q = 1 .. Len(q) /\ Len(q) \in Nat
    BY <1>1, SeqIs
<1>5. \A i \in 1 .. n : i \in 1 .. Len(q)
    BY <1>4
<1>6. IsInjective(p)
    BY ONLY <1>1, <1>4, <1>5, IsInjective(q) DEF IsInjective
<1>7. n = Len(q) => Range(p) = B
    BY ONLY <1>1, <1>2, <1>3
<1> QED
    BY <1>1, <1>2, <1>6, <1>7, Zenon DEF p

\* Taking the first element of a sequence off.
LEMMA RangeOfTail ==
    ASSUME NEW T, NEW q \in Seq(T), q # << >>
    PROVE  /\ Tail(q) \in Seq(T) /\ Head(q) = q[1] /\ Head(q) \in T
           /\ Range(q) = {Head(q)} \cup Range(Tail(q))
           /\ Len(Tail(q)) = Len(q) - 1
           /\ \A i \in 1 .. Len(Tail(q)) : Tail(q)[i] = q[i + 1]
<1>1. /\ Head(q) \in T /\ Tail(q) \in Seq(T) /\ Len(Tail(q)) = Len(q) - 1
      /\ \A i \in 1 .. Len(Tail(q)) : Tail(q)[i] = q[i + 1]
    OBVIOUS
<1>2. Head(q) = q[1] /\ Len(q) \in Nat \ {0}
    BY SeqIs
<1>3. Range(q) = {q[i] : i \in 1 .. Len(q)}
    BY RangeIs
<1>4. Range(Tail(q)) = {Tail(q)[i] : i \in 1 .. Len(Tail(q))}
    BY <1>1, RangeIs, Zenon
<1>5. \A i \in 1 .. Len(q) : i = 1 \/ (i - 1 \in 1 .. Len(Tail(q)) /\ q[i] = Tail(q)[i - 1])
    BY <1>1, <1>2
<1>6. \A i \in 1 .. Len(Tail(q)) : i + 1 \in 1 .. Len(q)
    BY <1>1, <1>2
<1>7. Range(q) \subseteq {Head(q)} \cup Range(Tail(q))
    <2> SUFFICES ASSUME NEW i \in 1 .. Len(q)
                 PROVE  q[i] \in {Head(q)} \cup Range(Tail(q))
        BY <1>3
    <2> QED
        BY <1>2, <1>4, <1>5, Zenon
<1>8. {Head(q)} \cup Range(Tail(q)) \subseteq Range(q)
    BY <1>1, <1>2, <1>3, <1>4, <1>6
<1> QED
    BY <1>1, <1>2, <1>7, <1>8

\* Adding one element at the end.
LEMMA RangeOfAppend ==
    ASSUME NEW T, NEW q \in Seq(T), NEW e \in T
    PROVE  Range(Append(q, e)) = Range(q) \cup {e}
<1>1. /\ Append(q, e) \in Seq(T) /\ Len(Append(q, e)) = Len(q) + 1
      /\ \A i \in 1 .. Len(q) : Append(q, e)[i] = q[i]
      /\ Append(q, e)[Len(q) + 1] = e
    BY AppendIs
<1>2. Range(q) = {q[i] : i \in 1 .. Len(q)} /\ Len(q) \in Nat
    BY RangeIs
<1>3. Range(Append(q, e)) = {Append(q, e)[i] : i \in 1 .. Len(q) + 1}
    BY <1>1, RangeIs, Zenon
<1> QED
    BY <1>1, <1>2, <1>3

\* Taking an event from the queue to what was seen.
LEMMA MoveHead ==
    ASSUME NEW a \in Seq(Event), NEW b \in Seq(Event), b # << >>
    PROVE  Append(a, Head(b)) \o Tail(b) = a \o b
OBVIOUS

-----------------------------------------------------------------------------
(***************************************************************************)
(* One subscription under the steps of the apply task.                     *)
(***************************************************************************)
\* The parts of a subscription.
LEMMA SubIs ==
    ASSUME NEW s \in Subscription
    PROVE  /\ s.held \in BOOLEAN /\ s.open \in BOOLEAN /\ s.clear \in BOOLEAN
           /\ s.filter \in Nat /\ s.queue \in Seq(Event) /\ s.seen \in Seq(Event)
<1>1. s.filter \in 0 .. MaxIndex
    BY Zenon DEF Subscription
<1>2. s.filter \in Nat
    BY ONLY <1>1, WatchAssumption
<1> QED
    BY <1>2, Zenon DEF Subscription

\* The index of an event.
LEMMA EventIs == \A e \in Event : e.index \in Nat
BY ONLY WatchAssumption DEF Event

\* What a subscription has is what the definitions of the properties name.
LEMMA DeliveredIs ==
    ASSUME NEW s \in Subscription
    PROVE  /\ s.seen \o s.queue \in Seq(Event)
           /\ Range(s.seen \o s.queue) = Has(s)
           /\ Has(s) \subseteq Event
<1>1. s.seen \in Seq(Event) /\ s.queue \in Seq(Event)
    BY SubIs
<1>2. s.seen \o s.queue \in Seq(Event)
    BY <1>1, ConcatIs
<1>3. Range(s.seen \o s.queue) = Range(s.seen) \cup Range(s.queue)
    BY <1>1, RangeOfConcat
<1> QED
    BY <1>1, <1>2, <1>3, RangeIs DEF Has

Entries == Seq(SUBSET Keys)

\* An entry more: what it writes is unsent, or it came with a snapshot.
LEMMA MoreEntries ==
    ASSUME NEW s \in Subscription, NEW wr \in Entries, NEW more \in Entries,
           NEW sk, NEW un \in Nat, NEW ch \in Seq(1 .. Len(wr)), NEW dr \in Nat,
           s.filter <= Len(wr),
           SubSound(s, wr, sk, 0, 0, ch, dr),
           NEW sk2, sk \subseteq sk2,
           un = 0 \/ un = Len(wr) + 1,
           \A i \in Len(wr) + 1 .. Len(wr) + Len(more) :
               i \in sk2 \/ i = un \/ (wr \o more)[i] = {}
    PROVE  SubSound(s, wr \o more, sk2, un, 0, ch, dr)
<1> DEFINE wr2 == wr \o more
<1>1. /\ wr2 \in Entries /\ Len(wr2) = Len(wr) + Len(more)
      /\ \A i \in 1 .. Len(wr) : wr2[i] = wr[i]
      /\ Len(wr) \in Nat /\ Len(more) \in Nat
    BY ConcatIs DEF Entries
<1>2. s.filter \in Nat /\ Has(s) \subseteq Event
    BY ONLY s \in Subscription, SubIs, DeliveredIs
<1>3. \A e \in Has(s) : e.index \in Nat /\ e.index <= Len(wr)
    BY <1>2 DEF SubSound, Ahead, Event
<1>m. \A i \in Len(wr) + 1 .. Len(wr) + Len(more) : i \in sk2 \/ i = un \/ wr2[i] = {}
    BY Zenon
<1> HIDE DEF wr2
<1>4. ASSUME NEW i \in 1 .. Len(wr2), NEW k \in Keys, Lacks(s, wr2, sk2, i, k)
      PROVE  \/ i \in 1 .. Len(wr) /\ Lacks(s, wr, sk, i, k)
             \/ i > Len(wr) /\ i = un
    <2>1. CASE i <= Len(wr)
        BY <1>1, <1>2, <1>4, <2>1 DEF Lacks
    <2>2. CASE i > Len(wr)
        <3>1. i \in Len(wr) + 1 .. Len(wr) + Len(more)
            BY <1>1, <2>2
        <3> QED
            BY <1>4, <1>m, <2>2, <3>1 DEF Lacks
    <2> QED
        BY <1>1, <2>1, <2>2
<1>5. Ahead(s, wr2, un, ch)
    BY <1>1, <1>2, <1>3 DEF SubSound, Ahead
<1>6. Fresh(s, un, 0, dr)
    BY <1>1, <1>2 DEF SubSound, Fresh
<1>7. HoleFree(s, wr2, sk2)
    <2> SUFFICES ASSUME s.open, s.clear, NEW i \in 1 .. Len(wr2), NEW k \in Keys,
                        Lacks(s, wr2, sk2, i, k), NEW e \in Has(s)
                 PROVE  e.index <= i
        BY Zenon DEF HoleFree
    <2>1. CASE i \in 1 .. Len(wr) /\ Lacks(s, wr, sk, i, k)
        BY <2>1, Zenon DEF SubSound, HoleFree
    <2>2. CASE i > Len(wr)
        BY ONLY <1>1, <1>3, <2>2, i \in 1 .. Len(wr2), e \in Has(s)
    <2> QED
        BY <1>4, <2>1, <2>2, Zenon
<1>8. Coming(s, wr2, sk2, un, 0, ch, dr)
    BY <1>1, <1>4 DEF SubSound, Coming
<1> QED
    BY <1>5, <1>6, <1>7, <1>8 DEF SubSound, wr2

\* The batch of the unsent index goes into the channel, or is refused.
LEMMA BatchSent ==
    ASSUME NEW s \in Subscription, NEW wr \in Entries, NEW sk,
           NEW un \in 1 .. Len(wr), NEW ch \in Seq(1 .. Len(wr)), NEW dr \in Nat,
           SubSound(s, wr, sk, un, 0, ch, dr)
    PROVE  /\ SubSound(s, wr, sk, 0, 0, Append(ch, un), dr)
           /\ SubSound(s, wr, sk, 0, un, ch, dr)
<1>1. Range(Append(ch, un)) = Range(ch) \cup {un}
    BY RangeOfAppend
<1>2. un # 0
    OBVIOUS
<1>3. Ahead(s, wr, 0, Append(ch, un)) /\ Ahead(s, wr, 0, ch)
    BY <1>1, <1>2 DEF SubSound, Ahead
<1>4. Fresh(s, 0, 0, dr) /\ Fresh(s, 0, un, dr)
    BY <1>2 DEF SubSound, Fresh
<1>5. Coming(s, wr, sk, 0, 0, Append(ch, un), dr) /\ Coming(s, wr, sk, 0, un, ch, dr)
    BY <1>1, <1>2 DEF SubSound, Coming
<1> QED
    BY <1>3, <1>4, <1>5 DEF SubSound

\* The watermark takes the refused index over.
LEMMA WatermarkLowered ==
    ASSUME NEW s \in Subscription, NEW wr \in Entries, NEW sk,
           NEW re \in 1 .. Len(wr), NEW ch \in Seq(1 .. Len(wr)), NEW dr \in Nat,
           SubSound(s, wr, sk, 0, re, ch, dr)
    PROVE  SubSound(s, wr, sk, 0, 0, ch, IF re < dr THEN re ELSE dr)
<1> DEFINE low == IF re < dr THEN re ELSE dr
<1>1. low \in Nat /\ low <= re /\ low <= dr /\ low \in {re, dr} /\ re # 0 /\ re \in Nat
    OBVIOUS
<1> HIDE DEF low
<1>2. Fresh(s, 0, 0, low)
    BY <1>1 DEF SubSound, Fresh
<1>3. Coming(s, wr, sk, 0, 0, ch, low)
    BY <1>1 DEF SubSound, Coming
<1> QED
    BY <1>2, <1>3 DEF SubSound, low

-----------------------------------------------------------------------------
(***************************************************************************)
(* One subscription under dispatch_watch_events.                           *)
(***************************************************************************)
\* The registration after the watermark has been drained.
Kept(s, dr) == [s EXCEPT !.held = @ /\ ~(dr # NoDrop /\ s.filter < dr)]

\* The events of the batch of index c that pass the subscription's filter.
Batch(s, wr, c) ==
    IF c <= s.filter THEN {}
    ELSE {e \in {[index |-> c, key |-> k] : k \in wr[c]} : matches(s, e.key)}

\* A batch is a set of events of its index, newer than the snapshot.
LEMMA BatchIs ==
    ASSUME NEW s \in Subscription, NEW wr \in Entries, NEW c \in 1 .. Len(wr),
           Len(wr) <= MaxIndex
    PROVE  /\ Batch(s, wr, c) \subseteq Event
           /\ \A e \in Batch(s, wr, c) : e.index = c /\ s.filter < c
           /\ \A k \in wr[c] \cap s.range :
                 s.filter < c => [index |-> c, key |-> k] \in Batch(s, wr, c)
<1>1. wr[c] \subseteq Keys
    BY SeqIs DEF Entries
<1> DEFINE T == {[index |-> c, key |-> k] : k \in Keys}
<1>3. Batch(s, wr, c) \subseteq T
    BY <1>1 DEF Batch
<1>5. MaxIndex \in Nat /\ s.filter \in Nat /\ Len(wr) \in Nat
    BY WatchAssumption DEF Subscription, Entries
<1>6. c \in 1 .. MaxIndex
    BY <1>5
<1>7. T \subseteq Event
    BY <1>6 DEF Event
<1>8. \A e \in Batch(s, wr, c) : e.index = c /\ s.filter < c
    BY <1>5 DEF Batch
<1>9. \A k \in wr[c] \cap s.range :
          s.filter < c => [index |-> c, key |-> k] \in Batch(s, wr, c)
    BY <1>5 DEF Batch, matches
<1> QED
    BY <1>3, <1>7, <1>8, <1>9

\* Drain the watermark only: what the next batch would end is ended.
LEMMA WatermarkDrained ==
    ASSUME NEW s \in Subscription, NEW wr \in Entries, NEW sk,
           NEW un \in 0 .. Len(wr), NEW re \in 0 .. Len(wr),
           NEW ch \in Seq(1 .. Len(wr)), NEW dr \in Nat,
           Len(wr) <= MaxIndex,
           SubSound(s, wr, sk, un, re, ch, dr)
    PROVE  /\ Kept(s, dr) \in Subscription
           /\ Kept(s, dr).seen = s.seen /\ Kept(s, dr).queue = s.queue
           /\ Kept(s, dr).filter = s.filter
           /\ SubSound(Kept(s, dr), wr, sk, un, re, ch, NoDrop)
<1> DEFINE u == Kept(s, dr)
           h == s.held /\ ~(dr # NoDrop /\ s.filter < dr)
<1>1. u = [s EXCEPT !.held = h] /\ h \in BOOLEAN
    BY DEF Kept, Subscription
<1>2. h => s.held /\ (dr # NoDrop => ~(s.filter < dr))
    OBVIOUS
<1> HIDE DEF h, u
<1>3. /\ u \in Subscription /\ u.held = h
      /\ u.open = s.open /\ u.range = s.range /\ u.filter = s.filter
      /\ u.queue = s.queue /\ u.seen = s.seen /\ u.clear = s.clear
    BY <1>1, Zenon DEF Subscription
<1>4. Has(u) = Has(s)
    BY <1>3 DEF Has
<1>5. MaxIndex \in Nat /\ s.filter \in 0 .. MaxIndex /\ Len(wr) \in Nat
    BY WatchAssumption DEF Subscription, Entries
<1>6. NoDrop \in Nat /\ NoDrop > s.filter /\ \A i \in 1 .. Len(wr) : ~(NoDrop <= i)
    BY <1>5 DEF NoDrop
<1>7. Sorted(u.seen \o u.queue) /\ Ahead(u, wr, un, ch)
    BY <1>3, <1>4 DEF SubSound, Ahead
<1>8. Fresh(u, un, re, NoDrop)
    BY <1>2, <1>3, <1>6 DEF SubSound, Fresh
<1>9. \A i, k : Lacks(u, wr, sk, i, k) <=> Lacks(s, wr, sk, i, k)
    BY <1>3, <1>4 DEF Lacks
<1>10. HoleFree(u, wr, sk)
    BY <1>3, <1>4, <1>9 DEF SubSound, HoleFree
<1>11. Coming(u, wr, sk, un, re, ch, NoDrop)
    <2>1. u.held /\ u.clear => s.held /\ s.clear /\ s.filter < dr
        BY <1>2, <1>3 DEF SubSound, Fresh
    <2>2. u.held /\ u.clear => dr = NoDrop
        BY <1>2, <1>3, <2>1
    <2> QED
        BY <1>3, <1>9, <2>1, <2>2 DEF SubSound, Coming
<1> QED
    BY <1>3, <1>7, <1>8, <1>10, <1>11 DEF SubSound, u

\* A subscription that gets nothing of the batch, because it has ended or
\* because the batch holds nothing for it.
LEMMA NothingOffered ==
    ASSUME NEW u \in Subscription, NEW wr \in Entries, NEW sk,
           NEW un \in 0 .. Len(wr), NEW re \in 0 .. Len(wr),
           NEW ch \in Seq(1 .. Len(wr)), ch # << >>, Len(wr) <= MaxIndex,
           SubSound(u, wr, sk, un, re, ch, NoDrop),
           NEW h \in BOOLEAN, h => u.held /\ (u.open => Batch(u, wr, Head(ch)) = {})
    PROVE  SubSound([u EXCEPT !.held = h], wr, sk, un, re, Tail(ch), NoDrop)
<1> DEFINE t == [u EXCEPT !.held = h]
<1>1. /\ t.held = h /\ t.open = u.open /\ t.range = u.range /\ t.filter = u.filter
      /\ t.queue = u.queue /\ t.seen = u.seen /\ t.clear = u.clear
    BY DEF Subscription
<1> HIDE DEF t
<1>2. Has(t) = Has(u) /\ \A i, k : Lacks(t, wr, sk, i, k) <=> Lacks(u, wr, sk, i, k)
    BY <1>1 DEF Has, Lacks
<1>3. Range(ch) = {Head(ch)} \cup Range(Tail(ch)) /\ Head(ch) \in 1 .. Len(wr)
    BY RangeOfTail
<1>4. Sorted(t.seen \o t.queue) /\ Ahead(t, wr, un, Tail(ch)) /\ HoleFree(t, wr, sk)
    BY <1>1, <1>2, <1>3 DEF SubSound, Ahead, HoleFree
<1>5. Fresh(t, un, re, NoDrop)
    BY <1>1 DEF SubSound, Fresh
<1>6. Coming(t, wr, sk, un, re, Tail(ch), NoDrop)
    <2> SUFFICES ASSUME t.held, t.open, t.clear, NEW i \in 1 .. Len(wr), NEW k \in Keys,
                        Lacks(t, wr, sk, i, k)
                 PROVE  i \in {un, re} \/ i \in Range(Tail(ch)) \/ NoDrop <= i
        BY DEF Coming
    <2>1. i \in {un, re} \/ i \in Range(ch) \/ NoDrop <= i
        BY <1>1, <1>2 DEF SubSound, Coming
    <2>2. u.filter \in Nat /\ i \in u.filter + 1 .. Len(wr) /\ k \in wr[i] \cap u.range
        BY <1>1, WatchAssumption DEF Lacks, Subscription
    <2>3. ASSUME i = Head(ch)
          PROVE  FALSE
        <3>1. Batch(u, wr, i) = {}
            BY <1>1, <2>3
        <3>2. u.filter < i
            BY <2>2
        <3>3. [index |-> i, key |-> k] \in Batch(u, wr, i)
            BY <2>2, <3>2, BatchIs
        <3> QED
            BY <3>1, <3>3
    <2> QED
        BY <1>3, <2>1, <2>3
<1> QED
    BY <1>4, <1>5, <1>6 DEF SubSound, t

\* A batch behind what a subscription has: order is kept.
LEMMA SortedConcat ==
    ASSUME NEW a \in Seq(Event), NEW b \in Seq(Event), Sorted(a \o b),
           NEW sent \in Seq(Event), NEW c \in Nat,
           \A e \in Range(a \o b) : e.index < c,
           \A e \in Range(sent) : e.index = c,
           IsInjective(sent)
    PROVE  Sorted(a \o (b \o sent))
<1>a. (a \o b) \o sent = a \o (b \o sent)
    BY ONLY a \in Seq(Event), b \in Seq(Event), sent \in Seq(Event), ConcatAssoc
<1> DEFINE d == a \o b
<1>0. d \in Seq(Event) /\ Sorted(d) /\ \A e \in Range(d) : e.index < c
    BY ConcatIs, Zenon
<1> HIDE DEF d
<1>1. /\ d \o sent \in Seq(Event) /\ Len(d \o sent) = Len(d) + Len(sent)
      /\ \A i \in 1 .. Len(d) + Len(sent) :
            (d \o sent)[i] = IF i <= Len(d) THEN d[i] ELSE sent[i - Len(d)]
      /\ Len(d) \in Nat /\ Len(sent) \in Nat
    BY ONLY <1>0, sent \in Seq(Event), ConcatIs
<1>2. \A i \in 1 .. Len(d) : d[i] \in Event /\ d[i].index < c
    BY ONLY <1>0 DEF Range
<1>3. \A i \in 1 .. Len(sent) : sent[i] \in Event /\ sent[i].index = c
    BY ONLY sent \in Seq(Event), \A e \in Range(sent) : e.index = c DEF Range
<1>4. \A i, j \in 1 .. Len(sent) : i < j => sent[i] # sent[j]
    BY ONLY sent \in Seq(Event), IsInjective(sent) DEF IsInjective
<1>5. \A i \in 1 .. Len(d) : d[i].index \in Nat
    BY ONLY <1>2, EventIs
<1> SUFFICES ASSUME NEW i \in 1 .. Len(d) + Len(sent), NEW j \in 1 .. Len(d) + Len(sent),
                    i < j
             PROVE  /\ (d \o sent)[i].index <= (d \o sent)[j].index
                    /\ (d \o sent)[i] # (d \o sent)[j]
    <2>1. a \o (b \o sent) = d \o sent
        BY <1>a DEF d
    <2>2. Len(d \o sent) = Len(d) + Len(sent)
        BY <1>1
    <2> QED
        BY <2>1, <2>2, Zenon DEF Sorted
<1>6. CASE j <= Len(d)
    <2>1. /\ i \in 1 .. Len(d) /\ j \in 1 .. Len(d)
          /\ (d \o sent)[i] = d[i] /\ (d \o sent)[j] = d[j]
        BY ONLY <1>1, <1>6, i < j, i \in 1 .. Len(d) + Len(sent), j \in 1 .. Len(d) + Len(sent)
    <2>2. d[i].index <= d[j].index /\ d[i] # d[j]
        BY ONLY <1>0, <2>1, i < j DEF Sorted
    <2> QED
        BY ONLY <2>1, <2>2
<1>7. CASE i <= Len(d) /\ j > Len(d)
    <2>1. j - Len(d) \in 1 .. Len(sent) /\ i \in 1 .. Len(d)
        BY ONLY <1>1, <1>7, i \in 1 .. Len(d) + Len(sent), j \in 1 .. Len(d) + Len(sent)
    <2>2. (d \o sent)[i] = d[i] /\ (d \o sent)[j] = sent[j - Len(d)]
        BY ONLY <1>1, <1>7, i \in 1 .. Len(d) + Len(sent), j \in 1 .. Len(d) + Len(sent)
    <2>3. d[i].index < c /\ d[i].index \in Nat /\ sent[j - Len(d)].index = c
        BY ONLY <1>2, <1>3, <1>5, <2>1
    <2>4. \A x, y \in Nat : x < y => x <= y /\ x # y
        OBVIOUS
    <2> QED
        BY <2>2, <2>3, <2>4, Zenon
<1>8. CASE i > Len(d)
    <2>1. /\ i - Len(d) \in 1 .. Len(sent) /\ j - Len(d) \in 1 .. Len(sent)
          /\ i - Len(d) < j - Len(d)
        BY ONLY <1>1, <1>8, i < j, i \in 1 .. Len(d) + Len(sent), j \in 1 .. Len(d) + Len(sent)
    <2>2. (d \o sent)[i] = sent[i - Len(d)] /\ (d \o sent)[j] = sent[j - Len(d)]
        BY ONLY <1>1, <1>8, i < j, i \in 1 .. Len(d) + Len(sent), j \in 1 .. Len(d) + Len(sent)
    <2>3. /\ sent[i - Len(d)].index = c /\ sent[j - Len(d)].index = c
          /\ sent[i - Len(d)] # sent[j - Len(d)] /\ c <= c
        BY ONLY <1>3, <1>4, <2>1, c \in Nat
    <2> QED
        BY ONLY <2>2, <2>3
<1>9. j <= Len(d) \/ (i <= Len(d) /\ j > Len(d)) \/ i > Len(d)
    BY ONLY <1>1, i < j, i \in 1 .. Len(d) + Len(sent), j \in 1 .. Len(d) + Len(sent)
<1> QED
    BY <1>6, <1>7, <1>8, <1>9, Zenon

\* A held and open subscription takes what there is room for of a batch.
LEMMA SomeOffered ==
    ASSUME NEW u \in Subscription, NEW wr \in Entries, NEW sk,
           NEW un \in 0 .. Len(wr), NEW re \in 0 .. Len(wr),
           NEW ch \in Seq(1 .. Len(wr)), ch # << >>, Len(wr) <= MaxIndex,
           InLine(wr, un, re, ch),
           SubSound(u, wr, sk, un, re, ch, NoDrop), u.held, u.open,
           NEW sent \in Seq(Event), IsInjective(sent),
           Range(sent) \subseteq Batch(u, wr, Head(ch)),
           NEW h \in BOOLEAN, h => Range(sent) = Batch(u, wr, Head(ch))
    PROVE  SubSound([u EXCEPT !.queue = @ \o sent, !.held = h],
                    wr, sk, un, re, Tail(ch), NoDrop)
<1> DEFINE t == [u EXCEPT !.queue = @ \o sent, !.held = h]
           c == Head(ch)
<1>1. /\ t.held = h /\ t.open = u.open /\ t.range = u.range /\ t.filter = u.filter
      /\ t.queue = u.queue \o sent /\ t.seen = u.seen /\ t.clear = u.clear
    BY Zenon DEF Subscription
<1> HIDE DEF t
<1>2. u.seen \in Seq(Event) /\ u.queue \in Seq(Event) /\ u.filter \in Nat
    BY SubIs
<1>3. Has(t) = Has(u) \cup Range(sent)
    <2>1. Range(u.queue \o sent) = Range(u.queue) \cup Range(sent)
        BY <1>2, RangeOfConcat
    <2> QED
        BY <1>1, <2>1 DEF Has
<1>4. /\ Range(ch) = {c} \cup Range(Tail(ch)) /\ c \in 1 .. Len(wr) /\ c = ch[1]
      /\ Tail(ch) \in Seq(1 .. Len(wr)) /\ Len(Tail(ch)) = Len(ch) - 1
      /\ \A i \in 1 .. Len(Tail(ch)) : Tail(ch)[i] = ch[i + 1]
    BY RangeOfTail
<1>5. Len(ch) \in Nat \ {0} /\ Len(wr) \in Nat
    BY SeqIs DEF Entries
<1>6. \A x \in Range(Tail(ch)) : c < x /\ x \in 1 .. Len(wr)
    <2>1. Range(Tail(ch)) = {Tail(ch)[i] : i \in 1 .. Len(Tail(ch))}
        BY <1>4, RangeIs, Zenon
    <2>2. \A i \in 1 .. Len(Tail(ch)) : c < ch[i + 1]
        BY <1>4, <1>5 DEF InLine
    <2>3. Range(Tail(ch)) \subseteq 1 .. Len(wr)
        BY <1>4, RangeIs, Zenon
    <2> QED
        BY ONLY <1>4, <2>1, <2>2, <2>3
<1>7. (un # 0 => c < un) /\ (re # 0 => c <= re)
    BY <1>4, <1>5 DEF InLine
<1>8. Has(u) \subseteq Event /\ \A e \in Event : e.index \in Nat
    BY ONLY u \in Subscription, DeliveredIs, EventIs
<1>9. \A e \in Has(u) : e.index < c /\ u.filter < e.index
    BY <1>4 DEF SubSound, Ahead
<1>10. \A e \in Range(sent) : e.index = c /\ u.filter < c
    BY <1>4, BatchIs
<1>11. Sorted(t.seen \o t.queue)
    <2>1. Range(u.seen \o u.queue) = Has(u)
        BY DeliveredIs
    <2>2. c \in Nat
        BY ONLY <1>4, <1>5
    <2>3. Sorted(u.seen \o u.queue)
        BY Zenon DEF SubSound
    <2>4. \A e \in Range(u.seen \o u.queue) : e.index < c
        BY ONLY <1>9, <2>1, Zenon
    <2>5. \A e \in Range(sent) : e.index = c
        BY ONLY <1>10, Zenon
    <2> HIDE DEF c
    <2>6. Sorted(u.seen \o (u.queue \o sent))
        BY ONLY <1>2, <2>2, <2>3, <2>4, <2>5, sent \in Seq(Event), IsInjective(sent),
                SortedConcat, Zenon
    <2> QED
        BY ONLY <1>1, <2>6, Zenon
<1>12. Ahead(t, wr, un, Tail(ch))
    <2> SUFFICES ASSUME NEW e \in Has(t)
                 PROVE  /\ u.filter < e.index /\ e.index <= Len(wr)
                        /\ \A x \in Range(Tail(ch)) : e.index < x
                        /\ un # 0 => e.index < un
        BY <1>1 DEF Ahead
    <2>1. CASE e \in Has(u)
        BY <1>4, <2>1 DEF SubSound, Ahead
    <2>2. CASE e \in Range(sent)
        BY <1>4, <1>6, <1>7, <1>10, <2>2
    <2> QED
        BY <1>3, <2>1, <2>2
<1>13. Fresh(t, un, re, NoDrop)
    BY <1>1 DEF SubSound, Fresh
<1>14. ASSUME u.clear, NEW i \in 1 .. Len(wr), NEW k \in Keys, Lacks(t, wr, sk, i, k)
       PROVE  i \in {un, re} \/ i \in Range(ch)
    <2>1. Lacks(u, wr, sk, i, k)
        BY <1>1, <1>3, <1>14 DEF Lacks
    <2>2. i \in {un, re} \/ i \in Range(ch) \/ NoDrop <= i
        BY <1>14, <2>1 DEF SubSound, Coming
    <2>3. ~(NoDrop <= i)
        BY ONLY <1>5, WatchAssumption, i \in 1 .. Len(wr), Len(wr) <= MaxIndex DEF NoDrop
    <2> QED
        BY <2>2, <2>3, Zenon
<1>15. HoleFree(t, wr, sk)
    <2> SUFFICES ASSUME u.clear, NEW i \in 1 .. Len(wr), NEW k \in Keys,
                        Lacks(t, wr, sk, i, k), NEW e \in Has(t)
                 PROVE  e.index <= i
        BY <1>1 DEF HoleFree
    <2>1. c <= i
        BY <1>4, <1>6, <1>7, <1>14
    <2>2. e.index \in Nat /\ e.index <= c
        BY ONLY <1>3, <1>4, <1>5, <1>8, <1>9, <1>10, e \in Has(t)
    <2> QED
        BY ONLY <1>4, <1>5, <2>1, <2>2, i \in 1 .. Len(wr)
<1>16. Coming(t, wr, sk, un, re, Tail(ch), NoDrop)
    <2> SUFFICES ASSUME h, u.clear, NEW i \in 1 .. Len(wr), NEW k \in Keys,
                        Lacks(t, wr, sk, i, k)
                 PROVE  i \in {un, re} \/ i \in Range(Tail(ch))
        BY <1>1 DEF Coming
    <2>1. ASSUME i = c
          PROVE  FALSE
        <3>1. i \in u.filter + 1 .. Len(wr) /\ k \in wr[i] \cap u.range
              /\ [index |-> i, key |-> k] \notin Has(t)
            BY ONLY <1>1, Lacks(t, wr, sk, i, k) DEF Lacks
        <3>2. u.filter < i
            BY ONLY <1>2, <3>1
        <3>3. [index |-> i, key |-> k] \in Batch(u, wr, i)
            BY <3>1, <3>2, BatchIs
        <3> QED
            BY <1>3, <2>1, <3>1, <3>3
    <2> QED
        BY <1>4, <1>14, <2>1
<1> QED
    BY <1>11, <1>12, <1>13, <1>15, <1>16 DEF SubSound, t

\* The whole of Offer.
LEMMA OfferSound ==
    ASSUME NEW u \in Subscription, NEW wr \in Entries, NEW sk,
           NEW un \in 0 .. Len(wr), NEW re \in 0 .. Len(wr),
           NEW ch \in Seq(1 .. Len(wr)), ch # << >>, Len(wr) <= MaxIndex,
           InLine(wr, un, re, ch), Len(u.queue) <= WATCH_BUFFER,
           SubSound(u, wr, sk, un, re, ch, NoDrop),
           NEW evs \in Seq(Batch(u, wr, Head(ch))),
           Range(evs) = Batch(u, wr, Head(ch)), IsInjective(evs)
    PROVE  /\ Offer(u, evs) \in Subscription /\ Offer(u, evs).filter = u.filter
           /\ Len(Offer(u, evs).queue) <= WATCH_BUFFER
           /\ SubSound(Offer(u, evs), wr, sk, un, re, Tail(ch), NoDrop)
<1> DEFINE t == Offer(u, evs)
           room == WATCH_BUFFER - Len(u.queue)
           cut == IF room < Len(evs) THEN room ELSE Len(evs)
           sent == SubSeq(evs, 1, cut)
<1>1. Head(ch) \in 1 .. Len(wr)
    BY RangeOfTail
<1>2. Batch(u, wr, Head(ch)) \subseteq Event
    BY <1>1, BatchIs
<1>3. /\ evs \in Seq(Event) /\ Len(evs) \in Nat /\ u.queue \in Seq(Event)
      /\ Len(u.queue) \in Nat /\ WATCH_BUFFER \in Nat
    <2>1. evs \in Seq(Event)
        BY ONLY <1>2, evs \in Seq(Batch(u, wr, Head(ch))), SeqWiden
    <2>2. u.queue \in Seq(Event)
        BY Zenon DEF Subscription
    <2>3. WATCH_BUFFER \in Nat
        BY ONLY WatchAssumption
    <2> QED
        BY ONLY <2>1, <2>2, <2>3
<1>4. evs = << >> => Batch(u, wr, Head(ch)) = {}
    <2>1. Range(<< >>) = {}
        BY ONLY DEF Range
    <2> QED
        BY ONLY <2>1, Range(evs) = Batch(u, wr, Head(ch))
<1>5. room \in Nat /\ cut \in 0 .. Len(evs) /\ cut <= room
    <2>1. \A b, q, n \in Nat :
              q <= b => LET r == b - q
                            k == IF r < n THEN r ELSE n
                        IN  r \in Nat /\ k \in 0 .. n /\ k <= r
        OBVIOUS
    <2> QED
        BY <1>3, <2>1, Zenon
<1>6. t = IF ~u.held \/ evs = << >> THEN u
          ELSE IF ~u.open THEN [u EXCEPT !.held = FALSE]
          ELSE [u EXCEPT !.queue = @ \o sent, !.held = Len(evs) <= room]
    BY DEF Offer
<1> SUFFICES /\ t \in Subscription /\ t.filter = u.filter /\ Len(t.queue) <= WATCH_BUFFER
             /\ SubSound(t, wr, sk, un, re, Tail(ch), NoDrop)
    OBVIOUS
<1> HIDE DEF t
<1>7. CASE ~u.held \/ evs = << >>
    <2>1. t = [u EXCEPT !.held = u.held] /\ u.held \in BOOLEAN
        BY <1>6, <1>7 DEF Subscription
    <2>2. u.held => Batch(u, wr, Head(ch)) = {}
        BY <1>4, <1>7
    <2>3. SubSound([u EXCEPT !.held = u.held], wr, sk, un, re, Tail(ch), NoDrop)
        BY <2>1, <2>2, NothingOffered
    <2> QED
        BY <1>6, <1>7, <2>1, <2>3, Zenon
<1>8. CASE u.held /\ evs # << >> /\ ~u.open
    <2>1. t = [u EXCEPT !.held = FALSE]
        BY <1>6, <1>8
    <2>2. SubSound([u EXCEPT !.held = FALSE], wr, sk, un, re, Tail(ch), NoDrop)
        BY NothingOffered, Zenon
    <2> QED
        BY <2>1, <2>2, Zenon DEF Subscription
<1>9. CASE u.held /\ evs # << >> /\ u.open
    <2> DEFINE h == Len(evs) <= room
    <2>1. /\ sent \in Seq(Batch(u, wr, Head(ch))) /\ Len(sent) = cut
          /\ Range(sent) \subseteq Batch(u, wr, Head(ch)) /\ IsInjective(sent)
          /\ cut = Len(evs) => Range(sent) = Batch(u, wr, Head(ch))
        <3> DEFINE B == Batch(u, wr, Head(ch))
        <3>2. /\ evs \in Seq(B) /\ IsInjective(evs) /\ Range(evs) = B
              /\ cut \in 0 .. Len(evs)
            BY <1>5
        <3> HIDE DEF cut, room, B
        <3>3. /\ sent \in Seq(B) /\ Len(sent) = cut
              /\ Range(sent) \subseteq B /\ IsInjective(sent)
              /\ cut = Len(evs) => Range(sent) = B
            BY ONLY <3>2, PrefixOfOrder
        <3> QED
            BY <3>3, Zenon DEF B
    <2>2. h \in BOOLEAN /\ (h => cut = Len(evs))
        BY ONLY <1>3, <1>5
    <2> HIDE DEF sent, cut, room, h
    <2>3. sent \in Seq(Event)
        BY ONLY <1>2, <2>1, SeqWiden
    <2>7. t = [u EXCEPT !.queue = @ \o sent, !.held = h]
        BY ONLY <1>6, <1>9 DEF h
    <2>8. SubSound([u EXCEPT !.queue = @ \o sent, !.held = h],
                   wr, sk, un, re, Tail(ch), NoDrop)
        BY <1>9, <2>1, <2>2, <2>3, SomeOffered, Zenon
    <2>9. u.queue \o sent \in Seq(Event) /\ Len(u.queue \o sent) <= WATCH_BUFFER
        BY ONLY <1>3, <1>5, <2>1, <2>3, ConcatIs DEF room
    <2>10. /\ t \in Subscription /\ t.queue = u.queue \o sent /\ t.filter = u.filter
        BY <2>2, <2>7, <2>9, Zenon DEF Subscription
    <2> QED
        BY <2>7, <2>8, <2>9, <2>10, Zenon
<1> QED
    BY <1>7, <1>8, <1>9, Zenon DEF Subscription

-----------------------------------------------------------------------------
(***************************************************************************)
(* The invariant holds initially and every step keeps it.                  *)
(***************************************************************************)
\* What the type invariant says, in the form the lemmas above ask for.
LEMMA Types ==
    ASSUME TypeOK
    PROVE  /\ wrote \in Entries /\ Len(wrote) \in Nat /\ Len(wrote) <= MaxIndex
           /\ unsent \in 0 .. Len(wrote) /\ refused \in 0 .. Len(wrote)
           /\ channel \in Seq(1 .. Len(wrote)) /\ dropped \in Nat /\ NoDrop \in Nat
           /\ \A w \in Watchers : subs[w] \in Subscription
<1>1. MaxIndex \in Nat
    BY WatchAssumption
<1>2. wrote \in Entries /\ Len(wrote) \in Nat
    BY DEF TypeOK, Entries
<1>3. dropped \in Nat /\ NoDrop \in Nat
    BY <1>1, <1>2 DEF TypeOK, NoDrop, applied
<1> QED
    BY <1>2, <1>3 DEF TypeOK, applied

\* A fresh subscription, and none, lack nothing.
LEMMA EmptySub ==
    ASSUME NEW r \in SUBSET Keys, NEW f \in 0 .. MaxIndex, NEW o \in BOOLEAN, NEW cl \in BOOLEAN,
           NEW wr \in Entries, NEW sk, NEW un \in Nat, NEW re \in Nat, NEW ch, NEW dr \in Nat,
           o => f = Len(wr),
           o /\ cl => un = 0 /\ re = 0 /\ dr = NoDrop,
           NEW s,
           s = [held |-> o, open |-> o, range |-> r, filter |-> f,
                queue |-> << >>, seen |-> << >>, clear |-> cl]
    PROVE  /\ s \in Subscription /\ Len(s.queue) <= WATCH_BUFFER /\ s.filter = f
           /\ SubSound(s, wr, sk, un, re, ch, dr)
<1>1. /\ << >> \in Seq(Event) /\ Len(<< >>) = 0
    BY SeqIs
<1>2. Range(<< >>) = {}
    BY DEF Range
<1>3. Has(s) = {}
    BY <1>2 DEF Has
<1>4. s \in Subscription /\ Len(s.queue) <= WATCH_BUFFER /\ s.filter = f
    BY <1>1, WatchAssumption DEF Subscription
<1>5. Sorted(s.seen \o s.queue)
    <2>1. Len(s.seen \o s.queue) = 0
        BY <1>1, ConcatIs
    <2> QED
        BY <2>1 DEF Sorted
<1>6. Ahead(s, wr, un, ch) /\ HoleFree(s, wr, sk)
    BY <1>3 DEF Ahead, HoleFree
<1>7. Fresh(s, un, re, dr)
    BY WatchAssumption DEF Fresh, NoDrop
<1>8. o => \A i, k : ~Lacks(s, wr, sk, i, k)
    <2>1. o => s.filter = Len(wr) /\ Len(wr) \in Nat
        BY DEF Entries
    <2> QED
        BY <2>1 DEF Lacks
<1>9. Coming(s, wr, sk, un, re, ch, dr)
    BY <1>8 DEF Coming
<1> QED
    BY <1>4, <1>5, <1>6, <1>7, <1>9 DEF SubSound

\* Nothing is applied and nobody watches at the start.
LEMMA InitIInv == Init => IInv
<1> SUFFICES ASSUME Init PROVE IInv
    OBVIOUS
<1>1. MaxIndex \in Nat /\ APPLY_QUEUE_DEPTH \in Nat
    BY WatchAssumption
<1>2. /\ wrote \in Seq(SUBSET Keys) /\ Len(wrote) = 0
      /\ channel \in Seq(1 .. 0) /\ Len(channel) = 0
    BY SeqIs DEF Init
<1>3. \A w \in Watchers :
          /\ subs[w] \in Subscription /\ Len(subs[w].queue) <= WATCH_BUFFER
          /\ subs[w].filter = 0
          /\ SubSound(subs[w], wrote, skipped, unsent, refused, channel, dropped)
    <2> TAKE w \in Watchers
    <2>1. subs[w] = [held |-> FALSE, open |-> FALSE, range |-> {}, filter |-> 0,
                     queue |-> << >>, seen |-> << >>, clear |-> FALSE]
        BY DEF Init, NoSub
    <2>2. /\ wrote \in Entries /\ unsent \in Nat /\ refused \in Nat /\ dropped \in Nat
          /\ {} \in SUBSET Keys /\ 0 \in 0 .. MaxIndex
        BY <1>1, <1>2 DEF Init, Entries, NoDrop
    <2> DEFINE s == subs[w]
    <2> HIDE DEF s
    <2>3. \E r \in SUBSET Keys, f \in 0 .. MaxIndex, o, cl \in BOOLEAN :
              /\ o = FALSE /\ f = 0
              /\ s = [held |-> o, open |-> o, range |-> r, filter |-> f,
                      queue |-> << >>, seen |-> << >>, clear |-> cl]
        BY <2>1, <2>2, Zenon DEF s
    <2>4. /\ s \in Subscription /\ Len(s.queue) <= WATCH_BUFFER /\ s.filter = 0
          /\ SubSound(s, wrote, skipped, unsent, refused, channel, dropped)
        BY ONLY <2>2, <2>3, EmptySub
    <2> QED
        BY <2>4 DEF s
<1>4. TypeOK
    <2>1. /\ skipped \subseteq 1 .. applied /\ unsent \in 0 .. applied
          /\ refused \in 0 .. applied /\ draining \in BOOLEAN /\ dropped = NoDrop
          /\ applied = 0 /\ subs = [w \in Watchers |-> NoSub]
        <3>1. applied = 0 /\ skipped = {} /\ unsent = 0 /\ refused = 0
            BY <1>2 DEF Init, applied
        <3>2. draining \in BOOLEAN /\ dropped = NoDrop /\ subs = [w \in Watchers |-> NoSub]
            BY Zenon DEF Init
        <3> QED
            BY <3>1, <3>2
    <2>2. subs \in [Watchers -> Subscription]
        BY <1>3, <2>1
    <2>3. /\ wrote \in Seq(SUBSET Keys) /\ applied <= MaxIndex
          /\ channel \in Seq(1 .. applied) /\ Len(channel) <= APPLY_QUEUE_DEPTH
        BY <1>1, <1>2, <2>1
    <2>4. \A w \in Watchers : Len(subs[w].queue) <= WATCH_BUFFER /\ subs[w].filter <= applied
        BY <1>3, <2>1
    <2> QED
        BY <2>1, <2>2, <2>3, <2>4 DEF TypeOK
<1>5. InLine(wrote, unsent, refused, channel)
    BY <1>2 DEF Init, InLine
<1> QED
    BY <1>3, <1>4, <1>5 DEF IInv

\* The part of the type invariant that is not about subscriptions.
PipeType ==
    /\ wrote \in Seq(SUBSET Keys) /\ applied <= MaxIndex
    /\ skipped \subseteq 1 .. applied
    /\ unsent \in 0 .. applied /\ refused \in 0 .. applied /\ draining \in BOOLEAN
    /\ channel \in Seq(1 .. applied) /\ Len(channel) <= APPLY_QUEUE_DEPTH
    /\ dropped \in 1 .. applied \cup {NoDrop}

\* What IInv says of one subscription.
SubInv(w) ==
    /\ subs[w] \in Subscription
    /\ Len(subs[w].queue) <= WATCH_BUFFER /\ subs[w].filter <= applied
    /\ SubSound(subs[w], wrote, skipped, unsent, refused, channel, dropped)

\* The invariant, part by part.
LEMMA IInvParts ==
    IInv <=> /\ PipeType /\ InLine(wrote, unsent, refused, channel)
             /\ subs \in [Watchers -> Subscription]
             /\ \A w \in Watchers : SubInv(w)
BY DEF IInv, TypeOK, PipeType, SubInv

\* The same after a step.
LEMMA NextParts ==
    ASSUME PipeType', InLine(wrote', unsent', refused', channel'),
           (subs \in [Watchers -> Subscription])', \A w \in Watchers : SubInv(w)'
    PROVE  IInv'
BY DEF IInv, TypeOK, PipeType, SubInv

\* One entry is applied; its writes, if any, are to be handed over.
LEMMA ApplyKeeps == IInv /\ Apply => IInv'
<1> SUFFICES ASSUME IInv, Apply PROVE IInv'
    OBVIOUS
<1>1. PICK keys \in SUBSET Keys : /\ wrote' = Append(wrote, keys)
                                  /\ unsent' = IF keys = {} THEN 0 ELSE applied + 1
    BY DEF Apply
<1>2. /\ unsent = 0 /\ refused = 0 /\ applied < MaxIndex
      /\ UNCHANGED <<skipped, refused, channel, draining, dropped, subs>>
    BY DEF Apply
<1>3. /\ wrote \in Entries /\ Len(wrote) \in Nat /\ MaxIndex \in Nat
      /\ channel \in Seq(1 .. Len(wrote)) /\ dropped \in Nat
    BY Types, WatchAssumption DEF IInv
<1> DEFINE more == <<keys>>
<1>4. /\ more \in Entries /\ Len(more) = 1 /\ more[1] = keys
      /\ wrote' = wrote \o more
    <2>1. more \in Entries /\ Len(more) = 1 /\ more[1] = keys
        BY DEF Entries
    <2>2. wrote' = wrote \o more
        BY <1>1, <1>3, AppendIs DEF Entries
    <2> QED
        BY <2>1, <2>2
<1>5. /\ wrote' \in Entries /\ Len(wrote') = Len(wrote) + 1 /\ wrote'[Len(wrote) + 1] = keys
    BY <1>1, <1>3, AppendIs DEF Entries
<1> HIDE DEF more
<1>6. unsent' \in Nat /\ (unsent' = 0 \/ unsent' = Len(wrote) + 1)
    BY <1>1, <1>3 DEF applied
<1>7. \A i \in Len(wrote) + 1 .. Len(wrote) + Len(more) :
          i \in skipped' \/ i = unsent' \/ (wrote \o more)[i] = {}
    <2>1. Len(wrote) + 1 = unsent' \/ wrote'[Len(wrote) + 1] = {}
        BY <1>1, <1>5 DEF applied
    <2>2. \A i \in Len(wrote) + 1 .. Len(wrote) + Len(more) : i = Len(wrote) + 1
        BY <1>3, <1>4
    <2> QED
        BY <1>4, <2>1, <2>2, Zenon
<1>8. \A w \in Watchers : SubInv(w)'
    <2> TAKE w \in Watchers
    <2> DEFINE s == subs[w]
    <2>1. /\ s \in Subscription /\ Len(s.queue) <= WATCH_BUFFER /\ s.filter <= Len(wrote)
          /\ SubSound(s, wrote, skipped, 0, 0, channel, dropped)
        BY <1>2, IInvParts DEF SubInv, applied
    <2>2. subs'[w] = s
        BY <1>2
    <2> HIDE DEF s
    <2>3. SubSound(s, wrote \o more, skipped', unsent', 0, channel, dropped)
        BY <1>2, <1>3, <1>4, <1>6, <1>7, <2>1, MoreEntries, Zenon
    <2>4. s.filter <= Len(wrote')
        BY ONLY <1>3, <1>5, <2>1, SubIs
    <2> QED
        BY <1>2, <1>4, <2>1, <2>2, <2>3, <2>4 DEF SubInv, applied
<1>9. InLine(wrote', unsent', refused', channel')
    <2>1. InLine(wrote, unsent, refused, channel)
        BY DEF IInv
    <2>2. \A i \in 1 .. Len(channel) : channel[i] \in 1 .. Len(wrote)
        BY <1>3, SeqIs
    <2> QED
        BY ONLY <1>2, <1>3, <1>5, <1>6, <2>1, <2>2 DEF InLine
<1>10. PipeType'
    <2>1. PipeType /\ applied' = applied + 1 /\ applied = Len(wrote)
        BY <1>5, IInvParts DEF applied
    <2>2. channel' \in Seq(1 .. applied')
        BY <1>2, <1>3, <2>1, SeqWiden
    <2>3. /\ wrote' \in Seq(SUBSET Keys) /\ applied' <= MaxIndex
          /\ unsent' \in 0 .. applied' /\ refused' \in 0 .. applied'
          /\ skipped' \subseteq 1 .. applied'
        BY ONLY <1>2, <1>3, <1>5, <1>6, <2>1 DEF PipeType, Entries
    <2>4. dropped' \in 1 .. applied' \cup {NoDrop}
        BY <1>2, <1>3, <2>1 DEF PipeType
    <2> QED
        BY <1>2, <2>1, <2>2, <2>3, <2>4 DEF PipeType, NoDrop
<1>11. (subs \in [Watchers -> Subscription])'
    BY <1>2, IInvParts
<1> QED
    BY <1>8, <1>9, <1>10, <1>11, NextParts, Zenon

\* A snapshot is restored: its entries have no events.
LEMMA RestoreKeeps == IInv /\ Restore => IInv'
<1> SUFFICES ASSUME IInv, Restore PROVE IInv'
    OBVIOUS
<1>1. PICK n \in 1 .. MaxJump : \E jump \in [1 .. n -> SUBSET Keys] :
          /\ applied + n <= MaxIndex
          /\ wrote' = wrote \o jump
          /\ skipped' = skipped \cup (applied + 1 .. applied + n)
    BY Zenon DEF Restore
<1>a. PICK more \in [1 .. n -> SUBSET Keys] :
          /\ applied + n <= MaxIndex
          /\ wrote' = wrote \o more
          /\ skipped' = skipped \cup (applied + 1 .. applied + n)
    BY <1>1
<1>2. /\ unsent = 0 /\ refused = 0
      /\ UNCHANGED <<unsent, refused, channel, draining, dropped, subs>>
    BY DEF Restore
<1>3. /\ wrote \in Entries /\ Len(wrote) \in Nat /\ MaxIndex \in Nat
      /\ channel \in Seq(1 .. Len(wrote)) /\ dropped \in Nat
    BY Types, WatchAssumption DEF IInv
<1>4. more \in Entries /\ Len(more) = n /\ n \in Nat
    <2>1. n \in Nat
        BY WatchAssumption
    <2> QED
        BY <2>1 DEF Entries
<1>5. wrote' \in Entries /\ Len(wrote') = Len(wrote) + n
    BY <1>a, <1>3, <1>4, ConcatIs, Zenon DEF Entries
<1>6. /\ skipped \subseteq skipped' /\ applied = Len(wrote) /\ applied' = Len(wrote')
      /\ \A i \in Len(wrote) + 1 .. Len(wrote) + Len(more) : i \in skipped'
    BY <1>a, <1>4 DEF applied
<1>7. \A w \in Watchers : SubInv(w)'
    <2> TAKE w \in Watchers
    <2> DEFINE s == subs[w]
    <2>1. /\ s \in Subscription /\ Len(s.queue) <= WATCH_BUFFER /\ s.filter <= Len(wrote)
          /\ SubSound(s, wrote, skipped, 0, 0, channel, dropped)
        BY <1>2, IInvParts DEF SubInv, applied
    <2>2. subs'[w] = s
        BY <1>2
    <2> HIDE DEF s
    <2>3. SubSound(s, wrote \o more, skipped', 0, 0, channel, dropped)
        <3>1. \A i \in Len(wrote) + 1 .. Len(wrote) + Len(more) :
                  i \in skipped' \/ i = 0 \/ (wrote \o more)[i] = {}
            BY <1>6, Zenon
        <3>2. 0 \in Nat
            OBVIOUS
        <3> QED
            BY ONLY <1>3, <1>4, <1>6, <2>1, <3>1, <3>2, MoreEntries, Zenon
    <2>4. s.filter <= Len(wrote')
        BY ONLY <1>3, <1>4, <1>5, <2>1, SubIs
    <2> QED
        BY <1>a, <1>2, <2>1, <2>2, <2>3, <2>4 DEF SubInv, applied
<1>8. InLine(wrote', unsent', refused', channel')
    BY <1>2 DEF InLine, IInv
<1>9. PipeType'
    <2>1. PipeType
        BY IInvParts
    <2>2. channel' \in Seq(1 .. applied')
        BY <1>2, <1>3, <1>4, <1>5, <1>6, SeqWiden
    <2>3. /\ wrote' \in Seq(SUBSET Keys) /\ applied' <= MaxIndex
          /\ unsent' \in 0 .. applied' /\ refused' \in 0 .. applied'
        BY <1>a, <1>2, <1>3, <1>4, <1>5, <1>6 DEF Entries
    <2>4. skipped' \subseteq 1 .. applied'
        <3>1. skipped \subseteq 1 .. Len(wrote)
            BY <1>6, <2>1 DEF PipeType
        <3> SUFFICES ASSUME NEW i \in skipped' PROVE i \in 1 .. Len(wrote) + n
            BY <1>5, <1>6
        <3>2. i \in 1 .. Len(wrote) \/ i \in Len(wrote) + 1 .. Len(wrote) + n
            BY <1>a, <1>6, <3>1
        <3> QED
            BY <1>3, <1>4, <3>2
    <2>5. dropped' \in 1 .. applied' \cup {NoDrop}
        BY <1>2, <1>3, <1>4, <1>5, <1>6, <2>1 DEF PipeType
    <2> QED
        BY <1>2, <2>1, <2>2, <2>3, <2>4, <2>5 DEF PipeType, NoDrop
<1>10. (subs \in [Watchers -> Subscription])'
    BY <1>2, IInvParts
<1> QED
    BY <1>7, <1>8, <1>9, <1>10, NextParts, Zenon

\* A batch goes onto the channel, or finds no room there.
LEMMA SendEventsKeeps == IInv /\ SendEvents => IInv'
<1> SUFFICES ASSUME IInv, SendEvents PROVE IInv'
    OBVIOUS
<1>1. /\ wrote \in Entries /\ Len(wrote) \in Nat
      /\ unsent \in 1 .. Len(wrote)
      /\ channel \in Seq(1 .. Len(wrote)) /\ Len(channel) \in Nat /\ dropped \in Nat
    BY Types DEF IInv, SendEvents
<1>2. refused = 0 /\ InLine(wrote, unsent, 0, channel)
    BY <1>1 DEF IInv, InLine
<1>3. /\ unsent' = 0
      /\ UNCHANGED <<wrote, skipped, draining, dropped, subs>>
    BY DEF SendEvents
<1>4. \A w \in Watchers :
          /\ SubSound(subs[w], wrote, skipped, 0, 0, Append(channel, unsent), dropped)
          /\ SubSound(subs[w], wrote, skipped, 0, unsent, channel, dropped)
    <2> TAKE w \in Watchers
    <2> DEFINE s == subs[w]
    <2>1. s \in Subscription /\ SubSound(s, wrote, skipped, unsent, 0, channel, dropped)
        BY <1>2, IInvParts DEF SubInv
    <2> HIDE DEF s
    <2>2. /\ SubSound(s, wrote, skipped, 0, 0, Append(channel, unsent), dropped)
          /\ SubSound(s, wrote, skipped, 0, unsent, channel, dropped)
        BY <1>1, <2>1, BatchSent
    <2> QED
        BY <2>2 DEF s
<1>5. PipeType /\ (subs \in [Watchers -> Subscription])' /\ applied' = applied
      /\ applied = Len(wrote)
    BY <1>3, IInvParts DEF applied
<1>6. CASE Len(channel) < APPLY_QUEUE_DEPTH
    <2>1. channel' = Append(channel, unsent) /\ refused' = 0
        BY <1>2, <1>6 DEF SendEvents
    <2>2. /\ channel' \in Seq(1 .. Len(wrote)) /\ Len(channel') = Len(channel) + 1
          /\ \A i \in 1 .. Len(channel) : channel'[i] = channel[i]
          /\ channel'[Len(channel) + 1] = unsent
        BY <1>1, <2>1, AppendIs
    <2>3. InLine(wrote', unsent', refused', channel')
        <3>a. 1 .. Len(channel') = 1 .. Len(channel) + 1
            BY <2>2
        <3> SUFFICES ASSUME NEW i \in 1 .. Len(channel) + 1, NEW j \in 1 .. Len(channel) + 1,
                            i < j
                     PROVE  channel'[i] < channel'[j]
            BY <1>3, <2>1, <3>a DEF InLine
        <3>0. i \in 1 .. Len(channel)
            BY ONLY Len(channel) \in Nat, i \in 1 .. Len(channel) + 1,
                    j \in 1 .. Len(channel) + 1, i < j, <1>1
        <3>1. i \in 1 .. Len(channel) /\ channel'[i] = channel[i]
            BY ONLY <1>1, <2>2, <3>0
        <3>2. CASE j \in 1 .. Len(channel)
            BY ONLY <1>2, <2>2, <3>1, <3>2, i < j DEF InLine
        <3>3. CASE j = Len(channel) + 1
            <4>1. channel[i] < unsent
                BY <1>1, <1>2, <3>1 DEF InLine
            <4> QED
                BY <2>2, <3>1, <3>3, <4>1
        <3>4. j \in 1 .. Len(channel) \/ j = Len(channel) + 1
            BY <1>1
        <3> QED
            BY <3>2, <3>3, <3>4
    <2>4. PipeType'
        <3>1. Len(channel') <= APPLY_QUEUE_DEPTH
            BY <1>1, <1>6, <2>2, WatchAssumption
        <3>2. unsent' \in 0 .. applied' /\ refused' \in 0 .. applied'
            BY <1>1, <1>3, <1>5, <2>1
        <3> QED
            BY <1>3, <1>5, <2>2, <3>1, <3>2 DEF PipeType, NoDrop
    <2>5. \A w \in Watchers : SubInv(w)'
        BY <1>3, <1>4, <1>5, <2>1, IInvParts DEF SubInv
    <2> QED
        BY <1>5, <2>3, <2>4, <2>5, NextParts, Zenon
<1>7. CASE ~(Len(channel) < APPLY_QUEUE_DEPTH)
    <2>1. channel' = channel /\ refused' = unsent
        BY <1>7 DEF SendEvents
    <2>2. InLine(wrote', unsent', refused', channel')
        BY <1>1, <1>2, <1>3, <2>1 DEF InLine
    <2>3. PipeType'
        <3>1. unsent' \in 0 .. applied' /\ refused' \in 0 .. applied'
            BY <1>1, <1>3, <1>5, <2>1
        <3> QED
            BY <1>3, <1>5, <2>1, <3>1 DEF PipeType, NoDrop
    <2>4. \A w \in Watchers : SubInv(w)'
        BY <1>3, <1>4, <1>5, <2>1, IInvParts DEF SubInv
    <2> QED
        BY <1>5, <2>2, <2>3, <2>4, NextParts, Zenon
<1> QED
    BY <1>6, <1>7

\* The watermark is lowered to the index of the batch that had no room.
LEMMA FetchMinKeeps == IInv /\ fetch_min => IInv'
<1> SUFFICES ASSUME IInv, fetch_min PROVE IInv'
    OBVIOUS
<1>1. /\ wrote \in Entries /\ Len(wrote) \in Nat
      /\ refused \in 1 .. Len(wrote) /\ channel \in Seq(1 .. Len(wrote)) /\ dropped \in Nat
    BY Types DEF IInv, fetch_min
<1>2. unsent = 0 /\ InLine(wrote, 0, refused, channel)
    BY <1>1 DEF IInv, InLine
<1>3. /\ dropped' = (IF refused < dropped THEN refused ELSE dropped) /\ refused' = 0
      /\ UNCHANGED <<wrote, skipped, unsent, channel, draining, subs>>
    BY DEF fetch_min
<1>4. \A w \in Watchers : SubInv(w)'
    <2> TAKE w \in Watchers
    <2> DEFINE s == subs[w]
    <2>1. /\ s \in Subscription /\ Len(s.queue) <= WATCH_BUFFER /\ s.filter <= Len(wrote)
          /\ SubSound(s, wrote, skipped, 0, refused, channel, dropped)
        BY <1>2, IInvParts DEF SubInv, applied
    <2>2. subs'[w] = s
        BY <1>3
    <2> HIDE DEF s
    <2>3. SubSound(s, wrote, skipped, 0, 0, channel, dropped')
        BY <1>1, <1>3, <2>1, WatermarkLowered
    <2> QED
        BY <1>2, <1>3, <2>1, <2>2, <2>3 DEF SubInv, applied
<1>5. InLine(wrote', unsent', refused', channel')
    BY <1>2, <1>3 DEF InLine
<1>6. PipeType'
    <2>1. PipeType /\ applied' = applied /\ applied = Len(wrote)
        BY <1>3, IInvParts DEF applied
    <2>2. refused' \in 0 .. applied' /\ dropped' \in 1 .. applied' \cup {NoDrop}
        BY <1>1, <1>3, <2>1 DEF PipeType
    <2> QED
        BY <1>3, <2>1, <2>2 DEF PipeType, NoDrop
<1>7. (subs \in [Watchers -> Subscription])'
    BY <1>3, IInvParts
<1> QED
    BY <1>4, <1>5, <1>6, <1>7, NextParts, Zenon

\* The actor has emptied the channel.
LEMMA DrainedKeeps == IInv /\ Drained => IInv'
<1> SUFFICES ASSUME IInv, Drained PROVE IInv'
    OBVIOUS
<1>1. UNCHANGED <<wrote, skipped, unsent, refused, channel, dropped, subs>> /\ draining' = FALSE
    BY DEF Drained
<1>2. PipeType' /\ (subs \in [Watchers -> Subscription])'
    BY <1>1, IInvParts, Zenon DEF PipeType, applied, NoDrop
<1>3. InLine(wrote', unsent', refused', channel') /\ \A w \in Watchers : SubInv(w)'
    BY <1>1, IInvParts DEF SubInv, applied
<1> QED
    BY <1>2, <1>3, NextParts, Zenon

\* A step of one subscription alone.
LEMMA OneSubKeeps ==
    ASSUME IInv, NEW w \in Watchers, NEW t,
           subs' = [subs EXCEPT ![w] = t],
           UNCHANGED <<wrote, skipped, unsent, refused, channel, draining, dropped>>,
           t \in Subscription, Len(t.queue) <= WATCH_BUFFER, t.filter <= applied,
           SubSound(t, wrote, skipped, unsent, refused, channel, dropped)
    PROVE  IInv'
<1>1. subs' \in [Watchers -> Subscription]
    BY IInvParts
<1>2. PipeType' /\ InLine(wrote', unsent', refused', channel') /\ applied' = applied
    BY IInvParts DEF PipeType, applied, NoDrop
<1>3. \A v \in Watchers : SubInv(v)'
    <2> TAKE v \in Watchers
    <2>1. CASE v = w
        <3>1. subs'[v] = t
            BY <2>1, IInvParts
        <3> QED
            BY <1>2, <3>1 DEF SubInv
    <2>2. CASE v # w
        <3>1. subs'[v] = subs[v]
            BY <2>2, IInvParts
        <3> QED
            BY <1>2, <3>1, IInvParts DEF SubInv
    <2> QED
        BY <2>1, <2>2
<1> QED
    BY <1>1, <1>2, <1>3, NextParts, Zenon

\* A registration starts at the applied index, with nothing delivered.
LEMMA WatchKeeps ==
    ASSUME IInv, NEW w \in Watchers, NEW r \in Ranges, Watch(w, r)
    PROVE  IInv'
<1> DEFINE cl == dropped = NoDrop /\ unsent = 0 /\ refused = 0
           t == [held |-> TRUE, open |-> TRUE, range |-> r, filter |-> applied,
                 queue |-> << >>, seen |-> << >>, clear |-> cl]
<1>1. subs' = [subs EXCEPT ![w] = t]
    BY DEF Watch
<1>2. UNCHANGED <<wrote, skipped, unsent, refused, channel, draining, dropped>>
    BY DEF Watch
<1>3. /\ wrote \in Entries /\ unsent \in Nat /\ refused \in Nat /\ dropped \in Nat
      /\ applied = Len(wrote) /\ applied \in 0 .. MaxIndex /\ r \in SUBSET Keys
    <2>1. /\ wrote \in Entries /\ Len(wrote) \in Nat /\ Len(wrote) <= MaxIndex
          /\ unsent \in 0 .. Len(wrote) /\ refused \in 0 .. Len(wrote) /\ dropped \in Nat
        BY Types DEF IInv
    <2>2. MaxIndex \in Nat /\ r \in SUBSET Keys
        BY WatchAssumption
    <2> QED
        BY ONLY <2>1, <2>2 DEF applied
<1>4. cl \in BOOLEAN /\ (cl => unsent = 0 /\ refused = 0 /\ dropped = NoDrop)
    OBVIOUS
<1> HIDE DEF cl
<1>5. \E o \in BOOLEAN : o = TRUE
    BY Zenon
<1>6. PICK o \in BOOLEAN : o = TRUE
    BY <1>5, Zenon
<1>7. t = [held |-> o, open |-> o, range |-> r, filter |-> applied,
           queue |-> << >>, seen |-> << >>, clear |-> cl]
    BY <1>6
<1> HIDE DEF t
<1>8. /\ t \in Subscription /\ Len(t.queue) <= WATCH_BUFFER /\ t.filter = applied
      /\ SubSound(t, wrote, skipped, unsent, refused, channel, dropped)
    BY ONLY <1>3, <1>4, <1>7, EmptySub
<1>9. t.filter <= applied
    BY <1>3, <1>8
<1> QED
    BY <1>1, <1>2, <1>8, <1>9, OneSubKeeps, Zenon

\* The consumer takes the event at the head of its queue.
LEMMA ReceiveKeeps ==
    ASSUME IInv, NEW w \in Watchers, Receive(w)
    PROVE  IInv'
<1> DEFINE s == subs[w]
           t == [s EXCEPT !.queue = Tail(s.queue), !.seen = Append(s.seen, Head(s.queue))]
<1>1. subs' = [subs EXCEPT ![w] = t]
    BY Zenon DEF Receive
<1>2. UNCHANGED <<wrote, skipped, unsent, refused, channel, draining, dropped>>
    BY DEF Receive
<1>3. /\ s \in Subscription /\ Len(s.queue) <= WATCH_BUFFER /\ s.filter <= applied
      /\ SubSound(s, wrote, skipped, unsent, refused, channel, dropped)
    BY IInvParts DEF SubInv
<1>4. s.queue # << >>
    BY DEF Receive
<1> HIDE DEF s
<1>5. s.seen \in Seq(Event) /\ s.queue \in Seq(Event)
    BY <1>3 DEF Subscription
<1>6. /\ Tail(s.queue) \in Seq(Event) /\ Head(s.queue) \in Event
      /\ Range(s.queue) = {Head(s.queue)} \cup Range(Tail(s.queue))
      /\ Len(Tail(s.queue)) = Len(s.queue) - 1
    BY <1>4, <1>5, RangeOfTail
<1>7. /\ Append(s.seen, Head(s.queue)) \in Seq(Event)
      /\ Range(Append(s.seen, Head(s.queue))) = Range(s.seen) \cup {Head(s.queue)}
    <2>1. Append(s.seen, Head(s.queue)) \in Seq(Event)
        BY ONLY <1>5, <1>6, AppendIs
    <2>2. Range(Append(s.seen, Head(s.queue))) = Range(s.seen) \cup {Head(s.queue)}
        BY ONLY <1>5, <1>6, RangeOfAppend
    <2> QED
        BY ONLY <2>1, <2>2
<1>8. Append(s.seen, Head(s.queue)) \o Tail(s.queue) = s.seen \o s.queue
    BY ONLY <1>4, <1>5, MoveHead, Zenon
<1>9. /\ t \in Subscription
      /\ t.held = s.held /\ t.open = s.open /\ t.range = s.range /\ t.filter = s.filter
      /\ t.clear = s.clear
      /\ t.queue = Tail(s.queue) /\ t.seen = Append(s.seen, Head(s.queue))
    BY <1>3, <1>6, <1>7, Zenon DEF Subscription
<1> HIDE DEF t
<1>10. Has(t) = Has(s) /\ t.seen \o t.queue = s.seen \o s.queue
    BY <1>6, <1>7, <1>8, <1>9, Zenon DEF Has
<1>11. SubSound(t, wrote, skipped, unsent, refused, channel, dropped)
    BY <1>3, <1>9, <1>10, Zenon DEF SubSound, Ahead, Fresh, HoleFree, Coming, Lacks
<1>12. Len(t.queue) <= WATCH_BUFFER /\ t.filter <= applied
    BY <1>3, <1>5, <1>6, <1>9, WatchAssumption
<1> QED
    BY <1>1, <1>2, <1>9, <1>11, <1>12, OneSubKeeps, Zenon

\* The consumer drops its end.
LEMMA CloseKeeps ==
    ASSUME IInv, NEW w \in Watchers, Close(w)
    PROVE  IInv'
<1> DEFINE s == subs[w]
           t == IF s.held THEN [s EXCEPT !.open = FALSE, !.queue = << >>] ELSE NoSub
<1>1. subs' = [subs EXCEPT ![w] = t]
    BY DEF Close
<1>2. UNCHANGED <<wrote, skipped, unsent, refused, channel, draining, dropped>>
    BY DEF Close
<1>3. /\ s \in Subscription /\ s.filter <= applied
      /\ SubSound(s, wrote, skipped, unsent, refused, channel, dropped)
    BY IInvParts DEF SubInv
<1>4. /\ wrote \in Entries /\ unsent \in Nat /\ refused \in Nat /\ dropped \in Nat
      /\ applied \in 0 .. MaxIndex /\ {} \in SUBSET Keys /\ 0 \in 0 .. MaxIndex
    BY Types, WatchAssumption DEF IInv, applied
<1> HIDE DEF s
<1>5. CASE s.held
    <2>1. s.seen \in Seq(Event) /\ s.queue \in Seq(Event) /\ << >> \in Seq(Event)
        BY <1>3 DEF Subscription
    <2>2. /\ t \in Subscription
          /\ t.held = s.held /\ t.open = FALSE /\ t.filter = s.filter
          /\ t.clear = s.clear /\ t.queue = << >> /\ t.seen = s.seen
        BY <1>3, <1>5, <2>1, Zenon DEF Subscription
    <2> HIDE DEF t
    <2>3. Range(<< >>) = {}
        BY DEF Range
    <2>4. Has(t) \subseteq Has(s)
        BY <2>2, <2>3 DEF Has
    <2>5. Sorted(t.seen \o t.queue)
        <3> DEFINE a == s.seen
                   b == s.queue
        <3>1. a \in Seq(Event) /\ b \in Seq(Event) /\ Sorted(a \o b)
            BY <1>3, <2>1 DEF SubSound
        <3> HIDE DEF a, b
        <3>2. /\ Len(a \o b) = Len(a) + Len(b) /\ Len(a) \in Nat /\ Len(b) \in Nat
              /\ \A i \in 1 .. Len(a) : (a \o b)[i] = a[i]
            BY <3>1, ConcatIs
        <3>3. \A i \in 1 .. Len(a) : i \in 1 .. Len(a \o b)
            BY <3>2
        <3>4. Sorted(a)
            BY <3>1, <3>2, <3>3 DEF Sorted
        <3>5. a \o << >> = a
            BY <3>1, ConcatIs
        <3> QED
            BY <2>2, <3>4, <3>5 DEF a
    <2>6. Ahead(t, wrote, unsent, channel)
        BY <1>3, <2>2, <2>4, Zenon DEF SubSound, Ahead
    <2>7. Fresh(t, unsent, refused, dropped)
        BY <1>3, <2>2 DEF SubSound, Fresh
    <2>8. HoleFree(t, wrote, skipped) /\ Coming(t, wrote, skipped, unsent, refused, channel, dropped)
        BY <2>2 DEF HoleFree, Coming
    <2>9. SubSound(t, wrote, skipped, unsent, refused, channel, dropped)
        BY <2>5, <2>6, <2>7, <2>8 DEF SubSound
    <2>10. Len(t.queue) <= WATCH_BUFFER /\ t.filter <= applied
        BY <1>3, <2>2, WatchAssumption
    <2> QED
        BY <1>1, <1>2, <2>2, <2>9, <2>10, OneSubKeeps, Zenon
<1>6. CASE ~s.held
    <2>1. t = NoSub
        BY <1>6
    <2> HIDE DEF t
    <2>2. \E r \in SUBSET Keys, f \in 0 .. MaxIndex, o, cl \in BOOLEAN :
              /\ o = FALSE /\ f = 0
              /\ t = [held |-> o, open |-> o, range |-> r, filter |-> f,
                      queue |-> << >>, seen |-> << >>, clear |-> cl]
        BY <1>4, <2>1, Zenon DEF NoSub
    <2>3. /\ t \in Subscription /\ Len(t.queue) <= WATCH_BUFFER /\ t.filter = 0
          /\ SubSound(t, wrote, skipped, unsent, refused, channel, dropped)
        <3>1. PICK r \in SUBSET Keys, f \in 0 .. MaxIndex, o, cl \in BOOLEAN :
                  /\ o = FALSE /\ f = 0
                  /\ t = [held |-> o, open |-> o, range |-> r, filter |-> f,
                          queue |-> << >>, seen |-> << >>, clear |-> cl]
            BY <2>2, Zenon
        <3> QED
            BY ONLY <1>4, <3>1, EmptySub
    <2>4. t.filter <= applied
        BY <1>4, <2>3
    <2> QED
        BY <1>1, <1>2, <2>3, <2>4, OneSubKeeps, Zenon
<1> QED
    BY <1>5, <1>6

\* The actor takes a batch: what it does to one subscription.
LEMMA DispatchIs ==
    ASSUME NEW c, NEW w \in Watchers, dispatch_watch_events(c)
    PROVE  LET u == Kept(subs[w], dropped)
           IN  subs'[w] = Offer(u, InSomeOrder(Batch(u, wrote, c)))
BY DEF dispatch_watch_events, Kept, Batch, Passing, Events

\* The order evs of the events of a batch has each of them once.
IsOrderOf(evs, batch) ==
    evs \in Seq(batch) /\ Range(evs) = batch /\ IsInjective(evs)

\* The actor takes a batch: every subscription stays sound.
LEMMA DispatchKeeps ==
    ASSUME IInv, Dispatch,
           \A s, c : c \in 1 .. Len(wrote) =>
               IsOrderOf(InSomeOrder(Batch(s, wrote, c)), Batch(s, wrote, c))
    PROVE  IInv'
<1> DEFINE c == Head(channel)
<1>1. /\ channel # << >> /\ dispatch_watch_events(c) /\ channel' = Tail(channel)
      /\ draining' = TRUE /\ UNCHANGED <<wrote, skipped, unsent, refused>>
    BY DEF Dispatch
<1>2. dropped' = NoDrop /\ DOMAIN subs' = Watchers /\ subs' = [w \in Watchers |-> subs'[w]]
    BY <1>1 DEF dispatch_watch_events
<1>3. /\ wrote \in Entries /\ Len(wrote) \in Nat /\ Len(wrote) <= MaxIndex
      /\ unsent \in 0 .. Len(wrote) /\ refused \in 0 .. Len(wrote)
      /\ channel \in Seq(1 .. Len(wrote)) /\ dropped \in Nat /\ NoDrop \in Nat
    BY Types DEF IInv
<1>4. PipeType /\ InLine(wrote, unsent, refused, channel)
    BY IInvParts
<1>5. \A w \in Watchers :
          /\ subs'[w] \in Subscription /\ Len(subs'[w].queue) <= WATCH_BUFFER
          /\ subs'[w].filter <= applied
          /\ SubSound(subs'[w], wrote, skipped, unsent, refused, Tail(channel), NoDrop)
    <2> TAKE w \in Watchers
    <2> DEFINE s == subs[w]
               u == Kept(s, dropped)
               t == subs'[w]
    <2>1. /\ s \in Subscription /\ Len(s.queue) <= WATCH_BUFFER /\ s.filter <= applied
          /\ SubSound(s, wrote, skipped, unsent, refused, channel, dropped)
        BY IInvParts DEF SubInv
    <2>2. t = Offer(u, InSomeOrder(Batch(u, wrote, c)))
        BY <1>1, DispatchIs
    <2> HIDE DEF s, t
    <2>3. /\ u \in Subscription /\ u.queue = s.queue /\ u.filter = s.filter
          /\ SubSound(u, wrote, skipped, unsent, refused, channel, NoDrop)
        BY <1>3, <2>1, WatermarkDrained
    <2> HIDE DEF u
    <2>4. /\ t \in Subscription /\ t.filter = u.filter /\ Len(t.queue) <= WATCH_BUFFER
          /\ SubSound(t, wrote, skipped, unsent, refused, Tail(channel), NoDrop)
        <3>1. Len(u.queue) <= WATCH_BUFFER
            BY <2>1, <2>3
        <3>2. /\ u \in Subscription /\ wrote \in Entries
              /\ unsent \in 0 .. Len(wrote) /\ refused \in 0 .. Len(wrote)
              /\ channel \in Seq(1 .. Len(wrote)) /\ channel # << >>
              /\ Len(wrote) <= MaxIndex /\ InLine(wrote, unsent, refused, channel)
              /\ SubSound(u, wrote, skipped, unsent, refused, channel, NoDrop)
            BY ONLY <1>1, <1>3, <1>4, <2>3
        <3>3. Head(channel) \in 1 .. Len(wrote)
            BY <1>1, <1>3, RangeOfTail
        <3> DEFINE evs == InSomeOrder(Batch(u, wrote, Head(channel)))
        <3>5. /\ evs \in Seq(Batch(u, wrote, Head(channel)))
              /\ Range(evs) = Batch(u, wrote, Head(channel)) /\ IsInjective(evs)
            BY <3>3, Zenon DEF IsOrderOf
        <3>6. t = Offer(u, evs)
            BY <2>2
        <3> HIDE DEF evs
        <3>7. /\ Offer(u, evs) \in Subscription /\ Offer(u, evs).filter = u.filter
              /\ Len(Offer(u, evs).queue) <= WATCH_BUFFER
              /\ SubSound(Offer(u, evs), wrote, skipped, unsent, refused, Tail(channel), NoDrop)
            BY ONLY <3>1, <3>2, <3>5, OfferSound
        <3> QED
            BY ONLY <3>6, <3>7, Zenon
    <2> QED
        BY <2>1, <2>3, <2>4 DEF t
<1>6. /\ channel' \in Seq(1 .. Len(wrote)) /\ Len(channel') = Len(channel) - 1
      /\ \A i \in 1 .. Len(channel') : channel'[i] = channel[i + 1]
      /\ Len(channel) \in Nat
    BY <1>1, <1>3, RangeOfTail
<1>7. InLine(wrote', unsent', refused', channel')
    <2>1. \A i \in 1 .. Len(channel') : i \in Nat /\ i + 1 \in 1 .. Len(channel)
        BY <1>6
    <2>2. \A i, j \in 1 .. Len(channel') : i < j => channel'[i] < channel'[j]
        <3> TAKE i, j \in 1 .. Len(channel')
        <3> HAVE i < j
        <3>1. /\ i + 1 \in 1 .. Len(channel) /\ j + 1 \in 1 .. Len(channel)
              /\ i + 1 < j + 1
            BY <2>1
        <3>2. channel[i + 1] < channel[j + 1]
            BY ONLY <1>4, <3>1 DEF InLine
        <3> QED
            BY <1>6, <3>2
    <2>3. unsent # 0 => \A i \in 1 .. Len(channel') : channel'[i] < unsent
        <3>1. unsent # 0 => \A i \in 1 .. Len(channel) : channel[i] < unsent
            BY ONLY <1>4, Zenon DEF InLine
        <3> QED
            BY ONLY <1>6, <2>1, <3>1
    <2> QED
        BY ONLY <1>1, <1>4, <2>2, <2>3 DEF InLine
<1>8. PipeType'
    <2>1. applied' = applied /\ applied = Len(wrote)
        BY <1>1 DEF applied
    <2>2. Len(channel') <= APPLY_QUEUE_DEPTH
        <3>1. Len(channel) <= APPLY_QUEUE_DEPTH
            BY ONLY <1>4, Zenon DEF PipeType
        <3> QED
            BY ONLY <1>6, <3>1, WatchAssumption
    <2> QED
        BY <1>1, <1>2, <1>4, <1>6, <2>1, <2>2 DEF PipeType, NoDrop
<1>9. \A w \in Watchers : SubInv(w)'
    BY <1>1, <1>2, <1>5 DEF SubInv, applied
<1>10. subs' \in [Watchers -> Subscription]
    BY <1>2, <1>5
<1> QED
    BY <1>7, <1>8, <1>9, <1>10, NextParts, Zenon

-----------------------------------------------------------------------------
\* What the invariant says in the terms of the properties.
LEMMA IInvIsComplete == IInv => WatchIsComplete
<1> SUFFICES ASSUME IInv, NEW w \in Watchers
             PROVE  /\ LET d == Delivered(w)
                       IN  /\ \A i \in DOMAIN d : d[i].index > subs[w].filter
                           /\ \A i, j \in DOMAIN d :
                                 i < j => d[i].index <= d[j].index /\ d[i] # d[j]
                    /\ subs[w].open /\ subs[w].clear => Gapless(w)
                    /\ subs[w].held /\ subs[w].open /\ subs[w].clear =>
                          \A e \in Missing(w) :
                             \/ e.index \in {unsent, refused} \/ e.index \in Range(channel)
                             \/ dropped <= e.index
    BY Zenon DEF WatchIsComplete, EventsInOrder, NoHole, LackIsPending
<1> DEFINE s == subs[w]
           d == Delivered(w)
<1>1. /\ s \in Subscription
      /\ SubSound(s, wrote, skipped, unsent, refused, channel, dropped)
    BY IInvParts DEF SubInv
<1>2. /\ wrote \in Entries /\ Len(wrote) \in Nat /\ channel \in Seq(1 .. Len(wrote))
      /\ s.filter \in Nat /\ applied = Len(wrote)
    <2>1. wrote \in Entries /\ Len(wrote) \in Nat /\ channel \in Seq(1 .. Len(wrote))
        BY Types DEF IInv
    <2>2. s.filter \in Nat
        BY ONLY <1>1, SubIs
    <2> QED
        BY ONLY <2>1, <2>2 DEF applied
<1>3. d \in Seq(Event) /\ Range(d) = Has(s) /\ Has(s) \subseteq Event /\ d = s.seen \o s.queue
    BY <1>1, DeliveredIs DEF Delivered
<1>4. Range(d) = {d[i] : i \in 1 .. Len(d)} /\ DOMAIN d = 1 .. Len(d)
    BY <1>3, RangeIs, SeqIs, Zenon
<1>6. \A e \in Missing(w) :
          /\ e.index \in 1 .. Len(wrote) /\ e.key \in Keys
          /\ Lacks(s, wrote, skipped, e.index, e.key)
    <2> TAKE e \in Missing(w)
    <2>1. e \in Owed(w) /\ e.index \notin skipped /\ e \notin Has(s)
        BY <1>3 DEF Missing
    <2>2. PICK i \in s.filter + 1 .. Len(wrote) : e \in Events(i) /\ e.key \in s.range
        BY <1>2, <2>1 DEF Owed
    <2>3. PICK k \in wrote[i] : e = [index |-> i, key |-> k]
        BY <2>2 DEF Events
    <2>4. i \in 1 .. Len(wrote) /\ wrote[i] \subseteq Keys
        BY <1>2, <2>2, SeqIs DEF Entries
    <2> QED
        BY <2>1, <2>2, <2>3, <2>4, Zenon DEF Lacks
<1> HIDE DEF d
<1>8. \A i \in DOMAIN d : d[i].index > s.filter
    <2> TAKE i \in DOMAIN d
    <2>1. d[i] \in Has(s) /\ d[i] \in Event
        BY <1>3, <1>4, Zenon
    <2>2. d[i].index \in Nat
        BY <2>1, WatchAssumption DEF Event
    <2>3. s.filter < d[i].index
        BY <1>1, <2>1 DEF SubSound, Ahead
    <2> QED
        BY <1>2, <2>2, <2>3
<1>9. \A i, j \in DOMAIN d : i < j => d[i].index <= d[j].index /\ d[i] # d[j]
    BY <1>1, <1>3, <1>4, Zenon DEF SubSound, Sorted
<1>10. s.open /\ s.clear => Gapless(w)
    BY <1>1, <1>3, <1>4, <1>6, Zenon DEF SubSound, HoleFree, Gapless, d
<1>11. s.held /\ s.open /\ s.clear =>
          \A e \in Missing(w) :
             \/ e.index \in {unsent, refused} \/ e.index \in Range(channel)
             \/ dropped <= e.index
    BY <1>1, <1>6 DEF SubSound, Coming
<1> QED
    BY <1>8, <1>9, <1>10, <1>11, Zenon DEF d

=============================================================================
