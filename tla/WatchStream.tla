---------------------------- MODULE WatchStream ----------------------------
(***************************************************************************)
(* Watching a prefix (arachne/src/runtime/mod.rs, client/handle.rs): the   *)
(* apply task computes the write-set events of every entry and hands them  *)
(* to the actor over a bounded channel; the actor distributes them to the  *)
(* watchers, each with a bounded queue of its own.  Whoever cannot be kept *)
(* complete is disconnected.                                               *)
(*                                                                         *)
(* The apply task and the actor run concurrently and share the state       *)
(* machine and the watermark of dropped batches.  A snapshot from the      *)
(* leader replaces the state machine without events.                       *)
(***************************************************************************)
EXTENDS Naturals, Sequences, FiniteSets, Functions

CONSTANTS
    Keys,               \* keys written; each stands for a value of its own
    Ranges,             \* prefixes watched, as sets of keys
    Watchers,           \* subscriptions
    APPLY_QUEUE_DEPTH,  \* capacity of the event channel
    WATCH_BUFFER,       \* capacity of a watcher's queue
    SnapshotLimit,      \* the `limit` of a watch call
    MaxIndex, MaxJump   \* bounds: applied entries, entries of one snapshot

ASSUME WatchAssumption ==
    /\ IsFiniteSet(Keys) /\ Ranges \subseteq SUBSET Keys
    /\ {APPLY_QUEUE_DEPTH, WATCH_BUFFER, SnapshotLimit, MaxIndex, MaxJump} \subseteq Nat

NoDrop == MaxIndex + 1  \* the watermark's u64::MAX

VARIABLES
    wrote,     \* per applied index: the keys it wrote
    skipped,   \* the indexes that came with a snapshot
    unsent,    \* the index whose events are still to be handed over, or 0
    refused,   \* the index the channel had no room for, or 0
    channel,   \* watch_events: batches from the apply task to the actor
    draining,  \* the actor is in the loop that empties the channel
    dropped,   \* watch_backlog_dropped
    subs       \* the subscriptions, as actor and consumer see them

vars == <<wrote, skipped, unsent, refused, channel, draining, dropped, subs>>

applied == Len(wrote)

Events(index) == {[index |-> index, key |-> k] : k \in wrote[index]}

\* A subscription: the actor's Watcher entry (held), the queue between it and
\* the consumer, the events the consumer has taken, and (for the properties)
\* whether no drop was impending or waiting to be acted on as it registered.
NoSub == [held |-> FALSE, open |-> FALSE, range |-> {}, filter |-> 0,
          queue |-> << >>, seen |-> << >>, clear |-> FALSE]

(***************************************************************************)
(* The apply task: apply one entry, then hand over its events or lower the *)
(* watermark; or restore a snapshot.                                       *)
(***************************************************************************)
Apply ==
    /\ unsent = 0 /\ refused = 0 /\ applied < MaxIndex
    /\ \E keys \in SUBSET Keys :
          /\ wrote' = Append(wrote, keys)
          /\ unsent' = IF keys = {} THEN 0 ELSE applied + 1
    /\ UNCHANGED <<skipped, refused, channel, draining, dropped, subs>>

\* try_send, and the watermark lowered by a second step if it found no room.
SendEvents ==
    /\ unsent # 0
    /\ IF Len(channel) < APPLY_QUEUE_DEPTH
       THEN channel' = Append(channel, unsent) /\ UNCHANGED refused
       ELSE refused' = unsent /\ UNCHANGED channel
    /\ unsent' = 0
    /\ UNCHANGED <<wrote, skipped, draining, dropped, subs>>

fetch_min ==
    /\ refused # 0
    /\ dropped' = IF refused < dropped THEN refused ELSE dropped
    /\ refused' = 0
    /\ UNCHANGED <<wrote, skipped, unsent, channel, draining, subs>>

Restore ==
    /\ unsent = 0 /\ refused = 0
    /\ \E n \in 1 .. MaxJump : \E jump \in [1 .. n -> SUBSET Keys] :
          /\ applied + n <= MaxIndex
          /\ wrote' = wrote \o jump
          /\ skipped' = skipped \cup (applied + 1 .. applied + n)
    /\ UNCHANGED <<unsent, refused, channel, draining, dropped, subs>>

(***************************************************************************)
(* The actor: Command::Watch, and dispatch_watch_events on one batch.      *)
(***************************************************************************)
Present(range) == {k \in range : \E i \in 1 .. applied : k \in wrote[i]}

\* The snapshot and the registration share one applied index; a snapshot that
\* would be truncated refuses the watch.
Watch(w, range) ==
    /\ ~draining /\ ~subs[w].held /\ ~subs[w].open
    /\ Cardinality(Present(range)) <= SnapshotLimit
    /\ subs' = [subs EXCEPT ![w] =
                  [held |-> TRUE, open |-> TRUE, range |-> range, filter |-> applied,
                   queue |-> << >>, seen |-> << >>,
                   clear |-> dropped = NoDrop /\ unsent = 0 /\ refused = 0]]
    /\ UNCHANGED <<wrote, skipped, unsent, refused, channel, draining, dropped>>

matches(sub, key) == key \in sub.range

\* The events of a batch, offered to one watcher in turn: the first one it
\* has no room for, or whose receiver is gone, ends its registration.
Offer(sub, evs) ==
    LET room == WATCH_BUFFER - Len(sub.queue)
        sent == SubSeq(evs, 1, IF room < Len(evs) THEN room ELSE Len(evs))
    IN  IF ~sub.held \/ evs = << >> THEN sub
        ELSE IF ~sub.open THEN [sub EXCEPT !.held = FALSE]
        ELSE [sub EXCEPT !.queue = @ \o sent,
                         !.held = Len(evs) <= room]

\* The events of a batch that are newer than the subscription's snapshot.
Passing(sub, index) ==
    IF index <= sub.filter THEN {}
    ELSE {e \in Events(index) : matches(sub, e.key)}

\* The events of one index come in some fixed order.
InSomeOrder(evs) == CHOOSE q \in [1 .. Cardinality(evs) -> evs] : IsInjective(q)

DistributeFirst(index) ==
    /\ dropped' = NoDrop
    /\ subs' = [w \in Watchers |->
                  LET sub == Offer(subs[w], InSomeOrder(Passing(subs[w], index)))
                  IN  [sub EXCEPT !.held = @ /\ ~(dropped # NoDrop
                                                  /\ sub.filter < dropped)]]

\* Drain the watermark, disconnect whom the dropped batch may have concerned,
\* then distribute.
dispatch_watch_events(index) ==
    /\ dropped' = NoDrop
    /\ subs' = [w \in Watchers |->
                  LET sub == [subs[w] EXCEPT
                                !.held = @ /\ ~(dropped # NoDrop
                                                /\ subs[w].filter < dropped)]
                  IN  Offer(sub, InSomeOrder(Passing(sub, index)))]

Dispatch ==
    /\ channel # << >>
    /\ dispatch_watch_events(Head(channel))
    /\ channel' = Tail(channel)
    /\ draining' = TRUE
    /\ UNCHANGED <<wrote, skipped, unsent, refused>>

Drained ==
    /\ draining /\ channel = << >>
    /\ draining' = FALSE
    /\ UNCHANGED <<wrote, skipped, unsent, refused, channel, dropped, subs>>

(***************************************************************************)
(* The consumer: WatchSubscription.                                        *)
(***************************************************************************)
Receive(w) ==
    /\ subs[w].open /\ subs[w].queue # << >>
    /\ subs' = [subs EXCEPT ![w].queue = Tail(@),
                            ![w].seen = Append(@, Head(subs[w].queue))]
    /\ UNCHANGED <<wrote, skipped, unsent, refused, channel, draining, dropped>>

\* The consumer drops the receiver, or sees the closed channel and re-watches.
Close(w) ==
    /\ subs[w].open
    /\ subs' = [subs EXCEPT ![w] =
                  IF subs[w].held THEN [@ EXCEPT !.open = FALSE, !.queue = << >>]
                  ELSE NoSub]
    /\ UNCHANGED <<wrote, skipped, unsent, refused, channel, draining, dropped>>

Init ==
    /\ wrote = << >> /\ skipped = {} /\ unsent = 0 /\ refused = 0
    /\ channel = << >> /\ draining = FALSE /\ dropped = NoDrop
    /\ subs = [w \in Watchers |-> NoSub]

Next ==
    \/ Apply \/ SendEvents \/ fetch_min \/ Restore \/ Dispatch \/ Drained
    \/ \E w \in Watchers : \/ \E r \in Ranges : Watch(w, r)
                           \/ Receive(w) \/ Close(w)

Spec == Init /\ [][Next]_vars

(***************************************************************************)
(* Properties.                                                             *)
(***************************************************************************)
Event == [index : 1 .. MaxIndex, key : Keys]

Subscription ==
    [held : BOOLEAN, open : BOOLEAN, range : SUBSET Keys, filter : 0 .. MaxIndex,
     queue : Seq(Event), seen : Seq(Event), clear : BOOLEAN]

\* The channel and the queues respect their capacities, and the watermark
\* names an applied index or none.
TypeOK ==
    /\ wrote \in Seq(SUBSET Keys) /\ applied <= MaxIndex
    /\ skipped \subseteq 1 .. applied
    /\ unsent \in 0 .. applied /\ refused \in 0 .. applied /\ draining \in BOOLEAN
    /\ channel \in Seq(1 .. applied) /\ Len(channel) <= APPLY_QUEUE_DEPTH
    /\ dropped \in 1 .. applied \cup {NoDrop}
    /\ subs \in [Watchers -> Subscription]
    /\ \A w \in Watchers : /\ Len(subs[w].queue) <= WATCH_BUFFER
                           /\ subs[w].filter <= applied

Delivered(w) == subs[w].seen \o subs[w].queue

\* The events a subscription is owed: of its range, after its snapshot.
Owed(w) ==
    UNION {{e \in Events(i) : e.key \in subs[w].range} :
             i \in subs[w].filter + 1 .. applied}

\* "Events are ordered and monotone in index", none is from before the
\* snapshot and none comes twice (Handle::watch).
EventsInOrder ==
    \A w \in Watchers :
        LET d == Delivered(w)
        IN  /\ \A i \in DOMAIN d : d[i].index > subs[w].filter
            /\ \A i, j \in DOMAIN d :
                  i < j => d[i].index <= d[j].index /\ d[i] # d[j]

Missing(w) ==
    {e \in Owed(w) : e.index \notin skipped /\ e \notin Range(Delivered(w))}

Gapless(w) ==
    \A e \in Missing(w), f \in Range(Delivered(w)) : f.index <= e.index

\* What a consumer has is complete up to its last event, whatever the channel
\* dropped on the way and however the subscription ended, when no drop was
\* waiting to be acted on as it registered.  (Entries that came inside a
\* snapshot have no events and are left out here.)
NoHole ==
    \A w \in Watchers : subs[w].open /\ subs[w].clear => Gapless(w)

\* An event that such a subscription lacks is on its way, or the watermark is
\* low enough for the next batch to end the registration.
LackIsPending ==
    \A w \in Watchers :
        subs[w].held /\ subs[w].open /\ subs[w].clear =>
            \A e \in Missing(w) :
                \/ e.index \in {unsent, refused} \/ e.index \in Range(channel)
                \/ dropped <= e.index

\* A subscriber's view is the history from its snapshot on: events come in the
\* order of their indexes and never twice, none is missing before the last one
\* received, and one that is missing after it is on its way or the next batch
\* ends the registration, whatever the event channel dropped
\* (dispatch_watch_events, watch_backlog_dropped).
WatchIsComplete == EventsInOrder /\ NoHole /\ LackIsPending

\* "An apply->actor batch drop surfaces as disconnection of the watchers the
\* drop may have affected, never as a silent gap" (dispatch_watch_events): no
\* subscription at all has a hole before its last event.
DropNeverSilent ==
    \A w \in Watchers : subs[w].open => Gapless(w)

\* "The channel closes with no silent gap" (Handle::watch): a subscription the
\* actor keeps, with no batch on its way, has every event of its range after
\* its snapshot, those of the entries a snapshot brought included.
NoSilentGap ==
    \A w \in Watchers :
        (subs[w].held /\ subs[w].open /\ unsent = 0 /\ refused = 0
            /\ channel = << >>)
        => Owed(w) \subseteq Range(Delivered(w))
==============================================================================
