----------------------------- MODULE LocalReads -----------------------------
(***************************************************************************)
(* Reads that never leave the node: get_stale and its variants, a stale     *)
(* multi_get and wait_applied.  They are served from the state machine the  *)
(* apply task is writing at the same time: the actor only hands a read to a *)
(* task of its own, and keeps the waiters of wait_applied until the applied *)
(* index reaches them.                                                      *)
(*                                                                          *)
(* An entry of the log is k > 0 (a put of key k), -k (a delete) or 0 (an    *)
(* entry that touches no key).  The value a put writes is its index, so a   *)
(* value names the state it comes from.  Keys are 1..NumKeys in key order;  *)
(* bound 0 of a range is the empty byte string.                             *)
(***************************************************************************)
EXTENDS Integers, Sequences, FiniteSets, FiniteSetsExt, SequencesExt, TLC

CONSTANTS
    NumKeys,                     \* number of keys
    Clients,                     \* callers of this node's handle
    Calls,                       \* the calls they may make
    Log,                         \* the committed log, longest it gets
    CommandQueue,                \* capacity of the actor's command channel
    MAX_PENDING_APPLIED_WAITS,   \* runtime's bound on waiters
    MAX_STALE_RANGE_ENTRIES,     \* state machine's bound on a range
    MAX_MULTI_GET_RESULT,        \* state machine's bound on a multi_get, in values
    MaxCalls,                    \* calls made in all, a bound of the model
    MaxRestarts                  \* restarts, a bound of the model

VARIABLES
    sm,        \* applied index of the state machine
    applying,  \* last index of the batch the apply task is in, 0 between batches
    progress,  \* [index, failed]: what the apply task last published
    changed,   \* the actor has not yet seen the last publication
    alive,     \* the actor runs
    due,       \* the actor is in a turn of its loop: drive_cycle has to run
    box,       \* command channel: sequence of clients
    pending_applied, \* clients whose wait is kept
    closed,    \* kept waits whose client gave up, pruned by the next cycle
    tasks,     \* clients whose read was handed to a spawned task
    call,      \* client -> [st, c, floor, ans], the call it is in
    calls,     \* calls made so far
    restarts   \* restarts so far

vars == <<sm, applying, progress, changed, alive, due, box, pending_applied,
          closed, tasks, call, calls, restarts>>

KeysInOrder == 1..NumKeys

(***************************************************************************)
(* The state machine's reads, each under one read lock.                     *)
(***************************************************************************)
\* The entry of key k after applying the log up to index a: its origin, or 0.
Entry(a, k) ==
    LET touched == {i \in 1..a : Log[i] \in {k, -k}}
    IN  IF touched = {} \/ Log[Max(touched)] = -k THEN 0 ELSE Max(touched)

get(c) == [values |-> <<Entry(sm, c.key)>>, index |-> 0, truncated |-> FALSE]

get_with_index(c) ==
    [values |-> <<Entry(sm, c.key)>>, index |-> Entry(sm, c.key), truncated |-> FALSE]

\* The index is of another state than the values: two locks instead of one.
multi_get_unlocked(c) ==
    LET values == [i \in DOMAIN c.keys |-> Entry(sm, c.keys[i])]
    IN  IF Cardinality({i \in DOMAIN values : values[i] > 0}) > MAX_MULTI_GET_RESULT
        THEN [error |-> "invalid_argument"]
        ELSE [values |-> values, index |-> progress.index, truncated |-> FALSE]

multi_get(c) ==
    LET values == [i \in DOMAIN c.keys |-> Entry(sm, c.keys[i])]
    IN  IF Cardinality({i \in DOMAIN values : values[i] > 0}) > MAX_MULTI_GET_RESULT
        THEN [error |-> "invalid_argument"]
        ELSE [values |-> values, index |-> sm, truncated |-> FALSE]

\* Present keys of [start, end), in order.
InRange(a, start, end) ==
    LET in == {k \in KeysInOrder : k >= start /\ (end = 0 \/ k < end) /\ Entry(a, k) > 0}
    IN  SetToSortSeq(in, LAMBDA x, y : x < y)

Smaller(m, n) == IF m < n THEN m ELSE n

get_range_with_index(c) ==
    LET reversed == c.start > 0 /\ c.end > 0 /\ c.start >= c.end
        found == IF reversed THEN <<>> ELSE InRange(sm, c.start, c.end)
        limit == Smaller(c.limit, MAX_STALE_RANGE_ENTRIES)
        out == SubSeq(found, 1, Smaller(limit, Len(found)))
    IN  [keys |-> out, values |-> [i \in DOMAIN out |-> Entry(sm, out[i])],
         index |-> sm, truncated |-> Len(found) > limit]

(***************************************************************************)
(* The apply task.                                                          *)
(***************************************************************************)
\* A batch reaches the apply task: a snapshot to restore, which jumps to its
\* index, or none (the index stays), then entries.
take_batch ==
    /\ alive /\ applying = 0 /\ ~progress.failed
    /\ \E last \in (sm + 1)..Len(Log) :
          /\ applying' = last
          /\ sm' \in sm..last
    /\ UNCHANGED <<closed, progress, changed, alive, due, box, pending_applied, tasks,
                   call, calls, restarts>>

apply_entry ==
    /\ alive /\ applying > sm
    /\ sm' = sm + 1
    /\ UNCHANGED <<closed, applying, progress, changed, alive, due, box,
                   pending_applied, tasks, call, calls, restarts>>

publish ==
    /\ alive /\ applying > 0 /\ sm = applying
    /\ applying' = 0
    /\ progress' = [progress EXCEPT !.index = sm]
    /\ changed' = (changed \/ progress.index # sm)
    /\ UNCHANGED <<closed, sm, alive, due, box, pending_applied, tasks, call, calls, restarts>>

\* A restore or an apply that fails: the task publishes the reason and ends.
fail ==
    /\ alive /\ applying > 0 /\ restarts < MaxRestarts
    /\ applying' = 0
    /\ progress' = [index |-> sm, failed |-> TRUE]
    /\ changed' = TRUE
    /\ UNCHANGED <<closed, sm, alive, due, box, pending_applied, tasks, call, calls, restarts>>

(***************************************************************************)
(* The handle.                                                              *)
(***************************************************************************)
Idle == [st |-> "idle"]

\* The largest index a client knows applied here: from a wait that returned, or
\* from a read that told its index.
KnownApplied(cl) ==
    LET told == IF "index" \notin DOMAIN cl.ans THEN {}
                ELSE {cl.ans.index} \cup {i \in DOMAIN Log : cl.c.op = "wait_applied" /\ i = cl.c.index}
    IN  IF cl.st = "done" THEN Max({cl.floor} \cup told) ELSE 0

Reject(c) == c.op = "range" /\ c.start > 0 /\ c.end > 0 /\ c.start > c.end

\* Each public call: checked, then sent to the node's own actor.
stale_call(n) ==
    /\ call[n].st \in {"idle", "done"} /\ calls < MaxCalls
    /\ calls' = calls + 1
    /\ \E c \in Calls, spent \in BOOLEAN :
          LET floor == KnownApplied(call[n])
              answered(e) == [st |-> "done", c |-> c, floor |-> floor, ans |-> [error |-> e]]
          IN  /\ spent => c.op = "wait_applied"
              /\ call' = [call EXCEPT ![n] =
                    IF Reject(c) THEN answered("invalid_argument")
                    ELSE IF spent THEN answered("timeout")
                    ELSE [st |-> "sending", c |-> c, floor |-> floor]]
    /\ UNCHANGED <<closed, sm, applying, progress, changed, alive, due, box,
                   pending_applied, tasks, restarts>>

Answered(cl, ans) == [st |-> "done", c |-> cl.c, floor |-> cl.floor, ans |-> ans]

send(n) ==
    /\ call[n].st = "sending"
    /\ \/ /\ alive /\ Len(box) < CommandQueue
          /\ box' = Append(box, n)
          /\ call' = [call EXCEPT ![n].st = "waiting"]
       \/ /\ ~alive
          /\ call' = [call EXCEPT ![n] = Answered(@, [error |-> "shutting_down"])]
          /\ UNCHANGED box
    /\ UNCHANGED <<closed, sm, applying, progress, changed, alive, due, pending_applied,
                   tasks, calls, restarts>>

\* The client-side deadline: around the answer for every call, around the send
\* as well for wait_applied and multi_get.  The actor checks the same deadline
\* of a wait it keeps, and answers the same timeout.  What was sent stays behind.
await_oneshot(n) ==
    /\ \/ call[n].st = "waiting"
       \/ call[n].st = "sending" /\ call[n].c.op \in {"wait_applied", "multi_get"}
    /\ call' = [call EXCEPT ![n] = Answered(@, [error |-> "timeout"])]
    /\ box' = [i \in DOMAIN box |-> IF box[i] = n THEN "gone" ELSE box[i]]
    /\ pending_applied' = pending_applied \ {n}
    /\ closed' = closed + Cardinality(pending_applied \cap {n})
    /\ tasks' = tasks \ {n}
    /\ UNCHANGED <<sm, applying, progress, changed, alive, due, calls, restarts>>

(***************************************************************************)
(* The actor.                                                               *)
(***************************************************************************)
\* WaitApplied: kept among the waiters, or refused when they are too many.
Keep(n) ==
    IF Cardinality(pending_applied) + closed >= MAX_PENDING_APPLIED_WAITS
    THEN call' = [call EXCEPT ![n] = Answered(@, [error |-> "busy"])] /\ UNCHANGED pending_applied
    ELSE pending_applied' = pending_applied \cup {n} /\ UNCHANGED call

\* The index the state machine itself has applied counts.
Reached(i) == i = 0 \/ sm >= i

AppliedNow == [values |-> <<>>, truncated |-> FALSE, index |-> sm]

WaitApplied(n) ==
    \/ /\ Reached(call[n].c.index)
       /\ call' = [call EXCEPT ![n] = Answered(@, AppliedNow)]
       /\ UNCHANGED pending_applied
    \/ /\ ~Reached(call[n].c.index)
       /\ Keep(n)

\* One command of the loop's burst: a wait is answered or kept, a read becomes
\* a task.
handle_command ==
    /\ alive /\ box # <<>>
    /\ box' = Tail(box)
    /\ due' = TRUE
    /\ LET n == Head(box) IN
       \/ /\ n = "gone"
          /\ UNCHANGED <<call, pending_applied, tasks>>
       \/ /\ n # "gone" /\ call[n].c.op = "wait_applied"
          /\ WaitApplied(n)
          /\ UNCHANGED tasks
       \/ /\ n # "gone" /\ call[n].c.op # "wait_applied"
          /\ tasks' = tasks \cup {n}
          /\ UNCHANGED <<call, pending_applied>>
    /\ UNCHANGED <<closed, sm, applying, progress, changed, alive, calls, restarts>>

\* The wake-up is taken without the cycle that has to follow it.
ProgressUncycled ==
    /\ alive /\ changed
    /\ changed' = FALSE
    /\ UNCHANGED <<sm, applying, progress, alive, due, box, pending_applied, closed,
                   tasks, call, calls, restarts>>

Progress ==
    /\ alive /\ changed
    /\ changed' = FALSE
    /\ due' = TRUE
    /\ UNCHANGED <<closed, sm, applying, progress, alive, box, pending_applied, tasks,
                   call, calls, restarts>>

\* Any other event of the loop: a tick, a message, a flush.
OtherEvent ==
    /\ alive /\ ~due
    /\ due' = TRUE
    /\ UNCHANGED <<closed, sm, applying, progress, changed, alive, box, pending_applied,
                   tasks, call, calls, restarts>>

\* Fail-stop, or the end of the process: the waiters are told, and every other
\* call sees its answer channel close.
fail_all_pending ==
    /\ alive' = FALSE
    /\ due' = FALSE
    /\ applying' = 0
    /\ call' = [n \in Clients |->
          IF n \in pending_applied THEN Answered(call[n], [error |-> "unrecoverable"])
          ELSE IF call[n].st = "waiting" THEN Answered(call[n], [error |-> "shutting_down"])
          ELSE call[n]]
    /\ pending_applied' = {}
    /\ closed' = 0
    /\ tasks' = {}
    /\ box' = <<>>

\* The waiters whose index is reached are answered with one applied index.
resolve_applied_waits ==
    LET reached == {n \in pending_applied : sm >= call[n].c.index}
    IN  /\ call' = [n \in Clients |->
              IF n \in reached
              THEN Answered(call[n], AppliedNow)
              ELSE call[n]]
        /\ pending_applied' = pending_applied \ reached
        /\ closed' = 0

drive_cycle ==
    /\ alive /\ due
    /\ \/ /\ progress.failed
          /\ fail_all_pending
       \/ /\ ~progress.failed
          /\ due' = FALSE
          /\ resolve_applied_waits
          /\ UNCHANGED <<alive, applying, tasks, box>>
    /\ UNCHANGED <<sm, progress, changed, calls, restarts>>

\* The read of each kind, when its task runs.
Reply(c) ==
    CASE c.op = "get_stale" -> get(c)
      [] c.op = "get_stale_with_index" -> get_with_index(c)
      [] c.op = "range" -> get_range_with_index(c)
      [] c.op = "multi_get" -> multi_get(c)

spawn_read_reply(n) ==
    /\ n \in tasks
    /\ tasks' = tasks \ {n}
    /\ call' = [call EXCEPT ![n] = Answered(@, Reply(@.c))]
    /\ UNCHANGED <<closed, sm, applying, progress, changed, alive, due, box,
                   pending_applied, calls, restarts>>

\* The process ends between two steps; a new one starts from its newest
\* snapshot, at or below what was applied, and replays.  Clients learn nothing
\* of it beyond their answers, and what they knew applied is of the old process.
stop ==
    /\ alive
    /\ restarts < MaxRestarts
    /\ fail_all_pending
    /\ UNCHANGED <<sm, progress, changed, calls, restarts>>

restart ==
    /\ ~alive /\ restarts < MaxRestarts
    /\ restarts' = restarts + 1
    /\ alive' = TRUE
    /\ sm' \in {0, sm}
    /\ progress' = [index |-> sm', failed |-> FALSE]
    /\ changed' = FALSE
    /\ call' = [n \in Clients |-> IF call[n].st = "done" THEN Idle
                                  ELSE IF call[n].st = "sending" THEN [call[n] EXCEPT !.floor = 0]
                                  ELSE call[n]]
    /\ UNCHANGED <<closed, applying, due, box, pending_applied, tasks, calls>>

Init ==
    /\ sm = 0 /\ applying = 0
    /\ progress = [index |-> 0, failed |-> FALSE]
    /\ changed = FALSE /\ alive = TRUE /\ due = FALSE
    /\ box = <<>> /\ pending_applied = {} /\ closed = 0 /\ tasks = {}
    /\ call = [n \in Clients |-> Idle]
    /\ calls = 0 /\ restarts = 0

Next ==
    \/ take_batch \/ apply_entry \/ publish \/ fail
    \/ handle_command \/ Progress \/ OtherEvent \/ drive_cycle
    \/ stop \/ restart
    \/ \E n \in Clients :
          stale_call(n) \/ send(n) \/ await_oneshot(n) \/ spawn_read_reply(n)

Spec == Init /\ [][Next]_vars

(***************************************************************************)
(* Properties.                                                              *)
(***************************************************************************)
TypeOK ==
    /\ sm \in 0..Len(Log) /\ applying \in 0..Len(Log)
    /\ progress.index <= sm \/ ~alive
    /\ alive \in BOOLEAN /\ due \in BOOLEAN /\ changed \in BOOLEAN
    /\ Len(box) <= CommandQueue
    /\ Cardinality(pending_applied) + closed <= MAX_PENDING_APPLIED_WAITS
    /\ pending_applied \cap tasks = {}
    /\ \A n \in pending_applied \cup tasks : call[n].st = "waiting"

\* The keys a finished read asked for, in the order of its values.
KeysOf(cl) ==
    CASE cl.c.op = "range" -> cl.ans.keys
      [] cl.c.op = "multi_get" -> cl.c.keys
      [] OTHER -> <<cl.c.key>>

IsRead(cl) ==
    cl.st = "done" /\ cl.c.op # "wait_applied" /\ "values" \in DOMAIN cl.ans

ShowsState(cl, a) ==
    \A i \in DOMAIN cl.ans.values : cl.ans.values[i] = Entry(a, KeysOf(cl)[i])

\* A range or a multi_get read while the apply task is writing is one state of
\* the state machine, and the index it returns is that state's: the values and
\* the index are taken under one lock, and a task that runs late takes both late.
ReadIsOneState ==
    \A n \in Clients : IsRead(call[n]) =>
        /\ \E a \in 0..Len(Log) : ShowsState(call[n], a)
        /\ call[n].c.op \in {"range", "multi_get"} => ShowsState(call[n], call[n].ans.index)

\* The barrier wait_applied's documentation describes: once a wait (or a read
\* with an index) told a caller that an index is applied here, every read the
\* caller makes on the same process shows a state at or after it, however its
\* task is scheduled.
ReadAfterWait ==
    \A n \in Clients :
        /\ IsRead(call[n]) => \E a \in call[n].floor..Len(Log) : ShowsState(call[n], a)
        /\ IsRead(call[n]) /\ call[n].c.op \in {"range", "multi_get"} =>
              call[n].ans.index >= call[n].floor

\* A range reply is cut only at its limit, and says so exactly when keys of the
\* same state were left out: a caller that pages through "truncated" replies
\* misses no key, and a reply that is exactly full does not ask for another page.
RangeIsExact ==
    \A n \in Clients :
        IsRead(call[n]) /\ call[n].c.op = "range" =>
            LET all == InRange(call[n].ans.index, call[n].c.start, call[n].c.end)
                got == call[n].ans.keys
            IN  /\ IsPrefix(got, all)
                /\ call[n].ans.truncated <=> Len(got) < Len(all)

\* resolve_applied_waits is "event-driven, never polled": a kept waiter whose
\* index is applied always has a cycle coming, without help from the tick.
NoLostWakeup ==
    \A n \in pending_applied :
        sm >= call[n].c.index => due \/ changed \/ applying > 0

=============================================================================
