--------------------------- MODULE HistoryChecker ---------------------------
(***************************************************************************)
(* The test oracle: arachne-testsupport/src/oracle.rs (the recorded        *)
(* history, the merging of retries, the consistency checks) and            *)
(* linearizability.rs (the complete checker).  Every scenario test of the  *)
(* repository trusts their verdict.                                        *)
(*                                                                         *)
(* The checks are operators over a history.  The state machine records a   *)
(* history event by event: of calls that may be answered anything (Next),  *)
(* or of a service that really is linearizable (ServiceNext).  A logical   *)
(* timestamp is the position of its event.                                 *)
(***************************************************************************)
EXTENDS Naturals, Sequences, SequencesExt, FiniteSets

CONSTANTS
    Clients,           \* client ids, single sequencers
    Keys,
    Failures,          \* the error kinds calls may end with
    MAX_CHECK_POINTS,  \* linearization points the search will run on
    MaxCalls,          \* bounds of the model
    MaxTries

None == 0              \* an absent value; a write answers Ok(None)
Never == 0             \* no timestamp

VARIABLES
    events,   \* History::events
    store,    \* the service behind ServiceNext: per key the current value
    taken     \* and the answers of the operations that took effect

vars == <<events, store, taken>>

(***************************************************************************)
(* Operations, results and events.                                         *)
(***************************************************************************)
is_logged_op(op) == op.kind \in {"put", "delete"}

is_unknown_outcome(kind) == kind \in {"timeout", "session_expired"}

Ok(v)     == [ok |-> TRUE, v |-> v, kind |-> "ok"]
Fails(kind) == [ok |-> FALSE, v |-> None, kind |-> kind]
NoResult  == Fails("none")

Invoked(call, client, seq, op) ==
    [type |-> "invoke", call |-> call, client |-> client, seq |-> seq,
     op |-> op]

Completed(call, result) ==
    [type |-> "complete", call |-> call, result |-> result]

InvokesOf(evs)   == {t \in DOMAIN evs : evs[t].type = "invoke"}
CompletesOf(evs) == {t \in DOMAIN evs : evs[t].type = "complete"}

Least(S)    == CHOOSE x \in S : \A y \in S : x <= y
Greatest(S) == CHOOSE x \in S : \A y \in S : x >= y

(***************************************************************************)
(* History::merge_retries.                                                 *)
(***************************************************************************)
\* The first success of the group, else its last completion.
into_log_op(evs, invokes, completes) ==
    LET first == Least(invokes)
        good  == {t \in completes : evs[t].result.ok}
        done  == CASE good # {}      -> Least(good)
                   [] completes # {} -> Greatest(completes)
                   [] OTHER          -> Never
    IN  [client |-> evs[first].client, seq |-> evs[first].seq,
         op |-> evs[first].op, invoke_ts |-> first, complete_ts |-> done,
         result |-> IF done = Never THEN NoResult ELSE evs[done].result,
         calls |-> {evs[t].call : t \in invokes}]

\* One logical operation per (client, seq), in the order of their first
\* invokes.
merge_retries(evs) ==
    LET invokes   == InvokesOf(evs)
        Group(t)  == {u \in invokes : /\ evs[u].client = evs[t].client
                                      /\ evs[u].seq = evs[t].seq}
        Ends(g)   == {u \in CompletesOf(evs) :
                        \E i \in g : evs[i].call = evs[u].call}
        ops       == {into_log_op(evs, Group(t), Ends(Group(t))) :
                        t \in invokes}
    IN  SetToSortSeq(ops, LAMBDA a, b : a.invoke_ts < b.invoke_ts)

is_linearization_point(o) == o.complete_ts # Never /\ o.result.ok

is_known_not_applied(o) ==
    /\ o.complete_ts # Never /\ ~o.result.ok
    /\ ~is_unknown_outcome(o.result.kind)

may_have_applied(o) == ~is_known_not_applied(o)

is_optional_write_point(o) ==
    /\ is_logged_op(o.op)
    /\ ~is_known_not_applied(o) /\ ~is_linearization_point(o)

\* a completes at or before b begins.
CompletesBefore(a, b) ==
    a.complete_ts # Never /\ a.complete_ts <= b.invoke_ts

(***************************************************************************)
(* The linearizability checker.                                            *)
(***************************************************************************)
InitialStore == [k \in Keys |-> None]

\* KvState::apply: the next state and the answer of the reference model.
apply(state, op) ==
    CASE op.kind = "put"    -> <<[state EXCEPT ![op.key] = op.value], Ok(None)>>
      [] op.kind = "delete" -> <<[state EXCEPT ![op.key] = None], Ok(None)>>
      [] OTHER              -> <<state, Ok(state[op.key])>>

\* The predecessors of point i that are not resolved yet.
RemainingPredNone(ops, points, resolved, i) == {}

remaining_pred(ops, points, resolved, i) ==
    {p \in points \ resolved : /\ CompletesBefore(ops[p], ops[i])
                               /\ ~CompletesBefore(ops[i], ops[p])}

\* Resolve one more point: place it where the model answers as observed, or,
\* when it is optional, place it unconditionally or skip it.
RECURSIVE dfs(_, _, _, _)
dfs(ops, points, resolved, state) ==
    \/ resolved = points
    \/ \E i \in points \ resolved :
          /\ remaining_pred(ops, points, resolved, i) = {}
          /\ LET required == is_linearization_point(ops[i])
                 next == apply(state, ops[i].op)
             IN  \/ /\ ~required \/ ops[i].result = next[2]
                    /\ dfs(ops, points, resolved \cup {i}, next[1])
                 \/ /\ ~required
                    /\ dfs(ops, points, resolved \cup {i}, state)

search(ops, points) == dfs(ops, points, {}, InitialStore)

\* Drop the points the violation does not need, in ascending order.
RECURSIVE shrink_witness(_, _, _)
shrink_witness(ops, keep, tried) ==
    IF keep = tried THEN keep
    ELSE LET i == Least(keep \ tried)
         IN  IF search(ops, keep \ {i})
             THEN shrink_witness(ops, keep, tried \cup {i})
             ELSE shrink_witness(ops, keep \ {i}, tried)

PointsOf(ops) ==
    {i \in DOMAIN ops : \/ is_linearization_point(ops[i])
                        \/ is_optional_write_point(ops[i])}

check_reduced(ops) ==
    LET points == PointsOf(ops)
    IN  CASE Cardinality(points) > MAX_CHECK_POINTS ->
                [verdict |-> "inconclusive", witness |-> {}]
          [] points = {} \/ search(ops, points) ->
                [verdict |-> "linearizable", witness |-> {}]
          [] OTHER ->
                [verdict |-> "violation",
                 witness |-> shrink_witness(ops, points, {})]

check_linearizable(evs) == check_reduced(merge_retries(evs))

(***************************************************************************)
(* The oracle's always-on checks of values, over a merged history.         *)
(***************************************************************************)
Reads(ops, found) ==
    {g \in DOMAIN ops : /\ ops[g].op.kind = "get" /\ ops[g].result.ok
                        /\ found => ops[g].result.v # None}

ExplainsOnlyAfter(p, get) ==
    /\ p.op.kind = "put" /\ p.op.key = get.op.key
    /\ p.op.value = get.result.v
    /\ may_have_applied(p) /\ CompletesBefore(p, get)

\* A Put that may have applied before the read did.
Explains(p, get) ==
    /\ p.op.kind = "put" /\ p.op.key = get.op.key
    /\ p.op.value = get.result.v
    /\ may_have_applied(p) /\ p.invoke_ts < get.complete_ts

\* A value read that no Put could have left there.
check_phantom(ops) ==
    {[invariant |-> "phantom", at |-> g] : g \in
        {g \in Reads(ops, TRUE) :
            LET get == ops[g]
                candidates == {p \in DOMAIN ops : Explains(ops[p], get)}
                Deleted(p) ==
                    \E d \in DOMAIN ops :
                        /\ ops[d].op.kind = "delete"
                        /\ ops[d].op.key = get.op.key
                        /\ is_linearization_point(ops[d])
                        /\ CompletesBefore(ops[p], ops[d])
                        /\ CompletesBefore(ops[d], get)
            IN  \A p \in candidates : Deleted(p)}}

\* The client's own writes that applied before the read began.
OwnWrites(ops, get) ==
    {m \in DOMAIN ops :
        /\ ops[m].client = get.client /\ ops[m].op.key = get.op.key
        /\ is_logged_op(ops[m].op)
        /\ is_linearization_point(ops[m]) /\ CompletesBefore(ops[m], get)}

\* A read that misses the client's own latest completed Put.
check_read_your_writes(ops) ==
    {[invariant |-> "ryw", at |-> g] : g \in
        {g \in Reads(ops, FALSE) :
            LET get == ops[g]
                own == OwnWrites(ops, get)
            IN  \E m \in own :
                   /\ \A o \in own : ops[o].complete_ts <= ops[m].complete_ts
                   /\ ops[m].op.kind = "put"
                   /\ get.result.v = None \/ get.result.v < ops[m].op.value}}

\* Two successive reads of a client whose values regress.
check_monotonic_reads(ops) ==
    {[invariant |-> "monotonic", at |-> g] : g \in
        {g \in Reads(ops, TRUE) :
            LET Same(r) == /\ ops[r].client = ops[g].client
                           /\ ops[r].op.key = ops[g].op.key
                earlier == {r \in Reads(ops, TRUE) :
                              Same(r) /\ ops[r].complete_ts < ops[g].complete_ts}
            IN  \E r \in earlier :
                   /\ \A o \in earlier : ops[o].complete_ts <= ops[r].complete_ts
                   /\ ops[g].result.v < ops[r].result.v}}

\* A malformed log: a completion of no call, or a call or a (client, seq) that
\* was first invoked as something else.
validate(evs) ==
    LET invokes == InvokesOf(evs)
        Orphan(t) == \A u \in invokes : evs[u].call # evs[t].call
        Differs(t, u) == \/ /\ evs[u].call = evs[t].call
                            /\ evs[u] # evs[t]
                         \/ /\ evs[u].client = evs[t].client
                            /\ evs[u].seq = evs[t].seq /\ evs[u].op # evs[t].op
    IN  {[invariant |-> "well_formed", at |-> t] : t \in
            {t \in CompletesOf(evs) : Orphan(t)}
              \cup {t \in invokes : \E u \in invokes : u < t /\ Differs(t, u)}}

check(evs) ==
    LET ops == merge_retries(evs)
    IN  validate(evs) \cup check_phantom(ops) \cup check_read_your_writes(ops)
          \cup check_monotonic_reads(ops)

(***************************************************************************)
(* Recording a history: History::invoke and History::complete.             *)
(***************************************************************************)
CallsOf(c) == {t \in InvokesOf(events) : events[t].client = c}
LastOf(c)  == events[Greatest(CallsOf(c))]
EndOf(call) == {t \in CompletesOf(events) : events[t].call = call}

Idle(c) == \A t \in CallsOf(c) : EndOf(events[t].call) # {}

Puts == {t \in InvokesOf(events) : events[t].op.kind = "put"}

FreshOps ==
    [kind : {"put"}, key : Keys, value : {Cardinality(Puts) + 1}]
      \cup [kind : {"delete", "get"}, key : Keys, value : {None}]

Tries(c) == {t \in CallsOf(c) : events[t].seq = LastOf(c).seq}

\* A new operation, or the retry of one whose last call failed.
invoke(c) ==
    LET call == Cardinality(InvokesOf(events)) + 1
    IN  /\ Idle(c) /\ call <= MaxCalls
        /\ \/ \E op \in FreshOps :
                 events' = Append(events,
                    Invoked(call, c, IF CallsOf(c) = {} THEN 1
                                     ELSE LastOf(c).seq + 1, op))
           \/ /\ CallsOf(c) # {} /\ Cardinality(Tries(c)) < MaxTries
              /\ \A t \in EndOf(LastOf(c).call) : ~events[t].result.ok
              /\ events' = Append(events,
                    Invoked(call, c, LastOf(c).seq, LastOf(c).op))

\* An answer to the open call: a failure, or any success.
Answers(op) ==
    {Fails(k) : k \in Failures}
      \cup (IF op.kind = "get" THEN {Ok(v) : v \in 0 .. Cardinality(Puts) + 1}
            ELSE {Ok(None)})

complete(c) ==
    /\ ~Idle(c)
    /\ \E r \in Answers(LastOf(c).op) :
          events' = Append(events, Completed(LastOf(c).call, r))

Init == events = << >> /\ store = InitialStore /\ taken = {}

Next ==
    /\ \E c \in Clients : invoke(c) \/ complete(c)
    /\ UNCHANGED <<store, taken>>

Spec == Init /\ [][Next]_vars

(***************************************************************************)
(* A linearizable service: an operation takes effect at most once, while a *)
(* call of it is open or after one that ended with an unknown outcome.     *)
(***************************************************************************)
CallOf(t) == <<events[t].client, events[t].seq>>

Ran(c, seq) == {x \in taken : x.op = <<c, seq>>}

TakeEffect(t) ==
    /\ Ran(events[t].client, events[t].seq) = {}
    /\ \/ EndOf(events[t].call) = {}
       \/ /\ is_logged_op(events[t].op)
          /\ \A e \in EndOf(events[t].call) :
                is_unknown_outcome(events[e].result.kind)
    /\ \E r \in {apply(store, events[t].op)} :
          /\ store' = r[1]
          /\ taken' = taken \cup {[op |-> CallOf(t), result |-> r[2],
                                   call |-> events[t].call]}
    /\ UNCHANGED events

Serve(c) ==
    /\ ~Idle(c)
    /\ LET call == LastOf(c).call
           ran  == Ran(c, LastOf(c).seq)
       IN  \E r \in {x.result : x \in ran} \cup {Fails(k) : k \in Failures} :
             /\ r.ok \/ is_unknown_outcome(r.kind)
                  \/ \A x \in ran : x.call # call
             /\ events' = Append(events, Completed(call, r))
    /\ UNCHANGED <<store, taken>>

ServiceNext ==
    \/ \E c \in Clients : invoke(c) /\ UNCHANGED <<store, taken>>
    \/ \E c \in Clients : Serve(c)
    \/ \E t \in InvokesOf(events) : TakeEffect(t)

ServiceSpec == Init /\ [][ServiceNext]_vars

(***************************************************************************)
(* Linearizability by definition: some choice of the optional points, in   *)
(* some order that respects real time, where every required point answers  *)
(* what the writes before it left.                                         *)
(***************************************************************************)
Orders(S) ==
    {f \in [1 .. Cardinality(S) -> S] : \A i, j \in DOMAIN f : f[i] = f[j] => i = j}

LastWrite(ops, f, k, key) ==
    LET before == {j \in 1 .. k - 1 : /\ is_logged_op(ops[f[j]].op)
                                      /\ ops[f[j]].op.key = key}
    IN  IF before = {} THEN None ELSE ops[f[Greatest(before)]].op.value

Legal(ops, f) ==
    /\ \A i, j \in DOMAIN f :
          i < j => ~CompletesBefore(ops[f[j]], ops[f[i]])
    /\ \A k \in DOMAIN f :
          is_linearization_point(ops[f[k]]) =>
              ops[f[k]].result.v =
                 (IF ops[f[k]].op.kind # "get" THEN None
                  ELSE LastWrite(ops, f, k, ops[f[k]].op.key))

Linearizable(ops, points) ==
    LET required == {i \in points : is_linearization_point(ops[i])}
    IN  \E S \in SUBSET (points \ required) :
          \E f \in Orders(required \cup S) : Legal(ops, f)

(***************************************************************************)
(* Properties.                                                             *)
(***************************************************************************)
\* The depth-first search decides linearizability: its verdict is that of the
\* definition, on every history within MAX_CHECK_POINTS (check_reduced).
VerdictIsExact ==
    LET ops == merge_retries(events)
        out == check_reduced(ops)
    IN  out.verdict # "inconclusive" =>
          (out.verdict = "linearizable" <=> Linearizable(ops, PointsOf(ops)))

\* The greedily minimised witness of a violation is a part of the history that
\* is a violation by itself (shrink_witness).
WitnessIsViolation ==
    LET ops == merge_retries(events)
        out == check_reduced(ops)
    IN  out.verdict = "violation" =>
          /\ out.witness \subseteq PointsOf(ops)
          /\ ~Linearizable(ops, out.witness)

\* A phantom report is never a false alarm: no linearization explains a
\* history that has one (check_phantom is permissive).
PhantomIsViolation ==
    LET ops == merge_retries(events)
    IN  check_phantom(ops) # {} => ~Linearizable(ops, PointsOf(ops))

\* Where the documented assumptions hold with no write to a key in another
\* one's interval and no delete, a read-your-writes or monotonic-reads report
\* is a violation of linearizability too.
ReportIsViolation ==
    LET ops == merge_retries(events)
        writes == {i \in DOMAIN ops : is_logged_op(ops[i].op)}
    IN  /\ \A i, j \in writes : \/ i = j
                                 \/ CompletesBefore(ops[i], ops[j])
                                 \/ CompletesBefore(ops[j], ops[i])
        /\ \A i \in writes : ops[i].op.kind = "put"
        /\ check(events) # {}
        => ~Linearizable(ops, PointsOf(ops))

\* "The verdict is complete (decides correctly), not a heuristic": a history
\* recorded from a linearizable service is never called a violation.
NoFalseAlarm == check_linearizable(events).verdict # "violation"

\* "A set of consistency invariants that a linearizable KV system must
\* satisfy": the oracle reports nothing on a linearizable history.
OracleSparesLinearizable ==
    LET ops == merge_retries(events)
    IN  Linearizable(ops, PointsOf(ops)) => check(events) = {}
==============================================================================
