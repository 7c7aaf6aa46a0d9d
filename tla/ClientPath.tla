----------------------------- MODULE ClientPath -----------------------------
(***************************************************************************)
(* A client operation from the call on a Handle to its answer:             *)
(* arachne/src/client/handle.rs (the redirect loop, in-process and over    *)
(* the wire), the forwarding path (arachne-transport-tonic/src/transport.rs*)
(* and server.rs, ForwardCommandSink in arachne/src/runtime/mod.rs), the   *)
(* actor's gates (start_proposal, handle_command) and the answer.          *)
(*                                                                         *)
(* Consensus is reduced to what the client can tell apart: who each node   *)
(* believes to lead, the proposals that may still commit, and the log.     *)
(* The log and its effects are the state of KvService, which this module   *)
(* is shown to implement.                                                  *)
(***************************************************************************)
EXTENDS Naturals, Sequences, SequencesExt, FiniteSets

CONSTANTS
    N,             \* the nodes are 1 .. N, in the order of their NodeIds
    Clients,       \* handles; each carries one operation at a time
    Home,          \* the node a handle belongs to
    Peers,         \* the peers registered in-process with a handle
    Wired,         \* the handles with a RemoteForwarder
    SingleShot,    \* the handles made by without_redirect
    Retriers,      \* the handles whose caller repeats an unsure write
    KindsOf,       \* the operations issued through a handle
    Leaders,       \* the nodes that come to lead
    Elected,       \* the leader all know of at first, None for none
    MAX_REDIRECTS, \* Handle::max_redirects
    Capacity,      \* of a node's command channel
    Budget,        \* multi_get reservations a node admits
    MaxOps, MaxTries, MaxFaults  \* bounds of the model

Nodes == 1 .. N
Ids   == 1 .. MaxOps
None  == 0

ASSUME ClientAssumption ==
    /\ N \in Nat \ {0} /\ MAX_REDIRECTS \in Nat /\ Capacity \in Nat \ {0}
    /\ \A c \in Clients : Home[c] \in Nodes /\ Peers[c] \subseteq Nodes
    /\ Leaders \subseteq Nodes /\ Elected \subseteq Nodes \cup {None}

VARIABLES
    call,    \* the loop variables of the operation a handle carries
    box,     \* per node: the command channel to the actor
    wire,    \* forwarded requests on their way
    pend,    \* per node: Pending and PendingRead entries
    view,    \* per node: leader_id(), None while unknown
    up,      \* per node: the actor runs
    flying,  \* proposals that are neither committed nor lost
    log,     \* the committed log: operation numbers, 0 for a no-op
    ops,     \* every operation, as the caller sees it: KvService's calls
    answer,  \* the last answer given to a caller
    left     \* view changes, stops and cuts still to come

vars == <<call, box, wire, pend, view, up, flying, log, ops, answer, left>>

(***************************************************************************)
(* The log with the session table's verdict: only the first entry of an    *)
(* operation has an effect, a later one answers from the recorded session. *)
(***************************************************************************)
EffectsRepeated == log

Effects ==
    [k \in DOMAIN log |->
        IF \E j \in 1 .. k - 1 : log[j] = log[k] THEN 0 ELSE log[k]]

Service == INSTANCE KvService WITH hist <- Effects, calls <- ops

EffectiveIndex(id) == CHOOSE k \in DOMAIN Effects : Effects[k] = id

IsWrite(id) == ops[id].kind \in Service!WriteKinds

(***************************************************************************)
(* Answers.  An ok answer is an outcome, an index or a value; an error     *)
(* carries a leader hint when it is not_leader.                            *)
(***************************************************************************)
Ok(tag, v)  == [ok |-> TRUE, tag |-> tag, v |-> v]
Err(tag)    == [ok |-> FALSE, tag |-> tag, v |-> None]
NotLeader(h) == [ok |-> FALSE, tag |-> "not_leader", v |-> h]
Pending     == Err("pending")
Dropped     == Err("dropped")

EmptyValue == MaxOps + 1     \* the value of zero bytes
Missing    == MaxOps + 2     \* an absent field of a ForwardOutcome

Idle == [st |-> "idle", id |-> 1, try |-> 0, hint |-> None, pos |-> 1,
         redirects |-> 0, unreachable |-> 0, target |-> 1,
         reply |-> Pending]

\* Self first, then the registered peers in sorted order.
target_order(c) ==
    <<Home[c]>> \o SetToSortSeq(Peers[c] \ {Home[c]}, <)

InProcess(c, n) == n = Home[c] \/ n \in Peers[c]

hint(n) == view[n]

(***************************************************************************)
(* Forwarding.  The actor's answer becomes a ForwardOutcome in the sink, a *)
(* ForwardReply in the server, a ForwardOutcome again in the client's      *)
(* transport and an answer in the handle.  An absent field is Missing; an  *)
(* absent value is Absent.                                                 *)
(***************************************************************************)
stable_code(e) ==
    IF e \in {"quorum_unavailable", "timeout", "busy", "session_expired",
              "session_table_full", "shutting_down", "invalid_argument",
              "unsupported"}
    THEN e
    ELSE "unrecoverable"

\* The wire kind of an operation, and the command a server makes of it.
build_forward_request(kind) ==
    CASE kind = "get"       -> 1
      [] kind = "multi_get" -> 3
      [] kind = "put_index" -> 4
      [] OTHER              -> 0

ForwardCommand(kind) ==
    CASE kind = 0 -> "Propose"
      [] kind = 1 -> "Read"
      [] kind = 3 -> "MultiGet"
      [] kind = 4 -> "ProposeWithIndex"

\* The ForwardOutcome (or the code) of the actor's answer: one field carries
\* the answer of each command.
Unanswered(r) ==
    [code |-> CASE r.ok \/ r.tag = "not_leader" -> "ok"
                [] r = Dropped -> "unavailable"
                [] OTHER -> stable_code(r.tag),
     leader_hint |-> IF r.ok THEN None ELSE r.v, value |-> Service!Absent,
     result |-> Missing, multi |-> Missing, index |-> Missing]

sink_propose(r) == [Unanswered(r) EXCEPT !.result = r.v]

sink_propose_with_index(r) == [Unanswered(r) EXCEPT !.index = r.v]

sink_read(r) == [Unanswered(r) EXCEPT !.value = r.v]

sink_multi_get(r) == [Unanswered(r) EXCEPT !.multi = r.v]

sink(cmd, r) ==
    CASE ~r.ok -> Unanswered(r)
      [] cmd = "Propose" -> sink_propose(r)
      [] cmd = "ProposeWithIndex" -> sink_propose_with_index(r)
      [] cmd = "Read" -> sink_read(r)
      [] cmd = "MultiGet" -> sink_multi_get(r)

\* ApplyOutcome::None and no outcome are both an absent envelope.
encode_forward_result(result) == IF result = 0 THEN Missing ELSE result

forward(o) ==
    IF o.code = "ok" /\ o.leader_hint # None
    THEN [o EXCEPT !.code = "not_leader"]
    ELSE [o EXCEPT !.value  = IF @ = Service!Absent THEN EmptyValue ELSE @,
                   !.result = encode_forward_result(@)]

code_to_error(code) ==
    CASE code = "unavailable" -> "quorum_unavailable"
      [] code = "unknown_kind" -> "unsupported"
      [] code \in Service!Refusals \cup Service!Unknowns -> code
      [] OTHER -> "unrecoverable"

OrUnsupported(tag, v) == IF v = Missing THEN Err("unsupported") ELSE Ok(tag, v)

\* The reply read back by the transport: a hint, or the fields as they are.
do_forward(reply) ==
    IF reply.code = "ok" THEN [reply EXCEPT !.leader_hint = None] ELSE reply

\* What the handle makes of it, per operation.
Refused(f) ==
    IF f.code = "not_leader" THEN NotLeader(f.leader_hint)
    ELSE Err(code_to_error(f.code))

forward_request(kind, f) ==
    CASE f.code # "ok"      -> Refused(f)
      [] kind = "put_index" -> OrUnsupported("index", f.index)
      [] OTHER -> Ok("outcome", IF f.result = Missing THEN 0 ELSE f.result)

forward_get(f) == IF f.code # "ok" THEN Refused(f) ELSE Ok("value", f.value)

forward_multi_get(f) ==
    IF f.code # "ok" THEN Refused(f) ELSE OrUnsupported("multi", f.multi)

Forwarded(kind, r) ==
    LET cmd == ForwardCommand(build_forward_request(kind))
        f   == do_forward(forward(sink(cmd, r)))
    IN  CASE kind = "get"       -> forward_get(f)
          [] kind = "multi_get" -> forward_multi_get(f)
          [] OTHER              -> forward_request(kind, f)

(***************************************************************************)
(* Command m is answered with r: the oneshot is dropped when the handle no *)
(* longer waits for this attempt.                                          *)
(***************************************************************************)
Attempts(k) == k.redirects + k.unreachable

Waiting(cl, m) ==
    /\ cl[m.c].st = IF m.wire THEN "wire" ELSE "await"
    /\ cl[m.c].id = m.id /\ cl[m.c].try = m.try
    /\ Attempts(cl[m.c]) = m.at /\ cl[m.c].reply = Pending

Delivered(cl, m, r) ==
    IF ~Waiting(cl, m) THEN cl
    ELSE [cl EXCEPT ![m.c].reply =
            IF m.wire THEN Forwarded(ops[m.id].kind, r) ELSE r]

\* The public shape of an answer: put and delete discard the outcome, cas
\* maps it (2 is CasFailed) to its verdict.
put(r)            == Ok("done", 0)
delete(r)         == Ok("done", 0)
cas(r)            == Ok(IF r.v = 2 THEN "not_applied" ELSE "applied", 0)
put_with_index(r) == Ok("index", r.v)
get(r)            == Ok("value", r.v)
multi_get(r)      == Ok("value", r.v)

Public(kind, r) ==
    CASE ~r.ok -> r
      [] r.ok /\ kind = "put"       -> put(r)
      [] r.ok /\ kind = "delete"    -> delete(r)
      [] r.ok /\ kind = "cas"       -> cas(r)
      [] r.ok /\ kind = "put_index" -> put_with_index(r)
      [] r.ok /\ kind = "get"       -> get(r)
      [] r.ok /\ kind = "multi_get" -> multi_get(r)

Finish(c, r) ==
    LET k == call[c]
        p == Public(ops[k.id].kind, r)
    IN  /\ call' = [call EXCEPT ![c] = [Idle EXCEPT !.id = k.id,
                                                    !.try = k.try]]
        /\ answer' = [id |-> k.id, tag |-> p.tag,
                      v |-> IF p.ok THEN p.v ELSE 0]
        /\ ops' = [ops EXCEPT ![k.id].st = Service!Closing(p.tag),
                              ![k.id].unsure = @ \/ p.tag \in Service!Unknowns]

(***************************************************************************)
(* The redirect loop.                                                      *)
(***************************************************************************)
Budgeted(id) == ops[id].kind = "multi_get"

\* Reservations held on n's budget: by handles and sinks until the reply, by
\* the actor while the read is pending.
Reserved(n) ==
    Cardinality({c \in Clients : /\ call[c].st \in {"sending", "await"}
                                 /\ call[c].target = n
                                 /\ Budgeted(call[c].id)})
      + Cardinality({m \in ToSet(box[n]) : m.wire /\ Budgeted(m.id)})
      + Cardinality({m \in pend[n] : m.wire /\ Budgeted(m.id)})
      + Cardinality({m \in pend[n] : Budgeted(m.id)})

Started(id, try) ==
    [Idle EXCEPT !.st = "attempt", !.id = id, !.try = try]

Used == {i \in Ids : ops[i].st # "new"}

Invoke(c) ==
    /\ call[c].st = "idle"
    /\ Used # Ids
    /\ \E kind \in KindsOf[c], i \in {Cardinality(Used) + 1} :
          /\ ops' = [ops EXCEPT ![i].st = "open", ![i].kind = kind,
                                ![i].floor = Len(log)]
          /\ call' = [call EXCEPT ![c] = Started(i, 1)]
    /\ UNCHANGED <<box, wire, pend, view, up, flying, log, answer, left>>

\* A key, a value or a batch over its limit is refused before anything is
\* sent.
validate(c) ==
    /\ call[c].st = "attempt" /\ call[c].try = 1 /\ Attempts(call[c]) = 0
    /\ Finish(c, Err("invalid_argument"))
    /\ UNCHANGED <<box, wire, pend, view, up, flying, log, left>>

\* The caller repeats a write under its (client_id, seq_no): propose_raw.
RetryWrite(c) ==
    /\ c \in Retriers
    /\ call[c].st = "idle" /\ call[c].try \in 1 .. MaxTries - 1
    /\ ops[call[c].id].unsure /\ IsWrite(call[c].id)
    /\ left > 0 /\ left' = left - 1
    /\ ops' = [ops EXCEPT ![call[c].id].st = "open"]
    /\ call' = [call EXCEPT ![c] = Started(@.id, @.try + 1)]
    /\ UNCHANGED <<box, wire, pend, view, up, flying, log, answer>>

Message(c, wired) ==
    [c |-> c, id |-> call[c].id, try |-> call[c].try, wire |-> wired,
     at |-> Attempts(call[c]), floor |-> 0]

\* A peer that went away: the next one of the order, or the end.
PeerGone(c) ==
    LET k == call[c]
        order == target_order(c)
    IN  IF k.hint = None /\ k.unreachable + 2 < Len(order)
        THEN /\ call' = [call EXCEPT ![c] =
                          [k EXCEPT !.st = "attempt", !.reply = Pending,
                                    !.unreachable = k.unreachable + 1,
                                    !.pos = (k.pos % Len(order)) + 1]]
             /\ UNCHANGED <<ops, answer>>
        ELSE Finish(c, Err("quorum_unavailable"))

ShuttingDown(c, t) ==
    IF t = Home[c] THEN Finish(c, Err("shutting_down"))
    ELSE PeerGone(c)

MaxRedirects(c) == IF c \in SingleShot THEN 0 ELSE MAX_REDIRECTS

FollowUncounted(k, h, order) ==
    [k EXCEPT !.st = "attempt", !.reply = Pending, !.hint = h,
              !.pos = (k.pos % Len(order)) + 1,
              !.redirects = IF h = None THEN k.redirects + 1
                            ELSE k.redirects]

Follow(k, h, order) ==
    [k EXCEPT !.st = "attempt", !.reply = Pending, !.hint = h,
              !.pos = (k.pos % Len(order)) + 1,
              !.redirects = k.redirects + 1]

\* The target's verdict: follow the hint, or return.
Verdict(c, r) ==
    LET next == Follow(call[c], r.v, target_order(c))
    IN  CASE r.ok \/ r.tag # "not_leader" -> Finish(c, r)
          [] MaxRedirects(c) = 0 -> Finish(c, r)
          [] next.redirects > MaxRedirects(c) -> Finish(c, Err("timeout"))
          [] OTHER -> call' = [call EXCEPT ![c] = next] /\ UNCHANGED <<ops, answer>>

\* Put the command on the target's channel: at once, or blocked in tx.send
\* until there is room.
Enqueue(c, t) ==
    \/ /\ up[t] /\ Len(box[t]) < Capacity
       /\ box' = [box EXCEPT ![t] = Append(@, Message(c, FALSE))]
       /\ call' = [call EXCEPT ![c].st = "await", ![c].target = t]
       /\ UNCHANGED <<ops, answer>>
    \/ /\ up[t] /\ Len(box[t]) >= Capacity /\ call[c].st = "attempt"
       /\ call' = [call EXCEPT ![c].st = "sending", ![c].target = t]
       /\ UNCHANGED <<box, ops, answer>>
    \/ /\ ~up[t]
       /\ ShuttingDown(c, t)
       /\ UNCHANGED box

\* An answer is acted on at once: the step reads and writes nothing but the
\* call it belongs to, so nothing can be told apart by delaying it.
Quiet == \A c \in Clients : call[c].reply = Pending

\* One request on the target's channel.  A multi_get reserves its keys on
\* the target's budget first, and only it gives up a blocked send at the
\* deadline.
send_request(c, t) == Enqueue(c, t)

send_get(c, t) == Enqueue(c, t)

send_multi_get(c, t) ==
    \/ call[c].st = "attempt" /\ Reserved(t) >= Budget
       /\ Finish(c, Err("busy")) /\ UNCHANGED box
    \/ (call[c].st = "attempt" => Reserved(t) < Budget) /\ Enqueue(c, t)
    \/ call[c].st = "sending" /\ Finish(c, Err("timeout")) /\ UNCHANGED box

\* The hinted leader, else the next of the in-process order.
TargetOf(c) ==
    IF call[c].st = "sending" THEN call[c].target
    ELSE IF call[c].hint # None THEN call[c].hint
    ELSE target_order(c)[call[c].pos]

\* Only a hint carries the address to forward to.
Remote(c, t) ==
    IF c \in Wired /\ call[c].hint # None
    THEN /\ call' = [call EXCEPT ![c].st = "wire", ![c].target = t]
         /\ wire' = wire \cup {[n |-> t, m |-> Message(c, TRUE)]}
         /\ UNCHANGED <<box, ops, answer>>
    ELSE Finish(c, Err("quorum_unavailable")) /\ UNCHANGED <<box, wire>>

reach_target(c, t) ==
    \/ InProcess(c, t) /\ send_request(c, t) /\ UNCHANGED wire
    \/ ~InProcess(c, t) /\ Remote(c, t)

reach_get(c, t) ==
    \/ InProcess(c, t) /\ send_get(c, t) /\ UNCHANGED wire
    \/ ~InProcess(c, t) /\ Remote(c, t)

reach_multi_get(c, t) ==
    \/ InProcess(c, t) /\ send_multi_get(c, t) /\ UNCHANGED wire
    \/ ~InProcess(c, t) /\ Remote(c, t)

\* One turn of a loop: reach the target, or act on what came back.
Turn(c) ==
    /\ call[c].st \in {"await", "wire"} /\ call[c].reply # Pending
    /\ IF call[c].reply = Dropped THEN ShuttingDown(c, call[c].target)
       ELSE Verdict(c, call[c].reply)
    /\ UNCHANGED <<box, wire>>

Reaching(c) == Quiet /\ call[c].st \in {"attempt", "sending"}

request_with_redirect(c) ==
    /\ IsWrite(call[c].id)
    /\ Turn(c) \/ (Reaching(c) /\ reach_target(c, TargetOf(c)))

get_with_redirect(c) ==
    /\ ops[call[c].id].kind = "get"
    /\ Turn(c) \/ (Reaching(c) /\ reach_get(c, TargetOf(c)))

multi_get_with_redirect(c) ==
    /\ ops[call[c].id].kind = "multi_get"
    /\ Turn(c) \/ (Reaching(c) /\ reach_multi_get(c, TargetOf(c)))

Redirect(c) ==
    /\ request_with_redirect(c) \/ get_with_redirect(c)
          \/ multi_get_with_redirect(c)
    /\ UNCHANGED <<pend, view, up, flying, log, left>>

\* The operation's deadline passes first.
Deadline(c) ==
    /\ call[c].st \in {"await", "wire"} /\ call[c].reply = Pending
    /\ Finish(c, Err(IF call[c].st = "wire" THEN "quorum_unavailable"
                     ELSE "timeout"))
    /\ UNCHANGED <<box, wire, pend, view, up, flying, log, left>>

\* Dialing fails, the connection breaks or the transport's own timeout
\* fires: do_forward returns the status text, which is no stable code.
Cut(c) ==
    /\ call[c].st = "wire" /\ call[c].reply = Pending
    /\ left > 0
    /\ call' = [call EXCEPT ![c].reply = Err(code_to_error("status"))]
    /\ left' = left - 1
    /\ UNCHANGED <<box, wire, pend, view, up, flying, log, ops, answer>>

(***************************************************************************)
(* The server side of a forward: reserve, then put the command on this     *)
(* node's channel; a stopped actor behind a bound listener is unavailable. *)
(***************************************************************************)
DeliverForward ==
    \E w \in wire :
        LET n == w.n
            m == w.m
        IN  /\ wire' = wire \ {w}
            /\ \/ /\ up[n] /\ Len(box[n]) < Capacity
                  /\ ~(Budgeted(m.id) /\ Reserved(n) >= Budget)
                  /\ box' = [box EXCEPT ![n] = Append(@, m)]
                  /\ UNCHANGED call
               \/ /\ up[n] /\ Budgeted(m.id) /\ Reserved(n) >= Budget
                  /\ call' = Delivered(call, m, Err("busy"))
                  /\ UNCHANGED box
               \/ /\ ~up[n]
                  /\ call' = Delivered(call, m, Dropped)
                  /\ UNCHANGED box
            /\ UNCHANGED <<pend, view, up, flying, log, ops, answer, left>>

(***************************************************************************)
(* The actor.  Verdicts are the answers a command may get at once; a       *)
(* command that gets none is registered.                                   *)
(***************************************************************************)
InLog(id) == \E k \in DOMAIN log : log[k] = id

\* A known session past its TTL is session_expired; a full backlog and, for
\* a fresh session, a full session table are both a busy; a proposal raft
\* drops is not_leader.
start_proposal(n, m) ==
    {IF InLog(m.id) THEN Err("session_expired") ELSE Err("busy"),
     NotLeader(hint(n)), Pending}

start_read(n, m) ==
    IF Budgeted(m.id) /\ Reserved(n) >= Budget THEN {Err("busy")}
    ELSE {Err("busy"), Pending}

Verdicts(n, m) ==
    CASE view[n] # n     -> {NotLeader(hint(n))}
      [] IsWrite(m.id)   -> start_proposal(n, m)
      [] OTHER           -> start_read(n, m)

Handle(n) ==
    /\ up[n] /\ box[n] # << >>
    /\ LET m == Head(box[n])
       IN  \E r \in Verdicts(n, m) :
              /\ box' = [box EXCEPT ![n] = Tail(@)]
              /\ \/ /\ r # Pending
                    /\ call' = Delivered(call, m, r)
                    /\ UNCHANGED <<pend, flying>>
                 \/ /\ r = Pending
                    /\ pend' = [pend EXCEPT ![n] = @ \cup
                                  {[m EXCEPT !.floor = Len(log)]}]
                    /\ flying' = IF IsWrite(m.id)
                                 THEN flying \cup {<<m.id, m.try>>}
                                 ELSE flying
                    /\ UNCHANGED call
    /\ UNCHANGED <<wire, view, up, log, ops, answer, left>>

Outcome(id) ==
    CASE ops[id].kind = "delete" -> 0
      [] ops[id].kind = "cas"
           /\ Service!ValueAt(EffectiveIndex(id) - 1) # Service!Absent -> 2
      [] OTHER -> 1

\* reply_pendings and resolve_reads.  A read sees the state machine at or
\* after the read index confirmed for it.  The actor's timeout is told apart
\* from the handle's only over the wire.
Replies(n, p) ==
    (IF p.wire THEN {Err("timeout")} ELSE {}) \cup
    CASE IsWrite(p.id) ->
            IF ~InLog(p.id) THEN {}
            ELSE IF ops[p.id].kind = "put_index"
            THEN {Ok("index", EffectiveIndex(p.id))}
            ELSE {Ok("outcome", Outcome(p.id))}
      [] view[n] # n -> {NotLeader(hint(n))}
      [] OTHER ->
            {Ok(IF Budgeted(p.id) THEN "multi" ELSE "value",
                Service!ValueAt(k)) : k \in p.floor .. Len(log)}

Reply(n) ==
    /\ up[n]
    /\ \E p \in pend[n] : \E r \in Replies(n, p) :
          /\ pend' = [pend EXCEPT ![n] = @ \ {p}]
          /\ call' = Delivered(call, p, r)
    /\ UNCHANGED <<box, wire, view, up, flying, log, ops, answer, left>>

(***************************************************************************)
(* Consensus, seen from the clients.                                       *)
(***************************************************************************)
Commit ==
    \E f \in flying :
        /\ log' = Append(log, f[1])
        /\ flying' = flying \ {f}
        /\ UNCHANGED <<call, box, wire, pend, view, up, ops, answer, left>>

Learn(n) ==
    /\ up[n] /\ left > 0
    /\ \E l \in (Leaders \cup {None}) \ {view[n]} :
          view' = [view EXCEPT ![n] = l]
    /\ left' = left - 1
    /\ UNCHANGED <<call, box, wire, pend, up, flying, log, ops, answer>>

\* The actor stops: its channel closes and every ack it holds is dropped.
Stop(n) ==
    /\ up[n] /\ left > 0
    /\ up' = [up EXCEPT ![n] = FALSE]
    /\ box' = [box EXCEPT ![n] = << >>]
    /\ pend' = [pend EXCEPT ![n] = {}]
    /\ call' = [c \in Clients |->
                  IF \E m \in ToSet(box[n]) \cup pend[n] :
                        m.c = c /\ Waiting(call, m)
                  THEN Delivered(call, CHOOSE m \in ToSet(box[n]) \cup pend[n] :
                                          m.c = c /\ Waiting(call, m),
                                 Dropped)[c]
                  ELSE call[c]]
    /\ left' = left - 1
    /\ UNCHANGED <<wire, view, flying, log, ops, answer>>

Init ==
    /\ call = [c \in Clients |-> Idle]
    /\ box = [n \in Nodes |-> << >>]
    /\ wire = {} /\ flying = {} /\ log = << >>
    /\ pend = [n \in Nodes |-> {}]
    /\ \E l \in Elected : view = [n \in Nodes |-> l]
    /\ up = [n \in Nodes |-> TRUE]
    /\ ops = [i \in Ids |-> Service!NewCall] /\ answer = Service!NoAnswer
    /\ left = MaxFaults

ClientStep(c) ==
    \/ Redirect(c)
    \/ Quiet /\ (Deadline(c) \/ validate(c))

Next ==
    \/ \E c \in Clients :
          ClientStep(c) \/ (Quiet /\ (Invoke(c) \/ RetryWrite(c) \/ Cut(c)))
    \/ Quiet /\ DeliverForward
    \/ \E n \in Nodes :
          Quiet /\ (Handle(n) \/ Reply(n) \/ Learn(n) \/ Stop(n))
    \/ Quiet /\ Commit

(***************************************************************************)
(* A handle's future that can move is polled, its deadline included, and a *)
(* running actor drains its channel.  Nothing is assumed of commits,       *)
(* replies or the wire.                                                    *)
(***************************************************************************)
Fairness ==
    /\ WF_vars(\E c \in Clients : ClientStep(c))
    /\ WF_vars(\E n \in Nodes : Quiet /\ Handle(n))

Spec == Init /\ [][Next]_vars

LiveSpec == Spec /\ Fairness

(***************************************************************************)
(* The node binary's HTTP surface over a single-shot handle: the status of *)
(* an answer (handle_kv and map_error).                                    *)
(***************************************************************************)
StatusConflict(a) ==
    CASE a.tag = "value" /\ a.v = Service!Absent -> 404
      [] a.tag \in {"done", "value"} -> 200
      [] a.tag \in {"not_leader", "quorum_unavailable", "timeout"} -> 409
      [] OTHER -> 503

status(a) ==
    CASE a.tag = "value" /\ a.v = Service!Absent -> 404
      [] a.tag \in {"done", "value"} -> 200
      [] a.tag = "not_leader" -> 409
      [] a.tag \in {"quorum_unavailable", "timeout", "busy",
                     "shutting_down"} -> 503
      [] a.tag = "invalid_argument" -> 400
      [] OTHER -> 500

(***************************************************************************)
(* Properties.                                                             *)
(***************************************************************************)
Calls == [st : {"idle", "attempt", "sending", "await", "wire"}, id : Ids,
          try : 0 .. MaxTries, hint : Nodes \cup {None}, pos : Nodes,
          redirects : 0 .. MAX_REDIRECTS, unreachable : 0 .. N,
          target : Nodes, reply : [ok : BOOLEAN, tag : STRING, v : Nat]]

\* The handles, channels, views and proposals are well formed.
TypeOK ==
    /\ call \in [Clients -> Calls]
    /\ \A n \in Nodes : Len(box[n]) <= Capacity /\ pend[n] \subseteq
          [c : Clients, id : Ids, try : 1 .. MaxTries, wire : BOOLEAN,
           at : Nat, floor : 0 .. Len(log)]
    /\ view \in [Nodes -> Nodes \cup {None}] /\ up \in [Nodes -> BOOLEAN]
    /\ flying \subseteq Ids \X (1 .. MaxTries) /\ log \in Seq(Ids)

\* Every operation issued through a Handle behaves as KvService says: it
\* takes effect at most once, after its call; an ok answer, an index, a cas
\* verdict or a value read agrees with the log; a refused operation never
\* takes effect (request_with_redirect and its read twins, the forwarding
\* path, the session table).
ImplementsService == Service!Spec

\* A write refused outright was handed to no consensus group: no proposal of
\* it is in flight, no command of it waits in a channel or on the wire (the
\* gates of start_proposal come before propose, and the loop resends only
\* after not_leader).
RefusedIsNotProposed ==
    \A i \in Ids :
        ops[i].st = "refused" /\ ~ops[i].unsure
        => /\ \A f \in flying : f[1] # i
           /\ ~InLog(i)
           /\ \A w \in wire : w.m.id # i
           /\ \A n \in Nodes : \A m \in ToSet(box[n]) \cup pend[n] : m.id # i

\* HTTP statuses mean what main.rs documents: 200 for a write that is in the
\* log, 409 only for a request that placed nothing, 404 only for a key that
\* was absent during the request.
HttpStatusIsHonest ==
    \A c \in SingleShot :
        LET i == answer.id
        IN  call[c].id = i /\ call[c].try = 1 /\ call[c].st = "idle" =>
              /\ status(answer) = 200 /\ IsWrite(i) => InLog(i)
              /\ status(answer) = 409 => ~InLog(i)
                                         /\ \A f \in flying : f[1] # i
              /\ status(answer) = 404 =>
                    \E k \in ops[i].floor .. Len(log) :
                        Service!ValueAt(k) = Service!Absent

\* An operation on a Handle returns: the redirect budget, the walk over the
\* peers and the deadline bound it whatever the nodes do, so that the calls
\* made are over again and again.
EveryCallReturns == []<>(\A c \in Clients : call[c].st = "idle")

\* "`Ok(Ok(()))` — the forwarded write committed." (forward_request): a write
\* a handle answers with success is in the log.
ForwardedWriteCommitted ==
    answer.tag \in {"done", "index", "applied"} => InLog(answer.id)

\* "It can never be the first to fail today": the actor never finds the
\* multi_get budget exhausted, because the handle or the sink reserved
\* before it (MultiGetBudget, arachne/src/runtime/mod.rs).
ActorReserveIsContained ==
    \A n \in Nodes : box[n] # << >> /\ Budgeted(Head(box[n]).id)
                        => Reserved(n) < Budget
==============================================================================
