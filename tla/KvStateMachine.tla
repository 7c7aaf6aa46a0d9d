--------------------------- MODULE KvStateMachine ---------------------------
(***************************************************************************)
(* The in-memory key/value engine of arachne/src/state_machine/kv.rs: what *)
(* applying one committed command does to the store, and what a snapshot   *)
(* of the store carries.  Only operators; KvReplication runs them.         *)
(*                                                                         *)
(* Byte strings are members of Keys and Vals.  A BTreeMap is a function    *)
(* over the whole key set with NoEntry / NoRecord for an absent key.       *)
(***************************************************************************)
EXTENDS Integers, Sequences

CONSTANTS
    Keys,       \* user keys
    Vals,       \* values
    Sessions    \* SessionKey: (client_id, seq_no) pairs

(***************************************************************************)
(* ApplyOutcome.  "none" carries nothing, "value" a value, "cas_failed"    *)
(* the origin index and value the compare saw (0 and NoVal when absent).   *)
(***************************************************************************)
NoVal == [absent |-> "val"]

OutNone == [tag |-> "none", index |-> 0, val |-> NoVal]
OutValue(v) == [tag |-> "value", index |-> 0, val |-> v]
OutCasFailed(i, v) == [tag |-> "cas_failed", index |-> i, val |-> v]

Outcome == {OutNone}
              \cup [tag : {"value"}, index : {0}, val : Vals]
              \cup [tag : {"cas_failed"}, index : Nat, val : Vals \cup {NoVal}]

(***************************************************************************)
(* Store: the applied index, the entries with the log index that wrote     *)
(* them, and one record per session that has been applied.                 *)
(***************************************************************************)
NoEntry  == [val |-> NoVal, index |-> 0]
NoRecord == [outcome |-> OutNone, index |-> 0]

Entry  == [val : Vals, index : Nat \ {0}]
Record == [outcome : Outcome, index : Nat \ {0}]

Store == [applied  : Nat,
          kv       : [Keys -> Entry \cup {NoEntry}],
          sessions : [Sessions -> Record \cup {NoRecord}]]

EmptyStore == [applied  |-> 0,
               kv       |-> [k \in Keys |-> NoEntry],
               sessions |-> [s \in Sessions |-> NoRecord]]

(***************************************************************************)
(* Commands.  A leader's no-op entry has an empty payload.                 *)
(***************************************************************************)
Noop == [op |-> "noop"]
Put(s, k, v) == [op |-> "put", session |-> s, key |-> k, val |-> v]
Delete(s, k) == [op |-> "delete", session |-> s, key |-> k]
MultiPut(s, es) == [op |-> "multi_put", session |-> s, entries |-> es]
Cas(s, k, p, o) ==
    [op |-> "cas", session |-> s, key |-> k, pred |-> p, success |-> o]
SessionGc(ss) == [op |-> "session_gc", sessions |-> ss]

IndexEquals(i) == [kind |-> "index", index |-> i, val |-> NoVal]
ValueEquals(v) == [kind |-> "value", index |-> 0, val |-> v]
NotExists      == [kind |-> "absent", index |-> 0, val |-> NoVal]
CasPred == [kind : {"index", "value", "absent"},
            index : Nat, val : Vals \cup {NoVal}]

CasPut(v) == [kind |-> "put", val |-> v]
CasDelete == [kind |-> "delete", val |-> NoVal]
CasOp == {CasPut(v) : v \in Vals} \cup {CasDelete}

SessionCommand ==
    [op : {"put"}, session : Sessions, key : Keys, val : Vals]
        \cup [op : {"delete"}, session : Sessions, key : Keys]
        \cup [op : {"multi_put"}, session : Sessions,
              entries : Seq(Keys \X Vals)]
        \cup [op : {"cas"}, session : Sessions, key : Keys,
              pred : CasPred, success : CasOp]

GcCommand == [op : {"session_gc"}, sessions : SUBSET Sessions]

Command == {Noop} \cup GcCommand \cup SessionCommand

HasSession(cmd) == cmd.op \in {"put", "delete", "multi_put", "cas"}

(***************************************************************************)
(* The write a command makes when it is applied for the first time: the    *)
(* outcome and the entries of the keys it touches.                         *)
(***************************************************************************)
Matches(pred, current) ==
    \/ pred.kind = "index" /\ current # NoEntry /\ current.index = pred.index
    \/ pred.kind = "value" /\ current # NoEntry /\ current.val = pred.val
    \/ pred.kind = "absent" /\ current = NoEntry

\* The last occurrence of a key in a multi_put wins.
Occurrences(entries, k) == {n \in DOMAIN entries : entries[n][1] = k}

LastValue(entries, k) ==
    entries[CHOOSE n \in Occurrences(entries, k) :
                \A m \in Occurrences(entries, k) : m <= n][2]

FirstApply(kv, i, cmd) ==
    CASE cmd.op = "put" ->
            [outcome |-> OutValue(cmd.val),
             touched |-> {cmd.key},
             kv |-> [kv EXCEPT ![cmd.key] = [val |-> cmd.val, index |-> i]]]
      [] cmd.op = "delete" ->
            [outcome |-> OutNone,
             touched |-> {cmd.key},
             kv |-> [kv EXCEPT ![cmd.key] = NoEntry]]
      [] cmd.op = "multi_put" ->
            [outcome |-> OutNone,
             touched |-> {k \in Keys : Occurrences(cmd.entries, k) # {}},
             kv |-> [k \in Keys |->
                        IF Occurrences(cmd.entries, k) = {} THEN kv[k]
                        ELSE [val |-> LastValue(cmd.entries, k),
                              index |-> i]]]
      [] cmd.op = "cas" ->
            LET current == kv[cmd.key]
            IN  CASE ~Matches(cmd.pred, current) ->
                        [outcome |-> OutCasFailed(current.index, current.val),
                         touched |-> {},
                         kv |-> kv]
                  [] Matches(cmd.pred, current) /\ cmd.success.kind = "put" ->
                        [outcome |-> OutValue(cmd.success.val),
                         touched |-> {cmd.key},
                         kv |-> [kv EXCEPT ![cmd.key] =
                                    [val |-> cmd.success.val, index |-> i]]]
                  [] OTHER ->
                        [outcome |-> OutNone,
                         touched |-> {cmd.key},
                         kv |-> [kv EXCEPT ![cmd.key] = NoEntry]]

(***************************************************************************)
(* apply_with_events_and_index.  The caller presents exactly applied + 1;  *)
(* any other index is an IndexViolation and stops the apply task.  A       *)
(* session already in the table answers from its record (a multi_put       *)
(* always answers None) and changes nothing.  `touched` are the keys that  *)
(* get a watch event.                                                      *)
(***************************************************************************)
Cached(store, cmd) == store.sessions[cmd.session]

\* Mutant: the session table is written and never consulted.
ApplyWithoutDedup(store, i, cmd) ==
    LET w == FirstApply(store.kv, i, cmd)
    IN  [store     |-> [applied  |-> i,
                        kv       |-> w.kv,
                        sessions |-> [store.sessions EXCEPT
                           ![cmd.session] = [outcome |-> w.outcome,
                                             index   |-> i]]],
         outcome   |-> w.outcome,
         effective |-> i,
         touched   |-> w.touched]

\* Mutant: a replay answers from its record and still writes.
ReplayWriting(store, i, cmd) ==
    LET w == FirstApply(store.kv, i, cmd)
        c == Cached(store, cmd)
        r == IF c # NoRecord THEN c ELSE [outcome |-> w.outcome, index |-> i]
    IN  [store     |-> [applied  |-> i,
                        kv       |-> w.kv,
                        sessions |-> [store.sessions EXCEPT ![cmd.session] = r]],
         outcome   |-> r.outcome,
         effective |-> r.index,
         touched   |-> w.touched]

ApplySession(store, i, cmd) ==
    IF Cached(store, cmd) # NoRecord
    THEN [store     |-> [store EXCEPT !.applied = i],
          outcome   |-> IF cmd.op = "multi_put" THEN OutNone
                        ELSE Cached(store, cmd).outcome,
          effective |-> Cached(store, cmd).index,
          touched   |-> {}]
    ELSE LET w == FirstApply(store.kv, i, cmd)
         IN  [store     |-> [applied  |-> i,
                             kv       |-> w.kv,
                             sessions |-> [store.sessions EXCEPT
                                ![cmd.session] = [outcome |-> w.outcome,
                                                  index   |-> i]]],
              outcome   |-> w.outcome,
              effective |-> i,
              touched   |-> w.touched]

ApplyGc(store, i, cmd) ==
    [store |-> [store EXCEPT !.applied = i,
                    !.sessions = [s \in Sessions |->
                        IF s \in cmd.sessions THEN NoRecord ELSE @[s]]],
     outcome |-> OutNone, effective |-> i, touched |-> {}]

ApplyNoop(store, i) ==
    [store |-> [store EXCEPT !.applied = i],
     outcome |-> OutNone, effective |-> i, touched |-> {}]

ApplyCommand(store, i, cmd) ==
    CASE cmd.op = "noop" -> ApplyNoop(store, i)
      [] cmd.op = "session_gc" -> ApplyGc(store, i, cmd)
      [] OTHER -> ApplySession(store, i, cmd)

(***************************************************************************)
(* snapshot / restore.  The payload lists the present keys and sessions    *)
(* only: one tuple per kv entry, one per session, the session tuple with   *)
(* the outcome's tag and the fields that tag carries.  decode_store        *)
(* rebuilds a fresh store from the tuples.                                 *)
(***************************************************************************)
EncodeOutcome(o) ==
    CASE o.tag = "none" -> <<0>>
      [] o.tag = "value" -> <<1, o.val>>
      [] o.tag = "cas_failed" ->
            IF o.val = NoVal THEN <<2, o.index, 0>>
            ELSE <<2, o.index, 1, o.val>>

DecodeOutcome(t) ==
    CASE t[1] = 0 -> OutNone
      [] t[1] = 1 -> OutValue(t[2])
      [] t[1] = 2 -> OutCasFailed(t[2], IF t[3] = 0 THEN NoVal ELSE t[4])

Encode(store) ==
    [applied  |-> store.applied,
     kv       |-> {<<k, store.kv[k].val, store.kv[k].index>> :
                    k \in {x \in Keys : store.kv[x] # NoEntry}},
     sessions |-> {<<s, EncodeOutcome(store.sessions[s].outcome),
                     store.sessions[s].index>> :
                    s \in {x \in Sessions : store.sessions[x] # NoRecord}}]

Lists(tuples, x) == \E t \in tuples : t[1] = x
Find(tuples, x)  == CHOOSE t \in tuples : t[1] = x

DecodeEntry(t)  == [val |-> t[2], index |-> t[3]]

\* Mutant: the snapshot does not carry the session's effective index.
DecodeRecordWithoutIndex(t) == [outcome |-> DecodeOutcome(t[2]), index |-> 0]

DecodeRecord(t) == [outcome |-> DecodeOutcome(t[2]), index |-> t[3]]

\* Mutant: the session table is not restored.
DecodeWithoutSessions(snap) ==
    [applied  |-> snap.applied,
     kv       |-> [k \in Keys |->
                    IF Lists(snap.kv, k) THEN DecodeEntry(Find(snap.kv, k))
                    ELSE NoEntry],
     sessions |-> [s \in Sessions |-> NoRecord]]

Decode(snap) ==
    [applied  |-> snap.applied,
     kv       |-> [k \in Keys |->
                    IF Lists(snap.kv, k) THEN DecodeEntry(Find(snap.kv, k))
                    ELSE NoEntry],
     sessions |-> [s \in Sessions |->
                    IF Lists(snap.sessions, s)
                    THEN DecodeRecord(Find(snap.sessions, s))
                    ELSE NoRecord]]

=============================================================================
