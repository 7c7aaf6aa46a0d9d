------------------------------ MODULE KvService ------------------------------
(***************************************************************************)
(* What a client of the engine is promised, with no nodes, leaders or      *)
(* messages: one register, operations that take effect atomically and at   *)
(* most once between their invocation and their answer, and answers that   *)
(* agree with the effects.  ClientPath is shown to implement it.           *)
(*                                                                         *)
(* Operation i, when it writes, writes the value i.  hist is the log: the  *)
(* operations in the order they took effect, 0 for an entry without one.   *)
(***************************************************************************)
EXTENDS Naturals, Sequences

CONSTANT
    Ids     \* operations; a positive number each, also the value it writes

VARIABLES
    hist,   \* the effects, in order
    calls,  \* every operation: its kind, the length of hist when it was
            \* called, how it was answered, whether an answer was unsure
    answer  \* the last answer given

vars == <<hist, calls, answer>>

Absent == 0

WriteKinds == {"put", "put_index", "delete", "cas"}
ReadKinds  == {"get", "multi_get"}
Kinds      == WriteKinds \cup ReadKinds

(***************************************************************************)
(* An error either promises that the operation was not executed or leaves  *)
(* its outcome open.                                                       *)
(***************************************************************************)
Refusals == {"not_leader", "busy", "session_table_full", "unsupported",
             "invalid_argument"}
Unknowns == {"timeout", "quorum_unavailable", "shutting_down",
             "session_expired", "unrecoverable"}

Answers == Refusals \cup Unknowns
              \cup {"done", "index", "applied", "not_applied", "value"}

NewCall == [st |-> "new", kind |-> "get", floor |-> 0, unsure |-> FALSE]

\* How an answer closes a call.
Closing(tag) == IF tag \in Refusals THEN "refused" ELSE "closed"

NoAnswer == [id |-> 0, tag |-> "none", v |-> 0]

(***************************************************************************)
(* The register after each effect.  A cas puts its value when the key is   *)
(* absent.                                                                 *)
(***************************************************************************)
Wrote(kind, i, old) ==
    CASE kind = "delete" -> Absent
      [] kind = "cas"    -> IF old = Absent THEN i ELSE old
      [] OTHER           -> i

ValueAt(k) ==
    LET value[n \in 0 .. k] ==
            IF n = 0 THEN Absent
            ELSE IF hist[n] = 0 THEN value[n - 1]
            ELSE Wrote(calls[hist[n]].kind, hist[n], value[n - 1])
    IN  value[k]

TookEffectAt(i, k) == k \in DOMAIN hist /\ hist[k] = i

TookEffect(i) == \E k \in DOMAIN hist : hist[k] = i

(***************************************************************************)
(* The answers an operation may get.                                       *)
(***************************************************************************)
Agrees(i, tag, v) ==
    \/ tag = "done" /\ TookEffect(i)
    \/ tag = "index" /\ TookEffectAt(i, v)
    \/ /\ tag \in {"applied", "not_applied"}
       /\ \E k \in DOMAIN hist :
              /\ hist[k] = i
              /\ (tag = "applied") <=> (ValueAt(k - 1) = Absent)
    \/ /\ tag = "value"
       /\ \E k \in calls[i].floor .. Len(hist) : v = ValueAt(k)
    \/ tag \in Refusals /\ (calls[i].unsure \/ ~TookEffect(i))
    \/ tag \in Unknowns

Init == hist = << >> /\ calls = [i \in Ids |-> NewCall] /\ answer = NoAnswer

Invoke(i, kind) ==
    /\ calls[i].st = "new"
    /\ calls' = [calls EXCEPT ![i].st = "open", ![i].kind = kind,
                              ![i].floor = Len(hist)]
    /\ UNCHANGED <<hist, answer>>

\* A write takes effect while it is open, or after an answer that left its
\* outcome open.
Effect(i) ==
    /\ calls[i].kind \in WriteKinds
    /\ calls[i].st = "open" \/ calls[i].unsure
    /\ ~TookEffect(i)
    /\ hist' = Append(hist, i)
    /\ UNCHANGED <<calls, answer>>

\* A log entry without an effect: a new leader's entry, or a duplicate.
Skip == hist' = Append(hist, 0) /\ UNCHANGED <<calls, answer>>

Return(i, tag, v) ==
    /\ calls[i].st = "open"
    /\ answer' = [id |-> i, tag |-> tag, v |-> v]
    /\ calls' = [calls EXCEPT ![i].st = Closing(tag),
                              ![i].unsure = @ \/ tag \in Unknowns]
    /\ Agrees(i, tag, v)
    /\ UNCHANGED hist

\* The caller repeats a write whose outcome it does not know.
Retry(i) ==
    /\ calls[i].st = "closed" /\ calls[i].unsure
    /\ calls[i].kind \in WriteKinds
    /\ calls' = [calls EXCEPT ![i].st = "open"]
    /\ UNCHANGED <<hist, answer>>

Next ==
    \/ Skip
    \/ \E i \in Ids :
          \/ \E kind \in Kinds : Invoke(i, kind)
          \/ Effect(i)
          \/ \E tag \in Answers, v \in Ids \cup DOMAIN hist \cup {0} :
                Return(i, tag, v)
          \/ Retry(i)

Spec == Init /\ [][Next]_vars
==============================================================================
