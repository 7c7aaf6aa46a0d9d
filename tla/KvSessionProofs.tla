-------------------------- MODULE KvSessionProofs ---------------------------
(***************************************************************************)
(* Proofs about KvReplication, continued: exactly-once sessions and honest *)
(* origin indexes, for any replicas, commands and length of the log.       *)
(*                                                                         *)
(* KvReplicationProofs shows that every replica is at a point of one       *)
(* replay, so what is to be shown is about ref and the log only.           *)
(***************************************************************************)
EXTENDS KvReplicationProofs

\* NoGcBetween, of any log l.
GcFree(l, s, i, j) ==
    \A g \in DOMAIN l :
        (i < g /\ g < j /\ l[g].op = "session_gc") => s \notin l[g].sessions

\* A session names one command.
SessionNames ==
    \A i, j \in DOMAIN log : SameSession(log[i], log[j]) => log[i] = log[j]

\* From the entry of a session on, and until a GC names it, the session has
\* the record that entry left.
RecordsKept ==
    \A i \in DOMAIN log, m \in DOMAIN ref :
        i < m /\ HasSession(log[i]) /\ GcFree(log, log[i].session, i, m)
        => /\ ref[m].sessions[log[i].session] = ref[i + 1].sessions[log[i].session]
           /\ ref[m].sessions[log[i].session] # NoRecord

\* What OriginIndexSound says of the entry e of key k in the store at m.
OriginKnown(e, k, m) ==
    /\ e.index \in 1 .. m - 1
    /\ PutsValue(log[e.index], k) = e.val
    /\ \A i \in 1 .. e.index - 1 :
            SameSession(log[i], log[e.index]) =>
                ~GcFree(log, log[i].session, i, e.index)

OriginsKnown ==
    \A m \in DOMAIN ref, k \in Keys :
        ref[m].kv[k] # NoEntry => OriginKnown(ref[m].kv[k], k, m)

\* The answer of entry i in the replay.
AnswerOf(i) == ApplyCommand(ref[i], i, log[i])

\* Every answer a replica gave is the answer of the replay.
AnswersReplay ==
    \A a \in answers :
        /\ a.at \in DOMAIN log
        /\ a.outcome = AnswerOf(a.at).outcome
        /\ a.effective = AnswerOf(a.at).effective

(***************************************************************************)
(* The inductive invariant.  OneOutcomePerSession compares two answers     *)
(* that may be far apart in the log; what ties them together is the record *)
(* that stays in the table from the first to the second.                   *)
(***************************************************************************)
SInv == IInv /\ SessionNames /\ RecordsKept /\ OriginsKnown /\ AnswersReplay

-----------------------------------------------------------------------------
(* apply                                                                   *)

\* The commands with a session are the session commands.
LEMMA SessionCommands ==
    ASSUME NEW cmd \in Command
    PROVE  /\ HasSession(cmd) <=> cmd \in SessionCommand
           /\ HasSession(cmd) => cmd.session \in Sessions
           /\ cmd.op = "session_gc" <=> cmd \in GcCommand
           /\ cmd.op = "noop" <=> cmd = Noop
<1>1. CASE cmd = Noop
    BY <1>1 DEF Noop, HasSession, SessionCommand, GcCommand
<1>2. CASE cmd \in GcCommand
    BY <1>2 DEF Noop, HasSession, SessionCommand, GcCommand
<1>3. CASE cmd \in SessionCommand
    BY <1>3 DEF Noop, HasSession, SessionCommand, GcCommand
<1> QED
    BY <1>1, <1>2, <1>3 DEF Command

\* A batch answers None the first time too.
LEMMA FirstOutcome ==
    ASSUME NEW kv, NEW i, NEW cmd, cmd.op = "multi_put"
    PROVE  FirstApply(kv, i, cmd).outcome = OutNone
BY DEF FirstApply

\* A record stays in the session table until a GC names its session, whatever
\* is applied, a replay of that session included.
LEMMA KeepsRecord ==
    ASSUME NEW st \in Store, NEW i \in Nat \ {0}, NEW cmd \in Command,
           NEW s \in Sessions, st.sessions[s] # NoRecord,
           ~(cmd.op = "session_gc" /\ s \in cmd.sessions)
    PROVE  ApplyCommand(st, i, cmd).store.sessions[s] = st.sessions[s]
<1>1. CASE cmd = Noop
    BY <1>1 DEF ApplyCommand, ApplyNoop, Noop, Store
<1>2. CASE cmd \in GcCommand
    BY <1>2 DEF ApplyCommand, ApplyGc, GcCommand, Store
<1>3. CASE cmd \in SessionCommand
    <2>1. /\ ApplyCommand(st, i, cmd) = ApplySession(st, i, cmd)
          /\ cmd.session \in Sessions
        BY <1>3 DEF ApplyCommand, SessionCommand
    <2>2. CASE Cached(st, cmd) # NoRecord
        BY <2>1, <2>2 DEF ApplySession, Store
    <2>3. CASE Cached(st, cmd) = NoRecord
        <3>1. cmd.session # s
            BY <2>3 DEF Cached
        <3>2. \E o : ApplySession(st, i, cmd).store.sessions
                       = [st.sessions EXCEPT ![cmd.session] = o]
            BY <2>3, Zenon DEF ApplySession
        <3> QED
            BY <2>1, <3>1, <3>2 DEF Store
    <2> QED
        BY <2>2, <2>3
<1> QED
    BY <1>1, <1>2, <1>3 DEF Command

\* A session command answers the record it finds, or leaves the record of its
\* own answer; the two are told apart by nobody afterwards.
LEMMA AnswerIsRecord ==
    ASSUME NEW st \in Store, NEW i \in Nat \ {0}, NEW cmd \in SessionCommand
    PROVE  LET res == ApplyCommand(st, i, cmd)
               rec == res.store.sessions[cmd.session]
           IN  /\ rec # NoRecord
               /\ res.outcome = IF cmd.op = "multi_put" THEN OutNone ELSE rec.outcome
               /\ res.effective = rec.index
               /\ Cached(st, cmd) # NoRecord => rec = Cached(st, cmd)
<1> DEFINE res == ApplyCommand(st, i, cmd)
           rec == res.store.sessions[cmd.session]
<1>1. res = ApplySession(st, i, cmd) /\ cmd.session \in Sessions
    BY DEF ApplyCommand, SessionCommand
<1>2. CASE Cached(st, cmd) # NoRecord
    <2>1. rec = Cached(st, cmd)
        BY <1>1, <1>2 DEF ApplySession, Cached, Store
    <2>2. /\ res.outcome = IF cmd.op = "multi_put" THEN OutNone
                           ELSE Cached(st, cmd).outcome
          /\ res.effective = Cached(st, cmd).index
        BY <1>1, <1>2 DEF ApplySession
    <2> QED
        BY <1>2, <2>1, <2>2
<1>3. CASE Cached(st, cmd) = NoRecord
    <2> DEFINE w == FirstApply(st.kv, i, cmd)
    <2>1. /\ res.store.sessions = [st.sessions EXCEPT ![cmd.session] =
                                      [outcome |-> w.outcome, index |-> i]]
          /\ res.outcome = w.outcome /\ res.effective = i
        BY <1>1, <1>3 DEF ApplySession
    <2>2. cmd.op = "multi_put" => w.outcome = OutNone
        BY FirstOutcome
    <2> HIDE DEF w, res
    <2>3. rec = [outcome |-> w.outcome, index |-> i]
        BY <1>1, <2>1 DEF Store
    <2>4. rec # NoRecord /\ rec.outcome = w.outcome /\ rec.index = i
        BY <2>3 DEF NoRecord
    <2> QED
        BY <1>3, <2>1, <2>2, <2>4 DEF res
<1> QED
    BY <1>2, <1>3

\* A key keeps its entry, loses it, or gets the value of this command under
\* this index, and the last only if the command was not answered from the
\* session table.
LEMMA WritesOwnValue ==
    ASSUME NEW st \in Store, NEW i \in Nat \ {0}, NEW cmd \in Command,
           NEW k \in Keys
    PROVE  LET e == ApplyCommand(st, i, cmd).store.kv[k]
           IN  \/ e \in {st.kv[k], NoEntry}
               \/ /\ HasSession(cmd) /\ Cached(st, cmd) = NoRecord
                  /\ e = [val |-> PutsValue(cmd, k), index |-> i]
<1> DEFINE res == ApplyCommand(st, i, cmd)
           e == res.store.kv[k]
<1>1. CASE cmd = Noop
    BY <1>1 DEF ApplyCommand, ApplyNoop, Noop, Store
<1>2. CASE cmd \in GcCommand
    BY <1>2 DEF ApplyCommand, ApplyGc, GcCommand, Store
<1>3. CASE cmd \in SessionCommand /\ Cached(st, cmd) # NoRecord
    BY <1>3 DEF ApplyCommand, ApplySession, SessionCommand, Store
<1>4. CASE cmd \in SessionCommand /\ Cached(st, cmd) = NoRecord
    <2> DEFINE w == FirstApply(st.kv, i, cmd)
    <2>1. res.store.kv = w.kv /\ HasSession(cmd)
        BY <1>4 DEF ApplyCommand, ApplySession, SessionCommand, HasSession
    <2>2. st.kv \in [Keys -> Entry \cup {NoEntry}]
        BY DEF Store
    <2> SUFFICES w.kv[k] \in {st.kv[k], NoEntry, [val |-> PutsValue(cmd, k), index |-> i]}
        BY <1>4, <2>1
    <2>3. CASE cmd \in [op : {"put"}, session : Sessions, key : Keys, val : Vals]
        BY <2>2, <2>3 DEF FirstApply, PutsValue
    <2>4. CASE cmd \in [op : {"delete"}, session : Sessions, key : Keys]
        BY <2>2, <2>4 DEF FirstApply
    <2>5. CASE cmd \in [op : {"multi_put"}, session : Sessions,
                        entries : Seq(Keys \X Vals)]
        BY <2>2, <2>5 DEF FirstApply, PutsValue
    <2>6. CASE cmd \in [op : {"cas"}, session : Sessions, key : Keys,
                        pred : CasPred, success : CasOp]
        <3> DEFINE current == st.kv[cmd.key]
        <3>1. CASE ~Matches(cmd.pred, current)
            BY <2>6, <3>1 DEF FirstApply
        <3>2. CASE Matches(cmd.pred, current) /\ cmd.success.kind = "put"
            <4>1. w.kv = [st.kv EXCEPT ![cmd.key] =
                              [val |-> cmd.success.val, index |-> i]]
                BY <2>6, <3>2 DEF FirstApply
            <4>2. k = cmd.key => PutsValue(cmd, k) = cmd.success.val
                BY <2>6, <3>2 DEF PutsValue
            <4> QED
                BY <2>2, <4>1, <4>2
        <3>3. CASE Matches(cmd.pred, current) /\ cmd.success.kind # "put"
            <4>1. w.kv = [st.kv EXCEPT ![cmd.key] = NoEntry]
                BY <2>6, <3>3 DEF FirstApply
            <4> QED
                BY <2>2, <4>1
        <3> QED
            BY <3>1, <3>2, <3>3
    <2> QED
        BY <1>4, <2>3, <2>4, <2>5, <2>6 DEF SessionCommand
<1> QED
    BY <1>1, <1>2, <1>3, <1>4 DEF Command

-----------------------------------------------------------------------------
(* The inductive invariant                                                 *)

\* What committing cmd adds: one command, one store, the rest as before.
LEMMA CommitAdds ==
    ASSUME IInv, NEW cmd \in Commands, Commit(cmd)
    PROVE  LET n == Len(log)
           IN  /\ n \in Nat /\ DOMAIN log = 1 .. n /\ DOMAIN log' = 1 .. n + 1
               /\ DOMAIN ref = 1 .. n + 1 /\ DOMAIN ref' = 1 .. n + 2
               /\ \A i \in 1 .. n : log'[i] = log[i] /\ log[i] \in Command
               /\ log'[n + 1] = cmd /\ cmd \in Command
               /\ \A i \in 1 .. n + 1 : ref'[i] = ref[i] /\ ref[i] \in Store
               /\ ref'[n + 2] = ApplyCommand(ref[n + 1], n + 1, cmd).store
<1> DEFINE n == Len(log)
<1>1. /\ n \in Nat /\ DOMAIN log = 1 .. n /\ DOMAIN ref = 1 .. n + 1
      /\ \A i \in DOMAIN log : log[i] \in Commands
      /\ \A i \in DOMAIN ref : ref[i] \in Store
      /\ log \in Seq(Commands)
    BY ReplayDomains DEF IInv, ReplayShape
<1>2. /\ ReplayShape' /\ FollowsLog'
      /\ \A i \in DOMAIN ref : i \in DOMAIN ref' /\ ref'[i] = ref[i]
    BY CommitExtends
<1>3. log' = Append(log, cmd)
    BY DEF Commit
<1>4. /\ Len(log') = n + 1 /\ DOMAIN log' = 1 .. n + 1
      /\ \A i \in 1 .. n : log'[i] = log[i]
      /\ log'[n + 1] = cmd
    BY ONLY <1>1, <1>3, cmd \in Commands
<1>5. DOMAIN ref' = 1 .. n + 2
    BY <1>1, <1>2, <1>4 DEF ReplayShape
<1>6. ref'[n + 2] = ApplyCommand(ref[n + 1], n + 1, cmd).store
    <2>1. n + 1 \in DOMAIN log' /\ (n + 1) + 1 = n + 2 /\ n + 1 \in DOMAIN ref
        BY ONLY <1>1, <1>4
    <2>2. ref'[(n + 1) + 1] = ApplyCommand(ref'[n + 1], n + 1, log'[n + 1]).store
        BY <1>2, <2>1 DEF FollowsLog
    <2> QED
        BY <1>2, <1>4, <2>1, <2>2
<1> QED
    BY <1>1, <1>2, <1>4, <1>5, <1>6, CommandsAssumption

\* A longer log does not change what lies between two of its old entries.
LEMMA BetweenOldEntries ==
    ASSUME IInv, NEW cmd \in Commands, Commit(cmd),
           NEW s, NEW i, NEW j \in 1 .. Len(log) + 1
    PROVE  GcFree(log', s, i, j) <=> GcFree(log, s, i, j)
<1>1. /\ Len(log) \in Nat /\ DOMAIN log = 1 .. Len(log)
      /\ DOMAIN log' = 1 .. Len(log) + 1
      /\ \A g \in 1 .. Len(log) : log'[g] = log[g]
    BY CommitAdds
<1>2. \A g \in DOMAIN log' : g < j => g \in DOMAIN log
    BY ONLY <1>1, j \in 1 .. Len(log) + 1
<1>3. \A g \in DOMAIN log : g \in DOMAIN log' /\ log'[g] = log[g]
    BY ONLY <1>1
<1> QED
    BY <1>2, <1>3 DEF GcFree

\* Committing keeps a session's record in every store behind its entry.
LEMMA CommitKeepsRecords ==
    ASSUME SInv, NEW cmd \in Commands, Commit(cmd)
    PROVE  RecordsKept'
<1> DEFINE n == Len(log)
<1> SUFFICES ASSUME NEW i \in DOMAIN log', NEW m \in DOMAIN ref', i < m,
                    HasSession(log'[i]), GcFree(log', log'[i].session, i, m)
             PROVE  /\ ref'[m].sessions[log'[i].session]
                         = ref'[i + 1].sessions[log'[i].session]
                    /\ ref'[m].sessions[log'[i].session] # NoRecord
    BY DEF RecordsKept
<1> DEFINE s == log'[i].session
<1>0. IInv
    BY DEF SInv
<1>1. /\ n \in Nat /\ DOMAIN log = 1 .. n /\ DOMAIN log' = 1 .. n + 1
      /\ DOMAIN ref = 1 .. n + 1 /\ DOMAIN ref' = 1 .. n + 2
      /\ \A g \in 1 .. n : log'[g] = log[g] /\ log[g] \in Command
      /\ log'[n + 1] = cmd /\ cmd \in Command
      /\ \A g \in 1 .. n + 1 : ref'[g] = ref[g] /\ ref[g] \in Store
      /\ ref'[n + 2] = ApplyCommand(ref[n + 1], n + 1, cmd).store
    BY <1>0, CommitAdds, Zenon
<1>2. CASE i = n + 1
    <2>1. m = n + 2 /\ i + 1 = n + 2
        BY <1>1, <1>2
    <2>2. cmd \in SessionCommand
        BY <1>1, <1>2, SessionCommands
    <2>3. ref[n + 1] \in Store /\ n + 1 \in Nat \ {0}
        BY <1>1
    <2>4. ref'[n + 2].sessions[cmd.session] # NoRecord
        BY <1>1, <2>2, <2>3, AnswerIsRecord
    <2> QED
        BY <1>1, <1>2, <2>1, <2>4
<1>3. CASE i \in 1 .. n /\ m \in 1 .. n + 1
    <2>1. log'[i] = log[i] /\ ref'[m] = ref[m] /\ ref'[i + 1] = ref[i + 1]
        BY <1>1, <1>3
    <2>2. GcFree(log, log[i].session, i, m)
        BY <1>0, <1>3, <2>1, BetweenOldEntries
    <2> QED
        BY <1>1, <1>3, <2>1, <2>2 DEF SInv, RecordsKept
<1>4. CASE i \in 1 .. n /\ m = n + 2
    <2>1. /\ log'[i] = log[i] /\ ref'[i + 1] = ref[i + 1] /\ log[i] \in Command
          /\ n + 1 \in DOMAIN ref /\ i < n + 1 /\ n + 1 \in Nat \ {0}
          /\ ref[n + 1] \in Store
        BY <1>1, <1>4
    <2>2. /\ GcFree(log', s, i, n + 1)
          /\ ~(cmd.op = "session_gc" /\ s \in cmd.sessions)
        BY <1>1, <1>4, <2>1 DEF GcFree
    <2>3. GcFree(log, log[i].session, i, n + 1)
        BY <1>0, <1>1, <2>1, <2>2, BetweenOldEntries
    <2>4. /\ ref[n + 1].sessions[log[i].session] = ref[i + 1].sessions[log[i].session]
          /\ ref[n + 1].sessions[log[i].session] # NoRecord
        BY <1>1, <1>4, <2>1, <2>3 DEF SInv, RecordsKept
    <2>5. s \in Sessions /\ s = log[i].session
        BY <2>1, SessionCommands
    <2>6. ref'[n + 2].sessions[s] = ref[n + 1].sessions[s]
        BY ONLY <1>1, <2>1, <2>2, <2>4, <2>5, KeepsRecord
    <2> QED
        BY <1>4, <2>1, <2>4, <2>5, <2>6
<1> QED
    BY <1>1, <1>2, <1>3, <1>4

\* The origin of an entry is where it was when the log gets longer.
LEMMA OriginStays ==
    ASSUME SInv, NEW cmd \in Commands, Commit(cmd),
           NEW m \in DOMAIN ref, NEW k, NEW e, OriginKnown(e, k, m),
           NEW j \in Nat, m <= j
    PROVE  /\ e.index \in 1 .. j - 1
           /\ PutsValue(log'[e.index], k) = e.val
           /\ \A i \in 1 .. e.index - 1 :
                SameSession(log'[i], log'[e.index]) =>
                    ~GcFree(log', log'[i].session, i, e.index)
<1>0. IInv
    BY DEF SInv
<1>1. /\ Len(log) \in Nat /\ m \in 1 .. Len(log) + 1
      /\ \A g \in 1 .. Len(log) : log'[g] = log[g]
    BY <1>0, CommitAdds
<1>2. /\ e.index \in 1 .. m - 1
      /\ PutsValue(log[e.index], k) = e.val
      /\ \A i \in 1 .. e.index - 1 :
            SameSession(log[i], log[e.index]) =>
                ~GcFree(log, log[i].session, i, e.index)
    BY DEF OriginKnown
<1>3. /\ e.index \in 1 .. Len(log) /\ e.index \in 1 .. Len(log) + 1
      /\ e.index \in 1 .. j - 1
      /\ \A i \in 1 .. e.index - 1 : i \in 1 .. Len(log)
    BY <1>1, <1>2
<1>4. /\ log'[e.index] = log[e.index]
      /\ \A i \in 1 .. e.index - 1 : log'[i] = log[i]
    BY <1>1, <1>3
<1>5. \A i \in 1 .. e.index - 1 :
            GcFree(log', log[i].session, i, e.index)
                <=> GcFree(log, log[i].session, i, e.index)
    BY <1>0, <1>3, BetweenOldEntries
<1> QED
    BY <1>2, <1>3, <1>4, <1>5

\* Committing keeps origins honest: the entry that gives a key a new origin
\* was not in the session table, so no earlier entry of its session counts.
LEMMA CommitKeepsOrigins ==
    ASSUME SInv, NEW cmd \in Commands, Commit(cmd)
    PROVE  OriginsKnown'
<1> DEFINE n == Len(log)
<1> SUFFICES ASSUME NEW m \in DOMAIN ref', NEW k \in Keys, NEW e, e = ref'[m].kv[k],
                    e # NoEntry
             PROVE  /\ e.index \in 1 .. m - 1
                    /\ PutsValue(log'[e.index], k) = e.val
                    /\ \A i \in 1 .. e.index - 1 :
                            SameSession(log'[i], log'[e.index]) =>
                                ~GcFree(log', log'[i].session, i, e.index)
    BY DEF OriginsKnown, OriginKnown
<1>0. IInv
    BY DEF SInv
<1>1. /\ n \in Nat /\ DOMAIN log = 1 .. n /\ DOMAIN log' = 1 .. n + 1
      /\ DOMAIN ref = 1 .. n + 1 /\ DOMAIN ref' = 1 .. n + 2
      /\ \A g \in 1 .. n : log'[g] = log[g] /\ log[g] \in Command
      /\ log'[n + 1] = cmd /\ cmd \in Command
      /\ \A g \in 1 .. n + 1 : ref'[g] = ref[g] /\ ref[g] \in Store
      /\ ref'[n + 2] = ApplyCommand(ref[n + 1], n + 1, cmd).store
    BY <1>0, CommitAdds
<1>2. m \in Nat
    BY <1>1
<1>3. CASE m \in 1 .. n + 1
    <2>1. OriginKnown(e, k, m)
        BY <1>1, <1>3 DEF SInv, OriginsKnown
    <2> QED
        BY <1>1, <1>2, <1>3, <2>1, OriginStays
<1>4. CASE m = n + 2 /\ e = ref[n + 1].kv[k]
    <2>1. n + 1 \in DOMAIN ref /\ n + 1 <= m
        BY <1>1, <1>4
    <2>2. OriginKnown(e, k, n + 1)
        BY <1>4, <2>1 DEF SInv, OriginsKnown
    <2> QED
        BY <1>2, <2>1, <2>2, OriginStays
<1>5. CASE /\ m = n + 2 /\ HasSession(cmd) /\ Cached(ref[n + 1], cmd) = NoRecord
           /\ e = [val |-> PutsValue(cmd, k), index |-> n + 1]
    <2>1. e.index = n + 1 /\ e.val = PutsValue(cmd, k)
        BY <1>5
    <2>2. ASSUME NEW i \in 1 .. n, SameSession(log'[i], cmd),
                 GcFree(log', log'[i].session, i, n + 1)
          PROVE  FALSE
        <3>1. /\ log'[i] = log[i] /\ n + 1 \in DOMAIN ref /\ i < n + 1 /\ i \in DOMAIN log
              /\ n + 1 \in 1 .. n + 1
            BY <1>1, <2>2
        <3>2. GcFree(log, log[i].session, i, n + 1)
            BY <1>0, <2>2, <3>1, BetweenOldEntries
        <3>3. HasSession(log[i]) /\ log[i].session = cmd.session
            BY <2>2, <3>1 DEF SameSession
        <3>4. ref[n + 1].sessions[log[i].session] # NoRecord
            BY <3>1, <3>2, <3>3 DEF SInv, RecordsKept
        <3> QED
            BY <1>5, <3>3, <3>4 DEF Cached
    <2>3. e.index \in 1 .. m - 1 /\ 1 .. e.index - 1 = 1 .. n
        BY <1>1, <1>5, <2>1
    <2> QED
        BY <1>1, <2>1, <2>2, <2>3
<1>6. ASSUME m = n + 2
      PROVE  \/ e = ref[n + 1].kv[k]
             \/ /\ HasSession(cmd) /\ Cached(ref[n + 1], cmd) = NoRecord
                /\ e = [val |-> PutsValue(cmd, k), index |-> n + 1]
    <2>1. ref[n + 1] \in Store /\ n + 1 \in Nat \ {0}
        BY <1>1
    <2>2. e = ApplyCommand(ref[n + 1], n + 1, cmd).store.kv[k]
        BY <1>1, <1>6
    <2> QED
        BY ONLY <1>1, <2>1, <2>2, k \in Keys, e # NoEntry, WritesOwnValue
<1>7. m \in 1 .. n + 1 \/ m = n + 2
    BY <1>1
<1>8. CASE m = n + 2
    BY <1>4, <1>5, <1>6, <1>8, Zenon
<1> QED
    BY <1>3, <1>7, <1>8, Zenon

\* A replica answers what the replay answers.
LEMMA ApplyAnswers ==
    ASSUME SInv, NEW r \in Replicas, Apply(r)
    PROVE  AnswersReplay'
<1> DEFINE i == store[r].applied + 1
           res == ApplyCommand(store[r], i, log[i])
<1>1. /\ i \in DOMAIN log /\ log' = log /\ ref' = ref
      /\ answers' = answers \cup
            {[at |-> i, outcome |-> res.outcome, effective |-> res.effective]}
    BY DEF Apply
<1>2. store[r] = ref[i]
    BY DEF SInv, IInv, OnReplay, InReplay
<1>3. res = AnswerOf(i)
    BY <1>2 DEF AnswerOf
<1> HIDE DEF res, i
<1>4. \A a \in answers' :
            /\ a.at \in DOMAIN log
            /\ a.outcome = AnswerOf(a.at).outcome
            /\ a.effective = AnswerOf(a.at).effective
    BY <1>1, <1>3 DEF SInv, AnswersReplay
<1> QED
    BY <1>1, <1>4 DEF AnswersReplay, AnswerOf

\* Committing leaves the answers of the entries before it alone.
LEMMA CommitKeepsAnswers ==
    ASSUME SInv, NEW cmd \in Commands, Commit(cmd)
    PROVE  AnswersReplay' /\ SessionNames'
<1> DEFINE n == Len(log)
<1>0. IInv /\ AnswersReplay /\ SessionNames
    BY DEF SInv
<1>1. /\ n \in Nat /\ DOMAIN log = 1 .. n /\ DOMAIN log' = 1 .. n + 1
      /\ \A g \in 1 .. n : log'[g] = log[g]
      /\ log'[n + 1] = cmd
      /\ \A g \in 1 .. n + 1 : ref'[g] = ref[g]
    BY <1>0, CommitAdds
<1>2. /\ answers' = answers
      /\ \A i \in DOMAIN log : SameSession(log[i], cmd) => log[i] = cmd
    BY DEF Commit
<1>3. \A i \in DOMAIN log : i \in DOMAIN log' /\ log'[i] = log[i] /\ ref'[i] = ref[i]
    BY <1>1
<1>4. AnswersReplay'
    BY <1>0, <1>2, <1>3 DEF AnswersReplay, AnswerOf
<1>5. \A i \in DOMAIN log' : i \in DOMAIN log \/ log'[i] = cmd
    BY <1>1
<1>6. SessionNames'
    BY <1>0, <1>2, <1>3, <1>5 DEF SessionNames, SameSession
<1> QED
    BY <1>4, <1>6

\* The invariant holds in every state.
LEMMA SInvHolds == Spec => []SInv
<1>1. Init => SInv
    <2> SUFFICES ASSUME Init
                 PROVE  SInv
        OBVIOUS
    <2>1. log = << >> /\ ref = <<EmptyStore>> /\ answers = {} /\ IInv
        BY InitIInv DEF Init
    <2>2. DOMAIN log = {} /\ DOMAIN ref = {1} /\ ref[1] = EmptyStore
        BY <2>1
    <2>3. \A k \in Keys : EmptyStore.kv[k] = NoEntry
        BY DEF EmptyStore
    <2> QED
        BY <2>1, <2>2, <2>3
           DEF SInv, SessionNames, RecordsKept, OriginsKnown, AnswersReplay
<1>2. SInv /\ [Next]_vars => SInv'
    <2> SUFFICES ASSUME SInv, [Next]_vars
                 PROVE  SInv'
        OBVIOUS
    <2>1. IInv'
        BY NextIInv DEF SInv
    <2>2. UNCHANGED <<log, ref>> => SessionNames' /\ RecordsKept' /\ OriginsKnown'
        <3>1. UNCHANGED <<log, ref>> => SessionNames'
            BY ONLY SInv DEF SInv, SessionNames
        <3>2. UNCHANGED <<log, ref>> => RecordsKept'
            BY ONLY SInv DEF SInv, RecordsKept
        <3>3. UNCHANGED <<log, ref>> => OriginsKnown'
            BY ONLY SInv DEF SInv, OriginsKnown, OriginKnown
        <3> QED
            BY ONLY <3>1, <3>2, <3>3, Zenon
    <2>3. UNCHANGED <<log, ref, answers>> => AnswersReplay'
        BY DEF SInv, AnswersReplay, AnswerOf
    <2>4. ASSUME NEW cmd \in Commands, Commit(cmd)
          PROVE  SInv'
        BY <2>1, <2>4, CommitKeepsRecords, CommitKeepsOrigins, CommitKeepsAnswers
           DEF SInv
    <2>5. ASSUME NEW r \in Replicas, Apply(r)
          PROVE  SInv'
        <3>1. UNCHANGED <<log, ref>>
            BY <2>5 DEF Apply
        <3> QED
            BY <2>1, <2>2, <2>5, <3>1, ApplyAnswers DEF SInv
    <2>6. CASE UNCHANGED <<log, ref, answers>>
        BY <2>1, <2>2, <2>3, <2>6 DEF SInv
    <2>7. ASSUME NEW r \in Replicas, TakeSnapshot(r) \/ Crash(r)
          PROVE  UNCHANGED <<log, ref, answers>>
        BY <2>7 DEF TakeSnapshot, Crash
    <2>8. ASSUME NEW r \in Replicas, NEW from \in Replicas, InstallSnapshot(r, from)
          PROVE  UNCHANGED <<log, ref, answers>>
        BY <2>8 DEF InstallSnapshot
    <2>9. UNCHANGED vars => UNCHANGED <<log, ref, answers>>
        BY DEF vars
    <2> QED
        BY <2>4, <2>5, <2>6, <2>7, <2>8, <2>9 DEF Next
<1> QED
    BY <1>1, <1>2, PTL DEF Spec

-----------------------------------------------------------------------------

\* A retry that reaches the log again answers what the first attempt answered.
LEMMA RetryAnswers ==
    ASSUME SInv, NEW i \in DOMAIN log, NEW j \in DOMAIN log, i < j,
           SameSession(log[i], log[j]), NoGcBetween(log[i].session, i, j)
    PROVE  /\ AnswerOf(i).outcome = AnswerOf(j).outcome
           /\ AnswerOf(i).effective = AnswerOf(j).effective
<1> DEFINE cmd == log[i]
           s == cmd.session
<1>1. /\ Len(log) \in Nat /\ DOMAIN log = 1 .. Len(log)
      /\ DOMAIN ref = 1 .. Len(log) + 1
      /\ \A g \in DOMAIN log : log[g] \in Command
      /\ \A g \in DOMAIN ref : ref[g] \in Store
    BY ReplayDomains, CommandsAssumption DEF SInv, IInv
<1>2. /\ i \in Nat \ {0} /\ j \in Nat \ {0} /\ j \in DOMAIN ref
      /\ ref[i] \in Store /\ ref[j] \in Store /\ cmd \in Command
    BY <1>1
<1>3. log[j] = cmd /\ HasSession(cmd)
    BY DEF SInv, SessionNames, SameSession
<1>4. cmd \in SessionCommand
    BY <1>2, <1>3, SessionCommands
<1>5. ref[j].sessions[s] = ref[i + 1].sessions[s] /\ ref[j].sessions[s] # NoRecord
    BY <1>2, <1>3 DEF SInv, RecordsKept, NoGcBetween, GcFree
<1>6. ref[i + 1] = AnswerOf(i).store
    BY DEF SInv, IInv, FollowsLog, AnswerOf
<1>7. /\ AnswerOf(i).outcome = IF cmd.op = "multi_put" THEN OutNone
                               ELSE ref[i + 1].sessions[s].outcome
      /\ AnswerOf(i).effective = ref[i + 1].sessions[s].index
    BY ONLY <1>2, <1>4, <1>6, AnswerIsRecord DEF AnswerOf
<1>8. Cached(ref[j], cmd) = ref[j].sessions[s]
    BY DEF Cached
<1>9. /\ AnswerOf(j).outcome = IF cmd.op = "multi_put" THEN OutNone
                               ELSE ref[j].sessions[s].outcome
      /\ AnswerOf(j).effective = ref[j].sessions[s].index
    <2>1. Cached(ref[j], cmd) # NoRecord
        BY <1>5, <1>8
    <2> QED
        BY ONLY <1>2, <1>3, <1>4, <1>8, <2>1, AnswerIsRecord DEF AnswerOf
<1> QED
    BY <1>5, <1>7, <1>9

\* Exactly once, for any number of replicas, any commands and any log: every
\* application of a session's command, on every replica, through snapshots,
\* installs and restarts, answers the same outcome and effective index until a
\* GC names the session (apply_with_events_and_index).
THEOREM ExactlyOnce == Spec => []OneOutcomePerSession
<1>1. SInv => OneOutcomePerSession
    <2> SUFFICES ASSUME SInv, NEW a \in answers, NEW b \in answers, a.at <= b.at,
                        SameSession(log[a.at], log[b.at]),
                        NoGcBetween(log[a.at].session, a.at, b.at)
                 PROVE  a.outcome = b.outcome /\ a.effective = b.effective
        BY DEF OneOutcomePerSession
    <2>1. /\ a.at \in DOMAIN log /\ b.at \in DOMAIN log
          /\ a.outcome = AnswerOf(a.at).outcome /\ a.effective = AnswerOf(a.at).effective
          /\ b.outcome = AnswerOf(b.at).outcome /\ b.effective = AnswerOf(b.at).effective
        BY DEF SInv, AnswersReplay
    <2>2. a.at \in Nat /\ b.at \in Nat
        BY DEF SInv, IInv, Answer
    <2>3. CASE a.at = b.at
        BY <2>1, <2>3
    <2>4. CASE a.at < b.at
        BY <2>1, <2>4, RetryAnswers
    <2> QED
        BY <2>2, <2>3, <2>4
<1> QED
    BY <1>1, SInvHolds, PTL

\* Origin indexes are honest on every replica, for any number of replicas, any
\* commands and any log: the entry a key names as its origin is applied, wrote
\* that value, and was not a replay.
THEOREM OriginsHonest == Spec => []OriginIndexSound
<1>1. SInv => OriginIndexSound
    <2> SUFFICES ASSUME SInv, NEW r \in Replicas, NEW k \in Keys,
                        store[r].kv[k] # NoEntry
                 PROVE  /\ store[r].kv[k].index \in 1 .. store[r].applied
                        /\ PutsValue(log[store[r].kv[k].index], k) = store[r].kv[k].val
                        /\ \A i \in 1 .. store[r].kv[k].index - 1 :
                             SameSession(log[i], log[store[r].kv[k].index]) =>
                                ~NoGcBetween(log[i].session, i, store[r].kv[k].index)
        BY DEF OriginIndexSound
    <2> DEFINE m == store[r].applied + 1
               e == store[r].kv[k]
    <2>1. m \in DOMAIN ref /\ store[r] = ref[m] /\ store[r].applied \in Nat
        BY DEF SInv, IInv, OnReplay, InReplay, Store
    <2>2. OriginKnown(e, k, m)
        BY <2>1 DEF SInv, OriginsKnown
    <2>3. m - 1 = store[r].applied
        BY <2>1
    <2> QED
        BY <2>2, <2>3 DEF OriginKnown, NoGcBetween, GcFree
<1> QED
    BY <1>1, SInvHolds, PTL

=============================================================================
