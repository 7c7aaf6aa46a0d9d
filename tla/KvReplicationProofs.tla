------------------------ MODULE KvReplicationProofs -------------------------
(***************************************************************************)
(* Proofs about KvReplication, for any replicas, keys, values, sessions,   *)
(* commands and length of the log.                                         *)
(*                                                                         *)
(* The argument for ReplicasAgree: applying is a function of the store and *)
(* the entry, and a snapshot decodes to the store it was taken from, so    *)
(* every replica holds ref at its own applied index (IInv).                *)
(***************************************************************************)
EXTENDS KvReplication, WellFoundedInduction, TLAPS

-----------------------------------------------------------------------------
(* snapshot and restore                                                    *)

\* decode_store inverts snapshot on the three outcome encodings.
LEMMA OutcomeRoundTrip ==
    ASSUME NEW o \in Outcome
    PROVE  DecodeOutcome(EncodeOutcome(o)) = o
<1>1. CASE o = OutNone
  BY <1>1 DEF DecodeOutcome, EncodeOutcome, OutNone
<1>2. CASE o \in [tag : {"value"}, index : {0}, val : Vals]
  BY <1>2 DEF DecodeOutcome, EncodeOutcome, OutValue
<1>3. CASE o \in [tag : {"cas_failed"}, index : Nat, val : Vals \cup {NoVal}]
  BY <1>3 DEF DecodeOutcome, EncodeOutcome, OutCasFailed
<1> QED
  BY <1>1, <1>2, <1>3 DEF Outcome

\* A snapshot restores exactly the store it was taken from: the present
\* entries with their origin indexes, and every session's record.
THEOREM SnapshotRoundTrip ==
    ASSUME NEW st \in Store
    PROVE  Decode(Encode(st)) = st
<1> DEFINE e == Encode(st)
<1>1. /\ e.applied = st.applied
      /\ e.kv = {<<k, st.kv[k].val, st.kv[k].index>> :
                    k \in {x \in Keys : st.kv[x] # NoEntry}}
      /\ e.sessions = {<<s, EncodeOutcome(st.sessions[s].outcome),
                         st.sessions[s].index>> :
                    s \in {x \in Sessions : st.sessions[x] # NoRecord}}
  BY DEF Encode
<1>2. ASSUME NEW k \in Keys
      PROVE  (IF Lists(e.kv, k) THEN DecodeEntry(Find(e.kv, k)) ELSE NoEntry)
                = st.kv[k]
  <2>1. CASE st.kv[k] = NoEntry
    <3>1. ~Lists(e.kv, k)
      BY <1>1, <2>1 DEF Lists
    <3> QED
      BY <2>1, <3>1
  <2>2. CASE st.kv[k] # NoEntry
    <3> DEFINE t == <<k, st.kv[k].val, st.kv[k].index>>
    <3>1. t \in e.kv /\ t[1] = k
      BY <1>1, <2>2
    <3>2. \A u \in e.kv : u[1] = k => u = t
      BY <1>1
    <3>3. Find(e.kv, k) = t
      BY <3>1, <3>2 DEF Find
    <3>4. st.kv[k] \in Entry
      BY <2>2 DEF Store
    <3>5. DecodeEntry(t) = st.kv[k]
      BY <3>4 DEF DecodeEntry, Entry
    <3>6. Lists(e.kv, k)
      BY <3>1 DEF Lists
    <3> QED
      BY <3>3, <3>5, <3>6
  <2> QED
    BY <2>1, <2>2
<1>3. ASSUME NEW s \in Sessions
      PROVE  (IF Lists(e.sessions, s) THEN DecodeRecord(Find(e.sessions, s))
              ELSE NoRecord) = st.sessions[s]
  <2>1. CASE st.sessions[s] = NoRecord
    <3>1. ~Lists(e.sessions, s)
      BY <1>1, <2>1 DEF Lists
    <3> QED
      BY <2>1, <3>1
  <2>2. CASE st.sessions[s] # NoRecord
    <3> DEFINE t == <<s, EncodeOutcome(st.sessions[s].outcome),
                      st.sessions[s].index>>
    <3>1. t \in e.sessions /\ t[1] = s
      BY <1>1, <2>2
    <3>2. \A u \in e.sessions : u[1] = s => u = t
      BY <1>1
    <3>3. Find(e.sessions, s) = t
      BY <3>1, <3>2 DEF Find
    <3>4. st.sessions[s] \in Record
      BY <2>2 DEF Store
    <3>5. DecodeOutcome(EncodeOutcome(st.sessions[s].outcome))
            = st.sessions[s].outcome
      BY <3>4, OutcomeRoundTrip DEF Record
    <3>6. DecodeRecord(t) = st.sessions[s]
      BY <3>4, <3>5 DEF DecodeRecord, Record
    <3>7. Lists(e.sessions, s)
      BY <3>1 DEF Lists
    <3> QED
      BY <3>3, <3>6, <3>7
  <2> QED
    BY <2>1, <2>2
<1> HIDE DEF e
<1>4. [k \in Keys |-> IF Lists(e.kv, k) THEN DecodeEntry(Find(e.kv, k))
                      ELSE NoEntry] = st.kv
  BY <1>2 DEF Store
<1>5. [s \in Sessions |-> IF Lists(e.sessions, s)
                          THEN DecodeRecord(Find(e.sessions, s))
                          ELSE NoRecord] = st.sessions
  BY <1>3 DEF Store
<1>6. st = [applied |-> st.applied, kv |-> st.kv, sessions |-> st.sessions]
  BY DEF Store
<1>7. Decode(e) = st
  BY <1>1, <1>4, <1>5, <1>6, Zenon DEF Decode
<1> QED
  BY <1>7 DEF e

-----------------------------------------------------------------------------
(* apply                                                                   *)

\* A non-empty set of naturals has a least member.
LEMMA LeastNatural ==
    ASSUME NEW S, S \subseteq Nat, S # {}
    PROVE  \E x \in S : \A y \in S : x <= y
<1>1. PICK x \in S : \A y \in S : ~(<<y, x>> \in OpToRel(<, Nat))
  BY NatLessThanWellFounded, WFMin, Zenon
<1>2. \A y \in S : ~(y < x)
  BY <1>1, Zenon DEF OpToRel
<1> QED
  BY <1>2

\* A non-empty set of positions of a sequence has a last one.
LEMMA LastPosition ==
    ASSUME NEW N \in Nat, NEW S, S \subseteq 1 .. N, S # {}
    PROVE  \E x \in S : \A y \in S : y <= x
<1> DEFINE D == {N - n : n \in S}
<1>1. D \subseteq Nat
  OBVIOUS
<1>2. PICK d \in D : \A y \in D : d <= y
  <2>1. PICK n \in S : TRUE
    BY Zenon
  <2>2. N - n \in D
    BY <2>1
  <2> QED
    BY <1>1, <2>2, LeastNatural, Zenon
<1>3. PICK x \in S : d = N - x
  BY <1>2
<1>4. \A y \in S : N - y \in D
  OBVIOUS
<1>5. \A y \in S : N - x <= N - y
  BY ONLY <1>2, <1>3, <1>4, Zenon
<1>6. \A y, z \in 1 .. N : N - z <= N - y => y <= z
  OBVIOUS
<1> QED
  BY <1>3, <1>5, <1>6, Zenon

\* LastValue of a key that occurs is one of the values of the batch.
LEMMA LastValueType ==
    ASSUME NEW es \in Seq(Keys \X Vals), NEW k, Occurrences(es, k) # {}
    PROVE  LastValue(es, k) \in Vals
<1> DEFINE O == Occurrences(es, k)
<1>1. O \subseteq 1 .. Len(es)
  BY DEF Occurrences
<1>2. \E n \in O : \A m \in O : m <= n
  <2>1. O # {} /\ Len(es) \in Nat
    OBVIOUS
  <2> HIDE DEF O
  <2> QED
    BY <1>1, <2>1, LastPosition, Zenon
<1> DEFINE x == CHOOSE n \in O : \A m \in O : m <= n
<1>3. x \in 1 .. Len(es)
  BY <1>1, <1>2
<1>4. LastValue(es, k) = es[x][2]
  BY DEF LastValue
<1> HIDE DEF x
<1> QED
  BY <1>3, <1>4

\* A first application writes well-formed entries and answers an outcome.
LEMMA FirstApplyType ==
    ASSUME NEW kv \in [Keys -> Entry \cup {NoEntry}],
           NEW i \in Nat \ {0},
           NEW cmd \in SessionCommand
    PROVE  /\ FirstApply(kv, i, cmd).kv \in [Keys -> Entry \cup {NoEntry}]
           /\ FirstApply(kv, i, cmd).outcome \in Outcome
<1> DEFINE w == FirstApply(kv, i, cmd)
<1>1. CASE cmd \in [op : {"put"}, session : Sessions, key : Keys, val : Vals]
  BY <1>1 DEF FirstApply, Outcome, OutValue, Entry
<1>2. CASE cmd \in [op : {"delete"}, session : Sessions, key : Keys]
  BY <1>2 DEF FirstApply, Outcome
<1>3. CASE cmd \in [op : {"multi_put"}, session : Sessions,
                    entries : Seq(Keys \X Vals)]
  <2>1. /\ w.outcome = OutNone
        /\ w.kv = [k \in Keys |->
                        IF Occurrences(cmd.entries, k) = {} THEN kv[k]
                        ELSE [val |-> LastValue(cmd.entries, k), index |-> i]]
    BY <1>3 DEF FirstApply
  <2>2. ASSUME NEW k \in Keys, Occurrences(cmd.entries, k) # {}
        PROVE  [val |-> LastValue(cmd.entries, k), index |-> i] \in Entry
    BY <1>3, <2>2, LastValueType, Zenon DEF Entry
  <2> QED
    BY <2>1, <2>2 DEF Outcome
<1>4. CASE cmd \in [op : {"cas"}, session : Sessions, key : Keys,
                    pred : CasPred, success : CasOp]
  <2> DEFINE current == kv[cmd.key]
  <2>1. /\ current \in Entry \cup {NoEntry}
        /\ current.index \in Nat /\ current.val \in Vals \cup {NoVal}
    BY <1>4 DEF Entry, NoEntry
  <2>2. CASE ~Matches(cmd.pred, current)
    <3>1. w.kv = kv /\ w.outcome = OutCasFailed(current.index, current.val)
      BY <1>4, <2>2 DEF FirstApply
    <3> QED
      BY <3>1, <2>1 DEF Outcome, OutCasFailed
  <2>3. CASE Matches(cmd.pred, current) /\ cmd.success.kind = "put"
    <3>1. cmd.success.val \in Vals
      BY <1>4, <2>3 DEF CasOp, CasPut, CasDelete
    <3>2. /\ w.kv = [kv EXCEPT ![cmd.key] =
                        [val |-> cmd.success.val, index |-> i]]
          /\ w.outcome = OutValue(cmd.success.val)
      BY <1>4, <2>3 DEF FirstApply
    <3>3. [val |-> cmd.success.val, index |-> i] \in Entry
      BY <3>1 DEF Entry
    <3>4. OutValue(cmd.success.val) \in Outcome
      BY <3>1 DEF Outcome, OutValue
    <3> QED
      BY <3>2, <3>3, <3>4, Zenon
  <2>4. CASE Matches(cmd.pred, current) /\ cmd.success.kind # "put"
    <3>1. w.kv = [kv EXCEPT ![cmd.key] = NoEntry] /\ w.outcome = OutNone
      BY <1>4, <2>4 DEF FirstApply
    <3> QED
      BY <3>1, Zenon DEF Outcome
  <2> QED
    BY <2>2, <2>3, <2>4
<1> QED
  BY <1>1, <1>2, <1>3, <1>4 DEF SessionCommand

\* Applying a command to a well-formed store at an index leaves a well-formed
\* store at that index, and answers an outcome with a non-zero index.
LEMMA ApplyType ==
    ASSUME NEW st \in Store, NEW i \in Nat \ {0}, NEW cmd \in Command
    PROVE  /\ ApplyCommand(st, i, cmd).store \in Store
           /\ ApplyCommand(st, i, cmd).store.applied = i
           /\ ApplyCommand(st, i, cmd).outcome \in Outcome
           /\ ApplyCommand(st, i, cmd).effective \in Nat \ {0}
<1>1. CASE cmd = Noop
  BY <1>1 DEF ApplyCommand, ApplyNoop, Noop, Store, Outcome
<1>2. CASE cmd \in GcCommand
  <2>1. ApplyCommand(st, i, cmd) = ApplyGc(st, i, cmd)
    BY <1>2 DEF ApplyCommand, GcCommand
  <2> DEFINE kept == [s \in Sessions |-> IF s \in cmd.sessions THEN NoRecord
                                         ELSE st.sessions[s]]
  <2>2. kept \in [Sessions -> Record \cup {NoRecord}]
    BY DEF Store
  <2>3. /\ ApplyGc(st, i, cmd).store =
               [applied |-> i, kv |-> st.kv, sessions |-> kept]
        /\ ApplyGc(st, i, cmd).outcome = OutNone
        /\ ApplyGc(st, i, cmd).effective = i
    BY Zenon DEF ApplyGc, Store
  <2> QED
    BY <2>1, <2>2, <2>3 DEF Store, Outcome
<1>3. CASE cmd \in SessionCommand
  <2>1. /\ ApplyCommand(st, i, cmd) = ApplySession(st, i, cmd)
        /\ cmd.session \in Sessions
    BY <1>3 DEF ApplyCommand, SessionCommand
  <2>2. CASE Cached(st, cmd) # NoRecord
    <3>1. Cached(st, cmd) \in Record
      BY <2>1, <2>2 DEF Cached, Store
    <3>2. OutNone \in Outcome
      BY DEF Outcome
    <3> QED
      BY <2>1, <2>2, <3>1, <3>2 DEF ApplySession, Record, Store
  <2>3. CASE Cached(st, cmd) = NoRecord
    <3> DEFINE w == FirstApply(st.kv, i, cmd)
    <3>1. /\ w.kv \in [Keys -> Entry \cup {NoEntry}]
          /\ w.outcome \in Outcome
      BY <1>3, FirstApplyType DEF Store
    <3>2. [outcome |-> w.outcome, index |-> i] \in Record
      BY <3>1 DEF Record
    <3> HIDE DEF w
    <3>3. ApplySession(st, i, cmd) =
             [store |-> [applied  |-> i, kv |-> w.kv,
                         sessions |-> [st.sessions EXCEPT ![cmd.session] =
                                        [outcome |-> w.outcome, index |-> i]]],
              outcome |-> w.outcome, effective |-> i, touched |-> w.touched]
      BY <2>3 DEF ApplySession, w
    <3> QED
      BY <2>1, <3>1, <3>2, <3>3 DEF Store
  <2> QED
    BY <2>2, <2>3
<1> QED
  BY <1>1, <1>2, <1>3 DEF Command

-----------------------------------------------------------------------------
(* The inductive invariant                                                 *)

\* ref has one store more than the log has commands.
ReplayShape ==
    /\ log \in Seq(Commands)
    /\ ref \in Seq(Store)
    /\ Len(ref) = Len(log) + 1
    /\ ref[1] = EmptyStore

\* A store of the replay carries its own position.
Numbered == \A i \in DOMAIN ref : ref[i].applied = i - 1

\* ref is the sequential replay of the log.
FollowsLog ==
    \A i \in DOMAIN log : ref[i + 1] = ApplyCommand(ref[i], i, log[i]).store

InReplay(st) == st.applied + 1 \in DOMAIN ref /\ st = ref[st.applied + 1]

\* Every replica is at some point of the replay.
OnReplay == store \in [Replicas -> Store] /\ \A r \in Replicas : InReplay(store[r])

\* Every snapshot was taken at a point of the replay.
SavedOnReplay ==
    /\ DOMAIN saved = Replicas
    /\ \A r \in Replicas :
            saved[r] = NoSnap \/ \E n \in DOMAIN ref : saved[r] = Encode(ref[n])

\* What makes agreement inductive: replicas need not be compared with each
\* other, because each is compared with the one replay.
IInv ==
    /\ ReplayShape
    /\ Numbered
    /\ FollowsLog
    /\ OnReplay
    /\ SavedOnReplay
    /\ answers \subseteq Answer

\* The empty store is well formed.
LEMMA EmptyStoreType == EmptyStore \in Store /\ EmptyStore.applied = 0
BY DEF EmptyStore, Store

\* The domains of the log and of the replay.
LEMMA ReplayDomains ==
    ASSUME ReplayShape
    PROVE  /\ Len(log) \in Nat
           /\ DOMAIN log = 1 .. Len(log)
           /\ DOMAIN ref = 1 .. Len(log) + 1
           /\ \A i \in DOMAIN log : log[i] \in Commands
           /\ \A i \in DOMAIN ref : ref[i] \in Store
BY DEF ReplayShape

\* A store of the replay determines its own position in it.
LEMMA AtOwnPosition ==
    ASSUME ReplayShape, Numbered, NEW n \in DOMAIN ref
    PROVE  ref[n] \in Store /\ InReplay(ref[n])
<1>1. n \in Nat /\ ref[n].applied = n - 1 /\ ref[n] \in Store
  BY ReplayDomains DEF Numbered
<1>2. ref[n].applied + 1 = n
  BY ONLY <1>1
<1> QED
  BY <1>1, <1>2 DEF InReplay

\* A replica restored from a snapshot is at the point the snapshot was taken.
LEMMA RestoredAt ==
    ASSUME IInv, NEW r \in Replicas, saved[r] # NoSnap
    PROVE  Decode(saved[r]) \in Store /\ InReplay(Decode(saved[r]))
<1>1. PICK n \in DOMAIN ref : saved[r] = Encode(ref[n])
  BY DEF IInv, SavedOnReplay
<1>2. ref[n] \in Store /\ InReplay(ref[n])
  BY AtOwnPosition DEF IInv
<1>3. Decode(saved[r]) = ref[n]
  BY <1>1, <1>2, SnapshotRoundTrip
<1> QED
  BY <1>2, <1>3

\* The empty store is the first of the replay.
LEMMA EmptyInReplay ==
    ASSUME ReplayShape, Numbered
    PROVE  EmptyStore \in Store /\ InReplay(EmptyStore)
<1>1. 1 \in DOMAIN ref
  BY ReplayDomains
<1>2. ref[1] = EmptyStore
  BY DEF ReplayShape
<1> QED
  BY <1>1, <1>2, AtOwnPosition

\* Moving one replica to a store of an unchanged replay keeps all replicas on
\* it.
LEMMA MoveReplica ==
    ASSUME OnReplay, NEW r \in Replicas, NEW st \in Store, InReplay(st),
           store' = [store EXCEPT ![r] = st], ref' = ref
    PROVE  OnReplay'
<1>1. store' \in [Replicas -> Store]
  BY DEF OnReplay
<1>2. \A q \in Replicas : store'[q] = store[q] \/ store'[q] = st
  BY DEF OnReplay
<1>3. \A q \in Replicas : InReplay(store'[q])
  BY <1>2 DEF OnReplay
<1> QED
  BY <1>1, <1>3 DEF OnReplay, InReplay

\* Keeping a store of the replay as a snapshot keeps all snapshots on it.
LEMMA KeepSnapshot ==
    ASSUME SavedOnReplay, NEW r \in Replicas, NEW n \in DOMAIN ref,
           saved' = [saved EXCEPT ![r] = Encode(ref[n])], ref' = ref
    PROVE  SavedOnReplay'
<1>1. DOMAIN saved' = Replicas
  BY DEF SavedOnReplay
<1>2. \A q \in Replicas : saved'[q] = saved[q] \/ saved'[q] = Encode(ref[n])
  BY DEF SavedOnReplay
<1> QED
  BY <1>1, <1>2 DEF SavedOnReplay

\* Init is the replay of the empty log.
LEMMA InitIInv == Init => IInv
<1> SUFFICES ASSUME Init PROVE IInv
  OBVIOUS
<1>1. log = << >> /\ ref = <<EmptyStore>> /\ answers = {}
  BY DEF Init
<1>2. ReplayShape
  BY <1>1, EmptyStoreType DEF ReplayShape
<1>3. DOMAIN ref = {1} /\ ref[1] = EmptyStore /\ DOMAIN log = {}
  BY ONLY <1>1
<1>4. Numbered
  BY ONLY <1>3, EmptyStoreType DEF Numbered
<1>5. FollowsLog
  BY ONLY <1>3 DEF FollowsLog
<1>6. /\ store = [r \in Replicas |-> EmptyStore]
      /\ saved = [r \in Replicas |-> NoSnap]
  BY DEF Init
<1>7. OnReplay
  BY ONLY <1>2, <1>4, <1>6, EmptyInReplay DEF OnReplay
<1>8. SavedOnReplay
  BY ONLY <1>6 DEF SavedOnReplay
<1> QED
  BY <1>1, <1>2, <1>4, <1>5, <1>7, <1>8 DEF IInv

\* Committing a command extends the replay by one store and keeps what it had.
LEMMA CommitExtends ==
    ASSUME IInv, NEW cmd \in Commands, Commit(cmd)
    PROVE  /\ ReplayShape' /\ Numbered' /\ FollowsLog'
           /\ \A i \in DOMAIN ref : i \in DOMAIN ref' /\ ref'[i] = ref[i]
<1> DEFINE n == Len(log)
           new == ApplyCommand(ref[n + 1], n + 1, cmd).store
<1>1. /\ n \in Nat /\ DOMAIN log = 1 .. n /\ DOMAIN ref = 1 .. n + 1
      /\ \A i \in DOMAIN ref : ref[i] \in Store
  BY ReplayDomains DEF IInv
<1>2. /\ log \in Seq(Commands) /\ ref \in Seq(Store)
      /\ Len(ref) = n + 1 /\ ref[1] = EmptyStore
  BY DEF IInv, ReplayShape
<1>3. n + 1 \in Nat \ {0} /\ ref[n + 1] \in Store /\ cmd \in Command
  BY <1>1, CommandsAssumption
<1>4. new \in Store /\ new.applied = n + 1
  BY ONLY <1>3, ApplyType
<1>5. log' = Append(log, cmd) /\ ref' = Append(ref, new)
  BY <1>2 DEF Commit
<1> HIDE DEF new
<1>6. /\ log' \in Seq(Commands) /\ Len(log') = n + 1
      /\ DOMAIN log' = 1 .. n + 1
      /\ \A i \in 1 .. n : log'[i] = log[i]
      /\ log'[n + 1] = cmd
  BY ONLY <1>1, <1>2, <1>5, cmd \in Commands
<1>7. /\ ref' \in Seq(Store) /\ Len(ref') = n + 2
      /\ DOMAIN ref' = 1 .. n + 2
      /\ \A i \in 1 .. n + 1 : ref'[i] = ref[i]
      /\ ref'[n + 2] = new
  BY ONLY <1>1, <1>2, <1>4, <1>5
<1>8. ReplayShape'
  <2>1. ref'[1] = EmptyStore
    BY ONLY <1>1, <1>2, <1>7
  <2>2. Len(ref') = Len(log') + 1
    BY ONLY <1>1, <1>6, <1>7
  <2> QED
    BY ONLY <1>6, <1>7, <2>1, <2>2 DEF ReplayShape
<1>9. Numbered'
  <2> SUFFICES ASSUME NEW i \in 1 .. n + 2 PROVE ref'[i].applied = i - 1
    BY <1>7 DEF Numbered
  <2>1. CASE i \in 1 .. n + 1
    BY <1>1, <1>7, <2>1 DEF IInv, Numbered
  <2>2. CASE i = n + 2
    BY ONLY <1>1, <1>4, <1>7, <2>2
  <2> QED
    BY ONLY <1>1, <2>1, <2>2, i \in 1 .. n + 2
<1>10. FollowsLog'
  <2> SUFFICES ASSUME NEW i \in 1 .. n + 1
               PROVE  ref'[i + 1] = ApplyCommand(ref'[i], i, log'[i]).store
    BY <1>6 DEF FollowsLog
  <2>1. CASE i \in 1 .. n
    <3>1. i + 1 \in 1 .. n + 1 /\ i \in 1 .. n + 1
      BY ONLY <1>1, <2>1
    <3>2. ref'[i + 1] = ref[i + 1] /\ ref'[i] = ref[i] /\ log'[i] = log[i]
      BY ONLY <1>6, <1>7, <2>1, <3>1
    <3>3. ref[i + 1] = ApplyCommand(ref[i], i, log[i]).store
      BY <1>1, <2>1 DEF IInv, FollowsLog
    <3> QED
      BY ONLY <3>2, <3>3
  <2>2. CASE i = n + 1
    <3>1. ref'[i + 1] = new
      BY ONLY <1>1, <1>7, <2>2
    <3>2. ref'[i] = ref[n + 1] /\ log'[i] = cmd
      BY ONLY <1>1, <1>6, <1>7, <2>2
    <3> QED
      BY ONLY <2>2, <3>1, <3>2 DEF new
  <2> QED
    BY ONLY <1>1, <2>1, <2>2, i \in 1 .. n + 1
<1>11. \A i \in DOMAIN ref : i \in DOMAIN ref' /\ ref'[i] = ref[i]
  BY ONLY <1>1, <1>7
<1> QED
  BY ONLY <1>8, <1>9, <1>10, <1>11

\* Applying the next command of the log moves a replica to the next store of
\* the replay, and its answer is well formed.
LEMMA ApplyFollows ==
    ASSUME IInv, NEW r \in Replicas, Apply(r)
    PROVE  OnReplay' /\ answers' \subseteq Answer
<1> DEFINE i == store[r].applied + 1
           res == ApplyCommand(store[r], i, log[i])
           answer == [at |-> i, outcome |-> res.outcome,
                      effective |-> res.effective]
<1>1. /\ i \in DOMAIN log
      /\ store' = [store EXCEPT ![r] = res.store]
      /\ answers' = answers \cup {answer}
      /\ ref' = ref
  BY DEF Apply
<1>2. /\ Len(log) \in Nat /\ DOMAIN log = 1 .. Len(log)
      /\ DOMAIN ref = 1 .. Len(log) + 1
      /\ \A k \in DOMAIN log : log[k] \in Commands
      /\ \A k \in DOMAIN ref : ref[k] \in Store
  BY ReplayDomains DEF IInv
<1>3. store[r] = ref[i]
  BY DEF IInv, OnReplay, InReplay
<1>4. i \in Nat \ {0} /\ i \in DOMAIN ref /\ i + 1 \in DOMAIN ref
  <2> HIDE DEF i, res, answer
  <2>1. Len(log) \in Nat /\ i \in 1 .. Len(log) /\ DOMAIN ref = 1 .. Len(log) + 1
    BY ONLY <1>1, <1>2
  <2> QED
    BY ONLY <2>1
<1>5. store[r] \in Store /\ log[i] \in Command
  BY ONLY <1>1, <1>2, <1>3, <1>4, CommandsAssumption
<1>6. res.outcome \in Outcome /\ res.effective \in Nat \ {0}
  BY ONLY <1>4, <1>5, ApplyType
<1>7. res.store = ref[i + 1]
  BY <1>1, <1>3 DEF IInv, FollowsLog
<1>8. res.store \in Store /\ InReplay(res.store)
  BY <1>4, <1>7, AtOwnPosition DEF IInv
<1> HIDE DEF res
<1>9. OnReplay'
  BY <1>1, <1>8, MoveReplica, Zenon DEF IInv
<1>10. answer \in Answer
  BY ONLY <1>4, <1>6 DEF Answer
<1>11. answers' \subseteq Answer
  BY <1>1, <1>10 DEF IInv
<1> QED
  BY <1>9, <1>11

\* Every step keeps the invariant: committing extends the replay, applying
\* follows it, and restoring a snapshot returns to a point of it.
LEMMA NextIInv == IInv /\ [Next]_vars => IInv'
<1> SUFFICES ASSUME IInv, [Next]_vars PROVE IInv'
  OBVIOUS
\* A step that leaves the log and the replay alone keeps what is about them.
<1>1. UNCHANGED <<log, ref>> => ReplayShape' /\ Numbered' /\ FollowsLog'
  BY DEF IInv, ReplayShape, Numbered, FollowsLog
<1>2. UNCHANGED <<ref, store>> => OnReplay'
  BY DEF IInv, OnReplay, InReplay
<1>3. UNCHANGED <<ref, saved>> => SavedOnReplay'
  BY DEF IInv, SavedOnReplay
<1>4. UNCHANGED answers => answers' \subseteq Answer
  BY DEF IInv
<1>5. ASSUME NEW cmd \in Commands, Commit(cmd) PROVE IInv'
  <2>1. /\ ReplayShape' /\ Numbered' /\ FollowsLog'
        /\ \A i \in DOMAIN ref : i \in DOMAIN ref' /\ ref'[i] = ref[i]
    BY <1>5, CommitExtends
  <2>2. UNCHANGED <<store, saved, answers>>
    BY <1>5 DEF Commit
  <2>3. OnReplay'
    BY <2>1, <2>2 DEF IInv, OnReplay, InReplay
  <2>4. SavedOnReplay'
    BY <2>1, <2>2 DEF IInv, SavedOnReplay
  <2> QED
    BY <1>4, <2>1, <2>2, <2>3, <2>4 DEF IInv
<1>6. ASSUME NEW r \in Replicas, Apply(r) PROVE IInv'
  <2>1. UNCHANGED <<log, ref, saved>>
    BY <1>6 DEF Apply
  <2> QED
    BY <1>1, <1>3, <1>6, <2>1, ApplyFollows DEF IInv
<1>7. ASSUME NEW r \in Replicas, TakeSnapshot(r) PROVE IInv'
  <2>1. /\ saved' = [saved EXCEPT ![r] = Encode(store[r])]
        /\ UNCHANGED <<log, ref, store, answers>>
    BY <1>7 DEF TakeSnapshot
  <2>2. PICK n \in DOMAIN ref : store[r] = ref[n]
    BY DEF IInv, OnReplay, InReplay
  <2>3. SavedOnReplay'
    BY <2>1, <2>2, KeepSnapshot, Zenon DEF IInv
  <2> QED
    BY <1>1, <1>2, <1>4, <2>1, <2>3 DEF IInv
<1>8. ASSUME NEW r \in Replicas, Crash(r) PROVE IInv'
  <2> DEFINE st == IF saved[r] = NoSnap THEN EmptyStore ELSE Decode(saved[r])
  <2>1. store' = [store EXCEPT ![r] = st] /\ UNCHANGED <<log, ref, saved, answers>>
    BY <1>8 DEF Crash
  <2>2. EmptyStore \in Store /\ InReplay(EmptyStore)
    BY EmptyInReplay DEF IInv
  <2>3. st \in Store /\ InReplay(st)
    BY <2>2, RestoredAt
  <2> HIDE DEF st
  <2>4. OnReplay'
    BY <2>1, <2>3, MoveReplica, Zenon DEF IInv
  <2> QED
    BY <1>1, <1>3, <1>4, <2>1, <2>4 DEF IInv
<1>9. ASSUME NEW r \in Replicas, NEW from \in Replicas, InstallSnapshot(r, from)
      PROVE  IInv'
  <2> DEFINE st == Decode(saved[from])
  <2>1. /\ saved[from] # NoSnap
        /\ saved' = [saved EXCEPT ![r] = saved[from]]
        /\ store' = [store EXCEPT ![r] = st]
        /\ UNCHANGED <<log, ref, answers>>
    BY <1>9 DEF InstallSnapshot
  <2>2. st \in Store /\ InReplay(st)
    BY <2>1, RestoredAt
  <2> HIDE DEF st
  <2>3. OnReplay'
    BY <2>1, <2>2, MoveReplica, Zenon DEF IInv
  <2>4. PICK n \in DOMAIN ref : saved[from] = Encode(ref[n])
    BY <2>1 DEF IInv, SavedOnReplay
  <2>5. SavedOnReplay'
    BY <2>1, <2>4, KeepSnapshot, Zenon DEF IInv
  <2> QED
    BY <1>1, <1>4, <2>1, <2>3, <2>5 DEF IInv
<1>10. CASE UNCHANGED vars
  BY <1>1, <1>2, <1>3, <1>4, <1>10 DEF vars, IInv
<1> QED
  BY <1>5, <1>6, <1>7, <1>8, <1>9, <1>10 DEF Next

\* The invariant gives the type of every variable and agreement.
LEMMA IInvImplies == IInv => TypeOK /\ ReplicasAgree
<1> SUFFICES ASSUME IInv PROVE TypeOK /\ ReplicasAgree
  OBVIOUS
<1>1. \A r \in Replicas : saved[r] = NoSnap \/ Decode(saved[r]) \in Store
  BY RestoredAt
<1>2. log \in Seq(Commands) /\ ref \in Seq(Store)
  BY DEF IInv, ReplayShape
<1>3. store \in [Replicas -> Store]
  BY DEF IInv, OnReplay
<1>4. TypeOK
  BY <1>1, <1>2, <1>3 DEF IInv, TypeOK
<1>5. \A r \in Replicas : store[r] = ref[store[r].applied + 1]
  BY DEF IInv, OnReplay, InReplay
<1>6. ReplicasAgree
  BY ONLY <1>5 DEF ReplicasAgree
<1> QED
  BY <1>4, <1>6

\* Every variable keeps its type, for any number of replicas and any log.
THEOREM TypeCorrect == Spec => []TypeOK
<1>1. Spec => []IInv
  BY InitIInv, NextIInv, PTL DEF Spec
<1> QED
  BY <1>1, IInvImplies, PTL

\* State-machine safety (INV3): replicas at the same applied index hold the
\* same store, through any mix of replays, snapshots, installs and crashes.
THEOREM Agreement == Spec => []ReplicasAgree
<1>1. Spec => []IInv
  BY InitIInv, NextIInv, PTL DEF Spec
<1> QED
  BY <1>1, IInvImplies, PTL

=============================================================================
