-------------------------- MODULE SnapshotTransfer --------------------------
(***************************************************************************)
(* Snapshots, from the one that takes them to the one that needs them      *)
(* (arachne/src/runtime/mod.rs, consensus/node.rs, storage/wal.rs,         *)
(* arachne-transport-tonic/src/{transport,server}.rs).                     *)
(*                                                                         *)
(* A node asks its apply task for the serialised state and saves it when   *)
(* the answer comes, keeping the two newest files.  The leader offers its  *)
(* newest snapshot, metadata only, to the follower that has fallen behind  *)
(* the log; the follower holds the message back, fetches the file in a     *)
(* background task, and steps the message into raft with the bytes.        *)
(*                                                                         *)
(* Raft's own part (whom to send what, and the answer to an installed      *)
(* snapshot) is external.                                                  *)
(***************************************************************************)
EXTENDS Naturals, Sequences, FiniteSets

CONSTANTS
    SNAPSHOT_FETCH_ATTEMPTS,
    Chunks,              \* pieces of a snapshot file on the wire
    MaxIndex, MaxTerm, MaxFaults   \* bounds

ASSUME TransferAssumption == MaxIndex \in Nat

L == "leader"
F == "follower"

NoWait == [st |-> "none", index |-> 0]
NoFetch == [index |-> 0, term |-> 0]

VARIABLES
    sm,        \* per node: the index its state machine has applied
    snap,      \* per node: the index its storage's newest snapshot covers
    files,     \* the leader's snapshot files
    wait,      \* per node: snapshot_wait, the request to the apply task
    failed,    \* per node: it has fail-stopped
    matched,   \* the last log index the follower holds
    term,      \* the leader's term; an election resets raft's progress
    progress,  \* raft's progress of the follower: "Probe" or "Snapshot"
    offers,    \* MsgSnapshot on its way
    fetch,     \* snapshot_fetch: the held message the actor waits for
    tasks,     \* the fetch tasks that run, one per message taken up
    path,      \* per index: the inode at the temporary file's name, or 0
    content,   \* per inode (one for each file created): the pieces in it
    done,      \* snapshot_fetches: results on their way to the actor
    stepped,   \* the pieces of the last snapshot stepped into raft
    faults

vars == <<sm, snap, files, wait, failed, matched, term, progress, offers,
          fetch, tasks, path, content, done, stepped, faults>>

local == <<sm, snap, files, wait, failed>>
peer == <<matched, term, progress, offers>>
transfer == <<fetch, tasks, path, content, done, stepped>>

(***************************************************************************)
(* Taking a snapshot.                                                      *)
(***************************************************************************)
maybe_snapshot(n) ==
    /\ ~failed[n] /\ wait[n] = NoWait /\ sm[n] > snap[n]
    /\ wait' = [wait EXCEPT ![n].st = "asked"]
    /\ UNCHANGED <<sm, snap, files, failed, peer, transfer, faults>>

\* The apply task answers with the index it is at.
Serialise(n) ==
    /\ wait[n].st = "asked"
    /\ wait' = [wait EXCEPT ![n] = [st |-> "answered", index |-> sm[n]]]
    /\ UNCHANGED <<sm, snap, files, failed, peer, transfer, faults>>

\* The newest two files stay.
prune_snapshots(all) ==
    {i \in all : Cardinality({j \in all : j > i}) < 2}

\* poll_snapshot with Node::create_snapshot: the term of the answered index is
\* looked up first, and an index the log no longer holds is fatal.
poll_snapshot(n) ==
    /\ ~failed[n] /\ wait[n].st = "answered"
    /\ wait' = [wait EXCEPT ![n] = NoWait]
    /\ IF wait[n].index < snap[n]
       THEN failed' = [failed EXCEPT ![n] = TRUE] /\ UNCHANGED <<snap, files>>
       ELSE /\ snap' = [snap EXCEPT ![n] = wait[n].index]
            /\ files' = IF n = L
                        THEN prune_snapshots(files \cup {wait[n].index})
                        ELSE files
            /\ UNCHANGED failed
    /\ UNCHANGED <<sm, peer, transfer, faults>>

\* The apply channel is in order: a request sent before the restore of an
\* installed snapshot is answered before it.
Apply(n) ==
    /\ ~failed[n]
    /\ IF n = F /\ sm[F] < snap[F]
       THEN wait[F].st # "asked" /\ sm' = [sm EXCEPT ![F] = snap[F]]
       ELSE /\ sm[n] < IF n = L THEN MaxIndex ELSE matched
            /\ sm' = [sm EXCEPT ![n] = @ + 1]
    /\ UNCHANGED <<snap, files, wait, failed, peer, transfer, faults>>

(***************************************************************************)
(* Raft on the leader (external), and the lossy way to the follower.       *)
(***************************************************************************)
Replicate ==
    /\ progress = "Probe" /\ ~failed[F]
    /\ snap[L] <= matched /\ matched < sm[L]
    /\ matched' = matched + 1
    /\ UNCHANGED <<local, term, progress, offers, transfer, faults>>

Offer ==
    /\ progress = "Probe" /\ matched < snap[L]
    /\ progress' = "Snapshot"
    /\ offers' = offers \cup {[index |-> snap[L], term |-> term]}
    /\ UNCHANGED <<local, matched, term, transfer, faults>>

LoseOffer ==
    /\ faults < MaxFaults /\ faults' = faults + 1
    /\ \E m \in offers : offers' = offers \ {m}
    /\ UNCHANGED <<local, matched, term, progress, transfer>>

Reelected ==
    /\ term < MaxTerm /\ term' = term + 1 /\ progress' = "Probe"
    /\ UNCHANGED <<local, matched, offers, transfer, faults>>

(***************************************************************************)
(* Node::on_message holds the offer, start_snapshot_fetch takes it up: a   *)
(* transfer in flight is superseded and its file unlinked.                 *)
(***************************************************************************)
Unlink(index) == [path EXCEPT ![index] = 0]

start_snapshot_fetch(m) ==
    /\ ~failed[F] /\ m \in offers
    /\ offers' = offers \ {m}
    /\ path' = IF fetch = NoFetch THEN path ELSE Unlink(fetch.index)
    /\ fetch' = m
    /\ tasks' = tasks \cup {[term |-> m.term,
                             index |-> m.index, attempt |-> 1,
                             ino |-> 0, pos |-> 0]}
    /\ UNCHANGED <<local, matched, term, progress, content, done, stepped,
                   faults>>

(***************************************************************************)
(* A fetch task: ask for the file, write what arrives at its own offset    *)
(* into the file it created (an existing one is truncated), try again a    *)
(* few times, report.                                                      *)
(***************************************************************************)
\* A task that gives up without a word.
ReportOnlySuccess(t, ok) ==
    /\ tasks' = tasks \ {t}
    /\ done' = IF ok THEN Append(done, [index |-> t.index, ok |-> ok]) ELSE done

Report(t, ok) ==
    /\ tasks' = tasks \ {t}
    /\ done' = Append(done, [index |-> t.index, ok |-> ok])

AttemptFails(t) ==
    IF t.attempt < SNAPSHOT_FETCH_ATTEMPTS
    THEN /\ tasks' = (tasks \ {t}) \cup {[t EXCEPT !.attempt = @ + 1,
                                                  !.ino = 0, !.pos = 0]}
         /\ UNCHANGED done
    ELSE Report(t, FALSE)

\* DataDirSnapshots::open finds the file by index; then File::create.
fetch_snapshot(t) ==
    /\ t.ino = 0
    /\ IF t.index \notin files
       THEN AttemptFails(t) /\ UNCHANGED <<path, content>>
       ELSE /\ path' = [path EXCEPT ![t.index] =
                          IF @ = 0 THEN Len(content) + 1 ELSE @]
            /\ content' = IF path[t.index] = 0 THEN Append(content, {})
                          ELSE [content EXCEPT ![path[t.index]] = {}]
            /\ tasks' = (tasks \ {t}) \cup {[t EXCEPT !.ino = path'[t.index]]}
            /\ UNCHANGED done
    /\ UNCHANGED <<local, peer, fetch, stepped, faults>>

stream_snapshot(t) ==
    /\ t.ino # 0
    /\ IF t.pos < Chunks
       THEN /\ content' = [content EXCEPT ![t.ino] = @ \cup {t.pos + 1}]
            /\ tasks' = (tasks \ {t}) \cup {[t EXCEPT !.pos = @ + 1]}
            /\ UNCHANGED done
       ELSE Report(t, TRUE) /\ UNCHANGED content
    /\ UNCHANGED <<local, peer, fetch, path, stepped, faults>>

StreamBreaks(t) ==
    /\ t.ino # 0 /\ faults < MaxFaults /\ faults' = faults + 1
    /\ AttemptFails(t)
    /\ UNCHANGED <<local, peer, fetch, path, content, stepped>>

(***************************************************************************)
(* finish_snapshot_fetch: only the transfer the actor waits for counts; a  *)
(* file that does not decode (it carries its own CRC) is dropped; else the *)
(* held message is stepped and raft installs it in the cycle that follows, *)
(* which polls for an answer of the apply task first.                      *)
(***************************************************************************)
Complete == 1 .. Chunks

ReadFile(index) == IF path[index] = 0 THEN {} ELSE content[path[index]]

decode_snapshot(pieces) == pieces = Complete

\* Raft ignores a message of an old term, and answers the others: the answer
\* is what ends the leader's Snapshot state.
step_held_snapshot(held, pieces) ==
    /\ stepped' = pieces
    /\ IF held.term < term THEN UNCHANGED <<snap, matched, progress>>
       ELSE /\ snap' = [snap EXCEPT ![F] =
                          IF held.index > matched THEN held.index ELSE @]
            /\ matched' = IF held.index > matched THEN held.index ELSE matched
            /\ progress' = "Probe"

\* The result of a superseded transfer is left in the channel.
FinishOnlyCurrent ==
    /\ ~failed[F] /\ done # << >> /\ wait[F].st # "answered"
    /\ fetch # NoFetch /\ fetch.index = Head(done).index
    /\ fetch' = NoFetch /\ path' = Unlink(Head(done).index)
    /\ IF Head(done).ok /\ decode_snapshot(ReadFile(Head(done).index))
       THEN step_held_snapshot(fetch, ReadFile(Head(done).index))
       ELSE UNCHANGED <<snap, matched, progress, stepped>>
    /\ done' = Tail(done)
    /\ UNCHANGED <<sm, files, wait, failed, term, offers, tasks, content, faults>>

finish_snapshot_fetch ==
    /\ ~failed[F] /\ done # << >> /\ wait[F].st # "answered"
    /\ LET d == Head(done)
       IN  /\ path' = Unlink(d.index)
           /\ IF fetch # NoFetch /\ fetch.index = d.index
              THEN /\ fetch' = NoFetch
                   /\ IF d.ok /\ decode_snapshot(ReadFile(d.index))
                      THEN step_held_snapshot(fetch, ReadFile(d.index))
                      ELSE UNCHANGED <<snap, matched, progress, stepped>>
              ELSE UNCHANGED <<fetch, snap, matched, progress, stepped>>
    /\ done' = Tail(done)
    /\ UNCHANGED <<sm, files, wait, failed, term, offers, tasks, content, faults>>

Init ==
    /\ sm = [n \in {L, F} |-> 0] /\ snap = [n \in {L, F} |-> 0]
    /\ files = {} /\ wait = [n \in {L, F} |-> NoWait]
    /\ failed = [n \in {L, F} |-> FALSE]
    /\ matched = 0 /\ term = 1 /\ progress = "Probe" /\ offers = {}
    /\ fetch = NoFetch /\ tasks = {} /\ path = [i \in 1 .. MaxIndex |-> 0]
    /\ content = << >> /\ done = << >> /\ stepped = Complete /\ faults = 0

Fetching == \E t \in tasks : fetch_snapshot(t) \/ stream_snapshot(t)

Next ==
    \/ \E n \in {L, F} :
          maybe_snapshot(n) \/ Serialise(n) \/ poll_snapshot(n) \/ Apply(n)
    \/ Replicate \/ Offer \/ LoseOffer \/ Reelected
    \/ \E m \in offers : start_snapshot_fetch(m)
    \/ Fetching \/ \E t \in tasks : StreamBreaks(t)
    \/ finish_snapshot_fetch

\* The tasks and the actor run; the transport delivers what it does not lose.
Fairness ==
    /\ WF_vars(Fetching) /\ WF_vars(finish_snapshot_fetch)
    /\ WF_vars(poll_snapshot(F))
    /\ WF_vars(\E m \in offers : start_snapshot_fetch(m))
    /\ WF_vars(Offer) /\ WF_vars(Replicate)

Spec == Init /\ [][Next]_vars

LiveSpec == Spec /\ Fairness

(***************************************************************************)
(* Properties.                                                             *)
(***************************************************************************)
\* Indexes, files and results stay in range.
TypeOK ==
    /\ \A n \in {L, F} : /\ sm[n] \in 0 .. MaxIndex /\ snap[n] \in 0 .. MaxIndex
                         /\ wait[n].st \in {"none", "asked", "answered"}
    /\ Cardinality(files) <= 2 /\ matched <= MaxIndex
    /\ progress \in {"Probe", "Snapshot"}
    /\ \A i \in 1 .. MaxIndex : path[i] \in 0 .. Len(content)
    /\ \A t \in tasks : /\ t.ino <= Len(content) /\ t.pos <= Chunks
                        /\ t.attempt <= SNAPSHOT_FETCH_ATTEMPTS

\* Raft is only ever handed a whole snapshot, even when two tasks for the same
\* index write, truncate and unlink one file name (finish_snapshot_fetch: a
\* corrupt or truncated transfer is failed rather than installed).
SteppedIsWhole == stepped = Complete

\* The actor never waits for a transfer that nobody carries out: a task for its
\* index runs, or its result is on the way (otherwise the next offers would be
\* the only way out).
FetchIsCarriedOut ==
    fetch # NoFetch =>
        \/ \E t \in tasks : t.index = fetch.index
        \/ \E i \in DOMAIN done : done[i].index = fetch.index

\* No temporary file outlives the transfers: whichever of superseding, failing
\* and finishing comes first, the last of them removes the file.
NoFileLeftBehind ==
    (tasks = {} /\ done = << >>) => \A i \in DOMAIN path : path[i] = 0

\* What compaction leaves can be offered: the leader has the file its storage
\* names (prune_snapshots keeps the newest two).
NewestIsServed == snap[L] > 0 => snap[L] \in files

\* Two fetch tasks for one index write, truncate and unlink one file name, and
\* yet raft is only handed a whole snapshot, the actor never waits for a
\* transfer that nobody carries out, no temporary file outlives the transfers,
\* and the leader keeps the file it offers (start_snapshot_fetch,
\* finish_snapshot_fetch, prune_snapshots).
FetchIsSound == SteppedIsWhole /\ FetchIsCarriedOut /\ NoFileLeftBehind /\ NewestIsServed

\* Every transfer comes to an end and is dealt with.
EveryFetchEnds == []<>(failed[F] \/ (tasks = {} /\ done = << >>))

\* "Keep asking for the snapshot the leader named until it arrives"
\* (start_snapshot_fetch): a follower that runs catches up with the leader's
\* snapshot once the faults are over.
FollowerCatchesUp == []<>(failed[F] \/ matched >= snap[L])

\* "A snapshot is only ever taken at an index strictly newer than the one
\* already covered" (maybe_snapshot): the answer of the apply task is.
SnapshotIsNewer ==
    \A n \in {L, F} : wait[n].st = "answered" => wait[n].index > snap[n]
==============================================================================
