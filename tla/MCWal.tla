------------------------------- MODULE MCWal --------------------------------
(***************************************************************************)
(* The two ways the log is made durable, for TLC: flushes on the flusher   *)
(* thread, two cycles in flight on a device that may fail (the constants   *)
(* of the configuration), and flushes within the cycle, over longer logs   *)
(* and batches (the instance S).  `mode' is chosen at the start.           *)
(***************************************************************************)
EXTENDS MCWalStorage

VARIABLE mode

S == INSTANCE WalStorage WITH
    MaxIndex <- 3, MaxTerm <- 2, MaxBatch <- 2, MaxCrashes <- 1,
    SegmentRecords <- 2, TrailingKeep <- 0, CrashPoints <- AllPoints,
    MaxInFlight <- 1, Offloaded <- FALSE, FlushMayFail <- FALSE

WalInit ==
    /\ mode \in {"offloaded", "within"}
    /\ Init

WalNext ==
    /\ UNCHANGED mode
    /\ \/ mode = "offloaded" /\ Next
       \/ mode = "within" /\ S!Next

\* With flushes within the cycle only the newest segment can lose records
\* (maybe_rollover flushes the one it leaves).
OnlyLastSegmentIsDirty == mode = "within" => OnlyLastSegmentDirty

\* A restart at any moment finds what the running node holds: replaying the
\* segments gives its cache, and the cache starts right above the compaction
\* watermark (open, compact, truncate_log_to).
RestartFindsTheSame == ReplayMatchesCache /\ CacheStartsAtWatermark
=============================================================================
