------------------------------ MODULE Captions ------------------------------
(***************************************************************************)
(* captions.py: the cues of a caption file are compared with the positions *)
(* the receipt of a narration gives, and the file that was compared may be *)
(* kept as a snapshot.                                                     *)
(*                                                                         *)
(* The narration is made of the audio itself, whose length the receipt     *)
(* only gives to the millisecond; an editor writes cues for it and goes on *)
(* changing them while they are verified, and verification is run again.   *)
(* Audio is measured in ticks, receipts and cues in milliseconds.  Sums of *)
(* floating point numbers are exact here, but a comparison that they meet  *)
(* exactly may turn out either way.                                        *)
(***************************************************************************)
EXTENDS Integers, Sequences

CONSTANTS N,             \* segments of the narration
          Milli,         \* ticks in a millisecond
          Gap,           \* gap_seconds, in milliseconds
          Tolerance,     \* how far a cue may be off, in milliseconds
          SegmentLimit,  \* MAX_SEGMENT_SECONDS
          TotalLimit,    \* MAX_TOTAL_SECONDS
          Talks,         \* narrations: the length and start of each segment
          Offsets,       \* by how much an edit moves the start or end of a cue
          MaxChanges,    \* bound: edits
          MaxRuns,       \* bound: verifications
          MaxFaults      \* bound: calls that fail

Segment == 1..N

ASSUME CaptionsAssumption ==
    /\ N \in Nat \ {0} /\ Milli \in Nat \ {0}
    /\ Gap \in Nat /\ Tolerance \in Nat
    /\ SegmentLimit \in Nat /\ TotalLimit \in Nat
    /\ Offsets \subseteq Int
    /\ MaxChanges \in Nat /\ MaxRuns \in Nat /\ MaxFaults \in Nat
    /\ Talks \subseteq [length : [Segment -> Nat], start : [Segment -> Nat]]
    /\ \A t \in Talks :
          /\ t.start[1] = 0
          /\ \A i \in 1..N-1 : t.start[i+1] = t.start[i] + t.length[i] + Gap * Milli

VARIABLES
    talk,      \* the narration
    receipt,   \* duration_seconds of each segment
    file,      \* the caption file: its cues
    stage,     \* the next step of the verification
    keep,      \* whether --snapshot is given
    payload,   \* the cues that were read
    at,        \* the cue it is at
    expectedStart,
    reason,    \* why it failed
    snapshot,  \* cues in the snapshot file, or <<>> if there is none
    changes, runs, faults

inputs == <<talk, receipt>>
captionsVars == <<inputs, file, stage, keep, payload, at, expectedStart, reason, snapshot,
                  changes, runs, faults>>

Cue == [start : Nat, end : Nat]

CaptionsTypeOK ==
    /\ talk \in Talks /\ receipt \in [Segment -> Nat]
    /\ file \in Seq(Cue) /\ payload \in Seq(Cue) /\ snapshot \in Seq(Cue)
    /\ stage \in {"idle", "receipt", "captions", "verify", "snapshot", "ok", "failed"}
    /\ keep \in BOOLEAN
    /\ at \in 1..N+1 /\ expectedStart \in Nat
    /\ stage = "verify" => at <= N
    /\ reason \in {"none", "unreadable", "interval", "count", "duration",
                   "too long", "mismatch", "not written"}
    /\ changes \in 0..MaxChanges /\ runs \in 0..MaxRuns /\ faults \in 0..MaxFaults

\* What so many ticks may be rounded to: half a millisecond goes either way.
Roundings(ticks) == {ms \in 0..ticks : 2 * (ms * Milli - ticks) \in -Milli..Milli}

Start(i) == talk.start[i]
End(i) == talk.start[i] + talk.length[i]

\* One cue for each segment, rounded.
Honest(cues) ==
    /\ Len(cues) = N
    /\ \A i \in Segment : /\ cues[i].start \in Roundings(Start(i))
                          /\ cues[i].end \in Roundings(End(i))

\* Where a half is rounded down everywhere, or up.
Nearest(ticks, lean) ==
    {ms \in Roundings(ticks) : \A k \in Roundings(ticks) : lean * k <= lean * ms}

\* The narration has been rendered and a caption file written for it.
CaptionsInit ==
    /\ talk \in Talks
    /\ receipt \in [Segment -> UNION {Roundings(talk.length[i]) : i \in Segment}]
    /\ \A i \in Segment : receipt[i] \in Roundings(talk.length[i])
    /\ \E lean \in {-1, 1} :
          file \in [Segment -> UNION {[start : Nearest(Start(i), lean),
                                       end : Nearest(End(i), lean)] : i \in Segment}]
    /\ Honest(file)
    /\ stage = "idle" /\ keep = FALSE
    /\ payload = <<>> /\ snapshot = <<>>
    /\ at = 1 /\ expectedStart = 0 /\ reason = "none"
    /\ changes = 0 /\ runs = 0 /\ faults = 0

-----------------------------------------------------------------------------
\* One verification

Proceed(from, to) == stage = from /\ stage' = to

Refuse(why) ==
    /\ stage' = "failed" /\ reason' = why
    /\ UNCHANGED <<inputs, file, keep, payload, at, expectedStart, snapshot>>

\* verify_caption_timing, with or without --snapshot.
Begin ==
    /\ stage \in {"idle", "ok", "failed"} /\ stage' = "receipt"
    /\ runs < MaxRuns /\ runs' = runs + 1
    /\ keep' \in BOOLEAN
    /\ payload' = <<>> /\ at' = 1 /\ expectedStart' = 0 /\ reason' = "none"
    /\ UNCHANGED <<inputs, file, snapshot, changes, faults>>

ReadReceipt ==
    /\ Proceed("receipt", "captions")
    /\ UNCHANGED <<inputs, file, keep, payload, at, expectedStart, reason, snapshot>>

\* _cue_times: every cue ends after it starts.
Proper(cues) == \A i \in 1..Len(cues) : cues[i].start < cues[i].end

\* The file is read once, and what was read is verified.
ReadCaptions ==
    /\ Proceed("captions", "verify")
    /\ Proper(file) /\ Len(file) = N
    /\ payload' = file
    /\ UNCHANGED <<inputs, file, keep, at, expectedStart, reason, snapshot>>

CaptionsRefused ==
    /\ stage = "captions"
    /\ \/ ~Proper(file) /\ Refuse("interval")
       \/ Proper(file) /\ Len(file) # N /\ Refuse("count")

Distance(a, b) == IF a < b THEN b - a ELSE a - b
ExpectedEnd == expectedStart + receipt[at]
Positive == receipt[at] > 0 /\ receipt[at] <= SegmentLimit

\* Mutant of Near: only the start of a cue is compared.
NearStart(d) == Distance(payload[at].start, expectedStart) <= d

\* Both ends of the cue are within d of where they should be.
Near(d) ==
    /\ Distance(payload[at].start, expectedStart) <= d
    /\ Distance(payload[at].end, ExpectedEnd) <= d

BadDuration ==
    /\ stage = "verify" /\ ~Positive
    /\ Refuse("duration")

TooLong ==
    /\ stage = "verify" /\ Positive
    /\ ExpectedEnd >= TotalLimit
    /\ Refuse("too long")

Mismatch ==
    /\ stage = "verify" /\ Positive /\ ExpectedEnd <= TotalLimit
    /\ ~Near(Tolerance - 1)
    /\ Refuse("mismatch")

\* Mutant of Match: the next segment is expected where this one ends.
MatchNoGap ==
    /\ stage = "verify" /\ Positive /\ ExpectedEnd <= TotalLimit
    /\ Near(Tolerance)
    /\ at' = at + 1
    /\ expectedStart' = ExpectedEnd
    /\ stage' = IF at < N THEN "verify" ELSE IF keep THEN "snapshot" ELSE "ok"
    /\ UNCHANGED <<inputs, file, keep, payload, reason, snapshot>>

Match ==
    /\ stage = "verify" /\ Positive /\ ExpectedEnd <= TotalLimit
    /\ Near(Tolerance)
    /\ at' = at + 1
    /\ expectedStart' = ExpectedEnd + Gap
    /\ stage' = IF at < N THEN "verify" ELSE IF keep THEN "snapshot" ELSE "ok"
    /\ UNCHANGED <<inputs, file, keep, payload, reason, snapshot>>

\* Mutant of Snapshot: the caption file is copied.
SnapshotFile ==
    /\ Proceed("snapshot", "ok")
    /\ snapshot = <<>> /\ snapshot' = file
    /\ UNCHANGED <<inputs, file, keep, payload, at, expectedStart, reason>>

\* _write_caption_snapshot publishes the payload under a free name.
Snapshot ==
    /\ Proceed("snapshot", "ok")
    /\ snapshot = <<>> /\ snapshot' = payload
    /\ UNCHANGED <<inputs, file, keep, payload, at, expectedStart, reason>>

\* Mutant of SnapshotRefused: the snapshot that is there will do.
SnapshotKept ==
    /\ Proceed("snapshot", "ok")
    /\ snapshot # <<>>
    /\ UNCHANGED <<inputs, file, keep, payload, at, expectedStart, reason, snapshot>>

SnapshotRefused ==
    /\ stage = "snapshot" /\ snapshot # <<>>
    /\ Refuse("not written")

Verify ==
    /\ \/ ReadReceipt \/ ReadCaptions \/ CaptionsRefused
       \/ BadDuration \/ TooLong \/ Mismatch \/ Match
       \/ Snapshot \/ SnapshotRefused
    /\ UNCHANGED <<changes, runs, faults>>

\* A file cannot be read, or the snapshot not be written.
Fault ==
    /\ stage \in {"receipt", "captions", "snapshot"}
    /\ faults < MaxFaults /\ faults' = faults + 1
    /\ Refuse(IF stage = "snapshot" THEN "not written" ELSE "unreadable")
    /\ UNCHANGED <<changes, runs>>

-----------------------------------------------------------------------------
\* The editor

\* Moves an end of a cue, or drops the last one.
Revisions(cues) ==
    {r \in {[cues EXCEPT ![i].start = @ + o] : i \in 1..Len(cues), o \in Offsets}
           \cup {[cues EXCEPT ![i].end = @ + o] : i \in 1..Len(cues), o \in Offsets} :
        \A i \in 1..Len(r) : r[i].start >= 0 /\ r[i].end >= 0}
    \cup {SubSeq(cues, 1, n) : n \in {m \in 1..N : m + 1 = Len(cues)}}

Edit ==
    /\ changes < MaxChanges /\ changes' = changes + 1
    /\ file' \in Revisions(file)
    /\ UNCHANGED <<inputs, stage, keep, payload, at, expectedStart, reason, snapshot>>
    /\ UNCHANGED <<runs, faults>>

Ended ==
    /\ stage \in {"ok", "failed"} /\ runs = MaxRuns
    /\ UNCHANGED captionsVars

CaptionsNext == Begin \/ Verify \/ Fault \/ Edit \/ Ended

CaptionsSpec == CaptionsInit /\ [][CaptionsNext]_captionsVars

-----------------------------------------------------------------------------
\* Properties

\* Cues that follow the audio: each within the tolerance, and half a
\* millisecond for each duration that was rounded before it.
Follows(cues) ==
    /\ Len(cues) = N
    /\ \A i \in Segment :
        /\ 2 * Distance(cues[i].start * Milli, Start(i)) <= (2 * Tolerance + i - 1) * Milli
        /\ 2 * Distance(cues[i].end * Milli, End(i)) <= (2 * Tolerance + i) * Milli

\* Whatever is accepted, and whatever is ever kept as a snapshot, follows the
\* audio itself and not only the receipt, however the caption file was edited
\* meanwhile and however often it was verified (verify_caption_timing, lines
\* 105-128).
AcceptedFollowsAudio ==
    /\ stage = "ok" => Follows(payload)
    /\ snapshot # <<>> => Follows(snapshot)

\* Success with --snapshot means that the snapshot holds the very cues this
\* verification read (main, lines 171-177; README: snapshots are write-once).
SnapshotIsVerified == stage = "ok" /\ keep => snapshot = payload

\* Captions rounded from the audio are never turned down for their timing,
\* though they are compared with a sum of rounded durations, as long as the
\* segments are few for the tolerance: 32 are for 20 ms (line 125).
HonestCaptionsPass ==
    N + 1 < 2 * Tolerance /\ Honest(payload) => reason # "mismatch"

\* "narration receipt duration exceeds 1,800 seconds" (line 124) is said of
\* receipts whose durations exceed the limit.
TooLongIsTooLong ==
    LET sum[n \in 0..N] == IF n = 0 THEN 0 ELSE receipt[n] + sum[n - 1]
    IN  reason = "too long" => sum[N] >= TotalLimit
=============================================================================
