------------------------------- MODULE Render -------------------------------
(***************************************************************************)
(* render_manifest and _render_segment: the model is loaded once, then     *)
(* each selected segment is seeded, generated, given its directory and     *)
(* published, and the sum of the durations is compared with the limit of   *)
(* the manifest.  The whole manifest or, with --only, one segment is       *)
(* selected.                                                               *)
(*                                                                         *)
(* Several invocations may render into one output directory, calls fail,   *)
(* invocations die, and the user renders what is missing again.  Loading   *)
(* the model is ModelView's subject, and a publication is the single step  *)
(* that Publish justifies.  Durations are in units of the receipt.         *)
(***************************************************************************)
EXTENDS Naturals, FiniteSets, FiniteSetsExt

CONSTANTS Proc,           \* invocations of the render command
          N,              \* segments of the manifest
          Durations,      \* [Segment -> Nat] functions: what the model may utter
          Layouts,        \* relations among output paths a manifest may have
          SegmentLimit,   \* MAX_AUDIO_SECONDS_PER_SEGMENT
          ManifestLimit,  \* MAX_AUDIO_SECONDS_PER_MANIFEST
          MaxFaults       \* bound: runs that fail or die

Segment == 1..N

ASSUME RenderAssumption ==
    /\ N \in Nat \ {0}
    /\ Durations \subseteq [Segment -> Nat]
    /\ Layouts \subseteq [Segment -> SUBSET Segment]
    /\ SegmentLimit \in Nat /\ ManifestLimit \in Nat
    /\ SegmentLimit <= ManifestLimit
    /\ MaxFaults \in Nat

VARIABLES
    pc,        \* the next step of each invocation
    selected,  \* the segments it renders
    at,        \* the segment it is at
    rng,       \* the random state: the seed set last, and if it was drawn from
    audio,     \* the random state its waveform was generated from
    total,     \* sum of the durations in its receipts
    output,    \* output[s]: the audio under the output path of s, or Nothing
    occupied,  \* segments at whose output path a directory stands
    duration,  \* duration[s] of the audio s generates
    below,     \* below[s]: segments whose output path is a directory of s's
    mine,      \* ghost: outputs the current run of an invocation published
    used       \* ghost: runs that failed or died so far

vars == <<pc, selected, at, rng, audio, total, output, occupied, duration,
          below, mine, used>>

Phase == {"idle", "load", "seed", "generate", "directory", "publish",
          "account", "check", "ok", "failed"}

\* A random state: the segment whose seed was set last, 0 before any was, and
\* whether something was drawn since.
Random == [seed : 0..N, drawn : BOOLEAN]
Nothing == [seed |-> 0, drawn |-> FALSE]

TypeOK ==
    /\ pc \in [Proc -> Phase]
    /\ selected \in [Proc -> SUBSET Segment]
    /\ at \in [Proc -> 0..N]
    /\ \A p \in Proc : pc[p] \in {"seed", "generate", "directory", "publish", "account"}
                          => at[p] \in selected[p]
    /\ rng \in [Proc -> Random] /\ audio \in [Proc -> Random]
    /\ total \in [Proc -> Nat]
    /\ output \in [Segment -> Random]
    /\ occupied \subseteq Segment
    /\ duration \in Durations /\ below \in Layouts
    /\ mine \in [Proc -> SUBSET Segment]
    /\ used \in 0..MaxFaults

Init ==
    /\ pc = [p \in Proc |-> "idle"]
    /\ selected = [p \in Proc |-> {}]
    /\ at = [p \in Proc |-> 0]
    /\ rng = [p \in Proc |-> Nothing]
    /\ audio = [p \in Proc |-> Nothing]
    /\ total = [p \in Proc |-> 0]
    /\ output = [s \in Segment |-> Nothing]
    /\ occupied = {}
    /\ duration \in Durations /\ below \in Layouts
    /\ mine = [p \in Proc |-> {}]
    /\ used = 0

Goto(p, from, to) ==
    /\ pc[p] = from
    /\ pc' = [pc EXCEPT ![p] = to]

Published(s) == output[s] # Nothing

-----------------------------------------------------------------------------
\* One invocation

\* The manifest from its first segment on, or one segment of it.
Selections == {<<Segment, 1>>} \cup {<<{s}, s>> : s \in Segment}

Select(p, choice) ==
    /\ selected' = [selected EXCEPT ![p] = choice[1]]
    /\ at' = [at EXCEPT ![p] = choice[2]]
    /\ rng' = [rng EXCEPT ![p] = Nothing]
    /\ total' = [total EXCEPT ![p] = 0]
    /\ mine' = [mine EXCEPT ![p] = {}]
    /\ UNCHANGED <<audio, output, occupied, duration, below, used>>

\* The first run renders the manifest or one segment of it ...
Start(p) ==
    /\ Goto(p, "idle", "load")
    /\ \E choice \in Selections : Select(p, choice)

\* ... later ones, with --only, what is missing and can still be rendered.
Unrenderable(s) ==
    \/ duration[s] > SegmentLimit
    \/ s \in occupied
    \/ \E t \in below[s] : Published(t)

Resume(p) ==
    /\ pc[p] \in {"ok", "failed"}
    /\ pc' = [pc EXCEPT ![p] = "load"]
    /\ \E s \in Segment : /\ ~Published(s) /\ ~Unrenderable(s)
                          /\ Select(p, <<{s}, s>>)

Load(p) ==
    /\ Goto(p, "load", "seed")
    /\ UNCHANGED <<selected, at, rng, audio, total, output, occupied, duration>>
    /\ UNCHANGED <<below, mine, used>>

\* Mutant of Seed: seeds the generator for the first segment only.
SeedOnce(p) ==
    /\ Goto(p, "seed", "generate")
    /\ rng' = IF rng[p].seed # 0 THEN rng
              ELSE [rng EXCEPT ![p] = [seed |-> at[p], drawn |-> FALSE]]
    /\ UNCHANGED <<selected, at, audio, total, output, occupied, duration>>
    /\ UNCHANGED <<below, mine, used>>

\* _seed_everything
Seed(p) ==
    /\ Goto(p, "seed", "generate")
    /\ rng' = [rng EXCEPT ![p] = [seed |-> at[p], drawn |-> FALSE]]
    /\ UNCHANGED <<selected, at, audio, total, output, occupied, duration>>
    /\ UNCHANGED <<below, mine, used>>

\* Mutant of Generate: a segment as long as the limit is refused.
GenerateShort(p) ==
    /\ Goto(p, "generate", IF duration[at[p]] >= SegmentLimit THEN "failed" ELSE "directory")
    /\ audio' = [audio EXCEPT ![p] = rng[p]]
    /\ rng' = [rng EXCEPT ![p].drawn = TRUE]
    /\ UNCHANGED <<selected, at, total, output, occupied, duration, below, mine, used>>

\* The model draws from the random state for as long as it speaks; too long a
\* segment ends the run before anything of it is published.
Generate(p) ==
    /\ Goto(p, "generate", IF duration[at[p]] > SegmentLimit THEN "failed" ELSE "directory")
    /\ audio' = [audio EXCEPT ![p] = rng[p]]
    /\ rng' = [rng EXCEPT ![p].drawn = TRUE]
    /\ UNCHANGED <<selected, at, total, output, occupied, duration, below, mine, used>>

\* open_relative_directory makes the directories of the output path that are
\* missing; a file in the place of one ends the run.
MakeDirectories(p) ==
    /\ Goto(p, "directory",
            IF \E t \in below[at[p]] : Published(t) THEN "failed" ELSE "publish")
    /\ occupied' = occupied \cup
          {t \in below[at[p]] : \A u \in below[t] \cup {t} : ~Published(u)}
    /\ UNCHANGED <<selected, at, rng, audio, total, output, duration, below, mine, used>>

\* Mutant of Publish: replaces what stands there.
PublishOver(p) ==
    /\ Goto(p, "publish", "account")
    /\ output' = [output EXCEPT ![at[p]] = audio[p]]
    /\ mine' = [mine EXCEPT ![p] = @ \cup {at[p]}]
    /\ UNCHANGED <<selected, at, rng, audio, total, occupied, duration, below, used>>

\* _write_wav_at, into a free name only.
Publish(p) ==
    /\ Goto(p, "publish", "account")
    /\ ~Published(at[p]) /\ at[p] \notin occupied
    /\ output' = [output EXCEPT ![at[p]] = audio[p]]
    /\ mine' = [mine EXCEPT ![p] = @ \cup {at[p]}]
    /\ UNCHANGED <<selected, at, rng, audio, total, occupied, duration, below, used>>

\* Mutant of PublishRefused: what stands there will do.
KeepExisting(p) ==
    /\ Goto(p, "publish", "account")
    /\ Published(at[p]) \/ at[p] \in occupied
    /\ UNCHANGED <<selected, at, rng, audio, total, output, occupied, duration>>
    /\ UNCHANGED <<below, mine, used>>

PublishRefused(p) ==
    /\ Goto(p, "publish", "failed")
    /\ Published(at[p]) \/ at[p] \in occupied
    /\ UNCHANGED <<selected, at, rng, audio, total, output, occupied, duration>>
    /\ UNCHANGED <<below, mine, used>>

\* All segments are selected or one is: the next one selected is the next one.
MoreLeft(p) == at[p] + 1 \in selected[p]

\* After the segment at hand: the sum of the durations and the next step.
Continue(p, sum, limited) ==
    /\ pc[p] = "account"
    /\ total' = [total EXCEPT ![p] = sum]
    /\ pc' = [pc EXCEPT ![p] = IF limited > ManifestLimit THEN "failed"
                               ELSE IF MoreLeft(p) THEN "seed" ELSE "check"]
    /\ UNCHANGED <<selected, rng, audio, output, occupied, duration, below, mine, used>>

\* Mutant of Account: compares the sum without the segment just rendered.
AccountLate(p) ==
    /\ Continue(p, total[p] + duration[at[p]], total[p])
    /\ at' = [at EXCEPT ![p] = IF pc'[p] = "seed" THEN @ + 1 ELSE @]

\* The receipt is kept, and the sum of the durations decides, after the file
\* has been published.
Account(p) ==
    /\ Continue(p, total[p] + duration[at[p]], total[p] + duration[at[p]])
    /\ at' = [at EXCEPT ![p] = IF pc'[p] = "seed" THEN @ + 1 ELSE @]

\* The receipt of the run divides by the sum of the durations.
Report(p) ==
    /\ Goto(p, "check", IF total[p] = 0 THEN "failed" ELSE "ok")
    /\ UNCHANGED <<selected, at, rng, audio, total, output, occupied, duration>>
    /\ UNCHANGED <<below, mine, used>>

Step(p) ==
    \/ Load(p) \/ Seed(p) \/ Generate(p) \/ MakeDirectories(p)
    \/ Publish(p) \/ PublishRefused(p) \/ Account(p) \/ Report(p)

-----------------------------------------------------------------------------
\* What goes wrong

Running(p) == pc[p] \notin {"idle", "ok", "failed"}

\* The model cannot be bound or loaded or was changed, a waveform is silent or
\* not finite, a directory or a file cannot be written; or the process dies,
\* which leaves the same directory.
Fault(p) ==
    /\ Running(p)
    /\ used < MaxFaults /\ used' = used + 1
    /\ pc' = [pc EXCEPT ![p] = "failed"]
    /\ UNCHANGED <<selected, at, rng, audio, total, output, occupied, duration>>
    /\ UNCHANGED <<below, mine>>

\* Nothing is left that another run could add.
Settled ==
    /\ \A p \in Proc : pc[p] \in {"ok", "failed"}
    /\ \A s \in Segment : Published(s) \/ Unrenderable(s)
    /\ UNCHANGED vars

Next ==
    \/ \E p \in Proc : Start(p) \/ Resume(p) \/ Step(p) \/ Fault(p)
    \/ Settled

\* Invocations are scheduled, and the user starts the first run and renders
\* again what is missing.
Spec ==
    /\ Init /\ [][Next]_vars
    /\ \A p \in Proc : WF_vars(Step(p)) /\ WF_vars(Start(p)) /\ WF_vars(Resume(p))

-----------------------------------------------------------------------------
\* Properties

\* Every output is the one its own seed gives, whether its run rendered the
\* manifest, went on after other segments, or rendered it alone: what the
\* benchmark calls bit-identical (_render_segment, line 729).
Reproducible ==
    \A s \in Segment : Published(s) => output[s] = [seed |-> s, drawn |-> FALSE]

\* A run that succeeds has published every segment it selected itself: its
\* receipts never name a file that another run put there, and give a sum of
\* durations that is within the limit and can be divided by (line 867).
OkOwnsAll ==
    \A p \in Proc : pc[p] = "ok" =>
        /\ mine[p] = selected[p]
        /\ total[p] = MapThenSumSet(LAMBDA s : duration[s], selected[p])
        /\ total[p] <= ManifestLimit /\ total[p] > 0

\* A run that fails has published the selected segments in order up to some
\* point and no other, and at most one of them beyond the limit.
PrefixPublished ==
    \A p \in Proc : pc[p] # "idle" =>
        /\ mine[p] \subseteq {s \in selected[p] : s <= at[p] /\ Published(s)}
        /\ {s \in selected[p] : s < at[p]} \subseteq mine[p]
        /\ MapThenSumSet(LAMBDA s : duration[s], mine[p]) <= ManifestLimit + SegmentLimit

\* No two runs claim one file, nor does a file stand where a directory does:
\* rivals in one output directory never mix their receipts.
OneOwner ==
    /\ \A p, q \in Proc : p # q => mine[p] \cap mine[q] = {}
    /\ \A s \in occupied : ~Published(s)

\* Rendering again what is missing completes the manifest, whatever failed
\* before, but for segments that are too long or whose paths exclude each
\* other.
Completes ==
    <>[](\A s \in Segment : Published(s) \/ Unrenderable(s))
=============================================================================
