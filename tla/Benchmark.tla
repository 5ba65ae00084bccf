------------------------------ MODULE Benchmark ------------------------------
(***************************************************************************)
(* run_benchmark: in every trial the manifest is rendered along two paths, *)
(* one cold process per segment and one process for all, in an order that  *)
(* alternates; each path hashes the files it left and compares them with   *)
(* the receipts, the paths are compared with each other and with the       *)
(* trials before, and the sources are hashed before and after it all.      *)
(*                                                                         *)
(* Meanwhile an editor changes the sources, and changes them back, another *)
(* program changes outputs, the model speaks differently for once, calls   *)
(* fail, and time passes.  A render is what Render and Supervisor justify: *)
(* it publishes segment by segment into free names, and is killed when its *)
(* time is up.  Hashing is one step.                                       *)
(***************************************************************************)
EXTENDS Naturals

CONSTANTS N,              \* segments of the manifest
          Trials,
          Audio,          \* what a segment may sound like
          Voices,         \* [Version -> Audio] functions: how the sources sound
          RenderTimeout,  \* RENDER_TIMEOUT_SECONDS
          Timeout,        \* BENCHMARK_TIMEOUT_SECONDS
          MaxEdits,       \* bound: edits of the sources
          MaxMishaps      \* bound: tampering, flukes and failing calls

Segment == 1..N
Version == {0, 1}   \* contents of the hashed files; 0 when the command starts
None == 0
Path == {"cold", "persistent"}

ASSUME BenchmarkAssumption ==
    /\ N \in Nat \ {0} /\ Trials \in 1..9
    /\ Audio \subseteq Nat \ {None}
    /\ Voices \subseteq [Version -> Audio]
    /\ RenderTimeout \in Nat \ {0} /\ Timeout \in Nat \ {0}
    /\ MaxEdits \in Nat /\ MaxMishaps \in Nat

VARIABLES
    pc,         \* the driver's next step
    trial,      \* the trial it is in
    stage,      \* the first or the second path of the trial
    at,         \* the segment the cold path is at
    todo,       \* segments the render has left to publish
    loaded,     \* the version of the sources the render runs
    until,      \* when the render will be killed
    now,        \* the driver's clock, from the start of the trials
    code,       \* the version of the sources on disk
    voice,      \* how each version sounds
    output,     \* the output directory of the path
    claimed,    \* the hashes in the receipts of the path
    baseline,   \* the hashes the first path of the trial returned
    reference,  \* the hashes of the first trial
    sampled,    \* the version hashed before the trials
    edits,      \* ghost: edits so far
    undone,     \* ghost: an edit brought the hashed version back
    mishaps,    \* ghost: other things gone wrong so far
    ran,        \* ghost: versions that rendered
    made        \* ghost: made[s]: all audio any render published for s

progress == <<trial, stage, at>>
render == <<todo, loaded, until>>
hashes == <<claimed, baseline, reference, sampled>>
ghosts == <<undone, ran, made>>
vars == <<pc, progress, render, now, code, voice, output, hashes, edits,
          mishaps, ghosts>>

Blank == [s \in Segment |-> None]
Files == [Segment -> Audio \cup {None}]

TypeOK ==
    /\ pc \in {"sample", "freeze", "launch", "render", "hash", "compare",
               "resample", "ok", "failed"}
    /\ trial \in 1..Trials /\ stage \in 1..2 /\ at \in Segment
    /\ todo \subseteq Segment /\ loaded \in Version
    /\ until \in 0..Timeout /\ now \in 0..(Timeout + 1)
    /\ {code, sampled} \subseteq Version /\ voice \in Voices
    /\ {output, claimed, baseline, reference} \subseteq Files
    /\ edits \in 0..MaxEdits /\ undone \in BOOLEAN /\ mishaps \in 0..MaxMishaps
    /\ ran \subseteq Version /\ made \in [Segment -> SUBSET Audio]

Init ==
    /\ pc = "sample" /\ trial = 1 /\ stage = 1 /\ at = 1
    /\ todo = {} /\ loaded = 0 /\ until = 0 /\ now = 0
    /\ code = 0 /\ voice \in Voices
    /\ output = Blank /\ claimed = Blank /\ baseline = Blank /\ reference = Blank
    /\ sampled = 0 /\ edits = 0 /\ undone = FALSE /\ mishaps = 0
    /\ ran = {} /\ made = [s \in Segment |-> {}]

Goto(from, to) == pc = from /\ pc' = to
Ended == pc \in {"ok", "failed"}

-----------------------------------------------------------------------------
\* Before the trials

SampleFiles ==
    /\ Goto("sample", "freeze")
    /\ sampled' = code
    /\ UNCHANGED <<progress, render, now, code, voice, output, claimed, baseline>>
    /\ UNCHANGED <<reference, edits, mishaps, ghosts>>

\* The deadline is set, and the manifest written where no editor finds it.
Freeze ==
    /\ Goto("freeze", "launch")
    /\ UNCHANGED <<progress, render, now, code, voice, output, hashes, edits>>
    /\ UNCHANGED <<mishaps, ghosts>>

-----------------------------------------------------------------------------
\* One path

\* Odd trials take the cold path first, even ones the persistent path.
Way == IF (trial % 2 = 1) = (stage = 1) THEN "cold" ELSE "persistent"

\* As a mutant of LaunchUntil: every render has its full time.
FullTime == now + RenderTimeout

\* A render may take its own time limit or what is left of the benchmark's.
LaunchUntil == IF FullTime < Timeout THEN FullTime ELSE Timeout

Launch ==
    /\ now < Timeout
    /\ Goto("launch", "render")
    /\ todo' = IF Way = "cold" THEN {at} ELSE Segment
    /\ loaded' = code /\ ran' = ran \cup {code}
    /\ until' = LaunchUntil
    /\ UNCHANGED <<progress, now, code, voice, output, hashes, edits, mishaps>>
    /\ UNCHANGED <<undone, made>>

LaunchRefused ==
    /\ now >= Timeout
    /\ Goto("launch", "failed")
    /\ UNCHANGED <<progress, render, now, code, voice, output, hashes, edits>>
    /\ UNCHANGED <<mishaps, ghosts>>

\* Segments are rendered in the order of the manifest.
IsNext(s) == s \in todo /\ \A t \in todo : s <= t

\* The render publishes its next segment, and says so in its receipt ...
RenderAs(s, audio) ==
    /\ pc = "render" /\ IsNext(s)
    /\ output[s] = None
    /\ output' = [output EXCEPT ![s] = audio]
    /\ claimed' = [claimed EXCEPT ![s] = audio]
    /\ made' = [made EXCEPT ![s] = @ \cup {audio}]
    /\ todo' = todo \ {s}
    /\ UNCHANGED <<pc, progress, loaded, until, now, code, voice, baseline>>
    /\ UNCHANGED <<reference, sampled, edits, undone, ran>>

RenderSegment ==
    /\ \E s \in Segment : RenderAs(s, voice[loaded])
    /\ UNCHANGED mishaps

\* ... unless something has its name.
RenderRefused ==
    /\ \E s \in Segment : IsNext(s) /\ output[s] # None
    /\ Goto("render", "failed")
    /\ UNCHANGED <<progress, render, now, code, voice, output, hashes, edits>>
    /\ UNCHANGED <<mishaps, ghosts>>

\* The receipt is there: the next cold render, or the inventory.
Collect ==
    /\ todo = {}
    /\ Goto("render", IF Way = "cold" /\ at < N THEN "launch" ELSE "hash")
    /\ at' = IF Way = "cold" /\ at < N THEN at + 1 ELSE 1
    /\ UNCHANGED <<trial, stage, render, now, code, voice, output, hashes>>
    /\ UNCHANGED <<edits, mishaps, ghosts>>

\* Mutant of RenderTimesOut: an unfinished render is waited for.
WaitForRender ==
    /\ now >= until /\ todo = {}
    /\ Goto("render", "failed")
    /\ UNCHANGED <<progress, render, now, code, voice, output, hashes, edits>>
    /\ UNCHANGED <<mishaps, ghosts>>

RenderTimesOut ==
    /\ now >= until
    /\ Goto("render", "failed")
    /\ UNCHANGED <<progress, render, now, code, voice, output, hashes, edits>>
    /\ UNCHANGED <<mishaps, ghosts>>

\* _hash_output_files finds every expected file and no other, with the
\* contents the receipts claim; the second path has a directory of its own.
HashInto(directory) ==
    /\ output = claimed
    /\ Goto("hash", IF stage = 1 THEN "launch" ELSE "compare")
    /\ stage' = 2
    /\ IF stage = 1
       THEN /\ baseline' = output /\ output' = directory /\ claimed' = Blank
       ELSE UNCHANGED <<baseline, output, claimed>>
    /\ UNCHANGED <<trial, at, render, now, code, voice, reference, sampled>>
    /\ UNCHANGED <<edits, mishaps, ghosts>>

\* Mutant of Hash: the two paths share one directory.
HashShared == HashInto(output)

Hash == HashInto(Blank)

HashMismatch ==
    /\ output # claimed
    /\ Goto("hash", "failed")
    /\ UNCHANGED <<progress, render, now, code, voice, output, hashes, edits>>
    /\ UNCHANGED <<mishaps, ghosts>>

-----------------------------------------------------------------------------
\* Between and after the trials

\* Mutant of Agree: each trial is compared within itself only.
AgreeWithin == output = baseline

\* The two paths agree, and so do the trials; output stands for what the
\* second path hashed.
Agree == output = baseline /\ (trial > 1 => output = reference)

\* The next trial has directories of its own.
Compare(last) ==
    /\ Agree
    /\ Goto("compare", IF trial = last THEN "resample" ELSE "launch")
    /\ trial' = IF trial = last THEN trial ELSE trial + 1
    /\ stage' = IF trial = last THEN stage ELSE 1
    /\ reference' = IF trial = 1 THEN output ELSE reference
    /\ output' = Blank /\ claimed' = Blank
    /\ UNCHANGED <<at, render, now, code, voice, baseline, sampled, edits>>
    /\ UNCHANGED <<mishaps, ghosts>>

CompareTrial == Compare(Trials)

CompareFails ==
    /\ ~Agree
    /\ Goto("compare", "failed")
    /\ UNCHANGED <<progress, render, now, code, voice, output, hashes, edits>>
    /\ UNCHANGED <<mishaps, ghosts>>

\* Mutant of Resample: the second sample is not compared.
ResampleNothing ==
    /\ Goto("resample", "ok")
    /\ UNCHANGED <<progress, render, now, code, voice, output, hashes, edits>>
    /\ UNCHANGED <<mishaps, ghosts>>

\* The sources are hashed again; the report names the hashes of the first
\* sample.
Resample ==
    /\ Goto("resample", IF code = sampled THEN "ok" ELSE "failed")
    /\ UNCHANGED <<progress, render, now, code, voice, output, hashes, edits>>
    /\ UNCHANGED <<mishaps, ghosts>>

Driver ==
    \/ SampleFiles \/ Freeze \/ Launch \/ LaunchRefused \/ Collect
    \/ RenderTimesOut \/ Hash \/ HashMismatch
    \/ CompareTrial \/ CompareFails \/ Resample

-----------------------------------------------------------------------------
\* The surroundings

\* Time does not pass a render by: the supervisor ends it when its time is up.
Tick ==
    /\ pc \notin {"sample", "freeze"} /\ ~Ended
    /\ pc = "render" => now < until
    /\ now <= Timeout /\ now' = now + 1
    /\ UNCHANGED <<pc, progress, render, code, voice, output, hashes, edits>>
    /\ UNCHANGED <<mishaps, ghosts>>

Edit ==
    /\ ~Ended /\ edits < MaxEdits
    /\ edits' = edits + 1
    /\ code' = 1 - code
    /\ undone' = (undone \/ (pc # "sample" /\ code' = sampled))
    /\ UNCHANGED <<pc, progress, render, now, voice, output, hashes, mishaps>>
    /\ UNCHANGED <<ran, made>>

Mishap == ~Ended /\ mishaps < MaxMishaps /\ mishaps' = mishaps + 1

\* Another program adds, changes or removes an output.
Tamper ==
    /\ Mishap /\ pc \in {"launch", "render", "hash"}
    /\ \E s \in Segment, a \in Audio \cup {None} :
          /\ a # output[s]
          /\ output' = [output EXCEPT ![s] = a]
    /\ UNCHANGED <<pc, progress, render, now, code, voice, hashes, edits, ghosts>>

\* A segment comes out otherwise than the sources and its seed say.
Fluke ==
    /\ Mishap
    /\ \E s \in Segment, a \in Audio \ {voice[loaded]} : RenderAs(s, a)

\* A file cannot be read or written, a process cannot be started, a render
\* fails, or its receipt is not valid.
Fault ==
    /\ Mishap
    /\ pc' = "failed"
    /\ UNCHANGED <<progress, render, now, code, voice, output, hashes, edits, ghosts>>

Terminated == Ended /\ UNCHANGED vars

Next ==
    \/ Driver \/ RenderSegment \/ RenderRefused
    \/ Tick \/ Edit \/ Tamper \/ Fluke \/ Fault
    \/ Terminated

\* The driver is scheduled and time passes.  A render may hang.
Spec == Init /\ [][Next]_vars /\ WF_vars(Driver) /\ WF_vars(Tick)

-----------------------------------------------------------------------------
\* Properties

\* "bit_identical_outputs": every render of every segment, in either path and
\* in any trial, made the audio whose hash is reported, whoever changed files
\* or sources meanwhile (_require_matching_outputs, lines 620, 650, 748-752).
ReportIsUniform ==
    pc = "ok" => \A s \in Segment : made[s] = {reference[s]}

\* The hashes reported of the sources are those of every render, unless an
\* edit was undone before the second sample (lines 664 and 767-773).
ReportNamesItsCode ==
    pc = "ok" /\ ~undone => ran = {sampled}

\* No render runs on when the time of the benchmark is over, however many
\* there were before it (lines 91-94 and 608).
BudgetKept == pc = "render" => now <= Timeout

\* A benchmark of sound renders fails only when something happened: one path
\* never stands in the way of the other, nor a trial of the next.
FailureHasCause ==
    pc = "failed" => mishaps > 0 \/ edits > 0 \/ now >= RenderTimeout \/ now >= Timeout

\* The benchmark ends, even when a render hangs.
Ends == <>Ended
=============================================================================
