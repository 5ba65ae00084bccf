--------------------------- MODULE BenchmarkProofs ---------------------------
(***************************************************************************)
(* Proofs about Benchmark, for any number of segments, trials up to nine,  *)
(* time limits, edits and mishaps, whatever the versions sound like.       *)
(***************************************************************************)
EXTENDS Benchmark, TLAPS

\* Which segments of the path have a receipt, at each of the driver's steps.
Receipts ==
    /\ pc \in {"sample", "freeze"} => trial = 1 /\ stage = 1 /\ at = 1 /\ claimed = Blank
    /\ pc = "launch" =>
          IF Way = "cold" THEN \A s \in Segment : claimed[s] = None <=> s >= at
                          ELSE at = 1 /\ \A s \in Segment : claimed[s] = None
    /\ pc = "render" =>
          /\ Way = "cold" => todo \subseteq {at}
          /\ \A s \in Segment :
                claimed[s] = None <=> s \in todo \/ (Way = "cold" /\ s > at)
    /\ pc \in {"hash", "compare"} => at = 1 /\ \A s \in Segment : claimed[s] # None
    /\ pc = "compare" => stage = 2 /\ output = claimed

\* What the renders made of a segment is what the path, the first path and
\* the trials before have hashes of.
Heard(s) == {claimed[s]} \cup (IF stage = 2 THEN {baseline[s]} ELSE {})
                         \cup (IF trial > 1 THEN {reference[s]} ELSE {})

Accounted ==
    /\ stage = 2 => \A s \in Segment : baseline[s] # None
    /\ trial > 1 => \A s \in Segment : reference[s] # None
    /\ pc \notin {"resample", "ok", "failed"} =>
          \A s \in Segment : made[s] = Heard(s) \ {None}
    /\ pc \in {"resample", "ok"} => \A s \in Segment : made[s] = {reference[s]}

\* A render ends in time, and was given its own time limit or all that was left.
InTime ==
    pc = "render" =>
        /\ now <= until /\ until <= Timeout
        /\ until >= RenderTimeout \/ until = Timeout

\* As long as no edit was undone, other versions than the one on disk rendered
\* only while it was not the sampled one.
Named ==
    /\ pc \in {"sample", "freeze"} => ran = {}
    /\ pc \in {"render", "hash", "compare", "resample", "ok"} => ran # {}
    /\ pc # "sample" /\ ~undone /\ code = sampled => ran \subseteq {sampled}
    /\ pc = "ok" => code = sampled

\* Without mishaps the files are what the receipts say, and without edits
\* they sound as the first version does.
Sound ==
    /\ mishaps = 0 => output = claimed
    /\ mishaps = 0 /\ edits = 0 =>
          /\ code = 0 /\ sampled = 0 /\ loaded = 0
          /\ \A s \in Segment : claimed[s] \in {None, voice[0]}
          /\ stage = 2 => \A s \in Segment : baseline[s] = voice[0]
          /\ trial > 1 => \A s \in Segment : reference[s] = voice[0]

IInv == TypeOK /\ Receipts /\ Accounted /\ InTime /\ Named /\ Sound /\ FailureHasCause

\* The initial states satisfy the invariant.
LEMMA InitHolds == Init => IInv
  <1> SUFFICES ASSUME Init PROVE IInv
    OBVIOUS
  <1> USE BenchmarkAssumption DEF Init, Segment, None, Blank
  <1>1. TypeOK
    <2>1. Blank \in Files /\ made \in [Segment -> SUBSET Audio]
      BY DEF Files
    <2>2. {output, claimed, baseline, reference} \subseteq Files
      BY <2>1
    <2>3. trial \in 1..Trials /\ at \in Segment
      OBVIOUS
    <2>4. /\ until \in 0..Timeout /\ now \in 0..(Timeout + 1)
          /\ edits \in 0..MaxEdits /\ mishaps \in 0..MaxMishaps
      OBVIOUS
    <2>5. {code, sampled} \subseteq Version /\ loaded \in Version /\ ran \subseteq Version
      BY DEF Version
    <2>6. /\ pc \in {"sample", "freeze", "launch", "render", "hash", "compare",
                      "resample", "ok", "failed"}
          /\ stage \in 1..2 /\ todo \subseteq Segment /\ voice \in Voices
      OBVIOUS
    <2>7. undone \in BOOLEAN
      BY Zenon
    <2> HIDE DEF Init, Segment, None, Blank
    <2> QED
      BY <2>1, <2>2, <2>3, <2>4, <2>5, <2>6, <2>7, Zenon DEF TypeOK
  <1>2. Receipts /\ InTime /\ Named /\ FailureHasCause
    BY DEF Receipts, InTime, Named, FailureHasCause
  <1>3. Accounted
    BY DEF Accounted, Heard
  <1>4. Sound
    BY DEF Sound
  <1> QED
    BY <1>1, <1>2, <1>3, <1>4 DEF IInv

\* What one version says is audio, and audio is something.
LEMMA VoicesSpeak ==
    ASSUME TypeOK
    PROVE  voice[loaded] \in Audio /\ None \notin Audio
  BY BenchmarkAssumption DEF TypeOK, None

\* A render publishes audio, by a fluke or not.
LEMMA RenderSpeaks ==
    ASSUME TypeOK, RenderSegment \/ Fluke
    PROVE  \E s \in Segment, a \in Audio : RenderAs(s, a)
  BY VoicesSpeak DEF RenderSegment, Fluke

\* Steps that only end the benchmark.
Failing ==
    LaunchRefused \/ RenderTimesOut \/ HashMismatch \/ CompareFails \/ RenderRefused \/ Fault

LEMMA FailingStops ==
    ASSUME Failing
    PROVE  /\ pc' = "failed"
           /\ UNCHANGED <<progress, render, now, code, voice, output, hashes, edits, ghosts>>
  BY DEF Failing, LaunchRefused, RenderTimesOut, HashMismatch, CompareFails,
         RenderRefused, Fault, Goto, ghosts

\* Every step keeps every variable in its range.
LEMMA TypeStep ==
    ASSUME TypeOK, [Next]_vars
    PROVE  TypeOK'
  <1> USE BenchmarkAssumption
      DEF TypeOK, Segment, Version, Files, Goto, progress, render, hashes, ghosts
  <1>1. CASE SampleFiles
    BY <1>1 DEF SampleFiles
  <1>2. CASE Freeze
    BY <1>2 DEF Freeze
  <1>3. CASE Launch
    <2>1. until' \in 0..Timeout
      BY <1>3 DEF Launch, LaunchUntil, FullTime
    <2>2. todo' \subseteq Segment
      BY <1>3 DEF Launch
    <2>3. ran' \subseteq Version /\ loaded' \in Version
      BY <1>3 DEF Launch
    <2> QED
      BY <1>3, <2>1, <2>2, <2>3 DEF Launch
  <1>4. CASE Failing
    <2>1. mishaps' \in 0..MaxMishaps
      BY <1>4 DEF Failing, LaunchRefused, RenderTimesOut, HashMismatch, CompareFails,
                  RenderRefused, Fault, Mishap
    <2> QED
      BY <1>4, <2>1, FailingStops
  <1>5. CASE RenderSegment \/ Fluke
    <2>1. PICK s \in Segment, a \in Audio : RenderAs(s, a)
      BY <1>5, RenderSpeaks
    <2>2. mishaps' \in 0..MaxMishaps
      BY <1>5 DEF RenderSegment, Fluke, Mishap
    <2>3. output' \in Files /\ claimed' \in Files
      BY <2>1 DEF RenderAs
    <2>4. made' \in [Segment -> SUBSET Audio]
      BY <2>1 DEF RenderAs
    <2> QED
      BY <2>1, <2>2, <2>3, <2>4 DEF RenderAs
  <1>6. CASE Collect
    BY <1>6 DEF Collect
  <1>7. CASE Hash
    BY <1>7 DEF Hash, HashInto, Blank
  <1>8. CASE CompareTrial
    BY <1>8 DEF CompareTrial, Compare, Blank
  <1>9. CASE Resample
    BY <1>9 DEF Resample
  <1>10. CASE Tick
    BY <1>10 DEF Tick
  <1>11. CASE Edit
    BY <1>11 DEF Edit
  <1>12. CASE Tamper
    <2>1. output' \in Files /\ mishaps' \in 0..MaxMishaps
      BY <1>12 DEF Tamper, Mishap
    <2> QED
      BY <1>12, <2>1 DEF Tamper
  <1>13. CASE UNCHANGED vars
    BY <1>13 DEF vars
  <1> QED
    BY <1>1, <1>2, <1>3, <1>4, <1>5, <1>6, <1>7, <1>8, <1>9, <1>10, <1>11, <1>12, <1>13
       DEF Next, Driver, Terminated, Failing

\* The path depends on the trial and the stage alone.
LEMMA WayKept ==
    ASSUME trial' = trial, stage' = stage
    PROVE  Way' = Way
  BY DEF Way

\* Every step keeps the receipts complete up to where the path is.
LEMMA ReceiptsStep ==
    ASSUME TypeOK, Receipts, [Next]_vars
    PROVE  Receipts'
  <1> USE BenchmarkAssumption, WayKept
      DEF TypeOK, Receipts, Segment, Files, Blank, Goto, progress, render, hashes, ghosts
  <1>1. CASE SampleFiles
    BY <1>1 DEF SampleFiles
  <1>2. CASE Freeze
    BY <1>2 DEF Freeze
  <1>3. CASE Launch
    BY <1>3 DEF Launch
  <1>4. CASE Failing
    BY <1>4, FailingStops
  <1>5. CASE RenderSegment \/ Fluke
    <2>1. PICK s \in Segment, a \in Audio : RenderAs(s, a)
      BY <1>5, RenderSpeaks
    <2>2. a # None /\ s \in todo
      BY <2>1, VoicesSpeak DEF RenderAs, IsNext
    <2>3. \A t \in Segment : claimed'[t] = IF t = s THEN a ELSE claimed[t]
      BY <2>1 DEF RenderAs
    <2>4. todo' = todo \ {s} /\ pc = "render" /\ pc' = pc /\ at' = at /\ Way' = Way
      BY <2>1 DEF RenderAs
    <2>5. Way = "cold" => s = at
      BY <2>2, <2>4
    <2> QED
      BY <2>2, <2>3, <2>4, <2>5
  <1>6. CASE Collect
    BY <1>6 DEF Collect
  <1>7. CASE Hash
    BY <1>7 DEF Hash, HashInto
  <1>8. CASE CompareTrial
    BY <1>8 DEF CompareTrial, Compare
  <1>9. CASE Resample
    BY <1>9 DEF Resample
  <1>10. CASE Tick \/ Edit
    <2>1. UNCHANGED <<pc, trial, stage, at, todo, claimed, output>>
      BY <1>10 DEF Tick, Edit
    <2> QED
      BY <2>1
  <1>11. CASE Tamper
    BY <1>11 DEF Tamper
  <1>12. CASE UNCHANGED vars
    BY <1>12 DEF vars
  <1> QED
    BY <1>1, <1>2, <1>3, <1>4, <1>5, <1>6, <1>7, <1>8, <1>9, <1>10, <1>11, <1>12
       DEF Next, Driver, Terminated, Failing

\* Every step keeps account of what the renders made.
LEMMA AccountedStep ==
    ASSUME TypeOK, Receipts, Accounted, [Next]_vars
    PROVE  Accounted'
  <1> USE BenchmarkAssumption
      DEF TypeOK, Accounted, Heard, Segment, Files, Goto, progress, render, hashes, ghosts
  <1>1. CASE SampleFiles \/ Freeze \/ Collect \/ Tick \/ Edit \/ Tamper
    BY <1>1 DEF SampleFiles, Freeze, Collect, Tick, Edit, Tamper, Ended
  <1>2. CASE Launch
    BY <1>2 DEF Launch
  <1>3. CASE Failing
    BY <1>3, FailingStops
  <1>4. CASE RenderSegment \/ Fluke
    <2>1. PICK s \in Segment, a \in Audio : RenderAs(s, a)
      BY <1>4, RenderSpeaks
    <2>2. a # None /\ claimed[s] = None
      BY <2>1, VoicesSpeak DEF RenderAs, IsNext, Receipts
    <2>3. /\ \A t \in Segment : claimed'[t] = IF t = s THEN a ELSE claimed[t]
          /\ \A t \in Segment : made'[t] = IF t = s THEN made[s] \cup {a} ELSE made[t]
          /\ pc = "render" /\ pc' = pc
          /\ UNCHANGED <<trial, stage, baseline, reference>>
      BY <2>1 DEF RenderAs
    <2> QED
      BY <2>2, <2>3
  <1>5. CASE Hash
    <2>1. \A s \in Segment : claimed[s] # None /\ claimed[s] = output[s]
      BY <1>5 DEF Hash, HashInto, Receipts
    <2>2. CASE stage = 1
      <3>1. /\ baseline' = output /\ \A s \in Segment : claimed'[s] = None
            /\ stage' = 2 /\ pc = "hash" /\ pc' = "launch"
            /\ UNCHANGED <<trial, reference, made>>
        BY <1>5, <2>2 DEF Hash, HashInto, Blank
      <3> QED
        BY <2>1, <2>2, <3>1
    <2>3. CASE stage = 2
      BY <1>5, <2>3 DEF Hash, HashInto
    <2> QED
      BY <2>2, <2>3
  <1>6. CASE CompareTrial
    <2>1. /\ stage = 2 /\ output = claimed /\ output = baseline
          /\ trial > 1 => output = reference
          /\ \A s \in Segment : output[s] # None
      BY <1>6 DEF CompareTrial, Compare, Agree, Receipts
    <2>2. \A s \in Segment : made[s] = {output[s]}
      BY <1>6, <2>1 DEF CompareTrial, Compare
    <2>3. /\ reference' = output /\ made' = made /\ baseline' = baseline
          /\ \A s \in Segment : claimed'[s] = None
          /\ pc' = "resample" \/ (pc' = "launch" /\ trial' = trial + 1 /\ stage' = 1)
      BY <1>6, <2>1 DEF CompareTrial, Compare, Blank
    <2> QED
      BY <2>1, <2>2, <2>3
  <1>7. CASE Resample
    BY <1>7 DEF Resample
  <1>8. CASE UNCHANGED vars
    BY <1>8 DEF vars
  <1> QED
    BY <1>1, <1>2, <1>3, <1>4, <1>5, <1>6, <1>7, <1>8 DEF Next, Driver, Terminated, Failing

\* Every step keeps to the time limits.
LEMMA InTimeStep ==
    ASSUME TypeOK, InTime, [Next]_vars
    PROVE  InTime'
  <1> USE BenchmarkAssumption DEF TypeOK, InTime, Goto, progress, render
  <1>1. CASE Launch
    BY <1>1 DEF Launch, LaunchUntil, FullTime
  <1>2. CASE RenderSegment \/ Fluke
    BY <1>2 DEF RenderSegment, Fluke, RenderAs
  <1>3. CASE Tick \/ Edit \/ Tamper
    BY <1>3 DEF Tick, Edit, Tamper
  <1>4. CASE Failing
    BY <1>4, FailingStops
  <1>5. CASE SampleFiles \/ Freeze \/ Collect \/ Hash \/ CompareTrial \/ Resample
    BY <1>5 DEF SampleFiles, Freeze, Collect, Hash, HashInto, CompareTrial, Compare, Resample
  <1>6. CASE UNCHANGED vars
    BY <1>6 DEF vars
  <1> QED
    BY <1>1, <1>2, <1>3, <1>4, <1>5, <1>6 DEF Next, Driver, Terminated, Failing

\* Every step keeps the versions that rendered apart from the sampled one.
LEMMA NamedStep ==
    ASSUME TypeOK, Named, [Next]_vars
    PROVE  Named'
  <1> USE DEF TypeOK, Named, Goto, progress, render, hashes, ghosts
  <1>1. CASE SampleFiles
    BY <1>1 DEF SampleFiles
  <1>2. CASE Launch
    BY <1>2 DEF Launch
  <1>3. CASE RenderSegment \/ Fluke
    BY <1>3 DEF RenderSegment, Fluke, RenderAs
  <1>4. CASE Failing
    BY <1>4, FailingStops
  <1>5. CASE Freeze \/ Collect \/ Hash \/ CompareTrial
    BY <1>5 DEF Freeze, Collect, Hash, HashInto, CompareTrial, Compare
  <1>6. CASE Resample
    BY <1>6 DEF Resample
  <1>7. CASE Edit
    BY <1>7 DEF Edit, Ended
  <1>8. CASE Tick \/ Tamper
    BY <1>8 DEF Tick, Tamper
  <1>9. CASE UNCHANGED vars
    BY <1>9 DEF vars
  <1> QED
    BY <1>1, <1>2, <1>3, <1>4, <1>5, <1>6, <1>7, <1>8, <1>9
       DEF Next, Driver, Terminated, Failing

\* Without mishaps and edits every step keeps all audio the same.
LEMMA SoundStep ==
    ASSUME TypeOK, Receipts, Sound, [Next]_vars
    PROVE  Sound'
  <1> USE BenchmarkAssumption
      DEF TypeOK, Sound, Segment, Files, Goto, progress, render, hashes, ghosts
  <1>1. CASE SampleFiles \/ Freeze \/ Collect \/ Tick
    BY <1>1 DEF SampleFiles, Freeze, Collect, Tick
  <1>2. CASE Launch
    BY <1>2 DEF Launch
  <1>3. CASE LaunchRefused \/ RenderTimesOut \/ HashMismatch \/ CompareFails \/ RenderRefused
    BY <1>3 DEF LaunchRefused, RenderTimesOut, HashMismatch, CompareFails, RenderRefused
  <1>4. CASE Fault \/ Tamper \/ Fluke
    <2>1. mishaps' > 0
      BY <1>4 DEF Fault, Tamper, Fluke, Mishap
    <2> QED
      BY <2>1
  <1>5. CASE RenderSegment
    <2>1. PICK s \in Segment : RenderAs(s, voice[loaded])
      BY <1>5 DEF RenderSegment
    <2>2. mishaps' = mishaps /\ UNCHANGED <<edits, code, sampled, loaded, voice,
                                            stage, trial, baseline, reference>>
      BY <1>5, <2>1 DEF RenderSegment, RenderAs
    <2>3. \A t \in Segment : claimed'[t] = IF t = s THEN voice[loaded] ELSE claimed[t]
      BY <2>1 DEF RenderAs
    <2>4. mishaps = 0 => output' = claimed'
      BY <2>1 DEF RenderAs
    <2> QED
      BY <2>2, <2>3, <2>4
  <1>6. CASE Hash
    BY <1>6 DEF Hash, HashInto, Blank, Receipts
  <1>7. CASE CompareTrial
    BY <1>7 DEF CompareTrial, Compare, Blank, Receipts
  <1>8. CASE Resample
    BY <1>8 DEF Resample
  <1>9. CASE Edit
    BY <1>9 DEF Edit
  <1>10. CASE UNCHANGED vars
    BY <1>10 DEF vars
  <1> QED
    BY <1>1, <1>2, <1>3, <1>4, <1>5, <1>6, <1>7, <1>8, <1>9, <1>10
       DEF Next, Driver, Terminated

\* A step that ends the benchmark without a result has a cause.
LEMMA CauseStep ==
    ASSUME TypeOK, Receipts, InTime, Sound, FailureHasCause, [Next]_vars
    PROVE  FailureHasCause'
  <1> USE BenchmarkAssumption DEF TypeOK, FailureHasCause, Goto
  <1>1. CASE LaunchRefused
    BY <1>1 DEF LaunchRefused
  <1>2. CASE RenderTimesOut
    BY <1>2 DEF RenderTimesOut, InTime
  <1>3. CASE HashMismatch
    BY <1>3 DEF HashMismatch, Sound
  <1>4. CASE RenderRefused
    <2>1. PICK s \in Segment : IsNext(s) /\ output[s] # None
      BY <1>4 DEF RenderRefused
    <2>2. claimed[s] = None
      BY <1>4, <2>1 DEF RenderRefused, Receipts, IsNext
    <2>3. mishaps # 0
      BY <2>1, <2>2 DEF Sound
    <2> QED
      BY <1>4, <2>3 DEF RenderRefused
  <1>5. CASE CompareFails
    <2>1. SUFFICES ASSUME mishaps = 0, edits = 0 PROVE FALSE
      BY <1>5 DEF CompareFails
    <2>2. /\ output = claimed /\ stage = 2
          /\ \A s \in Segment : claimed[s] = voice[0]
      BY <1>5, <2>1 DEF CompareFails, Receipts, Sound
    <2>3. output = baseline
      BY <2>1, <2>2 DEF Sound, Files
    <2>4. trial > 1 => output = reference
      BY <2>1, <2>2 DEF Sound, Files
    <2> QED
      BY <1>5, <2>3, <2>4 DEF CompareFails, Agree
  <1>6. CASE Resample
    BY <1>6 DEF Resample, Sound
  <1>7. CASE Fault
    BY <1>7 DEF Fault, Mishap
  <1>8. CASE SampleFiles \/ Freeze \/ Launch \/ Collect \/ Hash \/ CompareTrial
    BY <1>8 DEF SampleFiles, Freeze, Launch, Collect, Hash, HashInto, CompareTrial, Compare
  <1>9. CASE RenderSegment \/ Fluke
    BY <1>9 DEF RenderSegment, Fluke, RenderAs
  <1>10. CASE Tick \/ Edit \/ Tamper
    BY <1>10 DEF Tick, Edit, Tamper, Ended
  <1>11. CASE UNCHANGED vars
    BY <1>11 DEF vars
  <1> QED
    BY <1>1, <1>2, <1>3, <1>4, <1>5, <1>6, <1>7, <1>8, <1>9, <1>10, <1>11
       DEF Next, Driver, Terminated

\* The invariant holds throughout every behaviour.
LEMMA Invariance == Spec => []IInv
  <1>1. IInv /\ [Next]_vars => IInv'
    BY TypeStep, ReceiptsStep, AccountedStep, InTimeStep, NamedStep, SoundStep, CauseStep
       DEF IInv
  <1> QED
    BY InitHolds, <1>1, PTL DEF Spec

\* Every reachable state is well typed.
THEOREM TypeCorrect == Spec => []TypeOK
  <1>1. IInv => TypeOK
    BY DEF IInv
  <1> QED
    BY Invariance, <1>1, PTL

\* All renders of all trials made what is reported, however many segments,
\* trials, edits and acts of tampering there were.
THEOREM ReportsAreUniform == Spec => []ReportIsUniform
  <1>1. IInv => ReportIsUniform
    BY DEF IInv, Accounted, ReportIsUniform
  <1> QED
    BY Invariance, <1>1, PTL

\* The version reported is the one that rendered, unless an edit was undone.
THEOREM ReportsNameTheirCode == Spec => []ReportNamesItsCode
  <1>1. IInv => ReportNamesItsCode
    BY DEF IInv, Named, ReportNamesItsCode
  <1> QED
    BY Invariance, <1>1, PTL

\* No render runs past the time of the benchmark, for any limits.
THEOREM BudgetIsKept == Spec => []BudgetKept
  <1>1. IInv => BudgetKept
    BY BenchmarkAssumption DEF IInv, TypeOK, InTime, BudgetKept
  <1> QED
    BY Invariance, <1>1, PTL

\* A benchmark nothing happens to does not fail.
THEOREM FailuresHaveCauses == Spec => []FailureHasCause
  <1>1. IInv => FailureHasCause
    BY DEF IInv
  <1> QED
    BY Invariance, <1>1, PTL
=============================================================================
