------------------------------ MODULE RunProofs ------------------------------
(***************************************************************************)
(* Proofs about one run of the benchmark: about Supervisor, which bounds   *)
(* what the render may print, how long it may take and what may outlive    *)
(* it, for any limit, any size of a pipe, any deadline and any number of   *)
(* blocks written; and about Receipt, which believes the figures that the  *)
(* render prints or does not, for manifests of any number of segments, any *)
(* figures and any limits.                                                 *)
(***************************************************************************)
EXTENDS Supervisor, Receipt, TLAPS

-----------------------------------------------------------------------------
\* The supervisor

\* The steps before anything can have failed.
Reading == {"start", "loop", "read", "poll", "wait"}

\* No block is lost between a pipe and its buffer, and a stream is only given
\* up when nothing is left in its pipe and nobody can write to it.
Conserved ==
    /\ \A s \in Stream : sent[s] = pipe[s] + buffers[s]
    /\ \A s \in Stream \ streams : Closed(s) /\ pipe[s] = 0
    /\ \A s \in ready : Closed(s) \/ pipe[s] > 0

\* Where the supervisor may be with and without a failure, and how much it has
\* read when nothing failed.
Tracked ==
    /\ pc \in {"kill", "reap"} => failure # "none"
    /\ pc \in Reading => failure = "none"
    /\ pc \in {"start", "wait"} => streams = {}
    /\ outcome # "none" => pc \in {"close", "done"}
    /\ outcome \in {"receipt", "not a receipt"} => pc = "done"
    /\ outcome \in Failure \ {"none"} => failure = outcome
    /\ failure = "none" => \A s \in Stream : buffers[s] <= Limit

\* Processes that can be signalled run, and only those that run have the pipes
\* open; nobody has a process before the render is started.
Living ==
    /\ \A m \in doomed : life[m] = "running"
    /\ \A s \in Stream : \A m \in holds[s] : life[m] = "running"
    /\ pc = "start" => \A m \in Member : life[m] = "none"

\* A call that is about to return, and one that has, has reaped the render and,
\* if the render failed, has left nothing of it alone.
Settled ==
    /\ pc \in {"close", "done"} /\ outcome \notin {"not started", "interrupted"} =>
          /\ life["leader"] = "gone"
          /\ failure = "none" => outcome = "permission error" \/ streams = {}
    /\ \/ pc = "reap"
       \/ pc \in {"close", "done"} /\ outcome # "interrupted" /\ failure # "none"
       \/ outcome = "permission error"
       => Signalled \subseteq doomed

\* Holds of every reachable state, and of the successors of every state it
\* holds of: what the supervisor takes or returns rests on what is conserved
\* and tracked, and on a render whose members were all signalled.
SupervisorInv ==
    /\ TypeOK /\ Conserved /\ Tracked /\ Living /\ Settled
    /\ ReceiptComplete /\ VerdictJust

\* Bounds are numbers.
LEMMA Bounds ==
    /\ Limit \in Nat /\ MaxSent \in Nat /\ PipeSize \in Nat /\ PipeSize > 0
    /\ Deadline \in Nat /\ Deadline > 0
  BY SupervisorAssumption

\* What counts blocks and ticks is a number.
LEMMA Counts ==
    ASSUME TypeOK
    PROVE  /\ sent \in [Stream -> Nat] /\ pipe \in [Stream -> Nat]
           /\ buffers \in [Stream -> Nat] /\ now \in Nat /\ now <= Deadline
  <1>1. /\ 0..MaxSent \subseteq Nat /\ 0..PipeSize \subseteq Nat
        /\ 0..Limit + 1 \subseteq Nat
    BY Bounds
  <1> QED
    BY <1>1, Bounds DEF TypeOK

\* The initial states satisfy the invariant.
LEMMA SupervisorInitHolds == Init => SupervisorInv
  BY Bounds DEF Init, SupervisorInv, TypeOK, Conserved, Tracked, Living, Settled,
                ReceiptComplete, VerdictJust, Failure, Outcome, Stream, Member, Closed,
                Reading, Signalled, Group

\* Every step keeps every variable in its range.
LEMMA SupervisorTypeStep ==
    ASSUME TypeOK, Conserved, Tracked, [Next]_vars
    PROVE  TypeOK'
  <1> USE DEF Goto
  <1>1. CASE Spawn \/ SpawnFails
    <2>1. CASE Spawn
      <3>1. holds' \in [Stream -> SUBSET Member] /\ life' \in [Member -> {"none", "running", "zombie", "gone"}]
        BY <2>1 DEF Spawn, TypeOK, Member
      <3> QED
        BY <2>1, <3>1 DEF Spawn, TypeOK
    <2>2. CASE SpawnFails
      BY <2>2 DEF SpawnFails, render, TypeOK, Outcome
    <2> QED
      BY <1>1, <2>1, <2>2
  <1>2. CASE EndOfStreams \/ DeadlineInLoop \/ Select
    BY <1>2 DEF EndOfStreams, DeadlineInLoop, Select, render, TypeOK, Failure
  <1>3. ASSUME NEW s \in Stream, Read(s) PROVE TypeOK'
    <2>1. buffers[s] \in Nat /\ buffers[s] <= Limit
      BY <1>3, Counts DEF Read, Tracked, Reading
    <2>2. buffers' \in [Stream -> 0..Limit + 1]
      <3>1. buffers[s] + 1 \in 0..Limit + 1
        BY <2>1, Bounds
      <3> QED
        BY <1>3, <3>1 DEF Read, TypeOK
    <2>3. pipe' \in [Stream -> 0..PipeSize]
      <3>1. pipe[s] > 0 /\ pipe[s] \in 0..PipeSize
        BY <1>3 DEF Read, TypeOK
      <3>2. pipe[s] - 1 \in 0..PipeSize
        BY <3>1, Bounds
      <3> QED
        BY <1>3, <3>2 DEF Read, TypeOK
    <2>4. ready' \subseteq streams' /\ failure' \in Failure /\ streams' \subseteq Stream
          /\ pc' \in {"read", "kill"}
      BY <1>3 DEF Read, TypeOK, Failure
    <2> QED
      BY <1>3, <2>2, <2>3, <2>4 DEF Read, render, TypeOK
  <1>4. ASSUME NEW s \in Stream, ReadEnd(s) PROVE TypeOK'
    BY <1>4 DEF ReadEnd, render, TypeOK
  <1>5. CASE ReadAll \/ PollAlive
    BY <1>5 DEF ReadAll, PollAlive, render, TypeOK
  <1>6. Reaped \in [Member -> {"none", "running", "zombie", "gone"}]
        /\ Left \subseteq Member /\ Signalled \subseteq Member
    BY DEF Reaped, Left, Signalled, Group, TypeOK, Member
  <1>7. CASE PollExited \/ PollRefused
    BY <1>6, <1>7 DEF PollExited, PollRefused, TypeOK, Outcome
  <1>8. CASE WaitExited \/ WaitTimeout
    BY <1>6, <1>8 DEF WaitExited, WaitTimeout, render, TypeOK, Failure
  <1>9. CASE Kill \/ Reap
    BY <1>6, <1>9 DEF Kill, Reap, TypeOK
  <1>10. CASE Close
    <2>1. Verdicts \subseteq Outcome
      BY DEF Verdicts, TypeOK, Outcome, Failure
    <2> QED
      BY <1>10, <2>1 DEF Close, render, TypeOK
  <1>11. CASE Interrupt \/ Tick
    <2>1. now' \in 0..Deadline
      BY <1>11, Bounds DEF Interrupt, Tick, TypeOK
    <2> QED
      BY <1>11, <2>1 DEF Interrupt, Tick, render, TypeOK, Outcome
  <1>12. ASSUME NEW m \in Member, NEW s \in Stream, Write(m, s) PROVE TypeOK'
    <2>1. /\ pipe' \in [Stream -> 0..PipeSize]
          /\ sent' \in [Stream -> 0..MaxSent]
      BY <1>12, Bounds DEF Write, TypeOK
    <2> QED
      BY <1>12, <2>1 DEF Write, TypeOK
  <1>13. ASSUME NEW m \in Member, NEW s \in Stream, CloseOutput(m, s) PROVE TypeOK'
    BY <1>13 DEF CloseOutput, TypeOK
  <1>14. ASSUME NEW m \in Member, NEW c \in 0..1, Exit(m, c) PROVE TypeOK'
    BY <1>14 DEF Exit, TypeOK
  <1>15. ASSUME NEW t \in SUBSET {"stubborn", "detached"}, Fork(t) PROVE TypeOK'
    BY <1>15 DEF Fork, TypeOK, Member
  <1>16. CASE ReapHeir
    BY <1>16 DEF ReapHeir, TypeOK, Member
  <1>17. CASE UNCHANGED vars
    BY <1>17 DEF vars, render, TypeOK
  <1> QED
    BY <1>1, <1>2, <1>3, <1>4, <1>5, <1>7, <1>8, <1>9, <1>10, <1>11, <1>12, <1>13,
       <1>14, <1>15, <1>16, <1>17 DEF Next, Supervise, Render, Returned

\* Every step keeps the count of the blocks.
LEMMA ConservedStep ==
    ASSUME TypeOK, Conserved, Tracked, [Next]_vars
    PROVE  Conserved'
  <1> USE DEF Goto, Closed, render
  <1>0. /\ sent \in [Stream -> Nat] /\ pipe \in [Stream -> Nat]
        /\ buffers \in [Stream -> Nat]
    BY Counts
  <1>1. ASSUME UNCHANGED <<sent, pipe, buffers, holds, streams, ready>> PROVE Conserved'
    BY <1>1 DEF Conserved
  <1>a. ASSUME \A s \in Stream : Closed(s) => Closed(s)',
               UNCHANGED <<sent, pipe, buffers, streams, ready>>
        PROVE  Conserved'
    BY <1>a DEF Conserved, TypeOK
  <1>2. CASE Spawn
    BY <1>2 DEF Spawn, Conserved, Tracked, TypeOK
  <1>3. CASE Select
    BY <1>0, <1>3 DEF Select, Conserved, TypeOK
  <1>4. ASSUME NEW s \in Stream, Read(s) PROVE Conserved'
    <2>1. ready' \subseteq ready \ {s} /\ UNCHANGED <<holds, streams, sent>>
      BY <1>4 DEF Read
    <2>2. \A r \in Stream : /\ pipe'[r] = IF r = s THEN pipe[r] - 1 ELSE pipe[r]
                            /\ buffers'[r] = IF r = s THEN buffers[r] + 1 ELSE buffers[r]
      BY <1>0, <1>4 DEF Read
    <2>3. s \in streams /\ ready \subseteq Stream
      BY <1>4 DEF Read, TypeOK
    <2> QED
      BY <1>0, <2>1, <2>2, <2>3 DEF Conserved
  <1>5. ASSUME NEW s \in Stream, ReadEnd(s) PROVE Conserved'
    BY <1>5 DEF ReadEnd, Conserved
  <1>6. ASSUME NEW m \in Member, NEW s \in Stream, Write(m, s) PROVE Conserved'
    <2>1. ~Closed(s) /\ UNCHANGED <<buffers, streams, ready, holds>>
      BY <1>6 DEF Write
    <2>2. \A r \in Stream : /\ pipe'[r] = IF r = s THEN pipe[r] + 1 ELSE pipe[r]
                            /\ sent'[r] = IF r = s THEN sent[r] + 1 ELSE sent[r]
      BY <1>0, <1>6 DEF Write
    <2>3. ready \subseteq Stream
      BY DEF TypeOK
    <2> QED
      BY <1>0, <2>1, <2>2, <2>3 DEF Conserved
  <1>7. ASSUME NEW m \in Member, NEW s \in Stream, CloseOutput(m, s) PROVE Conserved'
    BY <1>a, <1>7 DEF CloseOutput, TypeOK
  <1>8. ASSUME NEW m \in Member, NEW c \in 0..1, Exit(m, c) PROVE Conserved'
    BY <1>a, <1>8 DEF Exit, TypeOK
  <1>9. ASSUME NEW t \in SUBSET {"stubborn", "detached"}, Fork(t) PROVE Conserved'
    BY <1>a, <1>9 DEF Fork, TypeOK
  <1>10. CASE SpawnFails \/ EndOfStreams \/ DeadlineInLoop \/ ReadAll \/ PollAlive
    BY <1>1, <1>10 DEF SpawnFails, EndOfStreams, DeadlineInLoop, ReadAll, PollAlive
  <1>11. CASE PollExited \/ PollRefused \/ WaitExited \/ WaitTimeout
    BY <1>1, <1>11 DEF PollExited, PollRefused, WaitExited, WaitTimeout
  <1>12. CASE Kill \/ Reap \/ Close \/ Interrupt \/ ReapHeir \/ Tick
    BY <1>1, <1>12 DEF Kill, Reap, Close, Interrupt, ReapHeir, Tick
  <1>13. CASE UNCHANGED vars
    BY <1>1, <1>13 DEF vars
  <1> QED
    BY <1>2, <1>3, <1>4, <1>5, <1>6, <1>7, <1>8, <1>9, <1>10, <1>11, <1>12, <1>13
       DEF Next, Supervise, Render, Returned

\* Every step of the render, and the time, leave the supervisor alone.
LEMMA RenderFrame ==
    ASSUME Render \/ Tick \/ Returned
    PROVE  UNCHANGED <<pc, streams, buffers, failure, outcome, ready>>
  BY DEF Render, Write, CloseOutput, Exit, Fork, ReapHeir, Tick, Returned, vars

\* Every step keeps the supervisor on its way.
LEMMA TrackedStep ==
    ASSUME TypeOK, Tracked, [Next]_vars
    PROVE  Tracked'
  <1> USE DEF Goto, Reading, Failure
  <1>0. buffers \in [Stream -> Nat] /\ Limit \in Nat
    BY Counts, Bounds
  <1>1. CASE Spawn \/ SpawnFails
    BY <1>1 DEF Spawn, SpawnFails, Tracked
  <1>2. CASE EndOfStreams \/ DeadlineInLoop \/ Select
    BY <1>2 DEF EndOfStreams, DeadlineInLoop, Select, Tracked
  <1>3. ASSUME NEW s \in Stream, Read(s) PROVE Tracked'
    <2>1. pc = "read" /\ failure = "none" /\ outcome = "none"
      BY <1>3 DEF Read, Tracked
    <2>2. CASE buffers[s] + 1 > Limit
      <3>1. pc' = "kill" /\ failure' = "output limit" /\ UNCHANGED <<outcome, streams>>
        BY <1>3, <2>2 DEF Read
      <3> QED
        BY <2>1, <3>1 DEF Tracked
    <2>3. CASE ~(buffers[s] + 1 > Limit)
      <3>1. UNCHANGED <<pc, failure, outcome, streams>>
        BY <1>3, <2>3 DEF Read
      <3>2. \A r \in Stream : buffers'[r] <= Limit
        BY <1>0, <1>3, <2>1, <2>3 DEF Read, Tracked
      <3> QED
        BY <2>1, <3>1, <3>2 DEF Tracked
    <2> QED
      BY <2>2, <2>3
  <1>4. ASSUME NEW s \in Stream, ReadEnd(s) PROVE Tracked'
    BY <1>4 DEF ReadEnd, Tracked
  <1>5. CASE ReadAll \/ PollAlive \/ PollExited \/ PollRefused
    BY <1>5 DEF ReadAll, PollAlive, PollExited, PollRefused, Tracked
  <1>6. CASE WaitExited \/ WaitTimeout \/ Kill \/ Reap
    BY <1>6 DEF WaitExited, WaitTimeout, Kill, Reap, Tracked
  <1>7. CASE Close
    BY <1>7 DEF Close, Verdicts, Tracked
  <1>8. CASE Interrupt
    BY <1>8 DEF Interrupt, Tracked
  <1>9. CASE Render \/ Tick \/ Returned
    BY <1>9, RenderFrame DEF Tracked
  <1>10. CASE UNCHANGED vars
    BY <1>10 DEF vars, Tracked
  <1> QED
    BY <1>1, <1>2, <1>3, <1>4, <1>5, <1>6, <1>7, <1>8, <1>9, <1>10 DEF Next, Supervise

\* Every step leaves pipes and signals to those that run.
LEMMA LivingStep ==
    ASSUME TypeOK, Living, [Next]_vars
    PROVE  Living'
  <1> USE DEF Goto, render, Member
  <1>1. CASE Spawn
    BY <1>1 DEF Spawn, Living, TypeOK
  <1>2. ASSUME UNCHANGED <<life, doomed, holds>>, pc' # "start" \/ pc' = pc PROVE Living'
    BY <1>2 DEF Living
  <1>3. CASE PollExited \/ PollRefused \/ WaitExited \/ Reap
    <2>1. \A m \in Left : life[m] = "running"
      BY DEF Left, Signalled
    <2>2. life["leader"] # "running" /\ pc' # "start" /\ life' = Reaped
          /\ doomed' \subseteq doomed \cup Left /\ holds' = holds
      BY <1>3 DEF PollExited, PollRefused, WaitExited, Reap
    <2> QED
      BY <2>1, <2>2 DEF Living, Reaped, TypeOK
  <1>4. CASE Kill
    BY <1>4 DEF Kill, Living, Signalled
  <1>5. ASSUME NEW m \in Member, NEW c \in 0..1, Exit(m, c) PROVE Living'
    BY <1>5 DEF Exit, Living, TypeOK
  <1>6. ASSUME NEW t \in SUBSET {"stubborn", "detached"}, Fork(t) PROVE Living'
    BY <1>6 DEF Fork, Runs, Living, TypeOK
  <1>7. CASE ReapHeir
    BY <1>7 DEF ReapHeir, Living, TypeOK
  <1>8. ASSUME NEW m \in Member, NEW s \in Stream, CloseOutput(m, s) PROVE Living'
    BY <1>8 DEF CloseOutput, Living
  <1>9. ASSUME NEW m \in Member, NEW s \in Stream, Write(m, s) PROVE Living'
    BY <1>2, <1>9 DEF Write
  <1>10. CASE SpawnFails \/ EndOfStreams \/ DeadlineInLoop \/ Select
              \/ ReadAll \/ PollAlive \/ WaitTimeout \/ Close \/ Interrupt
    BY <1>2, <1>10 DEF SpawnFails, EndOfStreams, DeadlineInLoop, Select,
                       ReadAll, PollAlive, WaitTimeout, Close, Interrupt
  <1>11. ASSUME NEW s \in Stream, Read(s) \/ ReadEnd(s) PROVE Living'
    BY <1>2, <1>11 DEF Read, ReadEnd
  <1>12. CASE Tick \/ UNCHANGED vars
    BY <1>2, <1>12 DEF Tick, vars
  <1> QED
    BY <1>1, <1>3, <1>4, <1>5, <1>6, <1>7, <1>8, <1>9, <1>10, <1>11, <1>12
       DEF Next, Supervise, Render, Returned

\* What is left alone of the render stays so: nobody who could still fork is.
LEMMA NobodyNew ==
    ASSUME TypeOK, Living, Signalled \subseteq doomed, Render \/ Tick \/ Returned
    PROVE  Signalled' \subseteq doomed'
  <1> USE DEF Signalled, Group, Member
  <1>1. ASSUME NEW m \in Member, NEW c \in 0..1, Exit(m, c) PROVE Signalled' \subseteq doomed'
    BY <1>1 DEF Exit, TypeOK
  <1>2. ASSUME NEW t \in SUBSET {"stubborn", "detached"}, Fork(t) PROVE FALSE
    BY <1>2 DEF Fork, Runs, TypeOK
  <1>3. CASE ReapHeir
    BY <1>3 DEF ReapHeir, TypeOK
  <1>4. ASSUME UNCHANGED <<life, doomed, traits>> PROVE Signalled' \subseteq doomed'
    BY <1>4
  <1>5. ASSUME NEW m \in Member, \E s \in Stream : CloseOutput(m, s) \/ Write(m, s)
        PROVE  Signalled' \subseteq doomed'
    BY <1>4, <1>5 DEF CloseOutput, Write
  <1>6. CASE Tick \/ Returned
    BY <1>4, <1>6 DEF Tick, Returned, vars, render
  <1> QED
    BY <1>1, <1>2, <1>3, <1>5, <1>6 DEF Render

\* A process that is gone stays gone.
LEMMA GoneIsGone ==
    ASSUME TypeOK, life["leader"] = "gone", Render \/ Tick \/ Returned
    PROVE  life'["leader"] = "gone"
  BY DEF Render, Write, CloseOutput, Exit, Fork, Runs, ReapHeir, Tick, Returned, vars,
         render, TypeOK, Member

\* Every step leaves what a call that ends has settled.
LEMMA SettledStep ==
    ASSUME TypeOK, Tracked, Living, Settled, [Next]_vars
    PROVE  Settled'
  <1> USE DEF Goto, render
  <1>1. CASE Spawn \/ SpawnFails \/ EndOfStreams \/ DeadlineInLoop \/ Select
             \/ ReadAll \/ PollAlive \/ WaitTimeout
    <2>1. pc' \notin {"reap", "close"} /\ outcome' \in {outcome, "not started"}
          /\ (pc' = "done" => outcome' = "not started")
          /\ pc \in Reading
      BY <1>1 DEF Spawn, SpawnFails, EndOfStreams, DeadlineInLoop, Select, ReadAll,
                  PollAlive, WaitTimeout, Reading
    <2>2. outcome = "none" /\ failure = "none"
      BY <2>1 DEF Tracked, Reading
    <2>3. pc' = "done" => failure' = "none"
      BY <1>1, <2>2 DEF Spawn, SpawnFails, EndOfStreams, DeadlineInLoop, Select, ReadAll,
                  PollAlive, WaitTimeout
    <2> QED
      BY <2>1, <2>2, <2>3 DEF Settled
  <1>2. ASSUME NEW s \in Stream, Read(s) \/ ReadEnd(s) PROVE Settled'
    BY <1>2 DEF Read, ReadEnd, Settled, Tracked
  <1>3. CASE PollExited
    BY <1>3 DEF PollExited, Settled, Tracked
  <1>4. CASE PollRefused
    <2>1. Left = {} /\ life' = Reaped /\ pc = "poll" /\ failure' = failure
          /\ pc' = "close" /\ outcome' = "permission error" /\ UNCHANGED <<doomed, traits>>
      BY <1>4 DEF PollRefused
    <2>2. failure' = "none"
      BY <2>1 DEF Tracked, Reading
    <2>3. Signalled' = {}
      BY <2>1 DEF Left, Signalled, Group, Reaped, TypeOK, Member
    <2>4. life'["leader"] = "gone"
      BY <2>1 DEF Reaped, TypeOK, Member
    <2> QED
      BY <2>1, <2>2, <2>3, <2>4 DEF Settled
  <1>5. CASE WaitExited
    <2>1. pc = "wait" /\ failure' = "none" /\ outcome' = "none" /\ pc' = "close"
          /\ streams' = {} /\ life' = Reaped
      BY <1>5 DEF WaitExited, Tracked, Reading
    <2>2. life'["leader"] = "gone"
      BY <2>1 DEF Reaped, TypeOK, Member
    <2> QED
      BY <2>1, <2>2 DEF Settled
  <1>6. CASE Kill
    <2>1. Signalled' = Signalled /\ doomed' = doomed \cup Signalled /\ pc' = "reap"
      BY <1>6 DEF Kill, Signalled, Group
    <2> QED
      BY <2>1 DEF Settled
  <1>7. CASE Reap
    <2>1. pc = "reap" /\ pc' = "close" /\ life' = Reaped
          /\ UNCHANGED <<failure, outcome, streams, doomed, traits>>
      BY <1>7 DEF Reap
    <2>2. Signalled \subseteq doomed /\ failure # "none"
      BY <2>1 DEF Settled, Tracked
    <2>3. Signalled' \subseteq Signalled /\ life'["leader"] = "gone"
      BY <2>1 DEF Reaped, TypeOK, Member, Signalled, Group
    <2> QED
      BY <2>1, <2>2, <2>3 DEF Settled
  <1>8. CASE Close
    <2>1. /\ pc = "close" /\ pc' = "done" /\ outcome' \in Verdicts
          /\ UNCHANGED <<life, doomed, traits, streams, failure>>
      BY <1>8 DEF Close
    <2>2. Signalled' = Signalled
      BY <2>1 DEF Signalled, Group
    <2>3. CASE outcome # "none"
      <3>1. outcome' = outcome
        BY <2>1, <2>3 DEF Verdicts
      <3> QED
        BY <2>1, <2>2, <3>1 DEF Settled
    <2>4. CASE outcome = "none"
      <3>1. outcome' \in {failure, "render failed", "receipt", "not a receipt"}
            /\ outcome' # "permission error"
        BY <2>1, <2>4 DEF Verdicts, TypeOK, Failure
      <3>2. /\ life["leader"] = "gone" /\ (failure = "none" => streams = {})
            /\ (failure # "none" => Signalled \subseteq doomed)
        BY <2>1, <2>4 DEF Settled
      <3> QED
        BY <2>1, <2>2, <3>1, <3>2 DEF Settled
    <2> QED
      BY <2>3, <2>4
  <1>9. CASE Interrupt
    BY <1>9 DEF Interrupt, Settled
  <1>10. CASE Render \/ Tick \/ Returned
    BY <1>10, RenderFrame, NobodyNew, GoneIsGone DEF Settled
  <1>11. CASE UNCHANGED vars
    BY <1>11 DEF vars, Settled, Signalled, Group
  <1> QED
    BY <1>1, <1>2, <1>3, <1>4, <1>5, <1>6, <1>7, <1>8, <1>9, <1>10, <1>11
       DEF Next, Supervise

\* A receipt that was complete stays so, and only a complete one is taken.
LEMMA CompleteStep ==
    ASSUME SupervisorInv, [Next]_vars
    PROVE  ReceiptComplete'
  <1> USE DEF SupervisorInv
  <1>1. CASE Close
    <2>1. /\ pc = "close" /\ outcome' \in Verdicts
          /\ UNCHANGED <<life, code, holds, sent, streams, pipe, buffers>>
      BY <1>1 DEF Close, Goto, render
    <2>2. ASSUME outcome' \in {"receipt", "not a receipt"}
          PROVE  outcome = "none" /\ failure = "none" /\ code = 0
      BY <2>1, <2>2 DEF Verdicts, Tracked, TypeOK, Failure
    <2>3. ASSUME outcome = "none", failure = "none"
          PROVE  /\ life["leader"] = "gone"
                 /\ \A s \in Stream : Closed(s) /\ buffers[s] = sent[s]
      <3>1. life["leader"] = "gone" /\ streams = {}
        BY <2>1, <2>3 DEF Settled
      <3>2. buffers \in [Stream -> Nat] /\ "stdout" \in Stream
        BY Bounds DEF TypeOK, Stream
      <3> QED
        BY <3>1, <3>2 DEF Conserved
    <2> QED
      BY <2>1, <2>2, <2>3 DEF ReceiptComplete, Closed
  <1>2. CASE Render \/ Tick \/ Returned
    <2>1. ASSUME ReceiptComplete, outcome \in {"receipt", "not a receipt"}
          PROVE  UNCHANGED <<code, holds, sent, buffers>>
      <3>1. (\A s \in Stream : holds[s] = {}) /\ holds \in [Stream -> SUBSET Member] /\ life["leader"] = "gone" /\ pc = "done"
        BY <2>1 DEF ReceiptComplete, Closed, Tracked, TypeOK
      <3> QED
        BY <1>2, <3>1 DEF Render, Write, CloseOutput, Exit, Fork, Runs, ReapHeir, Tick,
                          Returned, vars, render
    <2>2. UNCHANGED <<outcome, buffers>>
      BY <1>2, RenderFrame
    <2> QED
      BY <1>2, <2>1, <2>2, GoneIsGone DEF ReceiptComplete, Closed
  <1>3. ASSUME outcome' \notin {"receipt", "not a receipt"} PROVE ReceiptComplete'
    BY <1>3 DEF ReceiptComplete
  <1>4. pc # "done" => outcome \notin {"receipt", "not a receipt"}
    BY DEF Tracked
  <1>5. \/ Spawn \/ SpawnFails \/ EndOfStreams \/ DeadlineInLoop \/ Select
        \/ ReadAll \/ PollAlive \/ PollExited \/ PollRefused \/ WaitExited
        \/ WaitTimeout \/ Kill \/ Reap \/ Interrupt
        \/ \E s \in Stream : Read(s) \/ ReadEnd(s)
        => pc # "done" /\ outcome' \in {outcome, "not started", "permission error", "interrupted"}
    BY DEF Spawn, SpawnFails, EndOfStreams, DeadlineInLoop, Select, ReadAll, PollAlive,
           PollExited, PollRefused, WaitExited, WaitTimeout, Kill, Reap, Interrupt,
           Read, ReadEnd, Goto
  <1>6. CASE UNCHANGED vars
    BY <1>6 DEF vars, render, ReceiptComplete, Closed
  <1> QED
    BY <1>1, <1>2, <1>3, <1>4, <1>5, <1>6 DEF Next, Supervise

\* A verdict that is just stays so, and no other is come to.
LEMMA JustStep ==
    ASSUME SupervisorInv, [Next]_vars
    PROVE  VerdictJust'
  <1> USE DEF SupervisorInv, Goto, render
  <1>0. /\ sent \in [Stream -> Nat] /\ pipe \in [Stream -> Nat]
        /\ buffers \in [Stream -> Nat] /\ now \in Nat /\ now <= Deadline
    BY Counts
  <1>1. ASSUME UNCHANGED <<failure, now, sent>>, doomed' \subseteq doomed \cup (Signalled \ {"leader"})
        PROVE  VerdictJust'
    BY <1>1 DEF VerdictJust
  <1>2. CASE DeadlineInLoop \/ WaitTimeout
    BY <1>2 DEF DeadlineInLoop, WaitTimeout, VerdictJust
  <1>3. ASSUME NEW s \in Stream, Read(s) PROVE VerdictJust'
    <2>1. CASE buffers[s] + 1 > Limit
      <3>1. sent[s] = pipe[s] + buffers[s] /\ pipe[s] > 0 /\ sent' = sent
            /\ failure' = "output limit"
        BY <1>3, <2>1 DEF Read, Conserved
      <3>2. sent'[s] > Limit
        <4>1. sent[s] \in Nat /\ pipe[s] \in Nat /\ buffers[s] \in Nat /\ Limit \in Nat
          BY <1>0, Bounds
        <4>2. sent[s] = pipe[s] + buffers[s] /\ pipe[s] > 0 /\ buffers[s] + 1 > Limit
          BY <2>1, <3>1
        <4>3. sent[s] > Limit
          BY <4>1, <4>2
        <4> QED
          BY <3>1, <4>3
      <3> QED
        BY <3>1, <3>2 DEF VerdictJust
    <2>2. CASE ~(buffers[s] + 1 > Limit)
      BY <1>1, <1>3, <2>2 DEF Read
    <2> QED
      BY <2>1, <2>2
  <1>4. CASE Kill
    BY <1>4 DEF Kill, Tracked, VerdictJust
  <1>5. ASSUME NEW m \in Member, NEW s \in Stream, Write(m, s) PROVE VerdictJust'
    <2>1. \A r \in Stream : sent'[r] >= sent[r]
      BY <1>0, <1>5 DEF Write
    <2>2. \A r \in Stream : sent'[r] \in Nat
      BY <1>0, <1>5 DEF Write
    <2> QED
      <3>1. UNCHANGED <<failure, now, doomed>>
        BY <1>5 DEF Write
      <3>2. ASSUME NEW r \in Stream, sent[r] > Limit PROVE sent'[r] > Limit
        <4>1. sent'[r] >= sent[r] /\ sent'[r] \in Nat /\ sent[r] \in Nat /\ Limit \in Nat
          BY <1>0, <2>1, <2>2, Bounds
        <4> QED
          BY <3>2, <4>1
      <3> QED
        BY <3>1, <3>2 DEF VerdictJust
  <1>6. CASE Tick
    <2>1. now # Deadline /\ UNCHANGED <<failure, sent, doomed>>
      BY <1>0, <1>6, Bounds DEF Tick
    <2> QED
      BY <2>1 DEF VerdictJust
  <1>7. ASSUME NEW m \in Member,
               (\E s \in Stream : CloseOutput(m, s)) \/ \E c \in 0..1 : Exit(m, c)
        PROVE  VerdictJust'
    BY <1>1, <1>7 DEF CloseOutput, Exit
  <1>8. CASE ReapHeir \/ \E t \in SUBSET {"stubborn", "detached"} : Fork(t)
    BY <1>1, <1>8 DEF ReapHeir, Fork
  <1>9. CASE Spawn \/ SpawnFails \/ EndOfStreams \/ Select \/ ReadAll \/ PollAlive
             \/ Close \/ Interrupt
    BY <1>1, <1>9 DEF Spawn, SpawnFails, EndOfStreams, Select, ReadAll, PollAlive,
                      Close, Interrupt
  <1>10. CASE PollExited \/ PollRefused \/ WaitExited \/ Reap
    BY <1>1, <1>10 DEF PollExited, PollRefused, WaitExited, Reap, Left
  <1>11. ASSUME NEW s \in Stream, ReadEnd(s) PROVE VerdictJust'
    BY <1>1, <1>11 DEF ReadEnd
  <1>12. CASE UNCHANGED vars
    BY <1>1, <1>12 DEF vars
  <1> QED
    BY <1>2, <1>3, <1>4, <1>5, <1>6, <1>7, <1>8, <1>9, <1>10, <1>11, <1>12
       DEF Next, Supervise, Render, Returned

\* The invariant holds throughout (_run_render, lines 92-170).
THEOREM SupervisorInvariance == Spec => []SupervisorInv
  <1>1. ASSUME SupervisorInv, [Next]_vars PROVE SupervisorInv'
    BY <1>1, SupervisorTypeStep, ConservedStep, TrackedStep, LivingStep, SettledStep, CompleteStep,
       JustStep DEF SupervisorInv
  <1> QED
    BY SupervisorInitHolds, <1>1, PTL DEF Spec

\* Every variable of Supervisor keeps its range: neither buffer grows by more
\* than one block beyond its limit, and no stream that was given up is read.
THEOREM SupervisorTypeCorrect == Spec => []TypeOK
  BY SupervisorInvariance, PTL DEF SupervisorInv

\* However much is written, by the render or its descendant, before or after the
\* exit: a receipt is taken only from a render with status 0, and
\* it is all of its output (_run_render, lines 119-143).
THEOREM ReceiptsComplete == Spec => []ReceiptComplete
  BY SupervisorInvariance, PTL DEF SupervisorInv

\* Whenever the render forks or exits: a call that fails it leaves nothing of its
\* group that was not signalled, and none that returns leaves the render
\* unreaped (_run_render, lines 139-162).
THEOREM NobodySurvives == Spec => []NoSurvivor
  <1>1. SupervisorInv => NoSurvivor
    BY DEF SupervisorInv, Settled, NoSurvivor, Finished
  <1> QED
    BY <1>1, SupervisorInvariance, PTL

\* No timeout before the deadline, no output limit without the output, no failed
\* render but by its own exit status (_run_render, lines 119-170).
THEOREM VerdictsJust == Spec => []VerdictJust
  BY SupervisorInvariance, PTL DEF SupervisorInv

-----------------------------------------------------------------------------
\* The receipt

\* The render stops at the number of segments it was asked for.
Rendered ==
    /\ phase \in {"load", "render"} => made < n
    /\ phase \in {"report", "printed", "item", "totals", "valid", "invalid"} => made = n

\* The validation starts at the first item, takes them all, and has added up
\* durations that are a millisecond each from what the samples say.
Adding ==
    /\ phase \in {"load", "render", "report", "printed"} =>
          at = 1 /\ durations = 0 /\ claimed = 0
    /\ phase \in {"totals", "valid"} => at = made + 1
    /\ phase \in {"item", "totals", "valid"} =>
          Distance(durations * Milli, claimed) <= (at - 1) * Milli

\* Holds of every reachable state, and of the successors of every state it
\* holds of.
ReceiptInv == ReceiptTypeOK /\ Rendered /\ Adding /\ BelievedIsConsistent

\* The initial states satisfy the invariant.
LEMMA ReceiptInitHolds == ReceiptInit => ReceiptInv
  <1> SUFFICES ASSUME ReceiptInit PROVE ReceiptInv
    OBVIOUS
  <1>1. /\ phase = "load" /\ n \in 1..N /\ 0 < n /\ made = 0
        /\ load = 0 /\ took = 0 /\ wall = 0
        /\ items = <<>> /\ receipt = Blank /\ garbled = FALSE
        /\ at = 1 /\ durations = 0 /\ generations = 0 /\ claimed = 0
    BY ReceiptAssumption DEF ReceiptInit
  <1>2. <<>> \in [1..0 -> Item] /\ Blank \in Figures
    BY DEF Blank, Figures
  <1>3. items \in [1..made -> Item] /\ receipt \in Figures
    BY <1>1, <1>2
  <1>4. made \in 0..n /\ at \in 1..made+1
    BY <1>1, ReceiptAssumption
  <1>5. ReceiptTypeOK
    <2>1. /\ load \in Nat /\ took \in Nat /\ wall \in Nat
          /\ durations \in Int /\ generations \in Int /\ claimed \in Int
      BY <1>1
    <2>2. garbled \in BOOLEAN /\ phase # "item" /\ n \in 1..N
          /\ phase \in {"load", "render", "report", "printed", "item", "totals",
                     "valid", "invalid", "failed"}
      BY <1>1
    <2> QED
      BY <1>3, <1>4, <2>1, <2>2 DEF ReceiptTypeOK
  <1>6. Distance(0 * Milli, 0) <= (1 - 1) * Milli
    BY ReceiptAssumption DEF Distance
  <1> QED
    BY <1>1, <1>5, <1>6 DEF ReceiptInv, Rendered, Adding, BelievedIsConsistent

\* What rounds is an integer.
LEMMA RoundingsType ==
    ASSUME NEW ticks \in Nat, NEW ms \in Roundings(ticks)
    PROVE  ms \in Int
  BY DEF Roundings

\* So is a factor.
LEMMA FactorsType ==
    ASSUME NEW w \in Nat, NEW audio \in Int, audio > 0, NEW f \in Factors(w, audio)
    PROVE  f \in Int
  <1>1. audio * Milli \in Nat /\ audio * Milli > 0 /\ Fine * w \in Nat
    BY ReceiptAssumption
  <1>2. f \in (Fine * w) \div (audio * Milli) .. (Fine * w) \div (audio * Milli) + 1
    BY DEF Factors
  <1> HIDE DEF Factors
  <1> QED
    BY <1>1, <1>2

\* A step of the render or of the validation that changes no receipt and moves
\* on to a phase that has none of its own.
LEMMA FigureFrame ==
    ASSUME ReceiptTypeOK, UNCHANGED <<n, made, items, receipt>>,
           load' \in Nat, took' \in Nat, wall' \in Nat, garbled' \in BOOLEAN,
           durations' \in Int, generations' \in Int, claimed' \in Int,
           at' \in 1..made+1, phase' = "item" => at' <= made,
           phase' \in {"load", "render", "report", "printed", "item", "totals",
                    "valid", "invalid", "failed"}
    PROVE  ReceiptTypeOK'
  BY DEF ReceiptTypeOK

\* A segment that is rendered adds an item.
LEMMA RenderTypes ==
    ASSUME ReceiptTypeOK, Rendered, RenderSegment
    PROVE  ReceiptTypeOK'
  <1>1. /\ phase = "render" /\ made \in 0..n /\ made < n /\ n \in 1..N /\ N \in Nat
        /\ took \in Nat /\ receipt \in Figures /\ items \in [1..made -> Item]
        /\ at \in 1..made+1
    BY ReceiptAssumption DEF RenderSegment, Advance, Rendered, ReceiptTypeOK
  <1>2. PICK s \in Samples, t \in Times :
          /\ \E d \in Roundings(s), g \in Roundings(t), faint \in BOOLEAN :
                /\ items' = [i \in 1..made+1 |->
                                IF i <= made THEN items[i]
                                ELSE [samples |-> s, duration |-> d,
                                      generation |-> g, faint |-> faint]]
                /\ receipt' = [receipt EXCEPT !.audio = @ + d, !.generation = @ + g]
          /\ made' = made + 1 /\ took' = took + t
    BY DEF RenderSegment
  <1>3. PICK d \in Roundings(s), g \in Roundings(t), faint \in BOOLEAN :
          /\ items' = [i \in 1..made+1 |->
                          IF i <= made THEN items[i]
                          ELSE [samples |-> s, duration |-> d,
                                generation |-> g, faint |-> faint]]
          /\ receipt' = [receipt EXCEPT !.audio = @ + d, !.generation = @ + g]
    BY <1>2
  <1>4. s \in Nat /\ t \in Nat /\ s \in Int
    BY ReceiptAssumption
  <1>5. d \in Int /\ g \in Int
    BY <1>4, RoundingsType
  <1>6. items' \in [1..made' -> Item]
    <2>1. [samples |-> s, duration |-> d, generation |-> g, faint |-> faint] \in Item
      BY <1>4, <1>5 DEF Item
    <2>2. ASSUME NEW i \in 1..made+1, i <= made PROVE items[i] \in Item
      BY <1>1, <2>2
    <2> QED
      BY <1>2, <1>3, <2>1, <2>2
  <1>7. receipt' \in Figures
    <2>1. receipt.audio + d \in Int /\ receipt.generation + g \in Int
      BY <1>1, <1>5 DEF Figures
    <2>2. receipt' = [receipt EXCEPT !.audio = receipt.audio + d,
                                     !.generation = receipt.generation + g]
      BY <1>1, <1>3 DEF Figures
    <2> QED
      BY <1>1, <2>1, <2>2 DEF Figures
  <1>8. made' \in 0..n /\ took' \in Nat /\ at \in 1..made'+1
    BY <1>1, <1>2, <1>4
  <1>9. /\ phase' \in {"render", "report"}
        /\ UNCHANGED <<n, load, wall, garbled, at, durations, generations, claimed>>
    BY DEF RenderSegment, Advance, read
  <1> QED
    BY <1>6, <1>7, <1>8, <1>9 DEF ReceiptTypeOK

\* A lie changes no more than a figure.
LEMMA GarbleTypes ==
    ASSUME ReceiptTypeOK, Garble
    PROVE  ReceiptTypeOK'
  <1>1. items \in [1..made -> Item] /\ receipt \in Figures
    BY DEF ReceiptTypeOK
  <1>2. PICK lie \in Lies :
          \/ /\ \E i \in 1..made :
                   \/ items' = [items EXCEPT ![i].duration = @ + lie]
                   \/ items' = [items EXCEPT ![i].generation = @ + lie]
             /\ UNCHANGED receipt
          \/ /\ \E figure \in DOMAIN receipt :
                   receipt' = [receipt EXCEPT ![figure] = @ + lie]
             /\ UNCHANGED items
    BY DEF Garble
  <1>3. lie \in Int
    BY ReceiptAssumption
  <1>4. items' \in [1..made -> Item]
    <2>1. CASE UNCHANGED items
      BY <1>1, <2>1
    <2>2. CASE \E i \in 1..made : \/ items' = [items EXCEPT ![i].duration = @ + lie]
                                  \/ items' = [items EXCEPT ![i].generation = @ + lie]
      <3>1. PICK i \in 1..made : \/ items' = [items EXCEPT ![i].duration = @ + lie]
                                 \/ items' = [items EXCEPT ![i].generation = @ + lie]
        BY <2>2
      <3>2. items[i] \in Item
        BY <1>1
      <3>3. /\ [items[i] EXCEPT !.duration = @ + lie] \in Item
            /\ [items[i] EXCEPT !.generation = @ + lie] \in Item
        BY <1>3, <3>2 DEF Item
      <3> QED
        BY <1>1, <3>1, <3>3
    <2> QED
      BY <1>2, <2>1, <2>2
  <1>5. receipt' \in Figures
    BY <1>1, <1>2, <1>3 DEF Figures
  <1>6. garbled' \in BOOLEAN /\ UNCHANGED <<phase, n, made, load, took, wall>>
        /\ UNCHANGED <<at, durations, generations, claimed>>
    BY DEF Garble, measured, read
  <1> QED
    BY <1>4, <1>5, <1>6 DEF ReceiptTypeOK

\* A receipt that is printed has figures.
LEMMA ReportTypes ==
    ASSUME ReceiptTypeOK, Report
    PROVE  ReceiptTypeOK'
  <1>1. receipt \in Figures /\ load \in Nat /\ took \in Nat
    BY DEF ReceiptTypeOK
  <1>2. receipt.audio \in Int /\ receipt.audio > 0
    BY <1>1 DEF Figures, Report
  <1>3. wall' \in Nat
    BY <1>1, ReceiptAssumption DEF Report
  <1>4. PICK l \in Roundings(load), w \in Roundings(wall'), f \in Factors(wall', receipt.audio) :
          receipt' = [receipt EXCEPT !.load = l, !.wall = w, !.factor = f]
    BY DEF Report
  <1>5. l \in Int /\ w \in Int /\ f \in Int
    BY <1>1, <1>2, <1>3, RoundingsType, FactorsType
  <1>6. receipt' \in Figures
    BY <1>1, <1>4, <1>5 DEF Figures
  <1>7. phase' = "printed" /\ UNCHANGED <<n, made, load, took, items, garbled>>
        /\ UNCHANGED <<at, durations, generations, claimed>>
    BY DEF Report, Advance, read
  <1> QED
    BY <1>3, <1>6, <1>7 DEF ReceiptTypeOK

\* An item that is taken is one of those rendered.
LEMMA TakeTypes ==
    ASSUME ReceiptTypeOK, TakeItem
    PROVE  /\ ReceiptTypeOK' /\ at \in Nat /\ items[at] \in Item
           /\ claimed \in Int /\ durations \in Int
  <1>1. /\ phase = "item" /\ at \in 1..made+1 /\ at <= made /\ made \in 0..n /\ n \in 1..N
        /\ items \in [1..made -> Item]
        /\ durations \in Int /\ generations \in Int /\ claimed \in Int
    BY DEF TakeItem, Advance, ReceiptTypeOK
  <1>2. at \in 1..made /\ made \in Nat
    BY <1>1, ReceiptAssumption
  <1>3. items[at] \in Item
    BY <1>1, <1>2
  <1>4. /\ durations' \in Int /\ generations' \in Int /\ claimed' \in Int
        /\ at' \in 1..made+1
    <2>1. /\ items[at].duration \in Int /\ items[at].generation \in Int
          /\ items[at].samples \in Int
      BY <1>3 DEF Item
    <2>2. /\ at' = at + 1 /\ claimed' = claimed + items[at].samples
          /\ durations' = durations + items[at].duration
          /\ generations' = generations + items[at].generation
      BY DEF TakeItem
    <2>3. at + 1 \in 1..made+1
      BY <1>2
    <2> QED
      BY <1>1, <2>1, <2>2, <2>3
  <1>5. phase' \in {"item", "totals"} /\ (phase' = "item" => at' <= made)
    BY <1>1, <1>2 DEF TakeItem, Advance
  <1>6. UNCHANGED <<n, made, load, took, wall, items, receipt, garbled>>
    BY DEF TakeItem, measured
  <1> QED
    BY <1>1, <1>2, <1>3, <1>4, <1>5, <1>6 DEF ReceiptTypeOK

\* Every step keeps every variable in its range.
LEMMA ReceiptTypeStep ==
    ASSUME ReceiptTypeOK, Rendered, Adding, [ReceiptNext]_receiptVars
    PROVE  ReceiptTypeOK'
  <1>1. CASE Load
    <2>1. load' \in Nat /\ phase' = "render"
          /\ UNCHANGED <<n, made, took, wall, items, receipt, garbled>>
          /\ UNCHANGED <<at, durations, generations, claimed>>
      BY <1>1, ReceiptAssumption DEF Load, Advance, read
    <2> QED
      BY <2>1 DEF ReceiptTypeOK
  <1>2. CASE Begin
    <2>1. /\ phase = "printed" /\ phase' = "item"
          /\ UNCHANGED <<n, made, load, took, wall, items, receipt, garbled>>
          /\ UNCHANGED <<at, durations, generations, claimed>>
      BY <1>2 DEF Begin, Advance, measured, read
    <2>2. at <= made
      BY <2>1, ReceiptAssumption DEF Rendered, Adding, ReceiptTypeOK
    <2> QED
      BY <2>1, <2>2 DEF ReceiptTypeOK
  <1>3. ASSUME UNCHANGED <<measured, items, receipt, garbled, read>>,
               phase' \in {"failed", "invalid", "valid"}
        PROVE  ReceiptTypeOK'
    BY <1>3 DEF measured, read, ReceiptTypeOK
  <1>4. \/ RenderStops \/ ReportFails \/ RefuseItem \/ Believe \/ Disbelieve
        => /\ UNCHANGED <<measured, items, receipt, garbled, read>>
           /\ phase' \in {"failed", "invalid", "valid"}
    BY DEF RenderStops, ReportFails, RefuseItem, Believe, Disbelieve, Advance
  <1>5. CASE UNCHANGED receiptVars
    BY <1>5 DEF receiptVars, measured, read, ReceiptTypeOK
  <1> QED
    BY <1>1, <1>2, <1>3, <1>4, <1>5, RenderTypes, ReportTypes, GarbleTypes, TakeTypes
       DEF ReceiptNext, Ended

\* Every step keeps the count of segments.
LEMMA RenderedStep ==
    ASSUME ReceiptTypeOK, Rendered, [ReceiptNext]_receiptVars
    PROVE  Rendered'
  <1> USE DEF Rendered, Advance
  <1>1. CASE RenderSegment
    <2>1. made \in Int /\ n \in Int
      BY ReceiptAssumption DEF ReceiptTypeOK
    <2> QED
      BY <1>1, <2>1 DEF RenderSegment
  <1>2. CASE Load \/ RenderStops
    BY <1>2 DEF Load, RenderStops, measured
  <1>3. CASE Report \/ ReportFails \/ Garble
    BY <1>3 DEF Report, ReportFails, Garble, measured
  <1>4. CASE Begin \/ TakeItem \/ RefuseItem
    BY <1>4 DEF Begin, TakeItem, RefuseItem, measured
  <1>5. CASE Believe \/ Disbelieve
    BY <1>5 DEF Believe, Disbelieve, measured
  <1>6. CASE UNCHANGED receiptVars
    BY <1>6 DEF receiptVars, measured
  <1> QED
    BY <1>1, <1>2, <1>3, <1>4, <1>5, <1>6 DEF ReceiptNext, Ended

\* An item that agrees with itself adds no more than a millisecond to what the
\* durations are off.
LEMMA TakeAdds ==
    ASSUME ReceiptTypeOK, Adding, TakeItem
    PROVE  /\ Distance(durations' * Milli, claimed') <= (at' - 1) * Milli
           /\ phase' = "totals" => at' = made + 1
  <1>1. /\ phase = "item" /\ at \in Nat /\ items[at] \in Item
        /\ claimed \in Int /\ durations \in Int
    BY TakeTypes DEF TakeItem, Advance
  <1>2. at <= made /\ made \in Int
    BY <1>1, ReceiptAssumption DEF ReceiptTypeOK
  <1>3. /\ at' = at + 1 /\ durations' = durations + items[at].duration
        /\ claimed' = claimed + items[at].samples
        /\ Distance(items[at].duration * Milli, items[at].samples) <= Milli
        /\ phase' = IF at < made THEN "item" ELSE "totals"
    <2>1. Distance(items[at].duration * Milli, items[at].samples) + 0 <= Milli
      BY DEF TakeItem, ItemAgrees
    <2>2. /\ items[at].duration * Milli \in Int /\ items[at].samples \in Int
      BY <1>1, ReceiptAssumption DEF Item
    <2> QED
      BY <2>1, <2>2 DEF TakeItem, Advance, Distance
  <1>4. Distance(durations * Milli, claimed) <= (at - 1) * Milli
    BY <1>1 DEF Adding
  <1>5. items[at].duration \in Int /\ items[at].samples \in Int
    BY <1>1 DEF Item
  <1>6. /\ (durations + items[at].duration) * Milli
              = durations * Milli + items[at].duration * Milli
        /\ at * Milli = (at - 1) * Milli + Milli
        /\ durations * Milli \in Int /\ items[at].duration * Milli \in Int
        /\ (at - 1) * Milli \in Int /\ Milli \in Int
    BY <1>1, <1>5, ReceiptAssumption
  <1>7. Distance(durations * Milli + items[at].duration * Milli,
                 claimed + items[at].samples) <= (at - 1) * Milli + Milli
    BY <1>1, <1>3, <1>4, <1>5, <1>6 DEF Distance
  <1>8. at' - 1 = at
    BY <1>1, <1>3
  <1> QED
    BY <1>1, <1>2, <1>3, <1>6, <1>7, <1>8

\* Every step keeps the sums.
LEMMA AddingStep ==
    ASSUME ReceiptTypeOK, Rendered, Adding, [ReceiptNext]_receiptVars
    PROVE  Adding'
  <1>1. CASE TakeItem
    <2>1. phase' \in {"item", "totals"}
      BY <1>1 DEF TakeItem, Advance
    <2>2. made' = made
      BY <1>1 DEF TakeItem, measured
    <2> QED
      BY <1>1, <2>1, <2>2, TakeAdds DEF Adding
  <1>2. CASE Begin
    <2>1. /\ phase' = "item" /\ at' = 1 /\ durations' = 0 /\ claimed' = 0
      BY <1>2 DEF Begin, Advance, read, Adding
    <2>2. Distance(0 * Milli, 0) <= (1 - 1) * Milli
      BY ReceiptAssumption DEF Distance
    <2> QED
      BY <2>1, <2>2 DEF Adding
  <1>3. CASE Load \/ RenderSegment \/ RenderStops \/ Report \/ ReportFails \/ Garble
    <2>1. /\ phase \in {"load", "render", "report", "printed"}
          /\ phase' \in {"load", "render", "report", "printed", "failed"}
          /\ UNCHANGED <<at, durations, claimed>>
      BY <1>3 DEF Load, RenderSegment, RenderStops, Report, ReportFails, Garble, Advance, read
    <2> QED
      BY <2>1 DEF Adding
  <1>4. CASE RefuseItem \/ Believe \/ Disbelieve
    <2>1. /\ phase \in {"item", "totals"} /\ phase' \in {"valid", "invalid"}
          /\ phase' = "valid" => phase = "totals"
          /\ UNCHANGED <<at, made, durations, claimed>>
      BY <1>4 DEF RefuseItem, Believe, Disbelieve, Advance, read, measured
    <2> QED
      BY <2>1 DEF Adding
  <1>5. CASE UNCHANGED receiptVars
    BY <1>5 DEF receiptVars, measured, read, Adding
  <1> QED
    BY <1>1, <1>2, <1>3, <1>4, <1>5 DEF ReceiptNext, Ended

\* A receipt is only believed when all of it adds up.
LEMMA BelievedStep ==
    ASSUME ReceiptInv, [ReceiptNext]_receiptVars
    PROVE  BelievedIsConsistent'
  <1>1. CASE Believe
    <2>1. /\ phase = "totals" /\ TotalsAgree(0)
          /\ UNCHANGED <<n, receipt, claimed, generations>>
      BY <1>1 DEF Believe, Advance, measured, read
    <2>2. /\ at = n + 1 /\ n \in Nat
          /\ Distance(durations * Milli, claimed) <= (at - 1) * Milli
      BY <2>1, ReceiptAssumption DEF ReceiptInv, Rendered, Adding, ReceiptTypeOK
    <2>3. /\ durations \in Int /\ generations \in Int /\ claimed \in Int
          /\ receipt \in Figures
      BY DEF ReceiptInv, ReceiptTypeOK
    <2>4. /\ receipt.audio \in Int /\ receipt.generation \in Int
          /\ receipt.load \in Int /\ receipt.wall \in Int
      BY <2>3 DEF Figures
    <2>5. /\ Distance(receipt.audio, durations) <= n
          /\ Distance(receipt.generation, generations) <= n
          /\ receipt.load + receipt.generation <= receipt.wall + 1
      <3>1. /\ Distance(receipt.audio, durations) + 0 <= n
            /\ Distance(receipt.generation, generations) + 0 <= n
            /\ receipt.load + receipt.generation + 0 <= receipt.wall + 1
        BY <2>1 DEF TotalsAgree
      <3> QED
        BY <2>3, <2>4, <3>1 DEF Distance
    <2>6. receipt.load + generations <= receipt.wall + 1 + n
      BY <2>2, <2>3, <2>4, <2>5 DEF Distance
    <2>7. /\ (receipt.audio - durations) * Milli <= n * Milli
          /\ (durations - receipt.audio) * Milli <= n * Milli
      <3>1. /\ receipt.audio - durations <= n /\ durations - receipt.audio <= n
            /\ Milli \in Nat
        BY <2>2, <2>3, <2>4, <2>5, ReceiptAssumption DEF Distance
      <3>2. /\ (n - (receipt.audio - durations)) * Milli >= 0
            /\ (n - (durations - receipt.audio)) * Milli >= 0
        BY <2>2, <2>3, <2>4, <3>1
      <3> QED
        BY <2>2, <2>3, <2>4, <3>1, <3>2
    <2>8. /\ (receipt.audio - durations) * Milli = receipt.audio * Milli - durations * Milli
          /\ (durations - receipt.audio) * Milli = durations * Milli - receipt.audio * Milli
          /\ receipt.audio * Milli \in Int /\ durations * Milli \in Int /\ n * Milli \in Int
          /\ 2 * n * Milli = n * Milli + n * Milli
      BY <2>2, <2>3, <2>4, ReceiptAssumption
    <2>9. at - 1 = n
      BY <2>2
    <2>10. Distance(receipt.audio * Milli, claimed) <= 2 * n * Milli
      BY <2>2, <2>3, <2>7, <2>8, <2>9 DEF Distance
    <2> QED
      BY <2>1, <2>6, <2>10 DEF BelievedIsConsistent
  <1>2. ASSUME phase' # "valid" PROVE BelievedIsConsistent'
    BY <1>2 DEF BelievedIsConsistent
  <1>3. CASE UNCHANGED receiptVars
    BY <1>3 DEF ReceiptInv, receiptVars, measured, read, BelievedIsConsistent
  <1>4. \/ Load \/ RenderSegment \/ RenderStops \/ Report \/ ReportFails \/ Garble
        \/ Begin \/ TakeItem \/ RefuseItem \/ Disbelieve
        => phase' # "valid"
    BY DEF Load, RenderSegment, RenderStops, Report, ReportFails, Garble, Begin, TakeItem,
           RefuseItem, Disbelieve, Advance, measured
  <1> QED
    BY <1>1, <1>2, <1>3, <1>4 DEF ReceiptNext, Ended

\* The invariant holds throughout.
THEOREM ReceiptInvariance == ReceiptSpec => []ReceiptInv
  <1>1. ASSUME ReceiptInv, [ReceiptNext]_receiptVars PROVE ReceiptInv'
    BY <1>1, ReceiptTypeStep, RenderedStep, AddingStep, BelievedStep DEF ReceiptInv
  <1> QED
    BY ReceiptInitHolds, <1>1, PTL DEF ReceiptSpec

\* Every variable keeps its range: the validation looks at no item that was not
\* rendered (benchmark.py, lines 285-334).
THEOREM ReceiptTypeCorrect == ReceiptSpec => []ReceiptTypeOK
  BY ReceiptInvariance, PTL DEF ReceiptInv

\* A receipt that is believed is consistent as a whole, however many items it
\* has and whatever a render printed: being off by a millisecond in every figure
\* never adds up to more than a millisecond for each (lines 314-376).
THEOREM BelievedConsistent == ReceiptSpec => []BelievedIsConsistent
  BY ReceiptInvariance, PTL DEF ReceiptInv

-----------------------------------------------------------------------------
\* Receipt: what is printed as it was measured

\* What rounds is a natural number within half a millisecond.
LEMMA RoundingsNear ==
    ASSUME NEW ticks \in Nat, NEW ms \in Roundings(ticks)
    PROVE  /\ ms \in Nat /\ ms * Milli \in Nat
           /\ 2 * (ms * Milli) <= 2 * ticks + Milli
           /\ 2 * ticks <= 2 * (ms * Milli) + Milli
  <1>1. Milli \in Nat /\ Milli > 0
    BY ReceiptAssumption
  <1>2. ticks \div Milli \in Nat
    BY <1>1
  <1>3. /\ ms \in ticks \div Milli .. ticks \div Milli + 1
        /\ 2 * (ms * Milli - ticks) \in -Milli..Milli
    BY DEF Roundings
  <1>4. ms \in Nat
    BY <1>2, <1>3
  <1>5. ms * Milli \in Nat
    BY <1>1, <1>4
  <1> HIDE DEF Roundings
  <1> QED
    BY <1>1, <1>3, <1>4, <1>5

\* So is a factor, within half of its last decimal.
LEMMA FactorsNear ==
    ASSUME NEW w \in Nat, NEW audio \in Int, audio > 0, NEW f \in Factors(w, audio)
    PROVE  /\ f \in Int /\ f * audio * Milli \in Int /\ Fine * w \in Nat
           /\ audio * Milli \in Nat
           /\ 2 * (f * audio * Milli) <= 2 * (Fine * w) + audio * Milli
           /\ 2 * (Fine * w) <= 2 * (f * audio * Milli) + audio * Milli
  <1>1. f \in Int
    BY FactorsType
  <1>2. /\ f * audio * Milli \in Int /\ Fine * w \in Nat /\ audio * Milli \in Nat
    BY <1>1, ReceiptAssumption
  <1>3. 2 * (f * audio * Milli - Fine * w) \in -audio * Milli..audio * Milli
    BY DEF Factors
  <1>4. -audio * Milli = -(audio * Milli)
    BY ReceiptAssumption
  <1>5. 2 * (f * audio * Milli - Fine * w) \in -(audio * Milli)..audio * Milli
    BY <1>3, <1>4
  <1> QED
    BY <1>1, <1>2, <1>5

\* An item as the render measured and rounded it.
TrueItem(item, ticks) ==
    /\ 1 <= item.samples /\ item.samples <= SegmentLimit * Milli
    /\ 0 <= item.duration
    /\ 2 * (item.duration * Milli) <= 2 * item.samples + Milli
    /\ 2 * item.samples <= 2 * (item.duration * Milli) + Milli
    /\ 0 <= item.generation /\ 2 * (item.generation * Milli) <= 2 * ticks + Milli

\* The sums of the figures of the first items: those of all items are in the
\* receipt, and those of the items before the one at hand were added up again.
PartialSums(ds, gs) ==
    /\ ds[0] = 0 /\ gs[0] = 0
    /\ \A i \in 1..made : /\ ds[i] = ds[i-1] + items[i].duration
                          /\ gs[i] = gs[i-1] + items[i].generation
    /\ receipt.audio = ds[made] /\ receipt.generation = gs[made]
    /\ durations = ds[at-1] /\ generations = gs[at-1]

TrueSums == \E ds, gs \in [0..made -> Int] : PartialSums(ds, gs)

\* The figures of the whole render, as far as they are there.
TrueRender ==
    /\ receipt.audio <= AudioLimit
    /\ 0 <= receipt.generation
    /\ 2 * (receipt.generation * Milli) <= 2 * took + made * Milli

TrueReport ==
    /\ receipt.audio > 0
    /\ load + took <= wall /\ wall <= TimeLimit * Milli
    /\ 0 <= receipt.load /\ 2 * (receipt.load * Milli) <= 2 * load + Milli
    /\ 2 * (receipt.wall * Milli) <= 2 * wall + Milli
    /\ 2 * wall <= 2 * (receipt.wall * Milli) + Milli
    /\ 2 * (receipt.factor * receipt.audio * Milli)
          <= 2 * (Fine * wall) + receipt.audio * Milli
    /\ 2 * (Fine * wall)
          <= 2 * (receipt.factor * receipt.audio * Milli) + receipt.audio * Milli

\* As long as no figure was changed, all of them are what was measured.
Truthful ==
    ~garbled =>
        /\ \A i \in 1..made : TrueItem(items[i], took)
        /\ TrueSums /\ TrueRender
        /\ phase \in {"printed", "item", "totals"} => TrueReport

\* The render starts with nothing measured.
LEMMA TruthInit == ReceiptInit => Truthful
  <1> SUFFICES ASSUME ReceiptInit PROVE Truthful
    OBVIOUS
  <1>1. /\ phase = "load" /\ made = 0 /\ took = 0 /\ receipt = Blank
        /\ at = 1 /\ durations = 0 /\ generations = 0
    BY DEF ReceiptInit
  <1>2. receipt.audio = 0 /\ receipt.generation = 0
    BY <1>1 DEF Blank
  <1>3. TrueSums
    <2> DEFINE zero == [i \in 0..0 |-> 0]
    <2>1. zero \in [0..made -> Int] /\ zero[0] = 0
      BY <1>1
    <2>2. PartialSums(zero, zero)
      BY <1>1, <1>2, <2>1 DEF PartialSums
    <2> QED
      BY <2>1, <2>2 DEF TrueSums
  <1>4. TrueRender
    BY <1>1, <1>2, ReceiptAssumption DEF TrueRender
  <1> QED
    BY <1>1, <1>3, <1>4 DEF Truthful

\* Sums remain what they are while their summands do.
LEMMA SumsFrame ==
    ASSUME TrueSums, UNCHANGED <<made, items, at, durations, generations>>,
           receipt'.audio = receipt.audio, receipt'.generation = receipt.generation
    PROVE  TrueSums'
  BY DEF TrueSums, PartialSums

\* A segment that is rendered adds a true item to the sums.
LEMMA RenderTrue ==
    ASSUME ReceiptInv, Truthful, RenderSegment
    PROVE  Truthful'
  <1> SUFFICES ASSUME ~garbled PROVE Truthful'
    BY DEF RenderSegment, Truthful
  <1>1. /\ phase = "render" /\ phase' \in {"render", "report"}
        /\ made \in Nat /\ at = 1 /\ took \in Nat
        /\ receipt \in Figures /\ items \in [1..made -> Item]
    BY ReceiptAssumption
       DEF RenderSegment, Advance, Adding, ReceiptInv, ReceiptTypeOK
  <1>2. PICK s \in Samples, t \in Times :
          /\ s <= SegmentLimit * Milli
          /\ \E d \in Roundings(s), g \in Roundings(t), faint \in BOOLEAN :
                /\ items' = [i \in 1..made+1 |->
                                IF i <= made THEN items[i]
                                ELSE [samples |-> s, duration |-> d,
                                      generation |-> g, faint |-> faint]]
                /\ receipt' = [receipt EXCEPT !.audio = @ + d, !.generation = @ + g]
          /\ receipt'.audio <= AudioLimit
          /\ made' = made + 1 /\ took' = took + t
          /\ UNCHANGED <<at, durations, generations>>
    BY DEF RenderSegment, read
  <1>3. PICK d \in Roundings(s), g \in Roundings(t), faint \in BOOLEAN :
          /\ items' = [i \in 1..made+1 |->
                          IF i <= made THEN items[i]
                          ELSE [samples |-> s, duration |-> d,
                                generation |-> g, faint |-> faint]]
          /\ receipt' = [receipt EXCEPT !.audio = @ + d, !.generation = @ + g]
    BY <1>2
  <1>4. s \in Nat /\ s >= 1 /\ t \in Nat
    BY ReceiptAssumption
  <1>5. /\ d \in Nat /\ d * Milli \in Nat /\ 2 * (d * Milli) <= 2 * s + Milli
        /\ 2 * s <= 2 * (d * Milli) + Milli
        /\ g \in Nat /\ g * Milli \in Nat /\ 2 * (g * Milli) <= 2 * t + Milli
    BY <1>4, RoundingsNear
  <1>6. /\ receipt.audio \in Int /\ receipt.generation \in Int
        /\ receipt'.audio = receipt.audio + d
        /\ receipt'.generation = receipt.generation + g
    BY <1>1, <1>3 DEF Figures
  <1>7. \A i \in 1..made' : TrueItem(items'[i], took')
    <2> SUFFICES ASSUME NEW i \in 1..made+1 PROVE TrueItem(items'[i], took')
      BY <1>2
    <2>1. CASE i <= made
      <3>1. i \in 1..made
        BY <1>1, <2>1
      <3>2. TrueItem(items[i], took) /\ items'[i] = items[i] /\ items[i] \in Item
        BY <1>1, <1>3, <2>1, <3>1 DEF Truthful
      <3>3. items[i].generation * Milli \in Int
        BY <3>2, ReceiptAssumption DEF Item
      <3>4. 2 * (items[i].generation * Milli) <= 2 * (took + t) + Milli
        BY <1>1, <1>4, <3>2, <3>3, ReceiptAssumption DEF TrueItem
      <3> QED
        BY <1>2, <3>2, <3>4 DEF TrueItem
    <2>2. CASE ~(i <= made)
      <3>1. items'[i] = [samples |-> s, duration |-> d, generation |-> g, faint |-> faint]
        BY <1>3, <2>2
      <3>2. /\ items'[i].samples = s /\ items'[i].duration = d /\ items'[i].generation = g
        BY <3>1
      <3>3. 2 * (g * Milli) <= 2 * (took + t) + Milli
        BY <1>1, <1>4, <1>5, ReceiptAssumption
      <3> QED
        BY <1>2, <1>4, <1>5, <3>2, <3>3 DEF TrueItem
    <2> QED
      BY <2>1, <2>2
  <1>8. TrueSums'
    <2>1. PICK ds \in [0..made -> Int], gs \in [0..made -> Int] : PartialSums(ds, gs)
      BY DEF Truthful, TrueSums
    <2>2. ds[made] \in Int /\ gs[made] \in Int
      BY <1>1, <2>1
    <2>3. PICK es \in [0..made+1 -> Int], hs \in [0..made+1 -> Int] :
            \A i \in 0..made+1 : /\ es[i] = IF i <= made THEN ds[i] ELSE ds[made] + d
                                 /\ hs[i] = IF i <= made THEN gs[i] ELSE gs[made] + g
      <3> DEFINE e == [i \in 0..made+1 |-> IF i <= made THEN ds[i] ELSE ds[made] + d]
                 h == [i \in 0..made+1 |-> IF i <= made THEN gs[i] ELSE gs[made] + g]
      <3>1. e \in [0..made+1 -> Int] /\ h \in [0..made+1 -> Int]
        BY <1>1, <1>5, <2>1, <2>2
      <3> QED
        BY <3>1
    <2>4. es[0] = 0 /\ hs[0] = 0 /\ durations = es[0] /\ generations = hs[0]
      <3>1. 0 \in 0..made+1 /\ 0 <= made /\ at - 1 = 0
        BY <1>1
      <3> QED
        BY <2>1, <2>3, <3>1 DEF PartialSums
    <2>5. ASSUME NEW i \in 1..made+1
          PROVE  /\ es[i] = es[i-1] + items'[i].duration
                 /\ hs[i] = hs[i-1] + items'[i].generation
      <3>1. CASE i <= made
        <4>1. i \in 1..made /\ i \in 0..made+1 /\ i-1 \in 0..made+1 /\ i-1 <= made
          BY <1>1, <3>1
        <4>2. es[i] = ds[i] /\ hs[i] = gs[i] /\ es[i-1] = ds[i-1] /\ hs[i-1] = gs[i-1]
          BY <2>3, <3>1, <4>1
        <4>3. items'[i] = items[i]
          BY <1>3, <3>1
        <4> QED
          BY <2>1, <4>1, <4>2, <4>3 DEF PartialSums
      <3>2. CASE ~(i <= made)
        <4>1. i = made+1 /\ i \in 0..made+1 /\ i-1 = made /\ made \in 0..made+1
          BY <1>1, <3>2
        <4>2. es[i] = ds[made] + d /\ hs[i] = gs[made] + g
              /\ es[i-1] = ds[made] /\ hs[i-1] = gs[made]
          BY <1>1, <2>3, <3>2, <4>1
        <4>3. items'[i].duration = d /\ items'[i].generation = g
          BY <1>3, <3>2
        <4> QED
          BY <4>2, <4>3
      <3> QED
        BY <3>1, <3>2
    <2>6. receipt'.audio = es[made+1] /\ receipt'.generation = hs[made+1]
      <3>1. made+1 \in 0..made+1 /\ ~(made+1 <= made)
        BY <1>1
      <3>2. es[made+1] = ds[made] + d /\ hs[made+1] = gs[made] + g
        BY <2>3, <3>1
      <3> QED
        BY <1>6, <2>1, <3>2 DEF PartialSums
    <2>7. at' - 1 = 0
      BY <1>1, <1>2
    <2>8. PartialSums(es, hs)'
      BY <1>2, <2>4, <2>5, <2>6, <2>7 DEF PartialSums
    <2> QED
      BY <1>2, <2>3, <2>8 DEF TrueSums
  <1>9. TrueRender'
    <2>1. /\ receipt.generation * Milli \in Int /\ made * Milli \in Int /\ Milli \in Int
          /\ (receipt.generation + g) * Milli = receipt.generation * Milli + g * Milli
          /\ (made + 1) * Milli = made * Milli + Milli
      BY <1>1, <1>5, <1>6, ReceiptAssumption
    <2>2. /\ 0 <= receipt.generation
          /\ 2 * (receipt.generation * Milli) <= 2 * took + made * Milli
      BY DEF Truthful, TrueRender
    <2>3. 2 * (receipt.generation * Milli + g * Milli) <= 2 * (took + t) + (made * Milli + Milli)
      BY <1>1, <1>4, <1>5, <2>1, <2>2
    <2>4. 2 * (receipt'.generation * Milli) <= 2 * took' + made' * Milli
      BY <1>2, <1>6, <2>1, <2>3
    <2>5. 0 <= receipt'.generation
      BY <1>5, <1>6, <2>2
    <2> QED
      BY <1>2, <2>4, <2>5 DEF TrueRender
  <1> QED
    BY <1>1, <1>7, <1>8, <1>9 DEF Truthful

\* A receipt that is printed has the figures of the render, rounded.
LEMMA ReportTrue ==
    ASSUME ReceiptInv, Truthful, Report
    PROVE  Truthful'
  <1> SUFFICES ASSUME ~garbled PROVE Truthful'
    BY DEF Report, Truthful
  <1>1. receipt \in Figures /\ load \in Nat /\ took \in Nat
    BY DEF ReceiptInv, ReceiptTypeOK
  <1>2. receipt.audio \in Int /\ receipt.audio > 0
    BY <1>1 DEF Figures, Report
  <1>3. wall' \in Nat /\ load + took <= wall' /\ wall' <= TimeLimit * Milli
    BY <1>1, ReceiptAssumption DEF Report
  <1>4. PICK l \in Roundings(load), w \in Roundings(wall'), f \in Factors(wall', receipt.audio) :
          receipt' = [receipt EXCEPT !.load = l, !.wall = w, !.factor = f]
    BY DEF Report
  <1>5. /\ receipt'.load = l /\ receipt'.wall = w /\ receipt'.factor = f
        /\ receipt'.audio = receipt.audio /\ receipt'.generation = receipt.generation
    BY <1>1, <1>4 DEF Figures
  <1>6. UNCHANGED <<n, made, load, took, items, garbled, at, durations, generations>>
    BY DEF Report, read
  <1>7. TrueSums'
    BY <1>5, <1>6, SumsFrame DEF Truthful
  <1>8. TrueRender'
    BY <1>5, <1>6 DEF Truthful, TrueRender
  <1>9. TrueReport'
    <2>1. l \in Nat /\ 2 * (l * Milli) <= 2 * load + Milli
      BY <1>1, RoundingsNear
    <2>2. 2 * (w * Milli) <= 2 * wall' + Milli /\ 2 * wall' <= 2 * (w * Milli) + Milli
      BY <1>3, RoundingsNear
    <2>3. /\ 2 * (f * receipt.audio * Milli) <= 2 * (Fine * wall') + receipt.audio * Milli
          /\ 2 * (Fine * wall') <= 2 * (f * receipt.audio * Milli) + receipt.audio * Milli
      BY <1>2, <1>3, FactorsNear
    <2>4. 0 <= l
      BY <2>1
    <2> QED
      BY <1>2, <1>3, <1>5, <1>6, <2>1, <2>2, <2>3, <2>4 DEF TrueReport
  <1> QED
    BY <1>6, <1>7, <1>8, <1>9 DEF Truthful

\* An item that is taken is added to the sums.
LEMMA TakeTrue ==
    ASSUME ReceiptInv, Truthful, TakeItem
    PROVE  Truthful'
  <1> SUFFICES ASSUME ~garbled PROVE Truthful'
    BY DEF TakeItem, Truthful
  <1>1. /\ phase = "item" /\ phase' \in {"item", "totals"}
        /\ at' = at + 1
        /\ durations' = durations + items[at].duration
        /\ generations' = generations + items[at].generation
        /\ UNCHANGED <<made, load, took, wall, items, receipt, garbled>>
    BY DEF TakeItem, Advance, measured
  <1>2. at \in 1..made /\ made \in Nat
    BY <1>1, ReceiptAssumption DEF ReceiptInv, ReceiptTypeOK
  <1>3. TrueSums'
    <2>1. PICK ds \in [0..made -> Int], gs \in [0..made -> Int] : PartialSums(ds, gs)
      BY DEF Truthful, TrueSums
    <2>2. durations' = ds[at] /\ generations' = gs[at]
      BY <1>1, <1>2, <2>1 DEF PartialSums
    <2>3. at' - 1 = at
      BY <1>1, <1>2
    <2>4. PartialSums(ds, gs)'
      BY <1>1, <2>1, <2>2, <2>3 DEF PartialSums
    <2> QED
      BY <1>1, <2>4 DEF TrueSums
  <1>4. TrueRender' /\ TrueReport'
    BY <1>1 DEF Truthful, TrueRender, TrueReport
  <1> QED
    BY <1>1, <1>3, <1>4 DEF Truthful

\* Every step keeps what was not changed true.
LEMMA TruthStep ==
    ASSUME ReceiptInv, Truthful, [ReceiptNext]_receiptVars
    PROVE  Truthful'
  <1>1. CASE Garble
    BY <1>1 DEF Garble, Truthful
  <1>2. CASE Load
    <2>1. /\ phase' = "render"
          /\ UNCHANGED <<made, took, items, receipt, garbled, at, durations, generations>>
      BY <1>2 DEF Load, Advance, read
    <2>2. ~garbled => TrueSums'
      BY <2>1, SumsFrame DEF Truthful
    <2> QED
      BY <2>1, <2>2 DEF Truthful, TrueRender
  <1>3. ASSUME UNCHANGED <<measured, items, receipt, garbled, read>>,
               phase' \in {"printed", "item", "totals"}
                  => phase \in {"printed", "item", "totals"}
        PROVE  Truthful'
    <2>1. UNCHANGED <<made, load, took, wall, items, receipt, garbled, at, durations, generations>>
      BY <1>3 DEF measured, read
    <2>2. ~garbled => TrueSums'
      BY <2>1, SumsFrame DEF Truthful
    <2>3. TrueRender => TrueRender'
      BY <2>1 DEF TrueRender
    <2>4. TrueReport => TrueReport'
      BY <2>1 DEF TrueReport
    <2>5. (\A i \in 1..made : TrueItem(items[i], took))
            => (\A i \in 1..made : TrueItem(items[i], took))'
      BY <2>1 DEF TrueItem
    <2> QED
      BY <1>3, <2>1, <2>2, <2>3, <2>4, <2>5 DEF Truthful
  <1>4. \/ RenderStops \/ ReportFails \/ Begin \/ RefuseItem \/ Believe \/ Disbelieve
        => /\ UNCHANGED <<measured, items, receipt, garbled, read>>
           /\ phase' \in {"printed", "item", "totals"}
                 => phase \in {"printed", "item", "totals"}
    BY DEF RenderStops, ReportFails, Begin, RefuseItem, Believe, Disbelieve, Advance
  <1>5. UNCHANGED receiptVars
        => /\ UNCHANGED <<measured, items, receipt, garbled, read>>
           /\ phase' = phase
    BY DEF receiptVars
  <1> QED
    BY <1>1, <1>2, <1>3, <1>4, <1>5, RenderTrue, ReportTrue, TakeTrue
       DEF ReceiptNext, Ended

\* Numbers compare as their multiples do.
LEMMA Scaled ==
    ASSUME NEW a \in Int, NEW b \in Int, NEW m \in Nat, m > 0
    PROVE  /\ a * m \in Int /\ b * m \in Int
           /\ a * m < b * m => a < b
           /\ a * m <= b * m => a <= b
  <1>1. ASSUME ~(a < b) PROVE b * m <= a * m
    <2>1. a - b \in Nat
      BY <1>1
    <2>2. (a - b) * m >= 0
      BY <2>1
    <2> QED
      BY <2>2
  <1>2. ASSUME ~(a <= b) PROVE b * m < a * m
    <2>1. a - b \in Nat /\ a - b > 0
      BY <1>2
    <2>2. (a - b) * m > 0
      BY <2>1
    <2> QED
      BY <2>2
  <1>3. a * m \in Int /\ b * m \in Int
    OBVIOUS
  <1> QED
    BY <1>1, <1>2, <1>3

\* A true item agrees with itself, unless something of it rounds to nothing.
LEMMA ItemPasses ==
    ASSUME ReceiptInv, Truthful, phase = "item", ~garbled, ~Rounded
    PROVE  ItemAgrees(items[at], 1)
  <1>1. /\ at \in 1..made /\ items[at] \in Item /\ took \in Nat /\ load \in Nat /\ wall \in Nat
    BY ReceiptAssumption DEF ReceiptInv, ReceiptTypeOK
  <1>2. TrueItem(items[at], took) /\ TrueReport
    BY <1>1 DEF Truthful
  <1>3. items[at].duration # 0 /\ ~items[at].faint
    BY <1>1 DEF Rounded
  <1> DEFINE s == items[at].samples
             d == items[at].duration
             g == items[at].generation
  <1>4. /\ s \in Int /\ d \in Int /\ g \in Int
        /\ d * Milli \in Int /\ g * Milli \in Int
        /\ SegmentLimit * Milli \in Nat /\ TimeLimit * Milli \in Nat
        /\ Milli \in Nat /\ Milli > 0
    BY <1>1, ReceiptAssumption DEF Item
  <1>5. /\ 1 <= s /\ s <= SegmentLimit * Milli
        /\ 0 <= d /\ 2 * (d * Milli) <= 2 * s + Milli /\ 2 * s <= 2 * (d * Milli) + Milli
        /\ 0 <= g /\ 2 * (g * Milli) <= 2 * took + Milli
        /\ load + took <= wall /\ wall <= TimeLimit * Milli
    BY <1>2 DEF TrueItem, TrueReport
  <1>6. d # 0
    BY <1>3
  <1> HIDE DEF s, d, g
  <1>7. d <= SegmentLimit
    <2>1. (SegmentLimit + 1) * Milli = SegmentLimit * Milli + Milli
      BY ReceiptAssumption
    <2>2. d * Milli < (SegmentLimit + 1) * Milli
      BY <1>4, <1>5, <2>1
    <2>3. SegmentLimit \in Nat /\ SegmentLimit + 1 \in Int
      BY ReceiptAssumption
    <2>4. d < SegmentLimit + 1
      BY <1>4, <2>2, <2>3, Scaled
    <2> QED
      BY <1>4, <2>3, <2>4
  <1>8. g <= TimeLimit
    <2>1. (TimeLimit + 1) * Milli = TimeLimit * Milli + Milli
      BY ReceiptAssumption
    <2>2. g * Milli < (TimeLimit + 1) * Milli
      BY <1>1, <1>4, <1>5, <2>1
    <2>3. TimeLimit \in Nat /\ TimeLimit + 1 \in Int
      BY ReceiptAssumption
    <2>4. g < TimeLimit + 1
      BY <1>4, <2>2, <2>3, Scaled
    <2> QED
      BY <1>4, <2>3, <2>4
  <1>9. Distance(d * Milli, s) + 1 <= Milli
    BY <1>4, <1>5 DEF Distance
  <1> QED
    BY <1>3, <1>4, <1>5, <1>6, <1>7, <1>8, <1>9 DEF ItemAgrees, Bounded, s, d, g

\* The figures of a true receipt are in their bounds and add up, unless
\* rounding alone prevents it.
LEMMA TotalsPass ==
    ASSUME ReceiptInv, Truthful, phase = "totals", ~garbled, ~Rounded
    PROVE  TotalsBounded /\ TotalsAgree(1)
  <1> DEFINE l == receipt.load
             g == receipt.generation
             w == receipt.wall
             a == receipt.audio
             f == receipt.factor
  <1>1. /\ at = made + 1 /\ made = n /\ n \in Nat /\ n >= 1
        /\ took \in Nat /\ load \in Nat /\ wall \in Nat
        /\ receipt \in Figures
    BY ReceiptAssumption DEF ReceiptInv, Adding, Rendered, ReceiptTypeOK
  <1>2. l \in Int /\ g \in Int /\ w \in Int /\ a \in Int /\ f \in Int
    BY <1>1 DEF Figures
  <1>3. TrueSums /\ TrueRender /\ TrueReport
    BY DEF Truthful
  <1>4. durations = a /\ generations = g
    <2>1. PICK ds \in [0..made -> Int], gs \in [0..made -> Int] : PartialSums(ds, gs)
      BY <1>3 DEF TrueSums
    <2>2. at - 1 = made
      BY <1>1
    <2> QED
      BY <2>1, <2>2 DEF PartialSums
  <1>5. /\ a > 0 /\ a <= AudioLimit
        /\ 0 <= g /\ 2 * (g * Milli) <= 2 * took + n * Milli
        /\ load + took <= wall /\ wall <= TimeLimit * Milli
        /\ 0 <= l /\ 2 * (l * Milli) <= 2 * load + Milli
        /\ 2 * (w * Milli) <= 2 * wall + Milli /\ 2 * wall <= 2 * (w * Milli) + Milli
        /\ 2 * (f * a * Milli) <= 2 * (Fine * wall) + a * Milli
        /\ 2 * (Fine * wall) <= 2 * (f * a * Milli) + a * Milli
    BY <1>1, <1>3 DEF TrueRender, TrueReport
  <1>6. /\ ~(a * (2 * Tolerance - 1) <= Fine)
        /\ ~(2 * (wall - load - took) <= n * Milli)
        /\ ~(2 * Fine * wall <= a * Milli)
        /\ ~(wall >= FactorLimit * a * Milli)
    BY DEF Rounded
  <1> HIDE DEF l, g, w, a, f
  <1>7. /\ Milli \in Nat /\ Milli > 0 /\ Fine \in Nat /\ Fine > 0
        /\ Tolerance \in Nat /\ TimeLimit \in Nat /\ FactorLimit \in Nat
    BY ReceiptAssumption
  <1>8. /\ l * Milli \in Int /\ g * Milli \in Int /\ w * Milli \in Int /\ n * Milli \in Int
        /\ a * Milli \in Int /\ f * a * Milli \in Int /\ Fine * wall \in Int
        /\ TimeLimit * Milli \in Int
    BY <1>1, <1>2, <1>7
  <1>9. l + g <= w
    <2>1. /\ (l + g) * Milli = l * Milli + g * Milli
          /\ (w + 1) * Milli = w * Milli + Milli
          /\ n * Milli >= Milli
      <3>1. /\ (n - 1) * Milli >= 0 /\ (n - 1) * Milli \in Int
            /\ n * Milli = (n - 1) * Milli + Milli
        BY <1>1, <1>7
      <3> QED
        BY <1>2, <1>7, <1>8, <3>1
    <2>2. l * Milli + g * Milli < w * Milli + Milli
      BY <1>1, <1>5, <1>6, <1>7, <1>8
    <2>3. l + g \in Int /\ w + 1 \in Int
      BY <1>2
    <2>4. l + g < w + 1
      BY <1>7, <2>1, <2>2, <2>3, Scaled
    <2> QED
      BY <1>2, <2>4
  <1>10. w <= TimeLimit
    <2>1. (TimeLimit + 1) * Milli = TimeLimit * Milli + Milli
      BY <1>7
    <2>2. w * Milli < (TimeLimit + 1) * Milli
      BY <1>1, <1>5, <1>7, <1>8, <2>1
    <2>3. TimeLimit + 1 \in Int
      BY <1>7
    <2>4. w < TimeLimit + 1
      BY <1>2, <1>7, <2>2, <2>3, Scaled
    <2> QED
      BY <1>2, <1>7, <2>4
  <1>11. w > 0
    <2>1. n * Milli >= Milli
      <3>1. /\ (n - 1) * Milli >= 0 /\ (n - 1) * Milli \in Int
            /\ n * Milli = (n - 1) * Milli + Milli
        BY <1>1, <1>7
      <3> QED
        BY <1>7, <1>8, <3>1
    <2>2. w * Milli > 0
      BY <1>1, <1>5, <1>6, <1>7, <1>8, <2>1
    <2>3. 0 * Milli = 0
      BY <1>7
    <2> QED
      BY <1>2, <1>7, <2>2, <2>3, Scaled
  <1>12. f > 0
    <2>1. 2 * Fine * wall = 2 * (Fine * wall)
      BY <1>1, <1>7
    <2>2. f * a * Milli > 0
      BY <1>5, <1>6, <1>8, <2>1
    <2>3. f * a * Milli = f * (a * Milli) /\ a * Milli \in Nat /\ a * Milli > 0
      BY <1>2, <1>5, <1>7
    <2>4. 0 * (a * Milli) = 0
      BY <2>3
    <2> QED
      BY <1>2, <2>2, <2>3, <2>4, Scaled
  <1>13. f <= FactorLimit * Fine
    <2>1. a * Milli \in Nat /\ a * Milli > 0 /\ f * a * Milli = f * (a * Milli)
      BY <1>2, <1>5, <1>7
    <2>2. FactorLimit * a * Milli = FactorLimit * (a * Milli)
          /\ FactorLimit * (a * Milli) \in Int
      BY <1>2, <1>7
    <2>3. Fine * wall <= Fine * (FactorLimit * (a * Milli))
      <3>1. FactorLimit * (a * Milli) - wall \in Nat
        BY <1>1, <1>6, <2>2
      <3>2. Fine * (FactorLimit * (a * Milli) - wall) >= 0
        BY <1>7, <3>1
      <3>3. Fine * (FactorLimit * (a * Milli) - wall)
              = Fine * (FactorLimit * (a * Milli)) - Fine * wall
        BY <1>1, <1>7, <2>2
      <3>4. Fine * (FactorLimit * (a * Milli)) \in Int
        BY <1>7, <2>2
      <3> QED
        BY <1>8, <3>2, <3>3, <3>4
    <2>4. /\ Fine * (FactorLimit * (a * Milli)) = (FactorLimit * Fine) * (a * Milli)
          /\ (FactorLimit * Fine + 1) * (a * Milli)
               = (FactorLimit * Fine) * (a * Milli) + a * Milli
          /\ FactorLimit * Fine \in Int
          /\ (FactorLimit * Fine) * (a * Milli) \in Int
      BY <1>7, <2>1
    <2>5. f * (a * Milli) < (FactorLimit * Fine + 1) * (a * Milli)
      BY <1>5, <1>8, <2>1, <2>3, <2>4
    <2>6. f < FactorLimit * Fine + 1
      <3>1. FactorLimit * Fine + 1 \in Int
        BY <2>4
      <3> QED
        BY <1>2, <2>1, <2>5, <3>1, Scaled
    <2> QED
      BY <1>2, <2>4, <2>6
  <1>14. Distance(f * a, Fine * w) + 1 <= Tolerance * a
    <2>1. /\ f * a \in Int /\ Fine * w \in Int /\ Tolerance * a \in Int
          /\ Fine * (w * Milli) \in Int /\ Fine * Milli \in Int
          /\ (f * a) * Milli = f * a * Milli
          /\ (Fine * w) * Milli = Fine * (w * Milli)
      BY <1>2, <1>7
    <2>2. /\ 2 * (Fine * (w * Milli)) <= 2 * (Fine * wall) + Fine * Milli
          /\ 2 * (Fine * wall) <= 2 * (Fine * (w * Milli)) + Fine * Milli
      <3>1. /\ Fine * (2 * wall + Milli - 2 * (w * Milli)) >= 0
            /\ Fine * (2 * (w * Milli) + Milli - 2 * wall) >= 0
        <4>1. /\ 2 * wall + Milli - 2 * (w * Milli) \in Nat
              /\ 2 * (w * Milli) + Milli - 2 * wall \in Nat
          BY <1>1, <1>5, <1>7, <1>8
        <4> QED
          BY <1>7, <4>1
      <3>2. /\ Fine * (2 * wall + Milli - 2 * (w * Milli))
                 = 2 * (Fine * wall) + Fine * Milli - 2 * (Fine * (w * Milli))
            /\ Fine * (2 * (w * Milli) + Milli - 2 * wall)
                 = 2 * (Fine * (w * Milli)) + Fine * Milli - 2 * (Fine * wall)
        BY <1>1, <1>7, <1>8
      <3> QED
        BY <1>8, <2>1, <3>1, <3>2
    <2>3. /\ 2 * (f * a * Milli) <= 2 * (Fine * (w * Milli)) + Fine * Milli + a * Milli
          /\ 2 * (Fine * (w * Milli)) <= 2 * (f * a * Milli) + Fine * Milli + a * Milli
      BY <1>5, <1>8, <2>1, <2>2
    <2>4. /\ (2 * (f * a)) * Milli = 2 * (f * a * Milli)
          /\ (2 * (Fine * w) + Fine + a) * Milli
               = 2 * (Fine * (w * Milli)) + Fine * Milli + a * Milli
          /\ (2 * (Fine * w)) * Milli = 2 * (Fine * (w * Milli))
          /\ (2 * (f * a) + Fine + a) * Milli
               = 2 * (f * a * Milli) + Fine * Milli + a * Milli
      BY <1>2, <1>7, <2>1
    <2>5. /\ 2 * (f * a) \in Int /\ 2 * (Fine * w) + Fine + a \in Int
          /\ 2 * (Fine * w) \in Int /\ 2 * (f * a) + Fine + a \in Int
      BY <1>2, <1>7, <2>1
    <2>6. /\ 2 * (f * a) <= 2 * (Fine * w) + Fine + a
          /\ 2 * (Fine * w) <= 2 * (f * a) + Fine + a
      BY <1>7, <2>3, <2>4, <2>5, Scaled
    <2>7. a * (2 * Tolerance - 1) = 2 * (Tolerance * a) - a
      BY <1>2, <1>7
    <2>8. Fine + a < 2 * (Tolerance * a)
      BY <1>2, <1>6, <1>7, <2>1, <2>7
    <2> QED
      BY <1>2, <1>7, <2>1, <2>6, <2>8 DEF Distance
  <1>15. TotalsBounded
    <2>1. l <= TimeLimit /\ g <= TimeLimit /\ 0 <= w /\ 0 <= a /\ 0 <= f
      BY <1>2, <1>5, <1>7, <1>9, <1>10, <1>11, <1>12
    <2> QED
      BY <1>5, <1>10, <1>11, <1>12, <1>13, <2>1 DEF TotalsBounded, Bounded, l, g, w, a, f
  <1>16. TotalsAgree(1)
    <2>1. Distance(a, durations) + 1 <= n /\ Distance(g, generations) + 1 <= n
      BY <1>1, <1>2, <1>4 DEF Distance
    <2>2. l + g + 1 <= w + 1
      BY <1>2, <1>9
    <2> QED
      BY <1>14, <2>1, <2>2 DEF TotalsAgree, l, g, w, a, f
  <1> QED
    BY <1>15, <1>16

\* No check of the validation fails for what rounding does not explain.
LEMMA HonestStep ==
    ASSUME ReceiptInv, Truthful, HonestReceiptPasses, [ReceiptNext]_receiptVars
    PROVE  HonestReceiptPasses'
  <1>1. CASE RefuseItem
    <2>1. /\ phase = "item" /\ ~ItemAgrees(items[at], 1)
      BY <1>1 DEF RefuseItem, Advance
    <2>2. UNCHANGED <<n, made, load, took, wall, items, receipt, garbled>>
      BY <1>1 DEF RefuseItem, measured
    <2>3. garbled \/ Rounded
      BY <2>1, ItemPasses
    <2> QED
      BY <2>2, <2>3 DEF HonestReceiptPasses, Rounded
  <1>2. CASE Disbelieve
    <2>1. /\ phase = "totals" /\ ~(TotalsBounded /\ TotalsAgree(1))
      BY <1>2 DEF Disbelieve, Advance
    <2>2. UNCHANGED <<n, made, load, took, wall, items, receipt, garbled>>
      BY <1>2 DEF Disbelieve, measured
    <2>3. garbled \/ Rounded
      BY <2>1, TotalsPass
    <2> QED
      BY <2>2, <2>3 DEF HonestReceiptPasses, Rounded
  <1>3. ASSUME phase' # "invalid" PROVE HonestReceiptPasses'
    BY <1>3 DEF HonestReceiptPasses
  <1>4. CASE UNCHANGED receiptVars
    BY <1>4 DEF receiptVars, measured, HonestReceiptPasses, Rounded
  <1>5. \/ Load \/ RenderSegment \/ RenderStops \/ Report \/ ReportFails \/ Garble
        \/ Begin \/ TakeItem \/ Believe
        => phase' # "invalid"
    BY DEF Load, RenderSegment, RenderStops, Report, ReportFails, Garble, Begin, TakeItem,
           Believe, Advance
  <1> QED
    BY <1>1, <1>2, <1>3, <1>4, <1>5 DEF ReceiptNext, Ended

\* A receipt that was printed as measured is believed, for any number of items
\* and any tolerances: only what the named exceptions (Rounded) say is turned
\* down by rounding alone (lines 285-378).
THEOREM HonestReceiptsPass == ReceiptSpec => []HonestReceiptPasses
  <1>1. ReceiptInit => HonestReceiptPasses
    BY DEF ReceiptInit, HonestReceiptPasses
  <1>2. ASSUME ReceiptInv, Truthful, HonestReceiptPasses, [ReceiptNext]_receiptVars
        PROVE  Truthful' /\ HonestReceiptPasses'
    BY <1>2, TruthStep, HonestStep
  <1> QED
    BY ReceiptInvariance, TruthInit, <1>1, <1>2, PTL DEF ReceiptSpec
=============================================================================
