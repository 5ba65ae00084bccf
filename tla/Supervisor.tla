---------------------------- MODULE Supervisor ----------------------------
(***************************************************************************)
(* _run_render: a render in a process group of its own, its stdout and     *)
(* stderr read through non-blocking pipes until both end, within an        *)
(* output limit and a deadline, and whatever is left of it killed.         *)
(*                                                                         *)
(* The render (the leader of the group) may exit at any time, close its    *)
(* pipes early, write too much, and leave behind a descendant that keeps   *)
(* the pipes open, ignores SIGTERM or has left the group.  The supervisor  *)
(* can be interrupted.  Output is counted in blocks of one read; time      *)
(* passes in ticks.                                                        *)
(***************************************************************************)
EXTENDS Integers

CONSTANTS Limit,     \* blocks a stream may carry (MAX_RENDER_STREAM_BYTES)
          MaxSent,   \* bound: blocks written to a stream
          PipeSize,  \* blocks the kernel holds for a stream
          Deadline   \* ticks until the deadline

ASSUME SupervisorAssumption ==
    /\ Limit \in Nat /\ MaxSent \in Nat
    /\ PipeSize \in Nat \ {0} /\ Deadline \in Nat \ {0}

Stream == {"stdout", "stderr"}
Member == {"leader", "heir"}       \* the render and its descendant

VARIABLES
    pc,         \* where _run_render is
    life,       \* life[m]: "none", "running", "zombie" or "gone"
    doomed,     \* members a signal will end
    holds,      \* holds[s]: members with the write end of that pipe open
    traits,     \* of the heir: subset of {"stubborn", "detached"}
    code,       \* exit status of the leader: 0, or 1 for any other
    sent,       \* sent[s]: blocks written to s so far
    pipe,       \* pipe[s]: blocks of s the kernel holds
    streams,    \* streams still registered with the selector
    ready,      \* those select returned and the loop has not read yet
    buffers,    \* buffers[s]: blocks of s the supervisor holds
    failure,    \* why the render is being ended
    outcome,    \* what the caller gets
    now

render == <<life, doomed, holds, traits, code, sent>>
vars == <<pc, render, pipe, streams, ready, buffers, failure, outcome, now>>

Failure == {"none", "timed out", "output limit"}
Outcome == {"none", "not started", "receipt", "not a receipt", "render failed",
            "timed out", "output limit", "permission error", "interrupted"}

TypeOK ==
    /\ pc \in {"start", "loop", "read", "poll", "wait", "kill", "reap", "close", "done"}
    /\ life \in [Member -> {"none", "running", "zombie", "gone"}]
    /\ doomed \subseteq Member /\ holds \in [Stream -> SUBSET Member]
    /\ traits \subseteq {"stubborn", "detached"}
    /\ code \in 0..1
    /\ sent \in [Stream -> 0..MaxSent]
    /\ pipe \in [Stream -> 0..PipeSize]
    /\ streams \subseteq Stream /\ ready \subseteq streams
    /\ buffers \in [Stream -> 0..Limit + 1]
    /\ failure \in Failure /\ outcome \in Outcome
    /\ now \in 0..Deadline

Init ==
    /\ pc = "start"
    /\ life = [m \in Member |-> "none"]
    /\ doomed = {} /\ traits = {}
    /\ holds = [s \in Stream |-> {}]
    /\ code = 0
    /\ sent = [s \in Stream |-> 0]
    /\ pipe = [s \in Stream |-> 0]
    /\ streams = {} /\ ready = {}
    /\ buffers = [s \in Stream |-> 0]
    /\ failure = "none" /\ outcome = "none"
    /\ now = 0

Goto(from, to) == pc = from /\ pc' = to

\* Nobody can write to s any more.
Closed(s) == holds[s] = {}

\* Members a signal to the group reaches, and those it can still change.
Group == {m \in Member : life[m] \in {"running", "zombie"}
                         /\ ~(m = "heir" /\ "detached" \in traits)}
Signalled == {m \in Group : life[m] = "running"}

-----------------------------------------------------------------------------
\* The supervisor

Spawn ==
    /\ Goto("start", "loop")
    /\ life' = [life EXCEPT !["leader"] = "running"]
    /\ holds' = [s \in Stream |-> {"leader"}]
    /\ streams' = Stream
    /\ UNCHANGED <<doomed, traits, code, sent, pipe, ready, buffers>>
    /\ UNCHANGED <<failure, outcome, now>>

\* The command cannot be started, or the run's time was used up before.
SpawnFails ==
    /\ Goto("start", "done")
    /\ outcome' = "not started"
    /\ UNCHANGED <<render, pipe, streams, ready, buffers, failure, now>>

\* Mutant of EndOfStreams: leaves as soon as the render has exited.
EndOfRender ==
    /\ Goto("loop", "wait")
    /\ streams = {} \/ life["leader"] # "running"
    /\ UNCHANGED <<render, pipe, streams, ready, buffers, failure, outcome, now>>

\* The top of the loop: leave at the end of both streams or at the deadline,
\* else take what select reports; it may report nothing after 50 ms.
EndOfStreams ==
    /\ Goto("loop", "wait")
    /\ streams = {}
    /\ UNCHANGED <<render, pipe, streams, ready, buffers, failure, outcome, now>>

DeadlineInLoop ==
    /\ Goto("loop", "kill")
    /\ streams # {} /\ now = Deadline
    /\ failure' = "timed out"
    /\ UNCHANGED <<render, pipe, streams, ready, buffers, outcome, now>>

Select ==
    /\ Goto("loop", "read")
    /\ streams # {} /\ now < Deadline
    /\ ready' = {s \in streams : pipe[s] > 0 \/ Closed(s)}
    /\ UNCHANGED <<render, pipe, streams, buffers, failure, outcome, now>>

\* Mutant of Read: takes whatever comes.
ReadUnlimited(s) ==
    /\ pc = "read"
    /\ s \in ready
    /\ pipe[s] > 0
    /\ pipe' = [pipe EXCEPT ![s] = @ - 1]
    /\ buffers' = [buffers EXCEPT ![s] = @ + 1]
    /\ ready' = ready \ {s}
    /\ UNCHANGED <<pc, render, streams, failure, outcome, now>>

\* One read per ready stream; an empty one ends the stream.
Read(s) ==
    /\ pc = "read"
    /\ s \in ready
    /\ pipe[s] > 0
    /\ pipe' = [pipe EXCEPT ![s] = @ - 1]
    /\ buffers' = [buffers EXCEPT ![s] = @ + 1]
    /\ IF buffers[s] + 1 > Limit
       THEN pc' = "kill" /\ failure' = "output limit" /\ ready' = {}
       ELSE ready' = ready \ {s} /\ UNCHANGED <<pc, failure>>
    /\ UNCHANGED <<render, streams, outcome, now>>

\* Mutant of ReadEnd: goes on to read a stream it has unregistered.
ReadEndAgain(s) ==
    /\ pc = "read"
    /\ s \in ready
    /\ pipe[s] = 0
    /\ streams' = streams \ {s}
    /\ UNCHANGED <<pc, render, pipe, ready, buffers, failure, outcome, now>>

ReadEnd(s) ==
    /\ pc = "read"
    /\ s \in ready
    /\ pipe[s] = 0
    /\ ready' = ready \ {s}
    /\ streams' = streams \ {s}
    /\ UNCHANGED <<pc, render, pipe, buffers, failure, outcome, now>>

\* Every ready stream is read: has the render exited with a pipe still open?
ReadAll ==
    /\ Goto("read", "poll")
    /\ ready = {}
    /\ UNCHANGED <<render, pipe, streams, ready, buffers, failure, outcome, now>>

\* Mutant of PollAlive: signals the group without asking whether the render
\* has exited.
TermAlive ==
    /\ Goto("poll", "loop")
    /\ life["leader"] = "running"
    /\ doomed' = doomed \cup Signalled
    /\ UNCHANGED <<life, holds, traits, code, sent, pipe, streams, ready, buffers>>
    /\ UNCHANGED <<failure, outcome, now>>

\* process.poll() finds the leader alive.
PollAlive ==
    /\ Goto("poll", "loop")
    /\ life["leader"] = "running"
    /\ UNCHANGED <<render, pipe, streams, ready, buffers, failure, outcome, now>>

\* It has exited, and is reaped by the poll; if a stream is still registered,
\* SIGTERM asks the rest of its group to end.
Reaped == [life EXCEPT !["leader"] = "gone"]
Left == Signalled \ {"leader"}

PollExited ==
    /\ Goto("poll", "loop")
    /\ life["leader"] # "running"
    /\ life' = Reaped
    /\ doomed' = IF streams # {} /\ "stubborn" \notin traits
                 THEN doomed \cup Left ELSE doomed
    /\ UNCHANGED <<holds, traits, code, sent, pipe, streams, ready, buffers>>
    /\ UNCHANGED <<failure, outcome, now>>

\* On macOS a signal to a group of nothing but zombies may be refused with a
\* PermissionError, which this killpg does not expect.
PollRefused ==
    /\ Goto("poll", "close")
    /\ life["leader"] # "running" /\ streams # {}
    /\ Group \ {"leader"} # {} /\ Left = {}
    /\ life' = Reaped
    /\ outcome' = "permission error"
    /\ UNCHANGED <<doomed, holds, traits, code, sent, pipe, streams, ready, buffers>>
    /\ UNCHANGED <<failure, now>>

\* process.wait(timeout=max(0, ...)) looks once even after the deadline.
WaitExited ==
    /\ Goto("wait", "close")
    /\ life["leader"] # "running"
    /\ life' = Reaped
    /\ UNCHANGED <<doomed, holds, traits, code, sent, pipe, streams, ready, buffers>>
    /\ UNCHANGED <<failure, outcome, now>>

\* Mutant of WaitTimeout: waits for the render without a timeout.
WaitForever == FALSE

WaitTimeout ==
    /\ Goto("wait", "kill")
    /\ life["leader"] = "running" /\ now = Deadline
    /\ failure' = "timed out"
    /\ UNCHANGED <<render, pipe, streams, ready, buffers, outcome, now>>

\* Mutant of Kill: process.kill() where the group is meant.
KillLeader ==
    /\ Goto("kill", "reap")
    /\ doomed' = doomed \cup (Signalled \cap {"leader"})
    /\ UNCHANGED <<life, holds, traits, code, sent, pipe, streams, ready>>
    /\ UNCHANGED <<buffers, failure, outcome, now>>

\* SIGKILL to the group; where it is refused, to the leader alone, which is
\* then either a zombie or reaped already.
Kill ==
    /\ Goto("kill", "reap")
    /\ doomed' = doomed \cup Signalled
    /\ UNCHANGED <<life, holds, traits, code, sent, pipe, streams, ready>>
    /\ UNCHANGED <<buffers, failure, outcome, now>>

\* wait(timeout=1), again kill() and wait() until the leader is reaped.
Reap ==
    /\ Goto("reap", "close")
    /\ life["leader"] # "running"
    /\ life' = Reaped
    /\ UNCHANGED <<doomed, holds, traits, code, sent, pipe, streams, ready, buffers>>
    /\ UNCHANGED <<failure, outcome, now>>

\* What the caller gets once the pipes are closed: an error that was already
\* on its way, the failure, the exit status, or the parsed standard output.
Verdicts ==
    IF outcome # "none" THEN {outcome}
    ELSE IF failure # "none" THEN {failure}
    ELSE IF code # 0 THEN {"render failed"}
    ELSE {"receipt", "not a receipt"}

Close ==
    /\ Goto("close", "done")
    /\ outcome' \in Verdicts
    /\ UNCHANGED <<render, pipe, streams, ready, buffers, failure, now>>

Supervise ==
    \/ Spawn \/ SpawnFails
    \/ EndOfStreams \/ DeadlineInLoop \/ Select
    \/ \E s \in Stream : Read(s) \/ ReadEnd(s)
    \/ ReadAll \/ PollAlive \/ PollExited \/ PollRefused
    \/ WaitExited \/ WaitTimeout \/ Kill \/ Reap \/ Close

\* KeyboardInterrupt inside the try: the finally clause closes the pipes, and
\* no clause signals the group, which the terminal did not interrupt either.
Interrupt ==
    /\ pc \in {"loop", "read", "poll", "wait", "kill", "reap"}
    /\ pc' = "close"
    /\ outcome' = "interrupted"
    /\ UNCHANGED <<render, pipe, streams, ready, buffers, failure, now>>

-----------------------------------------------------------------------------
\* The render

\* A process a signal is ending runs no more of its program.
Runs(m) == life[m] = "running" /\ m \notin doomed

Write(m, s) ==
    /\ Runs(m) /\ m \in holds[s] /\ pc # "done"
    /\ pipe[s] < PipeSize /\ sent[s] < MaxSent
    /\ pipe' = [pipe EXCEPT ![s] = @ + 1]
    /\ sent' = [sent EXCEPT ![s] = @ + 1]
    /\ UNCHANGED <<pc, life, doomed, holds, traits, code, streams, ready, buffers>>
    /\ UNCHANGED <<failure, outcome, now>>

CloseOutput(m, s) ==
    /\ Runs(m) /\ m \in holds[s]
    /\ holds' = [holds EXCEPT ![s] = @ \ {m}]
    /\ UNCHANGED <<pc, life, doomed, traits, code, sent, pipe, streams, ready>>
    /\ UNCHANGED <<buffers, failure, outcome, now>>

Fork(t) ==
    /\ Runs("leader") /\ life["heir"] = "none"
    /\ life' = [life EXCEPT !["heir"] = "running"]
    /\ traits' = t
    /\ holds' = [s \in Stream |-> holds[s] \cup IF "leader" \in holds[s] THEN {"heir"} ELSE {}]
    /\ UNCHANGED <<pc, doomed, code, sent, pipe, streams, ready, buffers>>
    /\ UNCHANGED <<failure, outcome, now>>

\* A member exits on its own, with any status, or by the signal it was sent.
Exit(m, c) ==
    /\ life[m] = "running"
    /\ life' = [life EXCEPT ![m] = "zombie"]
    /\ holds' = [s \in Stream |-> holds[s] \ {m}]
    /\ doomed' = doomed \ {m}
    /\ m \in doomed => c = 1
    /\ code' = IF m = "leader" THEN c ELSE code
    /\ UNCHANGED <<pc, traits, sent, pipe, streams, ready, buffers>>
    /\ UNCHANGED <<failure, outcome, now>>

\* The system reaps an orphan.
ReapHeir ==
    /\ life["heir"] = "zombie" /\ life["leader"] = "gone"
    /\ life' = [life EXCEPT !["heir"] = "gone"]
    /\ UNCHANGED <<pc, doomed, holds, traits, code, sent, pipe, streams, ready>>
    /\ UNCHANGED <<buffers, failure, outcome, now>>

Die(m) == m \in doomed /\ Exit(m, 1)

Render ==
    \/ \E m \in Member :
          \/ \E s \in Stream : Write(m, s) \/ CloseOutput(m, s)
          \/ \E c \in 0..1 : Exit(m, c)
    \/ \E t \in SUBSET {"stubborn", "detached"} : Fork(t)
    \/ ReapHeir

Tick ==
    /\ now < Deadline /\ pc # "done"
    /\ now' = now + 1
    /\ UNCHANGED <<pc, render, pipe, streams, ready, buffers, failure, outcome>>

\* The call has returned and nothing of the render is left to move.
Returned ==
    /\ pc = "done" /\ \A m \in Member : life[m] # "running"
    /\ UNCHANGED vars

Next == Supervise \/ Interrupt \/ Render \/ Tick \/ Returned

\* The supervisor is scheduled, time passes, and a signal that ends a process
\* ends it; the render owes nothing.
Spec ==
    /\ Init /\ [][Next]_vars
    /\ WF_vars(Supervise) /\ WF_vars(Tick)
    /\ \A m \in Member : WF_vars(Die(m))

-----------------------------------------------------------------------------
\* Properties

Finished == pc = "done" /\ outcome \notin {"not started", "interrupted"}

\* A receipt is only taken from a render that exited with status 0, and it is
\* all of what was written: nothing is left in a pipe and nobody can add to
\* it.  Reading goes on after the exit, and after the SIGTERM, until both
\* streams end (_run_render, lines 119-143).
ReceiptComplete ==
    outcome \in {"receipt", "not a receipt"} =>
        /\ code = 0 /\ life["leader"] = "gone"
        /\ \A s \in Stream : Closed(s) /\ buffers[s] = sent[s]

\* Every call that returns on its own has reaped the render, and one that
\* fails the render leaves nothing of its group to run on.  Nor does one that a
\* PermissionError of killpg ends, which line 141 does not expect as line 153
\* does: there is nothing left to signal then.
NoSurvivor ==
    Finished =>
        /\ life["leader"] = "gone"
        /\ failure # "none" \/ outcome = "permission error" => Signalled \subseteq doomed

\* The verdict names what happened: no timeout before the deadline, no
\* output limit without the output, and no failed render but by its own
\* exit status, never by the supervisor's SIGTERM.
VerdictJust ==
    /\ failure = "timed out" => now = Deadline
    /\ failure = "output limit" => \E s \in Stream : sent[s] > Limit
    /\ failure = "none" => "leader" \notin doomed

\* The call returns, whatever the render does: hang, flood, close its pipes,
\* ignore SIGTERM, or leave its pipes to a descendant.
AlwaysReturns == <>(pc = "done")
=============================================================================
