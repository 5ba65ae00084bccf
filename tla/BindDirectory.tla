--------------------------- MODULE BindDirectory ---------------------------
(***************************************************************************)
(* open_or_create_bound_directory and open_relative_directory: walk a path *)
(* of directories part by part, make what is missing, and end with a       *)
(* descriptor of the last one.  Every output, report, snapshot, temporary  *)
(* root and download target is written into a directory bound like this.   *)
(*                                                                         *)
(* Several processes bind one path at the same time, and another program   *)
(* exchanges, removes and opens up directories between any two of their    *)
(* calls.  Each directory has one entry of interest, the next part of the  *)
(* path.                                                                   *)
(***************************************************************************)
EXTENDS Naturals

CONSTANTS Proc,       \* the processes
          Last,       \* nodes of the file system are 0..Last; 0 is the anchor
          Depth,      \* parts of the path
          Worlds,     \* file systems to start from
          MaxFaults,  \* bound: calls that fail
          MaxMeddles  \* bound: acts of the other program

Node == 0..Last
Nil == Last + 1

\* "free": not in use.  A directory is "private" with mode 0700, "public" when
\* others can read but not replace what is in it, and "shared" when they can.
Protected == {"private", "public"}
Directory == Protected \cup {"shared"}
Kinds == {"free", "link", "file"} \cup Directory

\* Entries lead to higher numbers, so that directories form a tree, and to
\* something.
ASSUME BindAssumption ==
    /\ Last \in Nat /\ Depth \in Nat
    /\ MaxFaults \in Nat /\ MaxMeddles \in Nat
    /\ Worlds \subseteq [kind : [Node -> Kinds], child : [Node -> 1..Nil]]
    /\ \A w \in Worlds : /\ w.kind[0] \in Directory
                         /\ \A d \in Node : /\ w.child[d] > d
                                            /\ w.child[d] # Nil => w.kind[w.child[d]] # "free"

VARIABLES
    kind,      \* of each node
    child,     \* child[d]: the node under the next part of the path in d, or Nil
    pc,        \* the next call of each process
    level,     \* parts it has bound
    here,      \* current_fd
    made,      \* what the first stat after its own mkdir saw, or Nil
    expected,  \* what the second stat saw
    opened,    \* next_fd
    fds,       \* the descriptors it has open
    trail,     \* ghost: the anchor and the directories it has bound
    lost,      \* ghost: processes whose call failed right after an open
    altered,   \* ghost: nodes whose mode another program has changed
    faults, meddles

world == <<kind, child, altered>>
vars == <<world, pc, level, here, made, expected, opened, fds, trail, lost, faults, meddles>>

Phase == {"start", "protect", "mkdir", "statmade", "expect", "open", "restat",
          "final", "ok", "failed"}

\* anchor_fd, current_fd and next_fd.
Descriptor == {"anchor", "current", "next"}

TypeOK ==
    /\ kind \in [Node -> Kinds] /\ kind[0] \in Directory
    /\ child \in [Node -> 1..Nil] /\ \A d \in Node : child[d] > d
    /\ pc \in [Proc -> Phase]
    /\ level \in [Proc -> 0..Depth]
    /\ here \in [Proc -> Node]
    /\ made \in [Proc -> Node \cup {Nil}]
    /\ expected \in [Proc -> Node] /\ opened \in [Proc -> Node]
    /\ fds \in [Proc -> SUBSET Descriptor]
    /\ trail \in [Proc -> SUBSET Node]
    /\ altered \subseteq Node /\ lost \subseteq Proc
    /\ faults \in 0..MaxFaults /\ meddles \in 0..MaxMeddles

Init ==
    /\ \E w \in Worlds : kind = w.kind /\ child = w.child
    /\ pc = [p \in Proc |-> "start"]
    /\ level = [p \in Proc |-> 0]
    /\ here = [p \in Proc |-> 0]
    /\ made = [p \in Proc |-> Nil]
    /\ expected = [p \in Proc |-> 0]
    /\ opened = [p \in Proc |-> 0]
    /\ fds = [p \in Proc |-> {}]
    /\ trail = [p \in Proc |-> {}]
    /\ altered = {} /\ lost = {} /\ faults = 0 /\ meddles = 0

Goto(p, from, to) ==
    /\ pc[p] = from
    /\ pc' = [pc EXCEPT ![p] = to]

Entry(p) == child[here[p]]

\* An error closes the descriptor of the directory at hand, the anchor's, and
\* what else the code closes on its way; any other stays open.
Fail(p, closed) ==
    /\ pc' = [pc EXCEPT ![p] = "failed"]
    /\ fds' = [fds EXCEPT ![p] = @ \ (closed \cup {"anchor", "current"})]
    /\ UNCHANGED <<world, level, here, made, expected, opened, trail>>

-----------------------------------------------------------------------------
\* One process

\* The anchor is opened, and duplicated for the walk.
Anchor(p) ==
    /\ Goto(p, "start", IF Depth = 0 THEN "final" ELSE "protect")
    /\ fds' = [fds EXCEPT ![p] = {"anchor", "current"}]
    /\ trail' = [trail EXCEPT ![p] = {0}]
    /\ UNCHANGED <<world, level, here, made, expected, opened>>

\* Mutant of Check: what the directory is like is not asked.
Unchecked(p) ==
    /\ Goto(p, "protect", "mkdir")
    /\ UNCHANGED <<world, level, here, made, expected, opened, fds, trail>>

\* _require_protected_directory, before a part is looked up.
Check(p) ==
    /\ Goto(p, "protect", "mkdir")
    /\ kind[here[p]] \in Protected
    /\ UNCHANGED <<world, level, here, made, expected, opened, fds, trail>>

Unprotected(p) ==
    /\ pc[p] = "protect" /\ kind[here[p]] \notin Protected
    /\ Fail(p, {})

\* os.mkdir makes what is not there, where the file system has room ...
Room(p) == {n \in Node : kind[n] = "free" /\ n > here[p]}

Mkdir(p) ==
    /\ Goto(p, "mkdir", "statmade")
    /\ Entry(p) = Nil
    /\ \E n \in Room(p) :
          /\ \A m \in Room(p) : n <= m
          /\ kind' = [kind EXCEPT ![n] = "private"]
          /\ child' = [child EXCEPT ![here[p]] = n]
    /\ UNCHANGED <<altered, level, here, made, expected, opened, fds, trail>>

NoRoom(p) ==
    /\ pc[p] = "mkdir" /\ Entry(p) = Nil /\ Room(p) = {}
    /\ Fail(p, {})

\* Mutant of Exists: a directory that has appeared meanwhile is an error.
ExistsRefused(p) ==
    /\ pc[p] = "mkdir" /\ Entry(p) # Nil
    /\ Fail(p, {})

\* ... and what is there, by whomever it was made, is looked at.
Exists(p) ==
    /\ Goto(p, "mkdir", "expect")
    /\ Entry(p) # Nil
    /\ UNCHANGED <<world, level, here, made, expected, opened, fds, trail>>

\* What was just made has to be private.
Private(p) == Entry(p) # Nil /\ kind[Entry(p)] = "private"

StatMade(p) ==
    /\ Goto(p, "statmade", "expect")
    /\ Private(p)
    /\ made' = [made EXCEPT ![p] = Entry(p)]
    /\ UNCHANGED <<world, level, here, expected, opened, fds, trail>>

StatMadeFails(p) ==
    /\ pc[p] = "statmade" /\ ~Private(p)
    /\ Fail(p, {})

Expect(p) ==
    /\ Goto(p, "expect", "open")
    /\ Entry(p) # Nil
    /\ expected' = [expected EXCEPT ![p] = Entry(p)]
    /\ UNCHANGED <<world, level, here, made, opened, fds, trail>>

\* O_DIRECTORY and O_NOFOLLOW: only a directory is opened.
Opens(p) == Entry(p) # Nil /\ kind[Entry(p)] \in Directory

Open(p) ==
    /\ Goto(p, "open", "restat")
    /\ Opens(p)
    /\ opened' = [opened EXCEPT ![p] = Entry(p)]
    /\ fds' = [fds EXCEPT ![p] = @ \cup {"next"}]
    /\ UNCHANGED <<world, level, here, made, expected, trail>>

\* The name is gone when it is looked up, or is no directory's.
LookupFails(p) ==
    /\ \/ pc[p] = "expect" /\ Entry(p) = Nil
       \/ pc[p] = "open" /\ ~Opens(p)
    /\ Fail(p, {})

\* The last stat: all that were seen are one directory.
Same(p) ==
    /\ Entry(p) = opened[p] /\ expected[p] = opened[p]
    /\ made[p] \in {Nil, opened[p]}

\* The descriptor of the directory the part is in is closed, and that of the
\* part takes its place.
Enter(p) ==
    /\ Goto(p, "restat", IF level[p] + 1 = Depth THEN "final" ELSE "protect")
    /\ Same(p)
    /\ level' = [level EXCEPT ![p] = @ + 1]
    /\ here' = [here EXCEPT ![p] = opened[p]]
    /\ made' = [made EXCEPT ![p] = Nil]
    /\ trail' = [trail EXCEPT ![p] = @ \cup {opened[p]}]
    /\ fds' = [fds EXCEPT ![p] = @ \ {"next"}]
    /\ UNCHANGED <<world, expected, opened>>

\* Mutant of Replaced: the descriptor just opened is not closed.
ReplacedLeft(p) ==
    /\ pc[p] = "restat" /\ Entry(p) # Nil /\ ~Same(p)
    /\ Fail(p, {})

Replaced(p) ==
    /\ pc[p] = "restat" /\ Entry(p) # Nil /\ ~Same(p)
    /\ Fail(p, {"next"})

\* The stat itself fails: nothing closes the descriptor just opened.
Vanished(p) ==
    /\ pc[p] = "restat" /\ Entry(p) = Nil
    /\ Fail(p, {})
    /\ lost' = lost \cup {p}

\* The last directory is checked as the others were, and the anchor closed.
Final(p) ==
    /\ Goto(p, "final", "ok")
    /\ kind[here[p]] \in Protected
    /\ fds' = [fds EXCEPT ![p] = @ \ {"anchor"}]
    /\ UNCHANGED <<world, level, here, made, expected, opened, trail>>

FinalRefused(p) ==
    /\ pc[p] = "final" /\ kind[here[p]] \notin Protected
    /\ Fail(p, {})

Step(p) ==
    /\ \/ /\ \/ Anchor(p) \/ Check(p) \/ Unprotected(p) \/ Mkdir(p) \/ NoRoom(p)
             \/ Exists(p) \/ StatMade(p) \/ StatMadeFails(p) \/ Expect(p) \/ Open(p)
             \/ LookupFails(p) \/ Enter(p) \/ Replaced(p) \/ Final(p) \/ FinalRefused(p)
          /\ UNCHANGED lost
       \/ Vanished(p)
    /\ UNCHANGED <<faults, meddles>>

\* A call fails; at "restat" it is the fstat or the stat after the open, and
\* nothing closes the descriptor just opened.
Fault(p) ==
    /\ pc[p] \notin {"ok", "failed"}
    /\ faults < MaxFaults /\ faults' = faults + 1
    /\ Fail(p, {})
    /\ lost' = IF pc[p] = "restat" THEN lost \cup {p} ELSE lost
    /\ UNCHANGED meddles

-----------------------------------------------------------------------------
\* The other program

Meddle ==
    /\ \E p \in Proc : pc[p] \notin {"ok", "failed"}
    /\ meddles < MaxMeddles /\ meddles' = meddles + 1
    /\ UNCHANGED <<pc, level, here, made, expected, opened, fds, trail, lost, faults>>

\* Renames, removes, or puts something under a name.
Relink(d, n) ==
    /\ Meddle
    /\ kind[d] \in Directory /\ n > d /\ n # child[d]
    /\ n # Nil => kind[n] # "free"
    /\ child' = [child EXCEPT ![d] = n]
    /\ UNCHANGED <<kind, altered>>

\* Changes the mode of a directory.
Chmod(d, k) ==
    /\ Meddle
    /\ kind[d] \in Directory \ {k}
    /\ kind' = [kind EXCEPT ![d] = k]
    /\ altered' = altered \cup {d}
    /\ UNCHANGED child

Ended == (\A p \in Proc : pc[p] \in {"ok", "failed"}) /\ UNCHANGED vars

Next ==
    \/ \E p \in Proc : Step(p) \/ Fault(p)
    \/ \E d \in Node, n \in 1..Nil : Relink(d, n)
    \/ \E d \in Node, k \in Directory : Chmod(d, k)
    \/ Ended

Spec == Init /\ [][Next]_vars /\ \A p \in Proc : WF_vars(Step(p))

-----------------------------------------------------------------------------
\* Properties

\* Something that is no protected directory stands in the way.
Blocked == \E n \in Node : /\ n = 0 \/ \E d \in Node : child[d] = n
                           /\ kind[n] \notin Protected

\* Whoever is given a directory was led to it through protected ones only,
\* and it is protected itself: whatever is put into the path between two calls,
\* only a change of mode can make that untrue (lines 78-90, 174, 200).
ProtectedAllAlong ==
    \A p \in Proc : pc[p] = "ok" =>
        \A n \in trail[p] \cup {here[p]} : kind[n] \in Protected \/ n \in altered

\* A call that succeeds leaves exactly the descriptor it returns, and one that
\* fails leaves none: not when the directory just opened turns out to be
\* another, either (line 226). Only where a process's own fstat or stat right
\* after its open fails does that descriptor stay open (lines 215-217, 229-230).
NoDescriptorLeft ==
    \A p \in Proc :
        /\ pc[p] = "ok" => fds[p] = {"current"}
        /\ pc[p] = "failed" => fds[p] \subseteq (IF p \in lost THEN {"next"} ELSE {})

\* Processes that make one path at the same time all get the same directory:
\* none fails because another was faster (open_relative_directory, lines
\* 202-206), unless a call fails, another program acts, or the path is
\* blocked; and every one ends.
RivalsShare ==
    /\ \A p \in Proc : <>(pc[p] \in {"ok", "failed"})
    /\ <>(\/ faults > 0 \/ meddles > 0 \/ Blocked
          \/ \E d \in Node : \A p \in Proc : pc[p] = "ok" /\ here[p] = d)
=============================================================================
