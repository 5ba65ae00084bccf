----------------------------- MODULE StableRead -----------------------------
(***************************************************************************)
(* read_regular_file_bounded: walks a path directory by directory, opens   *)
(* the file at its end, reads at most one byte more than its caller takes, *)
(* and compares the file's state before and after.  Manifest, receipt,     *)
(* captions and model lock are all read through it.                        *)
(*                                                                         *)
(* Another program acts between any two calls: it exchanges, removes and   *)
(* creates directories and files of the path, writes a file in place, lets *)
(* it grow or truncates it.  Each directory has one entry of interest, the *)
(* next part of the path.  The number of a node is its inode number, which *)
(* the system may give away again.  Content is counted in blocks.          *)
(***************************************************************************)
EXTENDS Naturals, Sequences

CONSTANTS Last,      \* nodes of the file system are 0..Last; 0 is the anchor
          Depth,     \* directories between the anchor and the file
          Value,     \* what a block may hold
          MaxBytes,  \* maximum_bytes, in blocks
          MaxSize,   \* bound: size of a file
          Worlds,    \* file systems to start from
          MaxEdits,  \* bound: acts of the other program
          MaxClock   \* bound: the clock that time stamps are taken from

Node == 0..Last
Nil == Last + 1
Kinds == {"dir", "file", "link", "device"}
Content == UNION {[1..n -> Value] : n \in 0..MaxSize}

\* Entries lead to higher numbers, so that directories form a tree.
ASSUME StableReadAssumption ==
    /\ Last \in Nat /\ Depth \in Nat
    /\ MaxBytes \in Nat /\ MaxSize \in Nat /\ MaxEdits \in Nat
    /\ MaxClock \in Nat \ {0}
    /\ Worlds \subseteq [kind : [Node -> Kinds], child : [Node -> 1..Nil],
                         data : [Node -> Content]]
    /\ \A w \in Worlds : w.kind[0] = "dir" /\ \A d \in Node : w.child[d] > d

VARIABLES
    kind,      \* of each node
    child,     \* child[d]: the node under the next part of the path in d, or Nil
    data,      \* content of each node
    stamp,     \* time of the last change of each node (st_mtime_ns, st_ctime_ns)
    clock,
    edits,     \* acts of the other program so far
    pc,        \* the next call
    level,     \* parts of the path walked so far
    here,      \* directory_fd
    expected,  \* the node the first stat saw
    opened,    \* the node that was opened
    before,    \* size and stamp of the file when it was opened
    got,       \* chunks
    answer,
    possible,  \* ghost: what stood under the path so far
    recent     \* ghost: the file was last changed in the tick it was opened in

world == <<kind, child, data, stamp, clock, edits>>
walk == <<level, here, expected, opened>>
vars == <<world, pc, walk, before, got, answer, possible, recent>>

Answers == {"pending", "file", "absent", "irregular", "too large", "changed"}

TypeOK ==
    /\ kind \in [Node -> Kinds] /\ kind[0] = "dir"
    /\ child \in [Node -> 1..Nil] /\ \A d \in Node : child[d] > d
    /\ data \in [Node -> Content]
    /\ stamp \in [Node -> 0..clock] /\ clock \in 1..MaxClock
    /\ edits \in 0..MaxEdits
    /\ pc \in {"stat", "open", "restat", "read", "fstat", "done"}
    /\ level \in 0..Depth /\ here \in Node
    /\ expected \in Node /\ opened \in Node
    /\ before \in [size : 0..MaxSize, stamp : 0..clock]
    /\ got \in Seq(Value) /\ Len(got) <= MaxBytes + 1
    /\ answer \in [is : Answers, bytes : Seq(Value)] /\ Len(answer.bytes) <= MaxBytes
    /\ recent \in BOOLEAN

\* d leads through directories, from l parts of the path to m parts, to e.
Leads(l, d, m, e) ==
    \E chain \in [l..m -> Node] :
        /\ chain[l] = d /\ chain[m] = e
        /\ \A i \in l..m-1 : child[chain[i]] = chain[i+1] /\ kind[chain[i+1]] = "dir"

\* What kind of node the part after l others has to be.
Wanted(l) == IF l < Depth THEN "dir" ELSE "file"

\* A walk ends in e after m parts: at the file, or at what is in its way.
Found(m, e) ==
    IF child[e] = Nil THEN [is |-> "absent", bytes |-> <<>>]
    ELSE IF kind[child[e]] # Wanted(m) THEN [is |-> "irregular", bytes |-> <<>>]
    ELSE [is |-> "file", bytes |-> data[child[e]]]

Ends(m, e) == m = Depth \/ child[e] = Nil \/ kind[child[e]] # "dir"

\* What the rest of the path leads to, from the directory the reader is in.
Visible ==
    {Found(x[1], x[2]) : x \in {y \in (level..Depth) \X Node :
                                  Ends(y[1], y[2]) /\ Leads(level, here, y[1], y[2])}}

AR == INSTANCE AtomicRead WITH visible <- Visible, calm <- edits = 0

Init ==
    /\ \E w \in Worlds : kind = w.kind /\ child = w.child /\ data = w.data
    /\ stamp = [n \in Node |-> 0] /\ clock = 1 /\ edits = 0
    /\ pc = "stat" /\ level = 0 /\ here = 0
    /\ expected = 0 /\ opened = 0
    /\ before = [size |-> 0, stamp |-> 0]
    /\ got = <<>> /\ answer = AR!Pending
    /\ possible = Visible /\ recent = FALSE

-----------------------------------------------------------------------------
\* The reader

Goto(from, to) == pc = from /\ pc' = to

Finish(a) ==
    /\ pc' = "done" /\ answer' = a
    /\ UNCHANGED <<world, walk, before, got, possible, recent>>

Entry == child[here]

\* Mutant of State: the size alone tells whether a file changed.
SizeOnly(n) == [size |-> Len(data[n]), stamp |-> 0]

State(n) == [size |-> Len(data[n]), stamp |-> stamp[n]]

\* os.stat(part): a part that is missing, and one that is not a directory or,
\* at the end, not a regular file.
StatMissing ==
    /\ pc = "stat" /\ Entry = Nil
    /\ Finish(AR!Absent)

StatRefused ==
    /\ pc = "stat" /\ Entry # Nil /\ kind[Entry] # Wanted(level)
    /\ Finish(AR!Irregular)

Stat ==
    /\ Goto("stat", "open")
    /\ Entry # Nil /\ kind[Entry] = Wanted(level)
    /\ expected' = Entry
    /\ UNCHANGED <<world, level, here, opened, before, got, answer, possible, recent>>

\* os.open(part) follows no link, and with O_DIRECTORY opens directories only;
\* O_NONBLOCK lets it open anything else.
Opens(n) ==
    /\ n # Nil /\ kind[n] # "link"
    /\ level < Depth => kind[n] = "dir"

OpenFails ==
    /\ pc = "open" /\ ~Opens(Entry)
    /\ Finish(AR!Changed)

\* os.open and os.fstat of what it opened.
Open ==
    /\ Goto("open", "restat")
    /\ Opens(Entry)
    /\ opened' = Entry
    /\ before' = State(Entry)
    /\ recent' = (level = Depth /\ stamp[Entry] = clock)
    /\ UNCHANGED <<world, level, here, expected, got, answer, possible>>

\* The second os.stat(part), and the comparison of all three.
Same == Entry = opened /\ expected = opened /\ kind[opened] = Wanted(level)

RestatDiffers ==
    /\ pc = "restat" /\ ~Same
    /\ Finish(AR!Changed)

Enter ==
    /\ Goto("restat", "stat")
    /\ Same /\ level < Depth
    /\ level' = level + 1 /\ here' = opened
    /\ UNCHANGED <<world, expected, opened, before, got, answer, possible, recent>>

Bind ==
    /\ Goto("restat", "read")
    /\ Same /\ level = Depth
    /\ UNCHANGED <<world, walk, before, got, answer, possible, recent>>

Wants(n) == Len(got) < n /\ Len(got) < Len(data[opened])

\* os.read, until the file ends or one block more than the caller takes is
\* there.
Read ==
    /\ pc = "read" /\ Wants(MaxBytes + 1)
    /\ got' = Append(got, data[opened][Len(got) + 1])
    /\ UNCHANGED <<world, pc, walk, before, answer, possible, recent>>

ReadEnds ==
    /\ Goto("read", "fstat")
    /\ ~Wants(MaxBytes + 1)
    /\ UNCHANGED <<world, walk, before, got, answer, possible, recent>>

\* The last os.fstat.
FstatDiffers ==
    /\ pc = "fstat" /\ State(opened) # before
    /\ Finish(AR!Changed)

\* The bytes are returned, and the caller looks at their number.
Return ==
    /\ pc = "fstat" /\ State(opened) = before
    /\ Finish(IF Len(got) > MaxBytes THEN AR!TooLarge ELSE AR!File(got))

Step ==
    \/ StatMissing \/ StatRefused \/ Stat \/ OpenFails \/ Open
    \/ RestatDiffers \/ Enter \/ Bind \/ Read \/ ReadEnds \/ FstatDiffers \/ Return

-----------------------------------------------------------------------------
\* The other program

Act ==
    /\ pc # "done" /\ edits < MaxEdits
    /\ edits' = edits + 1
    /\ UNCHANGED <<pc, walk, before, got, answer, recent>>

\* What stands under the path after the act (a later conjunct: it reads the
\* new file system).
Seen == possible' = possible \cup Visible'

\* Renames, removes, or puts something under a name.
Relink(d, n) ==
    /\ Act
    /\ kind[d] = "dir" /\ n > d /\ n # child[d]
    /\ child' = [child EXCEPT ![d] = n]
    /\ UNCHANGED <<kind, data, stamp, clock>>
    /\ Seen

\* Writes a file in place: one block, one more, or one fewer.
Versions(c) ==
    {[c EXCEPT ![i] = v] : i \in 1..Len(c), v \in Value}
    \cup {Append(c, v) : v \in {w \in Value : Len(c) < MaxSize}}
    \cup {SubSeq(c, 1, n) : n \in {m \in 0..MaxSize : m + 1 = Len(c)}}

Rewrite(n) ==
    /\ Act
    /\ kind[n] = "file"
    /\ \E c \in Versions(data[n]) : data' = [data EXCEPT ![n] = c]
    /\ stamp' = [stamp EXCEPT ![n] = clock]
    /\ UNCHANGED <<kind, child, clock>>
    /\ Seen

\* An inode number that no name and no descriptor refers to is used for
\* something new.
Held(n) ==
    \/ n = 0 \/ \E d \in Node : child[d] = n
    \/ n = here \/ (n = opened /\ pc \in {"restat", "read", "fstat"})

Recycle(n) ==
    /\ Act
    /\ ~Held(n)
    /\ \E k \in Kinds \ {kind[n]} : kind' = [kind EXCEPT ![n] = k]
    /\ stamp' = [stamp EXCEPT ![n] = clock]
    /\ UNCHANGED <<child, data, clock>>
    /\ Seen

Tick ==
    /\ pc # "done" /\ clock < MaxClock
    /\ clock' = clock + 1
    /\ UNCHANGED <<kind, child, data, stamp, edits, pc, walk, before, got>>
    /\ UNCHANGED <<answer, possible, recent>>

Answered == pc = "done" /\ UNCHANGED vars

Next ==
    \/ Step \/ Tick \/ Answered
    \/ \E d \in Node, n \in 1..Nil : Relink(d, n)
    \/ \E n \in Node : Rewrite(n) \/ Recycle(n)

Spec == Init /\ [][Next]_vars

-----------------------------------------------------------------------------
\* Properties

\* The answer is what stood under the path at one instant of the call: bytes
\* are never those of two versions of a file or of two files, never the first
\* part of a longer file; "does not exist" means that it once did not; and a
\* change is reported only if there was one.  Excepted is a file that was
\* changed in the very tick of the clock it was opened in, whose later changes
\* within that tick leave no trace (read_regular_file_bounded, lines 584-653).
ImplementsAtomicRead == AR!Spec
=============================================================================
