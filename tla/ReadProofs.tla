----------------------------- MODULE ReadProofs -----------------------------
(***************************************************************************)
(* Proofs about what is read and believed: about StableRead, the bounded   *)
(* read of a file that others may change, for paths of any depth, files of *)
(* any size and content, any limit of the caller and any number of acts of *)
(* others; and about Captions, which reads a receipt and captions through  *)
(* it and verifies them, for narrations of any number and length of        *)
(* segments, any gap, tolerance and limits, and any number of edits.       *)
(***************************************************************************)
EXTENDS StableRead, Captions, SequenceTheorems, TLAPS

-----------------------------------------------------------------------------
\* The bounded read

\* The parts of TypeOK that concern the file system ...
WorldTypes ==
    /\ kind \in [Node -> Kinds] /\ kind[0] = "dir"
    /\ child \in [Node -> 1..Nil] /\ \A d \in Node : child[d] > d
    /\ data \in [Node -> Content]
    /\ stamp \in [Node -> 0..clock] /\ clock \in 1..MaxClock
    /\ edits \in 0..MaxEdits

\* ... the walk ...
WalkTypes ==
    /\ pc \in {"stat", "open", "restat", "read", "fstat", "done"}
    /\ level \in 0..Depth /\ here \in Node
    /\ expected \in Node /\ opened \in Node

\* ... and what was read and answered.
ReadTypes ==
    /\ before \in [size : 0..MaxSize, stamp : 0..clock]
    /\ got \in Seq(Value) /\ Len(got) <= MaxBytes + 1
    /\ answer \in [is : Answers, bytes : Seq(Value)] /\ Len(answer.bytes) <= MaxBytes
    /\ recent \in BOOLEAN

\* They are all of it.
LEMMA TypeParts == TypeOK <=> WorldTypes /\ WalkTypes /\ ReadTypes
  BY DEF TypeOK, WorldTypes, WalkTypes, ReadTypes

\* After a step as well.
LEMMA NextParts ==
    ASSUME WorldTypes', WalkTypes', ReadTypes'
    PROVE  TypeOK'
  BY DEF TypeOK, WorldTypes, WalkTypes, ReadTypes

\* Bounds are numbers.
LEMMA Bounds ==
    /\ Last \in Nat /\ Depth \in Nat /\ MaxBytes \in Nat /\ MaxSize \in Nat
    /\ MaxEdits \in Nat /\ MaxClock \in Nat /\ MaxClock > 0
  BY StableReadAssumption

\* Content is a sequence of blocks that is not too long.
LEMMA ContentIsSeq ==
    ASSUME NEW c
    PROVE  c \in Content <=> c \in Seq(Value) /\ Len(c) <= MaxSize
  <1>1. ASSUME c \in Content PROVE c \in Seq(Value) /\ Len(c) <= MaxSize
    <2>1. PICK n \in 0..MaxSize : c \in [1..n -> Value]
      BY <1>1 DEF Content
    <2>2. n \in Nat
      BY Bounds
    <2> QED
      BY <2>1, <2>2
  <1>2. ASSUME c \in Seq(Value), Len(c) <= MaxSize PROVE c \in Content
    <2>1. Len(c) \in Nat /\ c \in [1..Len(c) -> Value]
      BY <1>2, LenProperties
    <2>2. Len(c) \in 0..MaxSize
      BY <1>2, <2>1, Bounds
    <2> QED
      BY <2>1, <2>2, Zenon DEF Content
  <1> QED
    BY <1>1, <1>2

\* A file that is written in place holds content again.
LEMMA VersionTypes ==
    ASSUME NEW c \in Content, NEW v \in Versions(c)
    PROVE  v \in Content
  <1>1. c \in Seq(Value) /\ Len(c) \in Nat /\ Len(c) <= MaxSize
    BY ContentIsSeq, LenProperties
  <1>2. CASE \E i \in 1..Len(c), w \in Value : v = [c EXCEPT ![i] = w]
    <2>1. PICK i \in 1..Len(c), w \in Value : v = [c EXCEPT ![i] = w]
      BY <1>2
    <2>2. v \in Seq(Value) /\ Len(v) = Len(c)
      BY <1>1, <2>1, ExceptSeq
    <2> QED
      BY <1>1, <2>2, ContentIsSeq
  <1>3. CASE \E w \in {x \in Value : Len(c) < MaxSize} : v = Append(c, w)
    <2>1. PICK w \in Value : Len(c) < MaxSize /\ v = Append(c, w)
      BY <1>3
    <2>2. v \in Seq(Value) /\ Len(v) = Len(c) + 1
      BY <1>1, <2>1, AppendProperties
    <2>3. Len(v) <= MaxSize
      BY <1>1, <2>1, <2>2, Bounds
    <2> QED
      BY <2>2, <2>3, ContentIsSeq
  <1>4. CASE \E n \in {m \in 0..MaxSize : m + 1 = Len(c)} : v = SubSeq(c, 1, n)
    <2>1. PICK n \in 0..MaxSize : n + 1 = Len(c) /\ v = SubSeq(c, 1, n)
      BY <1>4
    <2>2. n \in Nat /\ 1 \in Int /\ n < Len(c)
      BY <1>1, <2>1, Bounds
    <2>3. \A i \in 1..n : c[i] \in Value
      BY <1>1, <2>2
    <2>4. /\ SubSeq(c, 1, n) \in Seq(Value)
          /\ Len(SubSeq(c, 1, n)) = IF 1 <= n THEN n - 1 + 1 ELSE 0
      BY <2>2, <2>3, SubSeqProperties
    <2>5. v \in Seq(Value) /\ Len(v) <= MaxSize
      BY <2>1, <2>2, <2>4, Bounds
    <2> QED
      BY <2>5, ContentIsSeq
  <1> QED
    BY <1>2, <1>3, <1>4 DEF Versions

\* The state of a file is a size and a time.
LEMMA StateType ==
    ASSUME WorldTypes, NEW n \in Node
    PROVE  State(n) \in [size : 0..MaxSize, stamp : 0..clock]
  <1>1. Len(data[n]) \in 0..MaxSize
    <2>1. data[n] \in Content
      BY DEF WorldTypes
    <2>2. Len(data[n]) \in Nat /\ Len(data[n]) <= MaxSize
      BY <2>1, ContentIsSeq, LenProperties
    <2> QED
      BY <2>2, Bounds
  <1>2. stamp[n] \in 0..clock
    BY DEF WorldTypes
  <1> QED
    BY <1>1, <1>2 DEF State

\* The initial states have the types.
LEMMA InitTypes == Init => TypeOK
  <1> SUFFICES ASSUME Init PROVE TypeOK
    OBVIOUS
  <1>0. 0 \in Node /\ 0 \in 0..Depth /\ 0 \in 0..MaxSize /\ 0 \in 0..MaxEdits
        /\ 0 \in 0..1 /\ 1 \in 1..MaxClock
    BY Bounds DEF Node
  <1>1. WorldTypes
    BY <1>0, StableReadAssumption DEF Init, WorldTypes
  <1>2. WalkTypes
    BY <1>0 DEF Init, WalkTypes
  <1>3. ReadTypes
    <2>1. <<>> \in Seq(Value) /\ Len(<<>>) = 0 /\ 0 <= MaxBytes /\ 0 <= MaxBytes + 1
      BY EmptySeq, Bounds
    <2> QED
      BY <1>0, <2>1 DEF Init, ReadTypes, AR!Pending, Answers
  <1> QED
    BY <1>1, <1>2, <1>3, TypeParts

\* A reader that ends keeps everything but its answer.
LEMMA FinishTypes ==
    ASSUME TypeOK, NEW a \in [is : Answers, bytes : Seq(Value)], Len(a.bytes) <= MaxBytes,
           Finish(a)
    PROVE  TypeOK'
  <1>1. WorldTypes'
    BY TypeParts DEF Finish, world, WorldTypes
  <1>2. WalkTypes'
    BY TypeParts DEF Finish, walk, WalkTypes
  <1>3. ReadTypes'
    BY TypeParts DEF Finish, world, ReadTypes
  <1> QED
    BY <1>1, <1>2, <1>3, NextParts

\* The name at hand leads to a node or nowhere.
LEMMA EntryType ==
    ASSUME WorldTypes, WalkTypes
    PROVE  Entry \in 1..Nil /\ (Entry # Nil => Entry \in Node)
  BY Bounds DEF WorldTypes, WalkTypes, Entry, Node, Nil

\* Every step of the reader keeps the types.
LEMMA StepTypes ==
    ASSUME TypeOK, Step
    PROVE  TypeOK'
  <1>0. WorldTypes /\ WalkTypes /\ ReadTypes
    BY TypeParts
  <1>1. ASSUME UNCHANGED world PROVE WorldTypes'
    BY <1>0, <1>1 DEF world, WorldTypes
  <1>2. ASSUME UNCHANGED <<world, before, got, answer, recent>> PROVE ReadTypes'
    BY <1>0, <1>2 DEF world, ReadTypes
  <1>3. CASE Stat
    <2>1. WalkTypes'
      BY <1>0, <1>3, EntryType DEF Stat, Goto, WalkTypes
    <2> QED
      BY <1>1, <1>2, <1>3, <2>1, NextParts DEF Stat
  <1>4. CASE Open
    <2>1. Entry \in Node
      BY <1>0, <1>4, EntryType DEF Open, Opens
    <2>2. WalkTypes'
      BY <1>0, <1>4, <2>1 DEF Open, Goto, WalkTypes
    <2>3. before' \in [size : 0..MaxSize, stamp : 0..clock] /\ recent' \in BOOLEAN
      BY <1>0, <1>4, <2>1, StateType DEF Open
    <2>4. ReadTypes'
      BY <1>0, <1>4, <2>3 DEF Open, world, ReadTypes
    <2> QED
      BY <1>1, <1>4, <2>2, <2>4, NextParts DEF Open
  <1>5. CASE Enter
    <2>1. WalkTypes'
      BY <1>0, <1>5, Bounds DEF Enter, Goto, WalkTypes
    <2> QED
      BY <1>1, <1>2, <1>5, <2>1, NextParts DEF Enter
  <1>6. CASE Bind \/ ReadEnds
    <2>1. UNCHANGED <<world, walk, before, got, answer, recent>> /\ pc' \in {"read", "fstat"}
      BY <1>6 DEF Bind, ReadEnds, Goto
    <2>2. WalkTypes'
      BY <1>0, <2>1 DEF walk, WalkTypes
    <2> QED
      BY <1>1, <1>2, <2>1, <2>2, NextParts
  <1>7. CASE Read
    <2>1. Len(got) \in Nat /\ got \in Seq(Value) /\ opened \in Node /\ data[opened] \in Content
      BY <1>0, LenProperties DEF ReadTypes, WalkTypes, WorldTypes
    <2>2. Len(got) < MaxBytes + 1 /\ Len(got) < Len(data[opened])
      BY <1>7 DEF Read, Wants
    <2>3. data[opened] \in Seq(Value) /\ Len(data[opened]) \in Nat
      BY <2>1, ContentIsSeq, LenProperties
    <2>4. data[opened][Len(got) + 1] \in Value
      BY <2>1, <2>2, <2>3, ElementOfSeq
    <2>5. got' \in Seq(Value) /\ Len(got') <= MaxBytes + 1
      BY <1>7, <2>1, <2>2, <2>4, AppendProperties, Bounds DEF Read
    <2>6. ReadTypes'
      BY <1>0, <1>7, <2>5 DEF Read, world, ReadTypes
    <2>7. WalkTypes'
      BY <1>0, <1>7 DEF Read, walk, WalkTypes
    <2> QED
      BY <1>1, <1>7, <2>6, <2>7, NextParts DEF Read
  <1>8. CASE StatMissing \/ StatRefused \/ OpenFails \/ RestatDiffers \/ FstatDiffers \/ Return
    <2>1. <<>> \in Seq(Value) /\ Len(<<>>) = 0 /\ 0 <= MaxBytes
      BY EmptySeq, Bounds
    <2>2. ASSUME NEW a \in {AR!Absent, AR!Irregular, AR!Changed, AR!TooLarge}
          PROVE  a \in [is : Answers, bytes : Seq(Value)] /\ Len(a.bytes) <= MaxBytes
      <3>1. PICK k \in Answers : a = [is |-> k, bytes |-> <<>>]
        BY DEF AR!Absent, AR!Irregular, AR!Changed, AR!TooLarge, Answers
      <3> QED
        BY <2>1, <3>1
    <2>3. CASE Return /\ ~(Len(got) > MaxBytes)
      <3>1. got \in Seq(Value) /\ Len(got) <= MaxBytes
        BY <1>0, <2>3, Bounds, LenProperties DEF ReadTypes
      <3>2. /\ AR!File(got) \in [is : Answers, bytes : Seq(Value)]
            /\ Len(AR!File(got).bytes) <= MaxBytes
        BY <3>1 DEF AR!File, Answers
      <3>3. Finish(AR!File(got))
        BY <2>3 DEF Return
      <3> QED
        BY <3>2, <3>3, FinishTypes
    <2>4. CASE \E a \in {AR!Absent, AR!Irregular, AR!Changed, AR!TooLarge} : Finish(a)
      BY <2>2, <2>4, FinishTypes
    <2>5. \/ StatMissing \/ StatRefused \/ OpenFails \/ RestatDiffers \/ FstatDiffers
          \/ Return /\ Len(got) > MaxBytes
          => \E a \in {AR!Absent, AR!Irregular, AR!Changed, AR!TooLarge} : Finish(a)
      BY DEF StatMissing, StatRefused, OpenFails, RestatDiffers, FstatDiffers, Return
    <2> QED
      BY <1>8, <2>3, <2>4, <2>5
  <1> QED
    BY <1>3, <1>4, <1>5, <1>6, <1>7, <1>8 DEF Step

\* Every act of the other program keeps the types.
LEMMA ActTypes ==
    ASSUME TypeOK,
           \/ \E d \in Node, n \in 1..Nil : Relink(d, n)
           \/ \E n \in Node : Rewrite(n) \/ Recycle(n)
    PROVE  TypeOK'
  <1>0. WorldTypes /\ WalkTypes /\ ReadTypes
    BY TypeParts
  <1>1. Act /\ UNCHANGED clock
    BY DEF Relink, Rewrite, Recycle
  <1>2. WalkTypes' /\ ReadTypes' /\ edits' \in 0..MaxEdits
    <2>1. WalkTypes'
      BY <1>0, <1>1 DEF Act, walk, WalkTypes
    <2>2. ReadTypes'
      BY <1>0, <1>1 DEF Act, ReadTypes
    <2>3. edits' \in 0..MaxEdits
      BY <1>0, <1>1, Bounds DEF Act, WorldTypes
    <2> QED
      BY <2>1, <2>2, <2>3
  <1>3. clock \in 0..clock /\ clock \in Nat
    BY <1>0, Bounds DEF WorldTypes
  <1>4. ASSUME NEW d \in Node, NEW n \in 1..Nil, Relink(d, n) PROVE WorldTypes'
    BY <1>0, <1>2, <1>4, Bounds DEF Relink, WorldTypes, Node
  <1>5. ASSUME NEW n \in Node, Rewrite(n) PROVE WorldTypes'
    <2>1. data' \in [Node -> Content]
      BY <1>0, <1>5, VersionTypes DEF Rewrite, WorldTypes
    <2>2. stamp' \in [Node -> 0..clock]
      BY <1>0, <1>3, <1>5 DEF Rewrite, WorldTypes
    <2> QED
      BY <1>0, <1>2, <1>5, <2>1, <2>2 DEF Rewrite, WorldTypes
  <1>6. ASSUME NEW n \in Node, Recycle(n) PROVE WorldTypes'
    <2>1. kind' \in [Node -> Kinds] /\ kind'[0] = "dir"
      BY <1>0, <1>6 DEF Recycle, Held, WorldTypes
    <2>2. stamp' \in [Node -> 0..clock]
      BY <1>0, <1>3, <1>6 DEF Recycle, WorldTypes
    <2> QED
      BY <1>0, <1>2, <1>6, <2>1, <2>2 DEF Recycle, WorldTypes
  <1> QED
    BY <1>2, <1>4, <1>5, <1>6, NextParts

\* Time passes.
LEMMA TickTypes ==
    ASSUME TypeOK, Tick
    PROVE  TypeOK'
  <1>0. WorldTypes /\ WalkTypes /\ ReadTypes
    BY TypeParts
  <1>1. /\ clock' \in 1..MaxClock /\ 0..clock \subseteq 0..clock'
    BY <1>0, Bounds DEF Tick, WorldTypes
  <1>2. WorldTypes'
    <2>1. stamp' \in [Node -> 0..clock']
      BY <1>0, <1>1 DEF Tick, WorldTypes
    <2> QED
      BY <1>0, <1>1, <2>1 DEF Tick, WorldTypes
  <1>3. ReadTypes' /\ WalkTypes'
    BY <1>0, <1>1 DEF Tick, walk, WalkTypes, ReadTypes
  <1> QED
    BY <1>2, <1>3, NextParts

\* Every variable keeps its range: the reader never holds more than one block
\* more than its caller takes, and never answers with more than that (lines
\* 619-646).
THEOREM ReadTypeCorrect == Spec => []TypeOK
  <1>1. ASSUME TypeOK, [Next]_vars PROVE TypeOK'
    <2>1. UNCHANGED vars => TypeOK'
      BY <1>1 DEF vars, world, walk, TypeOK
    <2> QED
      BY <1>1, <2>1, StepTypes, ActTypes, TickTypes DEF Next, Answered
  <1> QED
    BY InitTypes, <1>1, PTL DEF Spec

\* What the reader has done so far: an answer is its last step, bytes are only
\* read at the end of the path, and only the file there can be recent.
Quiet ==
    /\ pc # "done" => answer = AR!Pending
    /\ pc \in {"stat", "open", "restat"} => got = <<>>
    /\ pc \in {"stat", "open"} \/ (pc = "restat" /\ level < Depth) => ~recent
    /\ pc \in {"read", "fstat"} => level = Depth

\* As long as nothing has changed, what the reader looks at twice is the same.
Calm ==
    edits = 0 =>
        /\ pc = "open" => Entry = expected /\ kind[expected] = Wanted(level)
        /\ pc = "restat" => Same
        /\ pc \in {"restat", "read", "fstat"} => State(opened) = before

\* A change of the file from now on will show in its time stamp.
Stamped ==
    pc \in {"restat", "read", "fstat"} /\ level = Depth /\ ~recent => before.stamp < clock

\* What was read is the first part of the file.
Prefix ==
    /\ Len(got) <= Len(data[opened])
    /\ \A i \in 1..Len(got) : got[i] = data[opened][i]

\* A file whose stamp is still the one it was opened with is one that stood
\* under the path, and what was read of it is of that version.
Traced ==
    pc \in {"read", "fstat"} /\ ~recent /\ stamp[opened] = before.stamp =>
        /\ AR!File(data[opened]) \in possible
        /\ Prefix
        /\ pc = "fstat" => ~Wants(MaxBytes + 1)

\* Holds of every reachable state, and of the successors of every state it
\* holds of.
ReaderInv ==
    TypeOK /\ Visible \subseteq possible /\ Quiet /\ Calm /\ Stamped /\ Traced

\* What is under the path, spelt out.
LEMMA VisibleIs ==
    \A x : x \in Visible <=> \E m \in level..Depth, e \in Node :
                                /\ Ends(m, e) /\ Leads(level, here, m, e)
                                /\ x = Found(m, e)
  <1>1. ASSUME NEW x \in Visible
        PROVE  \E m \in level..Depth, e \in Node :
                  Ends(m, e) /\ Leads(level, here, m, e) /\ x = Found(m, e)
    <2>1. PICK y \in (level..Depth) \X Node :
             Ends(y[1], y[2]) /\ Leads(level, here, y[1], y[2]) /\ x = Found(y[1], y[2])
      BY <1>1 DEF Visible
    <2> QED
      BY <2>1
  <1>2. ASSUME NEW m \in level..Depth, NEW e \in Node, Ends(m, e), Leads(level, here, m, e)
        PROVE  Found(m, e) \in Visible
    <2>1. <<m, e>> \in (level..Depth) \X Node /\ <<m, e>>[1] = m /\ <<m, e>>[2] = e
      OBVIOUS
    <2> QED
      BY <1>2, <2>1 DEF Visible
  <1> QED
    BY <1>1, <1>2

\* It is what is at hand, if the path ends there.
LEMMA SeesEnd ==
    ASSUME TypeOK, Ends(level, here)
    PROVE  Found(level, here) \in Visible
  <1>1. level \in level..Depth /\ here \in Node /\ level \in Int
    BY Bounds DEF TypeOK
  <1>2. Leads(level, here, level, here)
    <2> DEFINE chain == [i \in level..level |-> here]
    <2>1. chain \in [level..level -> Node] /\ chain[level] = here
      BY <1>1
    <2>2. ~\E i \in level..level-1 : TRUE
      BY <1>1
    <2> QED
      BY <2>1, <2>2 DEF Leads
  <1> QED
    BY <1>1, <1>2, VisibleIs

\* It does not matter whether a directory is entered or looked through.
LEMMA LeadsOn ==
    ASSUME NEW l \in Nat, NEW m \in Nat, m > l, NEW d \in Node, NEW e \in Node,
           child[d] \in Node, kind[child[d]] = "dir"
    PROVE  Leads(l, d, m, e) <=> Leads(l + 1, child[d], m, e)
  <1>1. ASSUME Leads(l, d, m, e) PROVE Leads(l + 1, child[d], m, e)
    <2>1. PICK chain \in [l..m -> Node] :
             /\ chain[l] = d /\ chain[m] = e
             /\ \A i \in l..m-1 : child[chain[i]] = chain[i+1] /\ kind[chain[i+1]] = "dir"
      BY <1>1 DEF Leads
    <2> DEFINE rest == [i \in l+1..m |-> chain[i]]
    <2>2. l \in l..m-1 /\ m \in l+1..m /\ l + 1 \in l+1..m
      OBVIOUS
    <2>3. rest \in [l+1..m -> Node]
      BY <2>1
    <2>4. rest[l+1] = child[d] /\ rest[m] = e
      BY <2>1, <2>2
    <2>5. ASSUME NEW i \in l+1..m-1
          PROVE  child[rest[i]] = rest[i+1] /\ kind[rest[i+1]] = "dir"
      <3>1. i \in l..m-1 /\ i \in l+1..m /\ i + 1 \in l+1..m
        OBVIOUS
      <3> QED
        BY <2>1, <3>1
    <2> HIDE DEF rest
    <2> QED
      BY <2>3, <2>4, <2>5 DEF Leads
  <1>2. ASSUME Leads(l + 1, child[d], m, e) PROVE Leads(l, d, m, e)
    <2>1. PICK chain \in [l+1..m -> Node] :
             /\ chain[l+1] = child[d] /\ chain[m] = e
             /\ \A i \in l+1..m-1 : child[chain[i]] = chain[i+1] /\ kind[chain[i+1]] = "dir"
      BY <1>2 DEF Leads
    <2> DEFINE all == [i \in l..m |-> IF i = l THEN d ELSE chain[i]]
    <2>2. all \in [l..m -> Node] /\ all[l] = d /\ all[m] = e
      BY <2>1
    <2>3. ASSUME NEW i \in l..m-1
          PROVE  child[all[i]] = all[i+1] /\ kind[all[i+1]] = "dir"
      <3>1. i \in l..m /\ i + 1 \in l+1..m /\ i + 1 \in l..m /\ i + 1 # l
        OBVIOUS
      <3>2. all[i+1] = chain[i+1]
        BY <3>1
      <3>3. CASE i = l
        BY <2>1, <2>2, <3>2, <3>3
      <3>4. CASE i # l
        <4>1. i \in l+1..m-1 /\ all[i] = chain[i]
          BY <3>1, <3>4
        <4> QED
          BY <2>1, <3>2, <4>1
      <3> QED
        BY <3>3, <3>4
    <2> HIDE DEF all
    <2> QED
      BY <2>2, <2>3 DEF Leads
  <1> QED
    BY <1>1, <1>2

\* Nor does entering one change what is under the path.
LEMMA EnterSees ==
    ASSUME TypeOK, Enter
    PROVE  Visible' = Visible
  <1>1. /\ level \in Nat /\ level + 1 \in Nat /\ Depth \in Nat /\ level < Depth
        /\ level' = level + 1 /\ here' = child[here] /\ here \in Node
        /\ child[here] \in Node /\ kind[child[here]] = "dir" /\ child[here] # Nil
        /\ UNCHANGED <<kind, child, data>>
    <2>1. opened \in Node /\ Nil \notin Node
      BY Bounds DEF TypeOK, Node, Nil
    <2> QED
      BY <2>1, Bounds DEF TypeOK, Enter, Same, Entry, Wanted, world
  <1>2. ~Ends(level, here)
    BY <1>1 DEF Ends
  <1>3. \A m, e : /\ Ends(m, e)' <=> Ends(m, e)
                  /\ Found(m, e)' = Found(m, e)
    BY <1>1 DEF Ends, Found, Wanted
  <1>4. ASSUME NEW m \in Nat, NEW e \in Node
        PROVE  Leads(level, here, m, e)' <=> Leads(level + 1, child[here], m, e)
    BY <1>1 DEF Leads
  <1>5. \A x : x \in Visible' <=> \E m \in level'..Depth, e \in Node :
                                     /\ Ends(m, e)' /\ Leads(level, here, m, e)'
                                     /\ x = Found(m, e)'
    <2>1. (\A x : x \in Visible <=> \E m \in level..Depth, e \in Node :
                                       /\ Ends(m, e) /\ Leads(level, here, m, e)
                                       /\ x = Found(m, e))'
      BY VisibleIs, PTL
    <2> QED
      BY <2>1
  <1>6. ASSUME NEW x \in Visible PROVE x \in Visible'
    <2>1. PICK m \in level..Depth, e \in Node :
             Ends(m, e) /\ Leads(level, here, m, e) /\ x = Found(m, e)
      BY <1>6, VisibleIs
    <2>2. m # level
      BY <1>2, <2>1 DEF Leads
    <2>3. m \in Nat /\ m > level /\ m \in level'..Depth
      BY <1>1, <2>2
    <2>4. Leads(level + 1, child[here], m, e)
      BY <1>1, <2>1, <2>3, LeadsOn
    <2> QED
      BY <1>3, <1>4, <1>5, <2>1, <2>3, <2>4
  <1>7. ASSUME NEW x \in Visible' PROVE x \in Visible
    <2>1. PICK m \in level'..Depth, e \in Node :
             Ends(m, e)' /\ Leads(level, here, m, e)' /\ x = Found(m, e)'
      BY <1>5, <1>7
    <2>2. m \in Nat /\ m > level /\ m \in level..Depth
      BY <1>1
    <2>3. Leads(level, here, m, e)
      BY <1>1, <1>4, <2>1, <2>2, LeadsOn
    <2> QED
      BY <1>3, <2>1, <2>2, <2>3, VisibleIs
  <1> QED
    BY <1>6, <1>7

\* What looks at nothing but the file system and the place of the reader stays.
LEMMA SeesSame ==
    ASSUME UNCHANGED <<kind, child, data, level, here>>
    PROVE  Visible' = Visible
  BY DEF Visible, Leads, Ends, Found, Wanted

\* The steps that answer, each with its answer.
Answering ==
    \/ StatMissing \/ StatRefused \/ OpenFails \/ RestatDiffers \/ FstatDiffers \/ Return

\* They leave everything but the answer.
LEMMA AnsweringDoes ==
    ASSUME Answering
    PROVE  /\ pc' = "done" /\ pc # "done"
           /\ UNCHANGED <<world, walk, before, got, possible, recent>>
  BY DEF Answering, StatMissing, StatRefused, OpenFails, RestatDiffers, FstatDiffers,
     Return, Finish

\* The acts of the other program.
Acts ==
    \/ \E d \in Node, n \in 1..Nil : Relink(d, n)
    \/ \E n \in Node : Rewrite(n) \/ Recycle(n)

\* They leave the reader alone, and the ghost sees what they did.
LEMMA ActsDo ==
    ASSUME TypeOK, Acts
    PROVE  /\ UNCHANGED <<pc, walk, before, got, answer, recent, clock>>
           /\ pc # "done" /\ edits' # 0 /\ possible' = possible \cup Visible'
  <1>1. Act /\ UNCHANGED clock /\ Seen
    BY DEF Acts, Relink, Rewrite, Recycle
  <1>2. edits \in Nat
    BY Bounds DEF TypeOK
  <1> QED
    BY <1>1, <1>2 DEF Act, Seen

\* Every step is one of these.
LEMMA StepsAre ==
    ASSUME [Next]_vars
    PROVE  \/ Stat \/ Open \/ Enter \/ Bind \/ Read \/ ReadEnds \/ Answering
           \/ Acts \/ Tick \/ UNCHANGED vars
  BY DEF Next, Step, Answering, Acts, Answered

\* The ghost has seen whatever stood under the path.
LEMMA WitnessStep ==
    ASSUME TypeOK, Visible \subseteq possible, [Next]_vars
    PROVE  Visible' \subseteq possible'
  <1>1. CASE Enter
    BY <1>1, EnterSees DEF Enter
  <1>2. CASE Acts
    BY <1>2, ActsDo
  <1>3. CASE Stat \/ Open \/ Bind \/ Read \/ ReadEnds \/ Answering \/ Tick \/ UNCHANGED vars
    <2>1. UNCHANGED <<kind, child, data, level, here, possible>>
      BY <1>3, AnsweringDoes DEF Stat, Open, Bind, Read, ReadEnds, Tick, vars, world, walk
    <2> QED
      BY <2>1, SeesSame
  <1> QED
    BY <1>1, <1>2, <1>3, StepsAre

\* The reader's own order of steps.
LEMMA QuietKept ==
    ASSUME TypeOK, Quiet, [Next]_vars
    PROVE  Quiet'
  <1> USE DEF Goto, walk
  <1>1. CASE Answering
    BY <1>1, AnsweringDoes DEF Quiet
  <1>2. CASE Acts \/ Tick \/ UNCHANGED vars
    BY <1>2, ActsDo DEF Tick, vars, Quiet
  <1>3. CASE Stat \/ Enter
    BY <1>3 DEF Stat, Enter, Quiet
  <1>4. CASE Open
    <2>1. /\ pc = "open" /\ pc' = "restat" /\ UNCHANGED <<level, got, answer>>
          /\ level < Depth => level # Depth
      BY <1>4, Bounds DEF Open, TypeOK
    <2>2. level # Depth => ~recent'
      BY <1>4 DEF Open
    <2> QED
      BY <2>1, <2>2 DEF Quiet
  <1>5. CASE Bind \/ Read \/ ReadEnds
    BY <1>5 DEF Bind, Read, ReadEnds, Quiet
  <1> QED
    BY <1>1, <1>2, <1>3, <1>4, <1>5, StepsAre

\* Nothing the reader looks at twice differs before the first act of another.
LEMMA CalmKept ==
    ASSUME TypeOK, Calm, [Next]_vars
    PROVE  Calm'
  <1> USE DEF Goto, walk, world
  <1>1. CASE Answering
    BY <1>1, AnsweringDoes DEF Calm
  <1>2. CASE Acts
    BY <1>2, ActsDo DEF Calm
  <1>3. CASE Tick \/ UNCHANGED vars \/ Read
    BY <1>3 DEF Tick, vars, Read, Calm, Entry, Wanted, Same, State
  <1>4. CASE Stat \/ Enter
    BY <1>4 DEF Stat, Enter, Calm, Entry, Wanted
  <1>5. CASE Open
    BY <1>5 DEF Open, Calm, Entry, Wanted, Same, State
  <1>6. CASE Bind \/ ReadEnds
    BY <1>6 DEF Bind, ReadEnds, Calm, State
  <1> QED
    BY <1>1, <1>2, <1>3, <1>4, <1>5, <1>6, StepsAre

\* The clock moves on from a stamp that was not of its present tick.
LEMMA StampedKept ==
    ASSUME TypeOK, Quiet, Stamped, [Next]_vars
    PROVE  Stamped'
  <1> USE DEF Goto, walk, world
  <1>0. clock \in Nat /\ before.stamp \in Nat
    BY Bounds DEF TypeOK
  <1>1. CASE Answering
    BY <1>1, AnsweringDoes DEF Stamped
  <1>2. CASE Tick
    BY <1>0, <1>2 DEF Tick, Stamped
  <1>3. CASE Open
    <2>1. Entry \in Node
      BY <1>3, EntryType, TypeParts DEF Open, Opens
    <2>2. stamp[Entry] \in Nat /\ stamp[Entry] <= clock
      BY <1>0, <2>1 DEF TypeOK
    <2>3. level = Depth /\ ~recent' => stamp[Entry] < clock
      <3>1. level = Depth /\ ~recent' => stamp[Entry] # clock
        BY <1>3 DEF Open
      <3> QED
        BY <1>0, <2>2, <3>1
    <2>4. before'.stamp = stamp[Entry] /\ UNCHANGED <<level, clock>>
      BY <1>3 DEF Open, State
    <2> QED
      BY <2>3, <2>4 DEF Stamped
  <1>4. CASE Acts \/ UNCHANGED vars
    BY <1>4, ActsDo DEF vars, Stamped
  <1>5. CASE Stat \/ Enter \/ Bind \/ Read \/ ReadEnds
    BY <1>5 DEF Stat, Enter, Bind, Read, ReadEnds, Stamped, Quiet
  <1> QED
    BY <1>1, <1>2, <1>3, <1>4, <1>5, StepsAre

\* The version that is read: bound where the path ends, and lost with the first
\* change of the stamp.
LEMMA TracedKept ==
    ASSUME TypeOK, Visible \subseteq possible, Quiet, Stamped, Traced, [Next]_vars
    PROVE  Traced'
  <1> USE DEF Goto, walk, world
  <1>0. /\ clock \in Nat /\ before.stamp \in Nat /\ opened \in Node
        /\ stamp \in [Node -> 0..clock] /\ data \in [Node -> Content]
        /\ got \in Seq(Value) /\ Len(got) \in Nat
        /\ data[opened] \in Seq(Value) /\ Len(data[opened]) \in Nat
    <2>1. /\ clock \in Nat /\ before.stamp \in Nat /\ opened \in Node
          /\ stamp \in [Node -> 0..clock] /\ data \in [Node -> Content] /\ got \in Seq(Value)
      BY Bounds DEF TypeOK
    <2>2. data[opened] \in Content
      BY <2>1
    <2>3. data[opened] \in Seq(Value)
      BY <2>2, ContentIsSeq
    <2> QED
      BY <2>1, <2>3, LenProperties
  <1>1. CASE Answering \/ Stat \/ Open \/ Enter
    BY <1>1, AnsweringDoes DEF Stat, Open, Enter, Traced
  <1>2. CASE Bind
    <2>1. /\ pc = "restat" /\ level = Depth /\ child[here] = opened /\ kind[opened] = "file"
          /\ UNCHANGED <<opened, data, possible, got, stamp, before, recent>> /\ pc' = "read"
      <3>1. ~(Depth < Depth)
        BY Bounds
      <3> QED
        BY <1>2, <3>1 DEF Bind, Same, Entry, Wanted
    <2>2. opened # Nil
      BY <1>0, Bounds DEF Node, Nil
    <2>3. Ends(level, here) /\ Found(level, here) = AR!File(data[opened])
      <3>1. ~(Depth < Depth)
        BY Bounds
      <3> QED
        BY <2>1, <2>2, <3>1 DEF Ends, Found, Wanted, AR!File
    <2>4. AR!File(data[opened]) \in possible
      BY <2>3, SeesEnd
    <2>5. Prefix'
      <3>1. got' = <<>> /\ Len(<<>>) = 0 /\ data'[opened'] = data[opened]
        BY <2>1, EmptySeq DEF Quiet
      <3> QED
        BY <1>0, <3>1 DEF Prefix
    <2> QED
      BY <2>1, <2>4, <2>5 DEF Traced
  <1>3. CASE Read
    <2>1. /\ pc = "read" /\ pc' = "read" /\ Len(got) < Len(data[opened])
          /\ got' = Append(got, data[opened][Len(got) + 1])
          /\ UNCHANGED <<opened, data, possible, stamp, before, recent>>
      BY <1>3 DEF Read, Wants
    <2>2. data[opened][Len(got) + 1] \in Value
      BY <1>0, <2>1, ElementOfSeq
    <2>3. /\ Len(got') = Len(got) + 1 /\ got'[Len(got) + 1] = data[opened][Len(got) + 1]
          /\ \A i \in 1..Len(got) : got'[i] = got[i]
      BY <1>0, <2>1, <2>2, AppendProperties
    <2>4. Prefix => Prefix'
      BY <1>0, <2>1, <2>3 DEF Prefix
    <2> QED
      BY <2>1, <2>4 DEF Traced
  <1>4. CASE ReadEnds
    BY <1>4 DEF ReadEnds, Traced, Prefix, Wants
  <1>5. CASE Tick \/ UNCHANGED vars
    BY <1>5 DEF Tick, vars, Traced, Prefix, Wants
  <1>6. CASE Acts
    <2>1. UNCHANGED <<pc, opened, before, got, recent, level>> /\ possible \subseteq possible'
      BY <1>6, ActsDo
    <2>2. ASSUME UNCHANGED <<data, stamp>> PROVE Traced'
      BY <2>1, <2>2 DEF Traced, Prefix, Wants
    <2>3. ASSUME NEW n \in Node, Rewrite(n) PROVE Traced'
      <3>1. stamp' = [stamp EXCEPT ![n] = clock] /\ \E c : data' = [data EXCEPT ![n] = c]
        BY <2>3 DEF Rewrite
      <3>2. CASE n = opened
        <4>1. stamp'[opened] = clock
          BY <1>0, <3>1, <3>2
        <4>2. pc \in {"read", "fstat"} /\ ~recent => before.stamp # clock
          BY <1>0 DEF Stamped, Quiet
        <4> QED
          BY <2>1, <4>1, <4>2 DEF Traced
      <3>3. CASE n # opened
        <4>1. data'[opened] = data[opened] /\ stamp'[opened] = stamp[opened]
          BY <1>0, <3>1, <3>3
        <4> QED
          BY <2>1, <4>1 DEF Traced, Prefix, Wants
      <3> QED
        BY <3>2, <3>3
    <2>4. ASSUME NEW n \in Node, Recycle(n) PROVE Traced'
      <3>1. stamp' = [stamp EXCEPT ![n] = clock] /\ data' = data /\ ~Held(n)
        BY <2>4 DEF Recycle
      <3>2. pc \in {"read", "fstat"} => n # opened
        BY <3>1 DEF Held
      <3>3. n # opened => stamp'[opened] = stamp[opened]
        BY <1>0, <3>1
      <3> QED
        BY <2>1, <3>1, <3>2, <3>3 DEF Traced, Prefix, Wants
    <2> QED
      BY <1>6, <2>2, <2>3, <2>4 DEF Acts, Relink
  <1> QED
    BY <1>1, <1>2, <1>3, <1>4, <1>5, <1>6, StepsAre

\* Every step of the reader keeps what its answer rests on.
LEMMA ReaderStep ==
    ASSUME ReaderInv, [Next]_vars
    PROVE  ReaderInv'
  <1>1. TypeOK'
    <2>1. UNCHANGED vars => TypeOK'
      BY DEF ReaderInv, vars, world, walk, TypeOK
    <2> QED
      BY <2>1, StepTypes, ActTypes, TickTypes DEF ReaderInv, Next, Answered
  <1> QED
    BY <1>1, WitnessStep, QuietKept, CalmKept, StampedKept, TracedKept DEF ReaderInv

\* It starts with nothing seen but what stands under the path.
LEMMA ReaderInit == Init => ReaderInv
  <1> SUFFICES ASSUME Init PROVE ReaderInv
    OBVIOUS
  <1>1. TypeOK /\ possible = Visible
    BY InitTypes DEF Init
  <1>2. pc = "stat" /\ answer = AR!Pending /\ got = <<>> /\ recent = FALSE
    BY DEF Init
  <1>3. Quiet /\ Calm /\ Stamped /\ Traced
    BY <1>2 DEF Quiet, Calm, Stamped, Traced
  <1> QED
    BY <1>1, <1>3 DEF ReaderInv

\* An answer that one instant justifies is one of AtomicRead.
LEMMA AnswersJustified ==
    ASSUME ReaderInv, Answering, NEW a, a # AR!Pending, Finish(a),
           a \in AR!Justified \/ (recent /\ a.is \in {"file", "too large"})
    PROVE  AR!Answer
  <1>1. answer = AR!Pending /\ answer' = a
        /\ UNCHANGED <<kind, child, data, level, here, possible, edits, recent>>
    BY AnsweringDoes DEF ReaderInv, Quiet, Finish, world, walk
  <1>2. Visible' = Visible
    BY <1>1, SeesSame
  <1> QED
    BY <1>1, <1>2 DEF AR!Answer

\* The answers differ from none.
LEMMA AnswersAre ==
    /\ AR!Absent # AR!Pending /\ AR!Irregular # AR!Pending /\ AR!Changed # AR!Pending
    /\ AR!TooLarge # AR!Pending /\ \A c : AR!File(c) # AR!Pending
    /\ AR!Absent.is # "file" /\ AR!Irregular.is # "file"
  BY DEF AR!Absent, AR!Irregular, AR!Changed, AR!TooLarge, AR!Pending, AR!File

\* The bytes that are returned are those of a version that stood under the path.
LEMMA ReturnAnswers ==
    ASSUME ReaderInv, Return
    PROVE  AR!Answer
  <1>0. /\ got \in Seq(Value) /\ Len(got) \in Nat /\ MaxBytes \in Nat
        /\ data[opened] \in Seq(Value) /\ Len(data[opened]) \in Nat
    <2>1. got \in Seq(Value) /\ data[opened] \in Content
      BY DEF ReaderInv, TypeOK
    <2>2. data[opened] \in Seq(Value)
      BY <2>1, ContentIsSeq
    <2> QED
      BY <2>1, <2>2, LenProperties, Bounds
  <1>1. /\ pc = "fstat" /\ stamp[opened] = before.stamp /\ Answering
        /\ Len(got) > MaxBytes => Finish(AR!TooLarge)
        /\ ~(Len(got) > MaxBytes) => Finish(AR!File(got))
    BY DEF Return, State, Answering
  <1>2. CASE recent
    <2>1. AR!TooLarge.is = "too large" /\ \A c : AR!File(c).is = "file"
      BY DEF AR!TooLarge, AR!File
    <2> QED
      BY <1>1, <1>2, <2>1, AnswersAre, AnswersJustified
  <1>3. CASE ~recent
    <2>1. AR!File(data[opened]) \in possible /\ Prefix /\ ~Wants(MaxBytes + 1)
      BY <1>1, <1>3 DEF ReaderInv, Traced
    <2>2. \/ Len(got) > MaxBytes /\ Len(data[opened]) > MaxBytes
          \/ ~(Len(got) > MaxBytes) /\ Len(got) = Len(data[opened])
      BY <1>0, <2>1 DEF Prefix, Wants
    <2>3. CASE Len(got) > MaxBytes /\ Len(data[opened]) > MaxBytes
      <3>1. AR!File(data[opened]).is = "file" /\ ~AR!Fits(AR!File(data[opened]))
        BY <1>0, <2>3 DEF AR!File, AR!Fits
      <3>2. AR!TooLarge \in AR!Justified
        BY <2>1, <3>1 DEF AR!Justified
      <3> QED
        BY <1>1, <2>3, <3>2, AnswersAre, AnswersJustified
    <2>4. CASE ~(Len(got) > MaxBytes) /\ Len(got) = Len(data[opened])
      <3>1. got = data[opened]
        BY <1>0, <2>1, <2>4, SeqEqual DEF Prefix
      <3>2. AR!Fits(AR!File(got))
        BY <1>0, <2>4 DEF AR!File, AR!Fits
      <3>3. AR!File(got) \in AR!Justified
        BY <2>1, <3>1, <3>2 DEF AR!Justified
      <3> QED
        BY <1>1, <2>4, <3>3, AnswersAre, AnswersJustified
    <2> QED
      BY <2>2, <2>3, <2>4
  <1> QED
    BY <1>2, <1>3

\* What is missing or irregular was so at one instant, and a change is not
\* reported without one.
LEMMA RefusalAnswers ==
    ASSUME ReaderInv, StatMissing \/ StatRefused \/ OpenFails \/ RestatDiffers \/ FstatDiffers
    PROVE  AR!Answer
  <1>0. /\ Answering /\ Visible \subseteq possible /\ TypeOK
        /\ Depth \in Nat /\ level \in Nat /\ level <= Depth
    BY Bounds DEF Answering, ReaderInv, TypeOK
  <1>1. CASE StatMissing
    <2>1. child[here] = Nil /\ Finish(AR!Absent)
      BY <1>1 DEF StatMissing, Entry
    <2>2. Ends(level, here) /\ Found(level, here) = AR!Absent
      BY <2>1 DEF Ends, Found, AR!Absent
    <2>3. AR!Absent \in AR!Justified
      BY <1>0, <2>2, SeesEnd, AnswersAre DEF AR!Justified
    <2> QED
      BY <1>0, <2>1, <2>3, AnswersAre, AnswersJustified
  <1>2. CASE StatRefused
    <2>1. child[here] # Nil /\ kind[child[here]] # Wanted(level) /\ Finish(AR!Irregular)
      BY <1>2 DEF StatRefused, Entry
    <2>2. Ends(level, here)
      BY <1>0, <2>1 DEF Ends, Wanted
    <2>3. Found(level, here) = AR!Irregular
      BY <2>1 DEF Found, AR!Irregular
    <2>4. AR!Irregular \in AR!Justified
      BY <1>0, <2>2, <2>3, SeesEnd, AnswersAre DEF AR!Justified
    <2> QED
      BY <1>0, <2>1, <2>4, AnswersAre, AnswersJustified
  <1>3. CASE OpenFails \/ RestatDiffers \/ FstatDiffers
    <2>1. Finish(AR!Changed)
      BY <1>3 DEF OpenFails, RestatDiffers, FstatDiffers
    <2>2. edits # 0
      <3>1. CASE OpenFails
        <4>1. Entry = expected /\ kind[expected] = Wanted(level) => Opens(Entry)
          <5>1. expected \in Node /\ Nil \notin Node
            BY Bounds DEF ReaderInv, TypeOK, Node, Nil
          <5> QED
            BY <5>1 DEF Opens, Wanted
        <4> QED
          BY <3>1, <4>1 DEF OpenFails, ReaderInv, Calm
      <3>2. CASE RestatDiffers
        BY <3>2 DEF RestatDiffers, ReaderInv, Calm
      <3>3. CASE FstatDiffers
        BY <3>3 DEF FstatDiffers, ReaderInv, Calm
      <3> QED
        BY <1>3, <3>1, <3>2, <3>3
    <2>3. AR!Changed \in AR!Justified
      BY <2>2 DEF AR!Justified
    <2> QED
      BY <1>0, <2>1, <2>3, AnswersAre, AnswersJustified
  <1> QED
    BY <1>1, <1>2, <1>3

\* Every step is one of AtomicRead or shows nothing.
LEMMA ReadRefines ==
    ASSUME ReaderInv, [Next]_vars
    PROVE  [AR!Next]_(AR!vars)
  <1>1. CASE Answering
    BY <1>1, ReturnAnswers, RefusalAnswers DEF Answering, AR!Next
  <1>2. CASE Acts
    <2>1. UNCHANGED <<answer, recent>> /\ edits' # 0 /\ possible' = possible \cup Visible'
      BY <1>2, ActsDo DEF ReaderInv
    <2> QED
      BY <2>1 DEF AR!Next, AR!Change
  <1>3. CASE Enter
    <2>1. Visible' = Visible
      BY <1>3, EnterSees DEF ReaderInv
    <2> QED
      BY <1>3, <2>1 DEF Enter, world, AR!vars
  <1>4. CASE Stat \/ Bind \/ Read \/ ReadEnds \/ Tick \/ UNCHANGED vars
    <2>1. /\ UNCHANGED <<kind, child, data, level, here>>
          /\ UNCHANGED <<possible, edits, recent, answer>>
      BY <1>4 DEF Stat, Bind, Read, ReadEnds, Tick, vars, world, walk
    <2>2. Visible' = Visible
      BY <2>1, SeesSame
    <2> QED
      BY <2>1, <2>2 DEF AR!vars
  <1>5. CASE Open
    <2>1. /\ pc = "open" /\ recent' \in BOOLEAN
          /\ UNCHANGED <<kind, child, data, level, here, possible, edits, answer>>
      BY <1>5 DEF Open, Goto, world
    <2>2. Visible' = Visible
      BY <2>1, SeesSame
    <2>3. recent = FALSE /\ answer = AR!Pending
      BY <2>1 DEF ReaderInv, TypeOK, Quiet
    <2>4. CASE recent' = TRUE
      BY <2>1, <2>2, <2>3, <2>4 DEF AR!Next, AR!OpenRecent
    <2>5. CASE recent' = FALSE
      BY <2>1, <2>2, <2>3, <2>5 DEF AR!vars
    <2> QED
      BY <2>1, <2>4, <2>5
  <1> QED
    BY <1>1, <1>2, <1>3, <1>4, <1>5, StepsAre

\* The bounded read answers what stood under the path at one instant of the
\* call, whatever others do meanwhile, and reports a change only if there was
\* one (read_regular_file_bounded, lines 584-653).
THEOREM ReadIsAtomic == Spec => ImplementsAtomicRead
  <1>1. Init => AR!Init
    BY DEF Init, AR!Init
  <1> QED
    BY <1>1, ReaderInit, ReaderStep, ReadRefines, PTL DEF Spec, ImplementsAtomicRead, AR!Spec

-----------------------------------------------------------------------------
\* The captions

\* A cue that is where the audio is: Follows says this of every cue.
CueFollows(cues, i) ==
    /\ 2 * Distance(cues[i].start * Milli, Start(i)) <= (2 * Tolerance + i - 1) * Milli
    /\ 2 * Distance(cues[i].end * Milli, End(i)) <= (2 * Tolerance + i) * Milli

\* The receipt gives the length of every segment to the millisecond.
ReceiptRounds == \A i \in Segment : receipt[i] \in Roundings(talk.length[i])

\* Every verification starts at the first cue.
Fresh == stage \in {"receipt", "captions"} => at = 1 /\ expectedStart = 0 /\ reason = "none"

\* The expected start is off by half a millisecond for each duration summed,
\* and what was compared with it follows the audio.
Position ==
    stage = "verify" =>
        /\ 2 * Distance(expectedStart * Milli, Start(at)) <= (at - 1) * Milli
        /\ Len(payload) = N
        /\ \A i \in 1..at-1 : CueFollows(payload, i)

\* What has been verified and kept follows the audio.
Verified ==
    /\ stage \in {"snapshot", "ok"} => Follows(payload)
    /\ snapshot # <<>> => Follows(snapshot)

\* Holds of every reachable state, and of the successors of every state it
\* holds of.
CaptionsInv ==
    /\ CaptionsTypeOK /\ Fresh /\ ReceiptRounds /\ Position /\ Verified
    /\ SnapshotIsVerified /\ HonestCaptionsPass

-----------------------------------------------------------------------------
\* Arithmetic

\* Milliseconds that are no more are no more ticks, and the other way round.
LEMMA TicksMonotonic ==
    ASSUME NEW a \in Int, NEW b \in Int
    PROVE  a <= b <=> a * Milli <= b * Milli
  <1>1. Milli \in Nat /\ Milli > 0
    BY CaptionsAssumption
  <1>2. ASSUME a <= b PROVE a * Milli <= b * Milli
    <2>1. (b - a) * Milli >= 0
      BY <1>1, <1>2
    <2> QED
      BY <1>1, <2>1
  <1>3. ASSUME b < a PROVE b * Milli < a * Milli
    <2>1. (a - b) * Milli > 0
      BY <1>1, <1>3
    <2> QED
      BY <1>1, <2>1
  <1> QED
    BY <1>1, <1>2, <1>3

\* The ticks of a sum.
LEMMA TicksAdd ==
    ASSUME NEW a \in Int, NEW b \in Int
    PROVE  (a + b) * Milli = a * Milli + b * Milli /\ a * Milli \in Int
  BY CaptionsAssumption

\* The ticks of a difference.
LEMMA TicksSubtract ==
    ASSUME NEW a \in Int, NEW b \in Int
    PROVE  (a - b) * Milli = a * Milli - b * Milli
  BY CaptionsAssumption

\* What is rounded is off by half a millisecond at most.
LEMMA RoundingError ==
    ASSUME NEW ticks \in Nat, NEW ms \in Roundings(ticks)
    PROVE  ms \in Nat /\ 2 * Distance(ms * Milli, ticks) <= Milli
  <1>1. ms \in Nat /\ 2 * (ms * Milli - ticks) \in -Milli..Milli
    BY DEF Roundings
  <1>2. ms * Milli \in Int /\ Milli \in Nat
    BY <1>1, CaptionsAssumption
  <1> QED
    BY <1>1, <1>2 DEF Distance

\* A position is off by at most what its parts are off together.
LEMMA ErrorsAdd ==
    ASSUME NEW a \in Int, NEW b \in Int, NEW x \in Int, NEW y \in Int,
           NEW e \in Int, NEW f \in Int,
           2 * Distance(a, x) <= e, 2 * Distance(b, y) <= f
    PROVE  2 * Distance(a + b, x + y) <= e + f
  BY DEF Distance

\* A narration is gapless but for the gaps.
LEMMA TalkType ==
    ASSUME talk \in Talks, NEW i \in Segment
    PROVE  /\ talk.length[i] \in Nat /\ Start(i) \in Nat /\ End(i) \in Nat
           /\ i \in Int /\ i <= N /\ N \in Int
           /\ End(i) = Start(i) + talk.length[i]
           /\ i < N => Start(i + 1) = End(i) + Gap * Milli
  <1>1. i \in Int /\ i <= N /\ N \in Int /\ i \in 1..N
    BY CaptionsAssumption DEF Segment
  <1>2. talk.length[i] \in Nat /\ talk.start[i] \in Nat
    BY CaptionsAssumption
  <1>3. i < N => talk.start[i + 1] = talk.start[i] + talk.length[i] + Gap * Milli
    BY <1>1, CaptionsAssumption
  <1> QED
    BY <1>1, <1>2, <1>3 DEF Start, End

\* As many cues as there are segments are a sequence of cues.
LEMMA FunctionIsSeq ==
    ASSUME NEW S, NEW n \in Nat, NEW f \in [1..n -> S]
    PROVE  f \in Seq(S)
  OBVIOUS

\* The initial states satisfy the invariant.
LEMMA CaptionsInitHolds == CaptionsInit => CaptionsInv
  <1> SUFFICES ASSUME CaptionsInit PROVE CaptionsInv
    OBVIOUS
  <1> USE DEF CaptionsInit
  <1>1. ReceiptRounds
    BY DEF ReceiptRounds
  <1>2. receipt \in [Segment -> Nat]
    BY <1>1, TalkType, RoundingError DEF ReceiptRounds
  <1>3. file \in Seq(Cue)
    <2>1. PICK lean \in {-1, 1} :
             file \in [Segment -> UNION {[start : Nearest(Start(i), lean),
                                          end : Nearest(End(i), lean)] : i \in Segment}]
      OBVIOUS
    <2>2. ASSUME NEW i \in Segment
          PROVE  [start : Nearest(Start(i), lean), end : Nearest(End(i), lean)] \subseteq Cue
      BY DEF Nearest, Roundings, Cue
    <2>3. UNION {[start : Nearest(Start(i), lean), end : Nearest(End(i), lean)] :
                    i \in Segment} \subseteq Cue
      BY <2>2, Zenon
    <2>4. file \in [1..N -> Cue] /\ N \in Nat
      BY <2>1, <2>3, CaptionsAssumption DEF Segment
    <2> QED
      BY <2>4, FunctionIsSeq
  <1>4. CaptionsTypeOK
    <2>1. /\ <<>> \in Seq(Cue)
          /\ 1 \in 1..N+1 /\ 0 \in 0..MaxChanges /\ 0 \in 0..MaxRuns /\ 0 \in 0..MaxFaults
      BY CaptionsAssumption
    <2> QED
      BY <1>2, <1>3, <2>1 DEF CaptionsTypeOK
  <1>5. Fresh /\ Position /\ Verified /\ SnapshotIsVerified /\ HonestCaptionsPass
    BY DEF Fresh, Position, Verified, SnapshotIsVerified, HonestCaptionsPass
  <1> QED
    BY <1>1, <1>4, <1>5 DEF CaptionsInv

\* What the verification looks at.
LEMMA CueTypes ==
    ASSUME CaptionsTypeOK, stage = "verify", Len(payload) = N
    PROVE  /\ at \in Segment /\ expectedStart \in Nat /\ receipt[at] \in Nat
           /\ payload[at].start \in Nat /\ payload[at].end \in Nat
           /\ ExpectedEnd \in Nat
  <1>1. /\ at \in 1..N+1 /\ at <= N /\ payload \in Seq(Cue)
        /\ receipt \in [Segment -> Nat] /\ expectedStart \in Nat
    BY DEF CaptionsTypeOK
  <1>2. at \in 1..N
    BY <1>1, CaptionsAssumption
  <1>3. payload[at] \in Cue
    BY <1>1, <1>2
  <1>4. receipt[at] \in Nat
    BY <1>1, <1>2 DEF Segment
  <1> QED
    BY <1>1, <1>2, <1>3, <1>4 DEF Segment, Cue, ExpectedEnd

\* The expected end of the cue at hand is off by half a millisecond more than
\* its start.
LEMMA EndPosition ==
    ASSUME CaptionsTypeOK, ReceiptRounds, Position, stage = "verify"
    PROVE  /\ 2 * Distance(ExpectedEnd * Milli, End(at)) <= at * Milli
           /\ at < N => 2 * Distance((ExpectedEnd + Gap) * Milli, Start(at + 1)) <= at * Milli
  <1>1. /\ at \in Segment /\ expectedStart \in Nat /\ receipt[at] \in Nat
        /\ ExpectedEnd \in Nat /\ at \in Int
    BY CueTypes DEF Position, Segment
  <1>2. /\ talk.length[at] \in Nat /\ Start(at) \in Nat
        /\ End(at) = Start(at) + talk.length[at]
        /\ at < N => Start(at + 1) = End(at) + Gap * Milli
    BY <1>1, TalkType DEF CaptionsTypeOK
  <1>3. 2 * Distance(receipt[at] * Milli, talk.length[at]) <= Milli
    BY <1>1, <1>2, RoundingError DEF ReceiptRounds
  <1>4. 2 * Distance(expectedStart * Milli, Start(at)) <= (at - 1) * Milli
    BY DEF Position
  <1>5. ExpectedEnd * Milli = expectedStart * Milli + receipt[at] * Milli
    <2>1. expectedStart \in Int /\ receipt[at] \in Int
      BY <1>1
    <2> QED
      BY <2>1, TicksAdd DEF ExpectedEnd
  <1>6. /\ expectedStart * Milli \in Int /\ receipt[at] * Milli \in Int
        /\ Milli \in Int /\ (at - 1) * Milli \in Int /\ at * Milli = (at - 1) * Milli + Milli
    BY <1>1, CaptionsAssumption
  <1>7. 2 * Distance(ExpectedEnd * Milli, End(at)) <= at * Milli
    BY <1>2, <1>3, <1>4, <1>5, <1>6, ErrorsAdd
  <1>8. /\ (ExpectedEnd + Gap) * Milli = ExpectedEnd * Milli + Gap * Milli
        /\ ExpectedEnd * Milli \in Int /\ Gap * Milli \in Int
    BY <1>1, TicksAdd, CaptionsAssumption
  <1>9. ASSUME at < N
        PROVE  2 * Distance((ExpectedEnd + Gap) * Milli, Start(at + 1)) <= at * Milli
    <2>1. Start(at + 1) = End(at) + Gap * Milli /\ End(at) \in Int
      BY <1>2, <1>9
    <2> QED
      BY <1>7, <1>8, <2>1 DEF Distance
  <1> QED
    BY <1>7, <1>9

\* Distances in ticks are distances in milliseconds.
LEMMA TicksDistance ==
    ASSUME NEW a \in Int, NEW b \in Int
    PROVE  /\ Distance(a, b) \in Nat
           /\ Distance(a * Milli, b * Milli) = Distance(a, b) * Milli
  <1>1. a * Milli \in Int /\ b * Milli \in Int
    BY CaptionsAssumption
  <1>2. CASE a < b
    <2>1. a * Milli < b * Milli
      BY <1>1, <1>2, TicksMonotonic
    <2> QED
      BY <1>2, <2>1, TicksSubtract DEF Distance
  <1>3. CASE ~(a < b)
    <2>1. ~(a * Milli < b * Milli)
      BY <1>1, <1>3, TicksMonotonic
    <2> QED
      BY <1>3, <2>1, TicksSubtract DEF Distance
  <1> QED
    BY <1>2, <1>3

\* An end of a cue that is within the tolerance of where it is expected is as
\* near to the audio, but for the error of the expectation.
LEMMA NearFollows ==
    ASSUME NEW c \in Nat, NEW e \in Nat, NEW x \in Nat, NEW d \in Int, NEW n \in Int,
           Distance(c, e) <= d, 2 * Distance(e * Milli, x) <= n * Milli
    PROVE  2 * Distance(c * Milli, x) <= (2 * d + n) * Milli
  <1>1. Distance(c * Milli, e * Milli) = Distance(c, e) * Milli /\ Distance(c, e) \in Int
    BY TicksDistance
  <1>2. Distance(c, e) * Milli <= d * Milli
    BY <1>1, TicksMonotonic
  <1>3. /\ c * Milli \in Int /\ e * Milli \in Int /\ d * Milli \in Int /\ n * Milli \in Int
        /\ (2 * d + n) * Milli = 2 * (d * Milli) + n * Milli
    BY CaptionsAssumption
  <1> QED
    BY <1>1, <1>2, <1>3 DEF Distance

\* An end of a cue that is rounded from the audio is near where it is expected,
\* but for the error of the expectation.
LEMMA RoundedNear ==
    ASSUME NEW x \in Nat, NEW c \in Roundings(x), NEW e \in Nat, NEW n \in Int,
           2 * Distance(e * Milli, x) <= n * Milli
    PROVE  2 * Distance(c, e) <= n + 1
  <1>1. c \in Nat /\ 2 * Distance(c * Milli, x) <= Milli
    BY RoundingError
  <1>2. /\ c * Milli \in Int /\ e * Milli \in Int /\ n * Milli \in Int /\ Milli \in Int
        /\ (n + 1) * Milli = n * Milli + Milli
    BY <1>1, CaptionsAssumption
  <1>3. 2 * Distance(c * Milli, e * Milli) <= (n + 1) * Milli
    BY <1>1, <1>2 DEF Distance
  <1>4. Distance(c * Milli, e * Milli) = Distance(c, e) * Milli /\ Distance(c, e) \in Int
    BY <1>1, TicksDistance
  <1>5. (2 * Distance(c, e)) * Milli = 2 * (Distance(c, e) * Milli)
    BY <1>4, CaptionsAssumption
  <1>6. (2 * Distance(c, e)) * Milli <= (n + 1) * Milli
    BY <1>3, <1>4, <1>5
  <1> QED
    BY <1>4, <1>6, TicksMonotonic

-----------------------------------------------------------------------------
\* Types

\* An edit leaves cues behind.
LEMMA RevisionTypes ==
    ASSUME NEW cues \in Seq(Cue), NEW r \in Revisions(cues)
    PROVE  r \in Seq(Cue)
  <1> DEFINE T == [start : Int, end : Int]
  <1>1. ASSUME NEW i \in 1..Len(cues), NEW c \in T, r = [cues EXCEPT ![i] = c],
               \A k \in 1..Len(r) : r[k].start >= 0 /\ r[k].end >= 0
        PROVE  r \in Seq(Cue)
    <2>1. cues \in Seq(T)
      <3>1. Cue \subseteq T
        BY DEF Cue
      <3> QED
        BY <3>1, SeqMonotonic
    <2> HIDE DEF T
    <2>2. r \in Seq(T)
      BY <1>1, <2>1, ExceptSeq
    <2>3. Len(r) \in Nat /\ r \in [1..Len(r) -> T]
      BY <2>2, LenProperties
    <2>4. ASSUME NEW k \in 1..Len(r) PROVE r[k] \in Cue
      <3>1. r[k] \in T
        BY <2>3
      <3> QED
        BY <1>1, <3>1 DEF T, Cue
    <2>5. r \in [1..Len(r) -> Cue]
      BY <2>3, <2>4
    <2> QED
      BY <2>3, <2>5, FunctionIsSeq
  <1>2. ASSUME NEW i \in 1..Len(cues), NEW o \in Offsets
        PROVE  /\ [cues[i] EXCEPT !.start = @ + o] \in T
               /\ [cues[i] EXCEPT !.end = @ + o] \in T
    <2>1. cues[i] \in Cue /\ o \in Int
      BY CaptionsAssumption
    <2>2. PICK a \in Nat, b \in Nat : cues[i] = [start |-> a, end |-> b]
      BY <2>1 DEF Cue
    <2> QED
      BY <2>1, <2>2
  <1>3. ASSUME NEW n \in {m \in 1..N : m + 1 = Len(cues)}
        PROVE  SubSeq(cues, 1, n) \in Seq(Cue)
    <2>1. 1 \in Int /\ n \in Int /\ Len(cues) \in Nat /\ n < Len(cues)
      BY CaptionsAssumption
    <2>2. \A i \in 1..n : cues[i] \in Cue
      BY <2>1
    <2> QED
      BY <2>1, <2>2, SubSeqProperties
  <1>4. CASE \E n \in {m \in 1..N : m + 1 = Len(cues)} : r = SubSeq(cues, 1, n)
    BY <1>3, <1>4
  <1>5. CASE /\ \A k \in 1..Len(r) : r[k].start >= 0 /\ r[k].end >= 0
             /\ \E i \in 1..Len(cues), o \in Offsets :
                   \/ r = [cues EXCEPT ![i].start = @ + o]
                   \/ r = [cues EXCEPT ![i].end = @ + o]
    <2>1. PICK i \in 1..Len(cues), o \in Offsets :
             \/ r = [cues EXCEPT ![i].start = @ + o]
             \/ r = [cues EXCEPT ![i].end = @ + o]
      BY <1>5
    <2>2. \E c \in T : r = [cues EXCEPT ![i] = c]
      BY <1>2, <2>1
    <2> QED
      BY <1>1, <1>5, <2>2
  <1> QED
    BY <1>4, <1>5 DEF Revisions

\* A step that changes neither the narration nor its receipt and keeps the rest
\* in its range.
LEMMA CaptionsFrame ==
    ASSUME CaptionsTypeOK, UNCHANGED inputs,
           file' \in Seq(Cue), payload' \in Seq(Cue), snapshot' \in Seq(Cue),
           stage' \in {"idle", "receipt", "captions", "verify", "snapshot", "ok", "failed"},
           keep' \in BOOLEAN, at' \in 1..N+1, expectedStart' \in Nat,
           stage' = "verify" => at' <= N,
           reason' \in {"none", "unreadable", "interval", "count", "duration",
                        "too long", "mismatch", "not written"},
           changes' \in 0..MaxChanges, runs' \in 0..MaxRuns, faults' \in 0..MaxFaults
    PROVE  CaptionsTypeOK'
  BY DEF CaptionsTypeOK, inputs

\* So does every refusal.
LEMMA RefuseTypes ==
    ASSUME CaptionsTypeOK, UNCHANGED <<changes, runs>>, faults' \in 0..MaxFaults,
           NEW why \in {"unreadable", "interval", "count", "duration", "too long",
                        "mismatch", "not written"},
           Refuse(why)
    PROVE  CaptionsTypeOK'
  <1>1. UNCHANGED <<inputs, file, keep, payload, at, expectedStart, snapshot, changes, runs>>
    BY DEF Refuse
  <1>2. stage' = "failed" /\ reason' = why
    BY DEF Refuse
  <1> QED
    BY <1>1, <1>2 DEF CaptionsTypeOK, inputs

\* Every step keeps every variable in its range.
LEMMA CaptionsTypeStep ==
    ASSUME CaptionsTypeOK, Fresh, [CaptionsNext]_captionsVars
    PROVE  CaptionsTypeOK'
  <1>0. N \in Nat \ {0} /\ MaxChanges \in Nat /\ MaxRuns \in Nat /\ MaxFaults \in Nat
    BY CaptionsAssumption
  <1>1. CASE Begin
    <2>1. runs \in 0..MaxRuns /\ runs < MaxRuns /\ runs' = runs + 1
      BY <1>1 DEF Begin, CaptionsTypeOK
    <2>2. <<>> \in Seq(Cue) /\ runs' \in 0..MaxRuns /\ 1 \in 1..N+1
      BY <1>0, <2>1
    <2> QED
      BY <1>1, <2>2 DEF Begin, CaptionsTypeOK, inputs
  <1>2. CASE ReadReceipt /\ UNCHANGED <<changes, runs, faults>>
    BY <1>2 DEF ReadReceipt, Proceed, CaptionsTypeOK, inputs
  <1>3. CASE ReadCaptions /\ UNCHANGED <<changes, runs, faults>>
    <2>1. /\ stage' = "verify" /\ payload' = file /\ at = 1
          /\ UNCHANGED <<inputs, file, keep, at, expectedStart, reason, snapshot>>
      BY <1>3 DEF ReadCaptions, Proceed, Fresh
    <2>2. at' \in 1..N+1 /\ at' <= N
      BY <1>0, <2>1
    <2> QED
      BY <1>3, <2>1, <2>2 DEF CaptionsTypeOK, inputs
  <1>4. CASE Match /\ UNCHANGED <<changes, runs, faults>>
    <2>1. /\ stage = "verify" /\ at \in 1..N+1 /\ at <= N /\ expectedStart \in Nat
          /\ receipt \in [Segment -> Nat]
      BY <1>4 DEF Match, CaptionsTypeOK
    <2>2. ExpectedEnd \in Nat /\ Gap \in Nat
      BY <1>0, <2>1, CaptionsAssumption DEF ExpectedEnd, Segment
    <2>3. /\ at' = at + 1 /\ expectedStart' = ExpectedEnd + Gap
          /\ stage' \in {"verify", "snapshot", "ok"} /\ (stage' = "verify" => at < N)
      BY <1>4 DEF Match
    <2>4. at' \in 1..N+1 /\ expectedStart' \in Nat /\ (stage' = "verify" => at' <= N)
      BY <1>0, <2>1, <2>2, <2>3
    <2>5. UNCHANGED <<talk, receipt, file, keep, payload, reason, snapshot, changes, runs, faults>>
      BY <1>4 DEF Match, inputs
    <2> QED
      BY <2>3, <2>4, <2>5 DEF CaptionsTypeOK
  <1>5. CASE Snapshot /\ UNCHANGED <<changes, runs, faults>>
    BY <1>5 DEF Snapshot, Proceed, CaptionsTypeOK, inputs
  <1>6. CASE /\ CaptionsRefused \/ BadDuration \/ TooLong \/ Mismatch \/ SnapshotRefused
             /\ UNCHANGED <<changes, runs, faults>>
    <2>1. \E why \in {"interval", "count", "duration", "too long", "mismatch",
                      "not written"} : Refuse(why)
      BY <1>6 DEF CaptionsRefused, BadDuration, TooLong, Mismatch, SnapshotRefused
    <2>2. faults' \in 0..MaxFaults
      BY <1>6 DEF CaptionsTypeOK
    <2> QED
      BY <1>6, <2>1, <2>2, RefuseTypes
  <1>7. CASE Fault
    <2>1. faults' \in 0..MaxFaults /\ UNCHANGED <<changes, runs>>
      <3>1. /\ faults \in 0..MaxFaults /\ faults < MaxFaults /\ faults' = faults + 1
            /\ UNCHANGED <<changes, runs>>
        BY <1>7 DEF Fault, CaptionsTypeOK
      <3> QED
        BY <1>0, <3>1
    <2>2. Refuse("not written") \/ Refuse("unreadable")
      BY <1>7 DEF Fault
    <2> QED
      BY <2>1, <2>2, RefuseTypes
  <1>8. CASE Edit
    <2>1. file' \in Seq(Cue) /\ changes' \in 0..MaxChanges
      <3>1. /\ changes \in 0..MaxChanges /\ changes < MaxChanges /\ changes' = changes + 1
            /\ file \in Seq(Cue) /\ file' \in Revisions(file)
        BY <1>8 DEF Edit, CaptionsTypeOK
      <3> QED
        BY <1>0, <3>1, RevisionTypes
    <2> QED
      BY <1>8, <2>1 DEF Edit, CaptionsTypeOK, inputs
  <1>9. CASE UNCHANGED captionsVars
    BY <1>9 DEF captionsVars, CaptionsTypeOK, inputs
  <1> QED
    BY <1>1, <1>2, <1>3, <1>4, <1>5, <1>6, <1>7, <1>8, <1>9
       DEF CaptionsNext, Verify, Ended

-----------------------------------------------------------------------------
\* Steps

\* What Follows says of all cues, it says of each.
LEMMA FollowsCues ==
    ASSUME NEW cues
    PROVE  Follows(cues) <=> Len(cues) = N /\ \A i \in Segment : CueFollows(cues, i)
  BY DEF Follows, CueFollows

\* A refusal for anything but a mismatch proves nothing wrong.
LEMMA RefuseKeeps ==
    ASSUME CaptionsInv, NEW why, why # "mismatch", Refuse(why)
    PROVE  (Fresh /\ ReceiptRounds /\ Position /\ Verified
            /\ SnapshotIsVerified /\ HonestCaptionsPass)'
  <1>1. stage' = "failed" /\ reason' = why /\ UNCHANGED <<inputs, snapshot>>
    BY DEF Refuse
  <1> QED
    BY <1>1 DEF CaptionsInv, inputs, Fresh, ReceiptRounds, Position, Verified, Follows, Segment,
           Start, End, Roundings, SnapshotIsVerified, HonestCaptionsPass

\* A cue that matches is one that follows the audio.
LEMMA MatchFollows ==
    ASSUME CaptionsInv, Match
    PROVE  CueFollows(payload, at)
  <1>1. stage = "verify" /\ Near(Tolerance)
    BY DEF Match
  <1>2. /\ CaptionsTypeOK /\ ReceiptRounds /\ Position /\ Len(payload) = N
        /\ 2 * Distance(expectedStart * Milli, Start(at)) <= (at - 1) * Milli
    BY <1>1 DEF CaptionsInv, Position
  <1>3. /\ at \in Segment /\ expectedStart \in Nat /\ ExpectedEnd \in Nat
        /\ payload[at].start \in Nat /\ payload[at].end \in Nat
    BY <1>1, <1>2, CueTypes
  <1>4. /\ Start(at) \in Nat /\ End(at) \in Nat
        /\ at \in Int /\ at - 1 \in Int /\ Tolerance \in Int
    <2>1. talk \in Talks /\ Tolerance \in Int
      <3>1. talk \in Talks
        BY <1>2 DEF CaptionsTypeOK
      <3> QED
        BY <3>1, CaptionsAssumption
    <2>2. at \in Int /\ Start(at) \in Nat /\ End(at) \in Nat
      BY <1>3, <2>1, TalkType
    <2> QED
      BY <2>1, <2>2
  <1>5. 2 * Distance(payload[at].start * Milli, Start(at)) <= (2 * Tolerance + (at - 1)) * Milli
    <2>1. Distance(payload[at].start, expectedStart) <= Tolerance
      BY <1>1 DEF Near
    <2> QED
      BY <1>2, <1>3, <1>4, <2>1, NearFollows
  <1>6. 2 * Distance(payload[at].end * Milli, End(at)) <= (2 * Tolerance + at) * Milli
    <2>1. 2 * Distance(ExpectedEnd * Milli, End(at)) <= at * Milli
      BY <1>1, <1>2, EndPosition
    <2> QED
      BY <1>1, <1>3, <1>4, <2>1, NearFollows DEF Near
  <1>7. 2 * Tolerance + (at - 1) = 2 * Tolerance + at - 1
    BY <1>4
  <1> QED
    BY <1>5, <1>6, <1>7 DEF CueFollows

\* A cue rounded from the audio is near where it is expected as long as there
\* are few segments for the tolerance.
LEMMA HonestNear ==
    ASSUME CaptionsInv, stage = "verify", Honest(payload), N + 1 < 2 * Tolerance
    PROVE  Near(Tolerance - 1)
  <1>1. /\ CaptionsTypeOK /\ ReceiptRounds /\ Position /\ Len(payload) = N
        /\ 2 * Distance(expectedStart * Milli, Start(at)) <= (at - 1) * Milli
    BY DEF CaptionsInv, Position
  <1>2. /\ at \in Segment /\ expectedStart \in Nat /\ ExpectedEnd \in Nat
        /\ payload[at].start \in Nat /\ payload[at].end \in Nat
    BY <1>1, CueTypes
  <1>3. /\ Start(at) \in Nat /\ End(at) \in Nat
        /\ at \in Int /\ at <= N /\ N \in Int /\ Tolerance \in Int
    <2>1. talk \in Talks /\ Tolerance \in Int
      <3>1. talk \in Talks
        BY <1>1 DEF CaptionsTypeOK
      <3> QED
        BY <3>1, CaptionsAssumption
    <2>2. /\ at \in Int /\ at <= N /\ N \in Int
          /\ Start(at) \in Nat /\ End(at) \in Nat
      BY <1>2, <2>1, TalkType
    <2> QED
      BY <2>1, <2>2
  <1>4. /\ payload[at].start \in Roundings(Start(at))
        /\ payload[at].end \in Roundings(End(at))
    BY <1>2 DEF Honest
  <1>5. 2 * Distance(payload[at].start, expectedStart) <= (at - 1) + 1
    BY <1>1, <1>2, <1>3, <1>4, RoundedNear
  <1>6. 2 * Distance(payload[at].end, ExpectedEnd) <= at + 1
    <2>1. 2 * Distance(ExpectedEnd * Milli, End(at)) <= at * Milli
      BY <1>1, EndPosition
    <2> QED
      BY <1>2, <1>3, <1>4, <2>1, RoundedNear
  <1>7. /\ Distance(payload[at].start, expectedStart) \in Nat
        /\ Distance(payload[at].end, ExpectedEnd) \in Nat
    <2>1. /\ payload[at].start \in Int /\ payload[at].end \in Int
          /\ expectedStart \in Int /\ ExpectedEnd \in Int
      BY <1>2
    <2> QED
      BY <2>1, TicksDistance
  <1> QED
    BY <1>3, <1>5, <1>6, <1>7 DEF Near

\* Every step of a verification or of others keeps the invariant.
LEMMA StepKeeps ==
    ASSUME CaptionsInv, CaptionsTypeOK', [CaptionsNext]_captionsVars
    PROVE  CaptionsInv'
  <1> DEFINE Rest == /\ Fresh /\ ReceiptRounds /\ Position /\ Verified
                     /\ SnapshotIsVerified /\ HonestCaptionsPass
  <1>0. SUFFICES Rest'
    BY DEF CaptionsInv
  <1> USE DEF CaptionsInv
  <1>1. UNCHANGED inputs => ReceiptRounds'
    BY DEF inputs, ReceiptRounds, Roundings
  <1>2. UNCHANGED inputs => \A cues : Follows(cues) => Follows(cues)'
    BY DEF inputs, Follows, Start, End
  <1>3. CASE Begin
    <2>1. /\ stage' = "receipt" /\ at' = 1 /\ expectedStart' = 0 /\ reason' = "none"
          /\ UNCHANGED <<inputs, snapshot>>
      BY <1>3 DEF Begin
    <2> QED
      BY <1>1, <2>1 DEF Fresh, Position, Verified, Follows, Start, End, inputs,
                        SnapshotIsVerified, HonestCaptionsPass
  <1>4. CASE ReadReceipt
    <2>1. /\ stage = "receipt" /\ stage' = "captions"
          /\ UNCHANGED <<inputs, payload, at, expectedStart, reason, snapshot>>
      BY <1>4 DEF ReadReceipt, Proceed
    <2> QED
      BY <1>1, <2>1 DEF Fresh, Position, Verified, Follows, Start, End, inputs,
                        SnapshotIsVerified, HonestCaptionsPass, Honest, Roundings
  <1>5. CASE ReadCaptions
    <2>1. /\ stage = "captions" /\ stage' = "verify" /\ payload' = file /\ Len(file) = N
          /\ UNCHANGED <<inputs, at, expectedStart, reason, snapshot>>
      BY <1>5 DEF ReadCaptions, Proceed
    <2>2. at = 1 /\ expectedStart = 0 /\ reason = "none"
      BY <2>1 DEF Fresh
    <2>3. Start(1) = 0
      BY CaptionsAssumption DEF CaptionsTypeOK, Start
    <2>4. 0 * Milli = 0 /\ (1 - 1) * Milli = 0 /\ 2 * Distance(0, 0) <= 0
      BY CaptionsAssumption DEF Distance
    <2>5. Position'
      BY <2>1, <2>2, <2>3, <2>4 DEF Position, Start, inputs
    <2> QED
      BY <1>1, <2>1, <2>2, <2>5 DEF Fresh, Verified, Follows, Start, End, inputs,
                              SnapshotIsVerified, HonestCaptionsPass
  <1>6. CASE Match
    <2>1. /\ stage = "verify" /\ at' = at + 1 /\ expectedStart' = ExpectedEnd + Gap
          /\ stage' = IF at < N THEN "verify" ELSE IF keep THEN "snapshot" ELSE "ok"
          /\ UNCHANGED <<inputs, keep, payload, reason, snapshot>>
      BY <1>6 DEF Match
    <2>2. /\ Len(payload) = N /\ at \in Int /\ N \in Nat /\ at \in 1..N
          /\ \A i \in 1..at-1 : CueFollows(payload, i)
      BY <2>1, CueTypes, CaptionsAssumption DEF Position, Segment
    <2>3. \A i \in 1..at : CueFollows(payload, i)
      BY <1>6, <2>2, MatchFollows
    <2>4. (Follows(payload) /\ stage' # "verify") \/ (at < N /\ stage' = "verify")
      <3>1. CASE at < N
        BY <2>1, <3>1
      <3>2. CASE ~(at < N)
        <4>1. at = N /\ stage' # "verify"
          BY <2>1, <2>2, <3>2
        <4>2. \A i \in Segment : CueFollows(payload, i)
          BY <2>3, <4>1 DEF Segment
        <4> QED
          BY <2>2, <4>1, <4>2, FollowsCues
      <3> QED
        BY <3>1, <3>2
    <2>5. Position'
      <3> SUFFICES ASSUME stage' = "verify" PROVE Position'
        BY DEF Position
      <3>1. 2 * Distance((ExpectedEnd + Gap) * Milli, Start(at + 1)) <= at * Milli
        BY <2>1, <2>4, EndPosition
      <3>2. at' - 1 = at
        BY <2>1, <2>2
      <3> QED
        BY <2>1, <2>2, <2>3, <3>1, <3>2 DEF Position, CueFollows, Start, End, inputs
    <2>6. Verified'
      BY <2>1, <2>4 DEF Verified, Follows, Start, End, inputs
    <2>7. Fresh' /\ SnapshotIsVerified' /\ HonestCaptionsPass'
      BY <2>1 DEF Fresh, SnapshotIsVerified, HonestCaptionsPass, Honest, Roundings,
                  Start, End, inputs
    <2> QED
      BY <1>1, <2>1, <2>5, <2>6, <2>7
  <1>7. CASE Snapshot
    <2>1. /\ stage = "snapshot" /\ stage' = "ok" /\ snapshot' = payload
          /\ UNCHANGED <<inputs, keep, payload, reason>>
      BY <1>7 DEF Snapshot, Proceed
    <2> QED
      BY <1>1, <2>1 DEF Fresh, Position, Verified, Follows, Start, End, inputs,
                        SnapshotIsVerified, HonestCaptionsPass, Honest, Roundings
  <1>8. CASE CaptionsRefused \/ BadDuration \/ TooLong \/ SnapshotRefused \/ Fault
    <2>1. \E why \in {"unreadable", "interval", "count", "duration", "too long",
                      "not written"} : Refuse(why)
      BY <1>8 DEF CaptionsRefused, BadDuration, TooLong, SnapshotRefused, Fault
    <2> QED
      BY <2>1, RefuseKeeps
  <1>9. CASE Mismatch
    <2>1. /\ stage = "verify" /\ ~Near(Tolerance - 1) /\ stage' = "failed"
          /\ UNCHANGED <<inputs, payload, snapshot>>
      BY <1>9 DEF Mismatch, Refuse
    <2>2. ~(N + 1 < 2 * Tolerance /\ Honest(payload))
      BY <2>1, HonestNear
    <2>3. HonestCaptionsPass'
      BY <2>1, <2>2 DEF HonestCaptionsPass, Honest, Roundings, Start, End, inputs
    <2> QED
      BY <1>1, <2>1, <2>3 DEF Fresh, Position, Verified, Follows, Start, End, inputs,
                              SnapshotIsVerified
  <1>10. CASE UNCHANGED <<inputs, stage, keep, payload, at, expectedStart, reason, snapshot>>
    BY <1>1, <1>10 DEF Fresh, Position, CueFollows, Verified, Follows, Start, End, inputs,
                       SnapshotIsVerified, HonestCaptionsPass, Honest, Roundings
  <1>11. Edit \/ UNCHANGED captionsVars
         => UNCHANGED <<inputs, stage, keep, payload, at, expectedStart, reason, snapshot>>
    BY DEF Edit, captionsVars, inputs
  <1> QED
    BY <1>3, <1>4, <1>5, <1>6, <1>7, <1>8, <1>9, <1>10, <1>11 DEF CaptionsNext, Verify, Ended

\* The invariant holds throughout.
THEOREM CaptionsInvariance == CaptionsSpec => []CaptionsInv
  <1>1. ASSUME CaptionsInv, [CaptionsNext]_captionsVars PROVE CaptionsInv'
    <2>1. CaptionsTypeOK'
      BY <1>1, CaptionsTypeStep DEF CaptionsInv
    <2> QED
      BY <1>1, <2>1, StepKeeps
  <1> QED
    BY CaptionsInitHolds, <1>1, PTL DEF CaptionsSpec

\* Every variable keeps its range; the verification never looks past the last
\* segment (verify_caption_timing, lines 111-128).
THEOREM CaptionsTypeCorrect == CaptionsSpec => []CaptionsTypeOK
  BY CaptionsInvariance, PTL DEF CaptionsInv

\* Whatever is accepted or kept follows the audio, in a narration of any length:
\* half a millisecond for each rounded duration is all that the receipt costs
\* (lines 105-128).
THEOREM AcceptedFollows == CaptionsSpec => []AcceptedFollowsAudio
  <1>1. CaptionsInv => AcceptedFollowsAudio
    BY DEF CaptionsInv, Verified, AcceptedFollowsAudio
  <1> QED
    BY <1>1, CaptionsInvariance, PTL

\* A snapshot holds what was verified, whatever happens to the file meanwhile
\* (main, lines 171-177).
THEOREM SnapshotVerified == CaptionsSpec => []SnapshotIsVerified
  BY CaptionsInvariance, PTL DEF CaptionsInv

\* No captions rounded from the audio are turned down while the segments are
\* fewer than 2 * Tolerance - 1 (line 125).
THEOREM HonestPass == CaptionsSpec => []HonestCaptionsPass
  BY CaptionsInvariance, PTL DEF CaptionsInv
=============================================================================
