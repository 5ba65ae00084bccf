------------------------- MODULE BindDirectoryProofs -------------------------
(***************************************************************************)
(* Proofs about BindDirectory, for any number of processes, any path, any  *)
(* file system, and any number of failing calls and acts of others.        *)
(***************************************************************************)
EXTENDS BindDirectory, TLAPS

\* The inductive invariant behind ProtectedAllAlong and NoDescriptorLeft.
Walking == {"protect", "mkdir", "statmade", "expect", "open", "restat"}

PartsLeft ==
    \A p \in Proc : /\ pc[p] = "start" => level[p] = 0 /\ here[p] = 0
                    /\ pc[p] \in Walking => level[p] < Depth

\* What has been checked stays protected unless its mode is changed; only the
\* directory just entered has not been checked yet.
Sound(n) == kind[n] \in Protected \/ n \in altered

CheckedBehind ==
    \A p \in Proc : pc[p] # "failed" =>
        \A n \in trail[p] \cup {here[p]} :
            Sound(n) \/ (n = here[p] /\ pc[p] \in {"start", "protect", "final"})

\* Which descriptors each step of the walk has open.
Accounted ==
    \A p \in Proc :
        /\ pc[p] = "start" => fds[p] = {}
        /\ pc[p] \in (Walking \ {"restat"}) \cup {"final"} => fds[p] = {"anchor", "current"}
        /\ pc[p] = "restat" => fds[p] = Descriptor
        /\ pc[p] = "ok" => fds[p] = {"current"}

\* Holds of every reachable state, and of the successors of every state it
\* holds of.
IInv ==
    /\ TypeOK /\ PartsLeft /\ CheckedBehind
    /\ Accounted /\ NoDescriptorLeft

\* The initial states satisfy the invariant.
LEMMA InitHolds == Init => IInv
  <1> SUFFICES ASSUME Init PROVE IInv
    OBVIOUS
  <1> USE BindAssumption DEF Init, Node, Nil
  <1>1. TypeOK
    BY DEF TypeOK, Phase
  <1>2. PartsLeft /\ CheckedBehind /\ Accounted /\ NoDescriptorLeft
    BY DEF PartsLeft, CheckedBehind, Accounted, NoDescriptorLeft, Walking
  <1> QED
    BY <1>1, <1>2 DEF IInv

\* A step that leaves the file system alone and keeps what it changes in its
\* range.
LEMMA Frame ==
    ASSUME TypeOK, UNCHANGED <<world, faults, meddles>>,
           pc' \in [Proc -> Phase], level' \in [Proc -> 0..Depth],
           here' \in [Proc -> Node], made' \in [Proc -> Node \cup {Nil}],
           expected' \in [Proc -> Node], opened' \in [Proc -> Node],
           fds' \in [Proc -> SUBSET Descriptor], trail' \in [Proc -> SUBSET Node],
           lost' \subseteq Proc
    PROVE  TypeOK'
  BY DEF TypeOK, world

\* So does every error.
LEMMA FailTypes ==
    ASSUME TypeOK, NEW p \in Proc, NEW closed, Fail(p, closed),
           lost' \subseteq Proc, UNCHANGED <<faults, meddles>>
    PROVE  TypeOK'
  <1>1. pc' \in [Proc -> Phase] /\ fds' \in [Proc -> SUBSET Descriptor]
    BY DEF Fail, TypeOK, Phase
  <1>2. UNCHANGED <<level, here, made, expected, opened, trail>> /\ UNCHANGED world
    BY DEF Fail
  <1> QED
    BY <1>1, <1>2, Frame DEF TypeOK

\* A name is looked up in the directory at hand.
LEMMA EntryType ==
    ASSUME TypeOK, NEW p \in Proc
    PROVE  /\ Entry(p) \in 1..Nil
           /\ Entry(p) # Nil => Entry(p) \in Node
  BY BindAssumption DEF TypeOK, Entry, Node, Nil

\* Every step keeps every variable in its range.
LEMMA TypeStep ==
    ASSUME TypeOK, PartsLeft, [Next]_vars
    PROVE  TypeOK'
  <1>1. ASSUME NEW p \in Proc, Step(p) PROVE TypeOK'
    <2> USE DEF TypeOK, Phase, Goto
    <2>0. UNCHANGED <<faults, meddles>> /\ lost' \subseteq Proc
      BY <1>1 DEF Step, Vanished
    <2>1. CASE Anchor(p)
      <3>1. pc' \in [Proc -> Phase] /\ fds' \in [Proc -> SUBSET Descriptor]
        BY <2>1 DEF Anchor, Descriptor
      <3>2. trail' \in [Proc -> SUBSET Node]
        BY <2>1, BindAssumption DEF Anchor, Node
      <3> QED
        BY <2>0, <2>1, <3>1, <3>2, Frame DEF Anchor
    <2>2. CASE Check(p)
      BY <2>0, <2>2, Frame DEF Check
    <2>3. CASE Mkdir(p)
      <3>1. PICK n \in Room(p) : /\ kind' = [kind EXCEPT ![n] = "private"]
                                 /\ child' = [child EXCEPT ![here[p]] = n]
        BY <2>3 DEF Mkdir
      <3>2. n \in Node /\ n > here[p] /\ here[p] \in Node /\ n # 0
        BY <3>1, BindAssumption DEF Room, Node
      <3>3. kind' \in [Node -> Kinds] /\ kind'[0] \in Directory
        BY <3>1, <3>2, BindAssumption DEF Kinds, Directory, Protected, Node
      <3>4. child' \in [Node -> 1..Nil] /\ \A d \in Node : child'[d] > d
        BY <3>1, <3>2, BindAssumption DEF Node, Nil
      <3>5. pc' \in [Proc -> Phase]
        BY <2>3 DEF Mkdir
      <3>6. UNCHANGED <<altered, level, here, made, expected, opened, fds, trail>>
        BY <2>3 DEF Mkdir
      <3> QED
        BY <2>0, <3>3, <3>4, <3>5, <3>6
    <2>4. CASE Exists(p)
      BY <2>0, <2>4, Frame DEF Exists
    <2>5. CASE StatMade(p)
      BY <2>0, <2>5, EntryType, Frame DEF StatMade, Private
    <2>6. CASE Expect(p)
      BY <2>0, <2>6, EntryType, Frame DEF Expect
    <2>7. CASE Open(p)
      <3>1. fds' \in [Proc -> SUBSET Descriptor]
        BY <2>7 DEF Open, Descriptor
      <3>2. pc' \in [Proc -> Phase] /\ opened' \in [Proc -> Node]
        BY <2>7, EntryType DEF Open, Opens
      <3> QED
        BY <2>0, <2>7, <3>1, <3>2, Frame DEF Open
    <2>8. CASE Enter(p)
      <3>1. level' \in [Proc -> 0..Depth] /\ fds' \in [Proc -> SUBSET Descriptor]
        BY <2>8, BindAssumption DEF Enter, PartsLeft, Walking
      <3>2. /\ pc' \in [Proc -> Phase] /\ here' \in [Proc -> Node]
            /\ made' \in [Proc -> Node \cup {Nil}] /\ trail' \in [Proc -> SUBSET Node]
        BY <2>8 DEF Enter
      <3> QED
        BY <2>0, <2>8, <3>1, <3>2, Frame DEF Enter
    <2>9. CASE Final(p)
      <3>1. pc' \in [Proc -> Phase] /\ fds' \in [Proc -> SUBSET Descriptor]
        BY <2>9 DEF Final
      <3> QED
        BY <2>0, <2>9, <3>1, Frame DEF Final
    <2>10. CASE \E closed : Fail(p, closed)
      BY <2>0, <2>10, FailTypes
    <2>11. \/ Unprotected(p) \/ NoRoom(p) \/ StatMadeFails(p) \/ LookupFails(p)
           \/ Replaced(p) \/ Vanished(p) \/ FinalRefused(p)
           => \E closed : Fail(p, closed)
      BY DEF Unprotected, NoRoom, StatMadeFails, LookupFails, Replaced, Vanished,
             FinalRefused
    <2> QED
      BY <1>1, <2>1, <2>2, <2>3, <2>4, <2>5, <2>6, <2>7, <2>8, <2>9, <2>10, <2>11
         DEF Step
  <1>2. ASSUME NEW p \in Proc, Fault(p) PROVE TypeOK'
    <2>1. /\ faults' \in 0..MaxFaults /\ meddles' = meddles
          /\ lost' \subseteq Proc
      BY <1>2, BindAssumption DEF Fault, TypeOK
    <2>2. Fail(p, {})
      BY <1>2 DEF Fault
    <2>3. pc' \in [Proc -> Phase] /\ fds' \in [Proc -> SUBSET Descriptor]
      BY <2>2 DEF Fail, TypeOK, Phase
    <2>4. UNCHANGED <<kind, child, altered, level, here, made, expected, opened, trail>>
      BY <2>2 DEF Fail, world
    <2> QED
      BY <2>1, <2>3, <2>4 DEF TypeOK
  <1>3. ASSUME NEW d \in Node, NEW n \in 1..Nil, Relink(d, n) PROVE TypeOK'
    <2>1. child' \in [Node -> 1..Nil] /\ \A e \in Node : child'[e] > e
      BY <1>3, BindAssumption DEF Relink, TypeOK, Node
    <2>2. meddles' \in 0..MaxMeddles
      BY <1>3, BindAssumption DEF Relink, Meddle, TypeOK
    <2>3. UNCHANGED <<pc, level, here, made, expected, opened, fds, trail, lost, faults,
                      kind, altered>>
      BY <1>3 DEF Relink, Meddle
    <2> QED
      BY <2>1, <2>2, <2>3 DEF TypeOK
  <1>4. ASSUME NEW d \in Node, NEW k \in Directory, Chmod(d, k) PROVE TypeOK'
    <2>1. kind' \in [Node -> Kinds] /\ kind'[0] \in Directory /\ altered' \subseteq Node
      BY <1>4 DEF Chmod, TypeOK, Kinds
    <2>2. meddles' \in 0..MaxMeddles
      BY <1>4, BindAssumption DEF Chmod, Meddle, TypeOK
    <2>3. UNCHANGED <<pc, level, here, made, expected, opened, fds, trail, lost, faults, child>>
      BY <1>4 DEF Chmod, Meddle
    <2> QED
      BY <2>1, <2>2, <2>3 DEF TypeOK
  <1>5. CASE UNCHANGED vars
    BY <1>5 DEF vars, world, TypeOK
  <1> QED
    BY <1>1, <1>2, <1>3, <1>4, <1>5 DEF Next, Ended

\* A process changes nothing of another.
LEMMA OthersUntouched ==
    ASSUME TypeOK, NEW p \in Proc, NEW q \in Proc, q # p, Step(p) \/ Fault(p)
    PROVE  /\ pc'[q] = pc[q] /\ level'[q] = level[q] /\ here'[q] = here[q]
           /\ trail'[q] = trail[q] /\ fds'[q] = fds[q]
           /\ made'[q] = made[q] /\ expected'[q] = expected[q] /\ opened'[q] = opened[q]
  <1> USE DEF TypeOK, Goto, Fail, world
  <1>1. CASE Anchor(p) \/ Check(p)
    BY <1>1 DEF Anchor, Check
  <1>2. CASE Mkdir(p)
    BY <1>2 DEF Mkdir
  <1>3. CASE Exists(p) \/ StatMade(p)
    BY <1>3 DEF Exists, StatMade
  <1>4. CASE Expect(p) \/ Open(p)
    BY <1>4 DEF Expect, Open
  <1>5. CASE Enter(p)
    BY <1>5 DEF Enter
  <1>6. CASE Final(p)
    BY <1>6 DEF Final
  <1>7. CASE \E closed : Fail(p, closed)
    BY <1>7
  <1>8. \/ Unprotected(p) \/ NoRoom(p) \/ StatMadeFails(p) \/ LookupFails(p)
        \/ Replaced(p) \/ Vanished(p) \/ FinalRefused(p) \/ Fault(p)
        => \E closed : Fail(p, closed)
    BY DEF Unprotected, NoRoom, StatMadeFails, LookupFails, Replaced, Vanished,
           FinalRefused, Fault
  <1> QED
    BY <1>1, <1>2, <1>3, <1>4, <1>5, <1>6, <1>7, <1>8 DEF Step

\* Nothing that is protected stops to be but by a change of mode.
LEMMA SoundStays ==
    ASSUME TypeOK, [Next]_vars, NEW n \in Node, Sound(n)
    PROVE  Sound(n)'
  <1>1. ASSUME NEW p \in Proc, Step(p) \/ Fault(p) PROVE Sound(n)'
    <2>1. CASE Mkdir(p)
      BY <2>1 DEF Mkdir, Room, Sound, Protected, TypeOK
    <2>2. CASE UNCHANGED world
      BY <2>2 DEF world, Sound
    <2>3. Mkdir(p) \/ UNCHANGED world
      BY <1>1 DEF Step, Fault, Fail, Anchor, Check, Unprotected, NoRoom, Exists,
                  StatMade, StatMadeFails, Expect, Open, LookupFails, Enter,
                  Replaced, Vanished, Final, FinalRefused
    <2> QED
      BY <2>1, <2>2, <2>3
  <1>2. ASSUME NEW d \in Node, NEW m \in 1..Nil, Relink(d, m) PROVE Sound(n)'
    BY <1>2 DEF Relink, Sound
  <1>3. ASSUME NEW d \in Node, NEW k \in Directory, Chmod(d, k) PROVE Sound(n)'
    BY <1>3 DEF Chmod, Sound, TypeOK
  <1>4. CASE UNCHANGED vars
    BY <1>4 DEF vars, world, Sound
  <1> QED
    BY <1>1, <1>2, <1>3, <1>4 DEF Next, Ended

\* An act of the other program changes no process.
LEMMA ActKeeps ==
    ASSUME \/ \E d \in Node, n \in 1..Nil : Relink(d, n)
           \/ \E d \in Node, k \in Directory : Chmod(d, k)
    PROVE  /\ UNCHANGED <<pc, level, here, fds, trail, lost, faults>>
           /\ meddles' = meddles + 1
  BY DEF Relink, Chmod, Meddle

\* Every step keeps the walk within the path.
LEMMA PartsStep ==
    ASSUME TypeOK, PartsLeft, [Next]_vars
    PROVE  PartsLeft'
  <1>1. ASSUME NEW p \in Proc, Step(p) \/ Fault(p) PROVE PartsLeft'
    <2>1. pc'[p] # "start" /\ (pc'[p] \in Walking => level'[p] < Depth)
      <3> USE BindAssumption DEF TypeOK, PartsLeft, Walking, Goto
      <3>1. CASE Anchor(p) \/ Check(p)
        BY <3>1 DEF Anchor, Check
      <3>2. CASE Mkdir(p)
        BY <3>2 DEF Mkdir
      <3>3. CASE Exists(p) \/ StatMade(p)
        BY <3>3 DEF Exists, StatMade
      <3>4. CASE Expect(p) \/ Open(p)
        BY <3>4 DEF Expect, Open
      <3>5. CASE Enter(p)
        BY <3>5 DEF Enter
      <3>6. CASE Final(p)
        BY <3>6 DEF Final
      <3>7. CASE pc'[p] = "failed"
        BY <3>7
      <3>8. \/ Unprotected(p) \/ NoRoom(p) \/ StatMadeFails(p) \/ LookupFails(p)
            \/ Replaced(p) \/ Vanished(p) \/ FinalRefused(p) \/ Fault(p)
            => pc'[p] = "failed"
        BY DEF Unprotected, NoRoom, StatMadeFails, LookupFails, Replaced, Vanished,
               FinalRefused, Fault, Fail
      <3> QED
        BY <1>1, <3>1, <3>2, <3>3, <3>4, <3>5, <3>6, <3>7, <3>8 DEF Step
    <2> QED
      BY <1>1, <2>1, OthersUntouched DEF PartsLeft
  <1>2. CASE UNCHANGED vars
    BY <1>2 DEF vars, PartsLeft
  <1> QED
    BY <1>1, <1>2, ActKeeps DEF Next, Ended, PartsLeft

\* Every step keeps what has been checked protected.
LEMMA CheckedStep ==
    ASSUME TypeOK, PartsLeft, CheckedBehind, [Next]_vars
    PROVE  CheckedBehind'
  <1> DEFINE Behind(p) == \A n \in trail[p] \cup {here[p]} :
                Sound(n) \/ (n = here[p] /\ pc[p] \in {"start", "protect", "final"})
  <1>1. ASSUME NEW p \in Proc, Step(p) \/ Fault(p) PROVE CheckedBehind'
    <2>1. pc'[p] # "failed" => Behind(p)'
      <3>0. pc[p] # "failed" => Behind(p)
        BY DEF CheckedBehind
      <3> SUFFICES ASSUME pc'[p] # "failed" PROVE Behind(p)'
        OBVIOUS
      <3>1. \A n \in Node : Sound(n) => Sound(n)'
        BY SoundStays
      <3>2. trail[p] \subseteq Node /\ here[p] \in Node /\ opened[p] \in Node
        BY DEF TypeOK
      <3>7. CASE Anchor(p)
        <4>1. /\ trail'[p] = {0} /\ here'[p] = here[p] /\ here[p] = 0
              /\ pc[p] = "start" /\ pc'[p] \in {"protect", "final"}
          BY <3>7 DEF Anchor, Goto, TypeOK, PartsLeft
        <4> QED
          BY <4>1
      <3>3. CASE Mkdir(p) \/ Exists(p) \/ StatMade(p) \/ Expect(p) \/ Open(p)
        <4>1. /\ trail'[p] = trail[p] /\ here'[p] = here[p]
              /\ pc[p] # "failed" /\ pc[p] \notin {"start", "protect", "final"}
          BY <3>3 DEF Mkdir, Exists, StatMade, Expect, Open, Goto, TypeOK
        <4> QED
          BY <3>0, <3>1, <3>2, <4>1
      <3>4. CASE Check(p) \/ Final(p)
        <4>1. /\ trail'[p] = trail[p] /\ here'[p] = here[p]
              /\ pc[p] # "failed" /\ Sound(here[p])
          BY <3>4 DEF Check, Final, Goto, Sound
        <4> QED
          BY <3>0, <3>1, <3>2, <4>1
      <3>5. CASE Enter(p)
        <4>1. /\ trail'[p] = trail[p] \cup {opened[p]} /\ here'[p] = opened[p]
              /\ pc[p] = "restat" /\ pc'[p] \in {"protect", "final"}
          BY <3>5 DEF Enter, Goto, TypeOK
        <4> QED
          BY <3>0, <3>1, <3>2, <4>1
      <3>6. \/ Unprotected(p) \/ NoRoom(p) \/ StatMadeFails(p) \/ LookupFails(p)
            \/ Replaced(p) \/ Vanished(p) \/ FinalRefused(p) \/ Fault(p)
            => pc'[p] = "failed"
        BY DEF Unprotected, NoRoom, StatMadeFails, LookupFails, Replaced, Vanished,
               FinalRefused, Fault, Fail, TypeOK
      <3> QED
        BY <1>1, <3>3, <3>4, <3>5, <3>6, <3>7 DEF Step
    <2>2. ASSUME NEW q \in Proc, q # p, pc'[q] # "failed" PROVE Behind(q)'
      <3>1. pc'[q] = pc[q] /\ here'[q] = here[q] /\ trail'[q] = trail[q]
        BY <1>1, <2>2, OthersUntouched
      <3>2. trail[q] \cup {here[q]} \subseteq Node
        BY DEF TypeOK
      <3> QED
        BY <2>2, <3>1, <3>2, SoundStays DEF CheckedBehind
    <2> QED
      BY <2>1, <2>2 DEF CheckedBehind
  <1>2. ASSUME UNCHANGED <<pc, here, trail>> PROVE CheckedBehind'
    <2>1. \A p \in Proc : trail[p] \cup {here[p]} \subseteq Node
      BY DEF TypeOK
    <2> QED
      BY <1>2, <2>1, SoundStays DEF CheckedBehind
  <1>3. CASE UNCHANGED vars
    BY <1>2, <1>3 DEF vars
  <1> QED
    BY <1>1, <1>2, <1>3, ActKeeps DEF Next, Ended

\* Every step accounts for the descriptors it opens and closes.
LEMMA AccountedStep ==
    ASSUME TypeOK, Accounted, [Next]_vars
    PROVE  Accounted'
  <1> DEFINE Of(p) ==
        /\ pc[p] = "start" => fds[p] = {}
        /\ pc[p] \in (Walking \ {"restat"}) \cup {"final"} => fds[p] = {"anchor", "current"}
        /\ pc[p] = "restat" => fds[p] = Descriptor
        /\ pc[p] = "ok" => fds[p] = {"current"}
  <1>1. ASSUME NEW p \in Proc, Step(p) \/ Fault(p) PROVE Accounted'
    <2>1. Of(p)'
      <3> USE DEF TypeOK, Accounted, Walking, Goto
      <3>1. CASE Anchor(p) \/ Check(p)
        BY <3>1 DEF Anchor, Check
      <3>2. CASE Mkdir(p) \/ Exists(p)
        BY <3>2 DEF Mkdir, Exists
      <3>3. CASE StatMade(p) \/ Expect(p)
        BY <3>3 DEF StatMade, Expect
      <3>4. CASE Open(p)
        BY <3>4 DEF Open, Descriptor
      <3>5. CASE Enter(p)
        BY <3>5 DEF Enter, Descriptor
      <3>6. CASE Final(p)
        BY <3>6 DEF Final
      <3>7. CASE pc'[p] = "failed"
        BY <3>7
      <3>8. \/ Unprotected(p) \/ NoRoom(p) \/ StatMadeFails(p) \/ LookupFails(p)
            \/ Replaced(p) \/ Vanished(p) \/ FinalRefused(p) \/ Fault(p)
            => pc'[p] = "failed"
        BY DEF Unprotected, NoRoom, StatMadeFails, LookupFails, Replaced, Vanished,
               FinalRefused, Fault, Fail
      <3> QED
        BY <1>1, <3>1, <3>2, <3>3, <3>4, <3>5, <3>6, <3>7, <3>8 DEF Step
    <2>2. ASSUME NEW q \in Proc, q # p PROVE Of(q)'
      BY <1>1, <2>2, OthersUntouched DEF Accounted
    <2> QED
      BY <2>1, <2>2 DEF Accounted
  <1>2. CASE UNCHANGED vars
    BY <1>2 DEF vars, Accounted
  <1> QED
    BY <1>1, <1>2, ActKeeps DEF Next, Ended, Accounted

\* A process counts as lost by its own call only, and for good.
LEMMA LostGrows ==
    ASSUME NEW p \in Proc, Step(p) \/ Fault(p), NEW q \in Proc, q # p
    PROVE  q \in lost' <=> q \in lost
  BY DEF Step, Fault, Vanished

\* Every end of a call leaves what NoDescriptorLeft says: before its error, a
\* process has at most the two descriptors an error closes, or stands between
\* an open and the stat after it.
LEMMA LeftStep ==
    ASSUME TypeOK, Accounted, NoDescriptorLeft, Accounted', [Next]_vars
    PROVE  NoDescriptorLeft'
  <1> DEFINE Left(p) == pc[p] = "failed" => fds[p] \subseteq (IF p \in lost THEN {"next"} ELSE {})
  <1>1. SUFFICES ASSUME NEW q \in Proc PROVE Left(q)'
    BY DEF Accounted, NoDescriptorLeft
  <1>2. ASSUME NEW p \in Proc, Step(p) \/ Fault(p) PROVE Left(q)'
    <2>1. CASE q # p
      <3>1. pc'[q] = pc[q] /\ fds'[q] = fds[q] /\ (q \in lost' <=> q \in lost)
        BY <1>2, <2>1, OthersUntouched, LostGrows
      <3> QED
        BY <3>1 DEF NoDescriptorLeft
    <2>2. CASE q = p
      <3> USE DEF TypeOK, Accounted, Walking, Descriptor
      <3>1. Anchor(p) \/ Check(p) \/ Mkdir(p) \/ Exists(p) => pc'[p] # "failed"
        BY DEF Anchor, Check, Mkdir, Exists, Goto
      <3>2. \/ StatMade(p) \/ Expect(p) \/ Open(p) \/ Enter(p) \/ Final(p)
            => pc'[p] # "failed"
        BY DEF StatMade, Expect, Open, Enter, Final, Goto
      <3>3. Unprotected(p) \/ NoRoom(p) \/ StatMadeFails(p) => fds'[p] = {}
        BY DEF Unprotected, NoRoom, StatMadeFails, Fail
      <3>4. LookupFails(p) \/ FinalRefused(p) => fds'[p] = {}
        BY DEF LookupFails, FinalRefused, Fail
      <3>5. Replaced(p) => fds'[p] = {}
        BY DEF Replaced, Fail
      <3>6. Vanished(p) => fds'[p] = {"next"} /\ p \in lost'
        BY DEF Vanished, Fail
      <3>7. Fault(p) => fds'[p] = {} \/ (fds'[p] = {"next"} /\ p \in lost')
        <4>1. CASE pc[p] = "restat"
          BY <4>1 DEF Fault, Fail
        <4>2. CASE pc[p] # "restat"
          BY <4>2 DEF Fault, Fail, Phase
        <4> QED
          BY <4>1, <4>2
      <3> QED
        BY <1>2, <2>2, <3>1, <3>2, <3>3, <3>4, <3>5, <3>6, <3>7 DEF Step
    <2> QED
      BY <2>1, <2>2
  <1>3. CASE UNCHANGED <<pc, fds, lost>>
    BY <1>3 DEF NoDescriptorLeft
  <1>4. UNCHANGED vars => UNCHANGED <<pc, fds, lost>>
    BY DEF vars
  <1> QED
    BY <1>2, <1>3, <1>4, ActKeeps DEF Next, Ended

\* The invariant holds throughout.
THEOREM Invariance == Spec => []IInv
  <1>1. ASSUME IInv, [Next]_vars PROVE IInv'
    <2> USE <1>1 DEF IInv
    <2>1. TypeOK' /\ PartsLeft' /\ CheckedBehind'
      BY TypeStep, PartsStep, CheckedStep
    <2>2. Accounted'
      BY AccountedStep
    <2>3. NoDescriptorLeft'
      BY <2>2, LeftStep
    <2> QED
      BY <2>1, <2>2, <2>3
  <1> QED
    BY InitHolds, <1>1, PTL DEF Spec

\* Every variable keeps its range: the walk never leaves the path, and no
\* process has more than three descriptors open (open_relative_directory, lines
\* 186-233).
THEOREM TypeCorrect == Spec => []TypeOK
  BY Invariance, PTL DEF IInv

\* Whoever is given a directory was led to it through protected ones only,
\* however many processes, parts and acts of others there are (lines 78-90,
\* 152-183).
THEOREM CheckedAllAlong == Spec => []ProtectedAllAlong
  <1>1. IInv => ProtectedAllAlong
    BY DEF IInv, CheckedBehind, Sound, ProtectedAllAlong
  <1> QED
    BY <1>1, Invariance, PTL

\* Success leaves one descriptor and failure none, whatever others do, unless
\* the process's own fstat or stat right after an open failed: then, and only
\* then, the one just opened is left (lines 214-232).
THEOREM NoDescriptorLost == Spec => []NoDescriptorLeft
  BY Invariance, PTL DEF IInv

-----------------------------------------------------------------------------
(* What processes that make one path share, as long as no other program    *)
(* acts.                                                                   *)

\* All directories that were bound are one path from the anchor on.
Path ==
    \E m \in 0..Depth : \E path \in [0..m -> Node] :
        /\ path[0] = 0
        /\ \A i \in 0..m : i < m => path[i + 1] = child[path[i]]
        /\ \A p \in Proc : level[p] <= m /\ here[p] = path[level[p]]

\* What a process has looked up is still there and is what it was.
Seen ==
    \A p \in Proc :
        /\ pc[p] \in {"start", "protect", "mkdir", "statmade"} => made[p] = Nil
        /\ pc[p] \in {"statmade", "expect", "open", "restat"} => Entry(p) # Nil
        /\ pc[p] = "statmade" => kind[Entry(p)] = "private"
        /\ pc[p] \in {"expect", "open", "restat"} => made[p] \in {Nil, Entry(p)}
        /\ pc[p] \in {"open", "restat"} => expected[p] = Entry(p)
        /\ pc[p] = "restat" => opened[p] = Entry(p)
        /\ pc[p] \in {"final", "ok"} => level[p] = Depth

\* An entry leads to something.
Linked == \A d \in Node : child[d] # Nil => kind[child[d]] # "free"

\* A process fails for a cause that is there to stay.
Caused == \A p \in Proc : pc[p] = "failed" => faults > 0 \/ Blocked \/ Room(p) = {}

Sharing == meddles = 0 => Path /\ Seen /\ Linked /\ Caused

\* Processes that make one path at the same time all get the same directory,
\* and none fails because another was faster.
AllShare ==
    meddles = 0 =>
        /\ \A p, q \in Proc : pc[p] = "ok" /\ pc[q] = "ok" => here[p] = here[q]
        /\ \A p \in Proc : pc[p] = "failed" => faults > 0 \/ Blocked \/ Room(p) = {}

\* Without the other program, a step is a process's own.
LEMMA NobodyElse ==
    ASSUME TypeOK, [Next]_vars, meddles' = 0
    PROVE  /\ meddles = 0
           /\ (\E p \in Proc : Step(p) \/ Fault(p)) \/ UNCHANGED vars
  <1>1. meddles \in Nat
    BY BindAssumption DEF TypeOK
  <1>2. UNCHANGED vars => meddles' = meddles
    BY DEF vars
  <1>3. \A p \in Proc : Step(p) \/ Fault(p) => meddles' = meddles
    BY DEF Step, Fault
  <1> QED
    BY <1>1, <1>2, <1>3, ActKeeps DEF Next, Ended

\* A process adds a directory at most, under a name that leads nowhere.
LEMMA WorldGrows ==
    ASSUME TypeOK, NEW p \in Proc, Step(p) \/ Fault(p)
    PROVE  /\ \A d \in Node : child[d] # Nil => child'[d] = child[d]
           /\ \A d \in Node : child'[d] # child[d] => kind'[child'[d]] = "private"
           /\ \A n \in Node : kind'[n] # kind[n] => kind[n] = "free" /\ kind'[n] = "private"
  <1>1. CASE Mkdir(p)
    <2>1. PICK n \in Room(p) : /\ kind' = [kind EXCEPT ![n] = "private"]
                               /\ child' = [child EXCEPT ![here[p]] = n]
      BY <1>1 DEF Mkdir
    <2>2. /\ n \in Node /\ kind[n] = "free" /\ here[p] \in Node /\ child[here[p]] = Nil
          /\ kind \in [Node -> Kinds] /\ child \in [Node -> 1..Nil]
      BY <1>1, <2>1 DEF Room, Mkdir, Entry, TypeOK
    <2> QED
      BY <2>1, <2>2
  <1>2. CASE UNCHANGED world
    BY <1>2 DEF world
  <1>3. Mkdir(p) \/ UNCHANGED world
    BY DEF Step, Fault, Fail, Anchor, Check, Unprotected, NoRoom, Exists, StatMade,
           StatMadeFails, Expect, Open, LookupFails, Enter, Replaced, Vanished,
           Final, FinalRefused
  <1> QED
    BY <1>1, <1>2, <1>3

\* So what stands in the way remains there, and room does not come back.
LEMMA CausesStay ==
    ASSUME TypeOK, Linked, NEW p \in Proc, Step(p) \/ Fault(p)
    PROVE  /\ Linked'
           /\ Blocked => Blocked'
           /\ \A q \in Proc : Room(q) = {} /\ here'[q] = here[q] => Room(q)' = {}
  <1>1. /\ kind \in [Node -> Kinds] /\ kind[0] \in Directory /\ 0 \in Node
        /\ child \in [Node -> 1..Nil] /\ \A n \in 1..Nil : n # Nil => n \in Node
        /\ Nil \notin Node
    BY BindAssumption DEF TypeOK, Node, Nil
  <1>2. Linked'
    <2> SUFFICES ASSUME NEW d \in Node, child'[d] # Nil PROVE kind'[child'[d]] # "free"
      BY DEF Linked
    <2>1. CASE child'[d] # child[d]
      BY <2>1, WorldGrows
    <2>2. CASE child'[d] = child[d]
      <3>1. child[d] \in Node /\ kind[child[d]] # "free"
        BY <1>1, <2>2 DEF Linked
      <3> QED
        BY <2>2, <3>1, WorldGrows
    <2> QED
      BY <2>1, <2>2
  <1>3. ASSUME Blocked PROVE Blocked'
    <2>1. PICK n \in Node : /\ n = 0 \/ \E d \in Node : child[d] = n
                            /\ kind[n] \notin Protected
      BY <1>3 DEF Blocked
    <2>2. kind[n] # "free"
      BY <1>1, <2>1 DEF Linked, Directory, Protected
    <2>3. kind'[n] = kind[n]
      BY <2>2, WorldGrows
    <2>4. n = 0 \/ \E d \in Node : child'[d] = n
      BY <1>1, <2>1, WorldGrows
    <2> QED
      BY <2>1, <2>3, <2>4 DEF Blocked
  <1>4. ASSUME NEW q \in Proc, Room(q) = {}, here'[q] = here[q] PROVE Room(q)' = {}
    <2>1. \A n \in Node : kind'[n] = "free" => kind[n] = "free"
      BY WorldGrows
    <2> QED
      BY <1>4, <2>1 DEF Room
  <1> QED
    BY <1>2, <1>3, <1>4

\* Entering the next directory is the only way on, and it follows the path.
LEMMA PathStep ==
    ASSUME TypeOK, Path, Seen, NEW p \in Proc, Step(p) \/ Fault(p), PartsLeft
    PROVE  Path'
  <1>0. /\ Depth \in Nat /\ level \in [Proc -> 0..Depth] /\ here \in [Proc -> Node]
        /\ child \in [Node -> 1..Nil] /\ Nil \notin Node
    BY BindAssumption DEF TypeOK, Node, Nil
  <1>1. PICK m \in 0..Depth : \E path \in [0..m -> Node] :
            /\ path[0] = 0
            /\ \A i \in 0..m : i < m => path[i + 1] = child[path[i]]
            /\ \A q \in Proc : level[q] <= m /\ here[q] = path[level[q]]
    BY DEF Path
  <1>2. PICK path \in [0..m -> Node] :
            /\ path[0] = 0
            /\ \A i \in 0..m : i < m => path[i + 1] = child[path[i]]
            /\ \A q \in Proc : level[q] <= m /\ here[q] = path[level[q]]
    BY <1>1
  <1>3. \A i \in 0..m : i < m => path[i + 1] = child'[path[i]]
    <2> SUFFICES ASSUME NEW i \in 0..m, i < m PROVE path[i + 1] = child'[path[i]]
      OBVIOUS
    <2>1. i + 1 \in 0..m /\ path[i] \in Node /\ path[i + 1] \in Node
      BY <1>0, <1>2
    <2>2. child[path[i]] # Nil
      BY <1>0, <1>2, <2>1
    <2> QED
      BY <1>2, <2>1, <2>2, WorldGrows
  <1>4. CASE UNCHANGED <<level, here>>
    BY <1>1, <1>2, <1>3, <1>4 DEF Path
  <1>5. CASE Enter(p)
    <2>1. /\ level' = [level EXCEPT ![p] = level[p] + 1]
          /\ here' = [here EXCEPT ![p] = opened[p]]
          /\ opened[p] = child[here[p]] /\ opened[p] \in Node /\ UNCHANGED child
          /\ level[p] < Depth
      BY <1>5 DEF Enter, Same, Entry, Goto, world, PartsLeft, Walking, TypeOK
    <2>2. CASE level[p] < m
      <3>1. level[p] + 1 \in 0..m /\ path[level[p] + 1] = opened[p]
        BY <1>0, <1>2, <2>1, <2>2
      <3>2. \A q \in Proc : level'[q] <= m /\ here'[q] = path[level'[q]]
        BY <1>0, <1>2, <2>1, <3>1
      <3> QED
        BY <1>1, <1>2, <1>3, <3>2 DEF Path
    <2>3. CASE level[p] = m
      <3> DEFINE longer == [i \in 0..m+1 |-> IF i = m + 1 THEN opened[p] ELSE path[i]]
      <3>1. m + 1 \in 0..Depth /\ longer \in [0..m+1 -> Node] /\ longer[0] = 0
        BY <1>0, <1>2, <2>1, <2>3
      <3>2. ASSUME NEW i \in 0..m+1, i < m + 1 PROVE longer[i + 1] = child'[longer[i]]
        <4>1. i \in 0..m /\ longer[i] = path[i] /\ i + 1 \in 0..m+1
          BY <1>0, <3>2
        <4>2. CASE i < m
          <5>1. longer[i + 1] = path[i + 1]
            BY <1>0, <4>1, <4>2
          <5> QED
            BY <1>3, <4>1, <4>2, <5>1
        <4>3. CASE i = m
          <5>1. longer[i + 1] = opened[p] /\ path[i] = here[p]
            BY <1>2, <2>3, <4>1, <4>3
          <5> QED
            BY <2>1, <4>1, <5>1
        <4> QED
          BY <1>0, <4>1, <4>2, <4>3
      <3>3. \A q \in Proc : level'[q] <= m + 1 /\ here'[q] = longer[level'[q]]
        <4> SUFFICES ASSUME NEW q \in Proc
                     PROVE  level'[q] <= m + 1 /\ here'[q] = longer[level'[q]]
          OBVIOUS
        <4>1. CASE q = p
          BY <1>0, <2>1, <2>3, <3>1, <4>1
        <4>2. CASE q # p
          <5>1. level'[q] = level[q] /\ here'[q] = path[level[q]] /\ level[q] \in 0..m
            BY <1>0, <1>2, <2>1, <4>2
          <5> QED
            BY <5>1
        <4> QED
          BY <4>1, <4>2
      <3> HIDE DEF longer
      <3> QED
        BY <3>1, <3>2, <3>3 DEF Path
    <2> QED
      BY <1>0, <1>2, <2>2, <2>3
  <1>6. Enter(p) \/ UNCHANGED <<level, here>>
    BY DEF Step, Fault, Fail, Anchor, Check, Unprotected, NoRoom, Mkdir, Exists, StatMade,
           StatMadeFails, Expect, Open, LookupFails, Replaced, Vanished, Final, FinalRefused
  <1> QED
    BY <1>4, <1>5, <1>6

\* What one process has seen.
SeenBy(p) ==
    /\ pc[p] \in {"start", "protect", "mkdir", "statmade"} => made[p] = Nil
    /\ pc[p] \in {"statmade", "expect", "open", "restat"} => Entry(p) # Nil
    /\ pc[p] = "statmade" => kind[Entry(p)] = "private"
    /\ pc[p] \in {"expect", "open", "restat"} => made[p] \in {Nil, Entry(p)}
    /\ pc[p] \in {"open", "restat"} => expected[p] = Entry(p)
    /\ pc[p] = "restat" => opened[p] = Entry(p)
    /\ pc[p] \in {"final", "ok"} => level[p] = Depth

\* A process itself sees what it has put there, or what stays.
LEMMA SeesOwn ==
    ASSUME TypeOK, PartsLeft, NEW p \in Proc, Step(p) \/ Fault(p), SeenBy(p)
    PROVE  SeenBy(p)'
  <1>0. /\ pc \in [Proc -> Phase] /\ level \in [Proc -> 0..Depth] /\ here \in [Proc -> Node]
        /\ made \in [Proc -> Node \cup {Nil}] /\ expected \in [Proc -> Node]
        /\ opened \in [Proc -> Node]
        /\ kind \in [Node -> Kinds] /\ child \in [Node -> 1..Nil]
        /\ Depth \in Nat
    BY BindAssumption DEF TypeOK
  <1> USE <1>0 DEF Goto, SeenBy, Entry
  <1>1. CASE Anchor(p)
    BY <1>1 DEF Anchor, world, PartsLeft
  <1>2. CASE Check(p)
    BY <1>2 DEF Check, world
  <1>3. CASE Mkdir(p)
    <2>1. PICK n \in Room(p) : /\ kind' = [kind EXCEPT ![n] = "private"]
                               /\ child' = [child EXCEPT ![here[p]] = n]
      BY <1>3 DEF Mkdir
    <2>2. n \in Node /\ n # Nil
      BY BindAssumption DEF Room, Node, Nil
    <2>3. /\ pc'[p] = "statmade" /\ here' = here /\ made' = made /\ made[p] = Nil
      BY <1>3 DEF Mkdir
    <2> QED
      BY <2>1, <2>2, <2>3
  <1>4. CASE Exists(p)
    BY <1>4 DEF Exists, world
  <1>5. CASE StatMade(p)
    BY <1>5 DEF StatMade, Private, world
  <1>6. CASE Expect(p)
    BY <1>6 DEF Expect, world
  <1>7. CASE Open(p)
    BY <1>7 DEF Open, Opens, world
  <1>8. CASE Enter(p)
    <2>1. /\ pc'[p] \in {"final", "protect"} /\ made'[p] = Nil
          /\ level'[p] = level[p] + 1 /\ (pc'[p] = "final" => level[p] + 1 = Depth)
      BY <1>8 DEF Enter
    <2> QED
      BY <2>1
  <1>9. CASE Final(p)
    BY <1>9 DEF Final, world
  <1>10. CASE pc'[p] = "failed"
    BY <1>10
  <1>11. \/ Unprotected(p) \/ NoRoom(p) \/ StatMadeFails(p) \/ LookupFails(p)
         \/ Replaced(p) \/ Vanished(p) \/ FinalRefused(p) \/ Fault(p)
         => pc'[p] = "failed"
    BY DEF Unprotected, NoRoom, StatMadeFails, LookupFails, Replaced, Vanished,
           FinalRefused, Fault, Fail
  <1> QED
    BY <1>1, <1>2, <1>3, <1>4, <1>5, <1>6, <1>7, <1>8, <1>9, <1>10, <1>11 DEF Step

\* And others see what they saw.
LEMMA SeeStill ==
    ASSUME TypeOK, NEW p \in Proc, Step(p) \/ Fault(p), NEW q \in Proc, q # p, SeenBy(q)
    PROVE  SeenBy(q)'
  <1>1. /\ pc'[q] = pc[q] /\ level'[q] = level[q] /\ here'[q] = here[q]
        /\ made'[q] = made[q] /\ expected'[q] = expected[q] /\ opened'[q] = opened[q]
    BY OthersUntouched
  <1>2. here[q] \in Node /\ child[here[q]] \in 1..Nil
    BY DEF TypeOK
  <1>3. child[here[q]] # Nil => child'[here[q]] = child[here[q]]
    BY <1>2, WorldGrows
  <1>4. child[here[q]] # Nil => child[here[q]] \in Node
    BY <1>2, BindAssumption DEF Node, Nil
  <1>5. child[here[q]] # Nil /\ kind[child[here[q]]] = "private"
        => kind'[child[here[q]]] = "private"
    BY <1>4, WorldGrows
  <1> QED
    BY <1>1, <1>3, <1>5 DEF SeenBy, Entry

\* An error has a cause, if what was seen is still there.
LEMMA FailsForCause ==
    ASSUME TypeOK, Path, NEW p \in Proc, Step(p) \/ Fault(p), SeenBy(p), pc'[p] = "failed"
    PROVE  /\ UNCHANGED <<kind, child, here>>
           /\ faults' > 0 \/ Blocked \/ Room(p) = {}
  <1>0. /\ pc \in [Proc -> Phase] /\ here[p] \in Node /\ kind \in [Node -> Kinds]
        /\ child \in [Node -> 1..Nil] /\ \A n \in 1..Nil : n # Nil => n \in Node
        /\ faults \in Nat
    BY BindAssumption DEF TypeOK, Node, Nil
  <1>1. ASSUME kind[here[p]] \notin Protected PROVE Blocked
    <2>1. here[p] = 0 \/ \E d \in Node : child[d] = here[p]
      <3>1. PICK m \in 0..Depth : \E path \in [0..m -> Node] :
                /\ path[0] = 0
                /\ \A i \in 0..m : i < m => path[i + 1] = child[path[i]]
                /\ level[p] <= m /\ here[p] = path[level[p]]
        BY DEF Path
      <3>2. PICK path \in [0..m -> Node] :
                /\ path[0] = 0
                /\ \A i \in 0..m : i < m => path[i + 1] = child[path[i]]
                /\ level[p] <= m /\ here[p] = path[level[p]]
        BY <3>1
      <3>3. CASE level[p] = 0
        BY <3>2, <3>3
      <3>4. CASE level[p] # 0
        <4>1. level[p] \in Nat /\ m \in Nat
          BY BindAssumption DEF TypeOK
        <4>2. PICK i \in Nat : level[p] = i + 1
          <5>1. level[p] - 1 \in Nat /\ level[p] = (level[p] - 1) + 1
            BY <3>4, <4>1
          <5> QED
            BY <5>1
        <4>3. i \in 0..m /\ i < m
          BY <3>2, <4>1, <4>2
        <4> QED
          BY <3>2, <4>2, <4>3
      <3> QED
        BY <3>3, <3>4
    <2> QED
      BY <1>0, <1>1, <2>1 DEF Blocked
  <1>2. ASSUME Entry(p) # Nil, kind[Entry(p)] \notin Protected PROVE Blocked
    BY <1>0, <1>2 DEF Blocked, Entry
  <1>3. \/ Anchor(p) \/ Check(p) \/ Mkdir(p) \/ Exists(p) \/ StatMade(p) \/ Expect(p)
        \/ Open(p) \/ Enter(p) \/ Final(p)
        => FALSE
    BY <1>0 DEF Anchor, Check, Mkdir, Exists, StatMade, Expect, Open, Enter, Final, Goto
  <1>4. CASE Unprotected(p) \/ FinalRefused(p)
    BY <1>1, <1>4 DEF Unprotected, FinalRefused, Fail, world
  <1>5. CASE NoRoom(p)
    BY <1>5 DEF NoRoom, Fail, world
  <1>6. CASE StatMadeFails(p)
    BY <1>6 DEF StatMadeFails, Private, SeenBy
  <1>7. CASE LookupFails(p)
    <2>1. pc[p] = "open" /\ Entry(p) # Nil /\ kind[Entry(p)] \notin Protected
      BY <1>7 DEF LookupFails, Opens, SeenBy, Directory
    <2> QED
      BY <1>2, <1>7, <2>1 DEF LookupFails, Fail, world
  <1>8. CASE Replaced(p) \/ Vanished(p)
    BY <1>8 DEF Replaced, Vanished, Same, SeenBy
  <1>9. CASE Fault(p)
    BY <1>0, <1>9 DEF Fault, Fail, world
  <1> QED
    BY <1>3, <1>4, <1>5, <1>6, <1>7, <1>8, <1>9 DEF Step

\* A failure is caused by what is there, and that stays.
LEMMA CausedStep ==
    ASSUME TypeOK, Path, Seen, Linked, Caused, NEW p \in Proc, Step(p) \/ Fault(p)
    PROVE  Caused'
  <1> SUFFICES ASSUME NEW q \in Proc, pc'[q] = "failed"
               PROVE  faults' > 0 \/ Blocked' \/ Room(q)' = {}
    BY DEF Caused
  <1>1. SeenBy(p)
    BY DEF Seen, SeenBy
  <1>2. faults \in Nat /\ (faults > 0 => faults' > 0)
    BY BindAssumption DEF TypeOK, Step, Fault
  <1>3. CASE q = p
    <2>1. /\ UNCHANGED <<kind, child, here>>
          /\ faults' > 0 \/ Blocked \/ Room(p) = {}
      BY <1>1, <1>3, FailsForCause
    <2> QED
      BY <1>3, <2>1, CausesStay
  <1>4. CASE q # p
    <2>1. pc[q] = "failed" /\ here'[q] = here[q]
      BY <1>4, OthersUntouched
    <2>2. faults > 0 \/ Blocked \/ Room(q) = {}
      BY <2>1 DEF Caused
    <2> QED
      BY <1>2, <2>1, <2>2, CausesStay
  <1> QED
    BY <1>3, <1>4

\* Without the other program, all of this stays so.
LEMMA SharingStep == IInv /\ Sharing /\ [Next]_vars => Sharing'
  <1> SUFFICES ASSUME IInv, Sharing, [Next]_vars, meddles' = 0
               PROVE  (Path /\ Seen /\ Linked /\ Caused)'
    BY DEF Sharing
  <1>0. TypeOK /\ PartsLeft
    BY DEF IInv
  <1>1. meddles = 0 /\ Path /\ Seen /\ Linked /\ Caused
    BY <1>0, NobodyElse DEF Sharing
  <1>2. ASSUME NEW p \in Proc, Step(p) \/ Fault(p)
        PROVE  (Path /\ Seen /\ Linked /\ Caused)'
    <2>1. Path' /\ Linked' /\ Caused'
      BY <1>0, <1>1, <1>2, PathStep, CausesStay, CausedStep
    <2>2. \A q \in Proc : SeenBy(q)
      BY <1>1 DEF Seen, SeenBy
    <2>3. \A q \in Proc : SeenBy(q)'
      BY <1>0, <1>2, <2>2, SeesOwn, SeeStill
    <2> QED
      BY <2>1, <2>3 DEF Seen, SeenBy
  <1>3. CASE UNCHANGED vars
    <2>1. UNCHANGED <<kind, child, pc, level, here, made, expected, opened, faults>>
      BY <1>3 DEF vars, world
    <2>2. Path'
      BY <1>1, <2>1 DEF Path
    <2>3. Seen' /\ Linked'
      BY <1>1, <2>1 DEF Seen, Linked, Entry
    <2>4. Caused'
      BY <1>1, <2>1 DEF Caused, Blocked, Room
    <2> QED
      BY <2>2, <2>3, <2>4
  <1> QED
    BY <1>0, <1>2, <1>3, NobodyElse

\* At the anchor, all are on the path.
LEMMA SharingInit == Init => Sharing
  <1> SUFFICES ASSUME Init PROVE Path /\ Seen /\ Linked /\ Caused
    BY DEF Sharing
  <1>1. Path
    <2> DEFINE anchor == [i \in 0..0 |-> 0]
    <2>1. 0 \in 0..Depth /\ anchor \in [0..0 -> Node] /\ anchor[0] = 0
      BY BindAssumption DEF Node
    <2>2. ASSUME NEW p \in Proc PROVE level[p] <= 0 /\ here[p] = anchor[level[p]]
      <3>1. level[p] = 0 /\ here[p] = 0
        BY DEF Init
      <3>2. anchor[level[p]] = 0
        BY <2>1, <3>1, Zenon
      <3> QED
        BY <3>1, <3>2
    <2>3. \A i \in 0..0 : ~(i < 0)
      OBVIOUS
    <2> HIDE DEF anchor
    <2> QED
      BY <2>1, <2>2, <2>3 DEF Path
  <1>2. Seen /\ Caused
    BY DEF Init, Seen, Caused
  <1>3. Linked
    BY BindAssumption DEF Init, Linked
  <1> QED
    BY <1>1, <1>2, <1>3

\* What RivalsShare is about, at any time: processes that make one path at the
\* same time are given the same directory, and one that fails does so because
\* a call failed, something that is no protected directory is in the way, or
\* there was no room; never because another was faster (open_relative_directory,
\* lines 202-206). Only another program can make that untrue.
THEOREM RivalsShareAlways == Spec => []AllShare
  <1>1. Spec => []Sharing
    BY SharingInit, SharingStep, Invariance, PTL DEF Spec
  <1>2. Sharing => AllShare
    <2> SUFFICES ASSUME meddles = 0, Path, Seen, Caused PROVE AllShare
      BY DEF Sharing, AllShare
    <2>1. ASSUME NEW p \in Proc, NEW q \in Proc, pc[p] = "ok", pc[q] = "ok"
          PROVE  here[p] = here[q]
      <3>1. level[p] = Depth /\ level[q] = Depth
        BY <2>1 DEF Seen
      <3> QED
        BY <3>1 DEF Path
    <2> QED
      BY <2>1 DEF AllShare, Caused
  <1> QED
    BY <1>1, <1>2, PTL
=============================================================================
