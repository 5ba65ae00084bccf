---------------------------- MODULE ModelViewProofs ----------------------------
(***************************************************************************)
(* Proofs about ModelView, for any number of files and blocks, any         *)
(* directories, and any number of edits, tamperings, faults and            *)
(* interrupts: what is loaded is locked, and what is staged goes away.     *)
(***************************************************************************)
EXTENDS ModelView, WellFoundedInduction, TLAPS

\* Steps that deal with one file, and those after which nothing is staged any
\* more but what is to be removed.
PerFile == {"subdir", "open", "copy", "freeze", "copying", "uncopy", "verify", "record",
            "hash", "stable"}
Early == Before \cup {"model"}
Cleaning == {"clean", "clean sub", "clean root", "clean stage", "done"}

\* The file at hand, what its directory needs, and what the cleanup knows of.
Placed ==
    /\ pc \in Early => k = 1
    /\ pc \in PerFile => k <= N
    /\ pc \in Inside \cup {"enter", "leave"} => k = N + 1
    /\ pc \in PerFile \ {"subdir"} /\ k \in Deep => known
    /\ pc \notin Cleaning =>
          \A f \in entries : f < k \/ (f = k /\ pc \in {"hash", "stable"})

\* Files whose copy was hashed.
Hashed == {f \in File : f < k \/ (f = k /\ pc = "stable")}

\* A copy with the fingerprint it was bound with holds the locked bytes; so
\* does what the hash has seen of one that was not changed since it was frozen.
Sealed ==
    /\ \A f \in File : bound[f] <= vstamp[f]
    /\ \A f \in Hashed : vstamp[f] = bound[f] => view[f] = Locked
    /\ pc = "hash" =>
          /\ frozen <= vstamp[k]
          /\ good /\ vstamp[k] = frozen =>
                \A b \in Block : b < at => view[k][b] = "locked"

\* What the loader read was locked, or a fingerprint tells that it was not.
Told ==
    /\ ~pure => k = N + 1 /\ \E f \in File : vstamp[f] > bound[f]
    /\ pc = "generated" => read = File \X Block
    /\ pc \in Cleaning \cup {"leave"} /\ ~failed => pure /\ read = File \X Block
    /\ pc \in {"uncopy", "unstage"} => failed
    /\ outcome = "ok" => pc = "done" /\ ~failed

\* What a cleanup without trouble leaves.
Removed ==
    /\ ~known => present \cap Deep = {}
    /\ pc = "clean root" /\ ~messy => present \cap Deep = {}
    /\ pc = "clean stage" /\ ~messy /\ ~failed => ~root /\ ~sub /\ present = {}
    /\ pc \notin Inside \cup {"leave"} /\ cwd # "home" => failed /\ torn

\* What stands in the staging directory when no step was torn and nobody else
\* touched it: what the cleanup knows of.
Accounted ==
    ~torn /\ used.tampers = 0 =>
        /\ strangers = {}
        /\ pc \in {"start", "stage"} => ~staging
        /\ pc \in Early => ~root /\ ~sub /\ ~known /\ entries = {}
        /\ IF pc \in {"copying", "uncopy", "verify", "record"}
           THEN present = entries \cup {k} ELSE present = entries
        /\ pc \notin {"clean root", "clean stage", "done"} => sub = known
        /\ pc = "clean sub" => entries = {}
        /\ pc = "clean root" => entries = {} /\ ~sub
        /\ pc = "clean stage" => entries = {} /\ ~sub /\ ~root

\* A copy that nobody else touched is where it was put, as it was put there.
Untouched ==
    used.tampers = 0 =>
        /\ pc \in {"copying", "verify", "record", "hash"} => k \in present
        /\ pc = "hash" => vstamp[k] = frozen
        /\ pc \notin Cleaning => \A f \in Hashed : f \in present /\ vstamp[f] = bound[f]

\* Nothing happens to the render but the render, and the source is the locked
\* one.
Undisturbed ==
    /\ used.edits = 0 /\ used.tampers = 0 /\ used.faults = 0 /\ used.interrupts = 0
    /\ \A f \in File : source[f] = Locked

\* Then nothing goes wrong.
Smooth ==
    Undisturbed =>
        /\ ~failed /\ ~messy /\ ~torn /\ pure /\ ~detached /\ outcome # "failed"
        /\ pc \in {"copy", "freeze", "copying", "verify", "record", "hash", "stable"} =>
              opened = stamp[k]
        /\ pc = "copying" =>
              NoMore(view[k]) /\ \A b \in Block : b < at => view[k][b] = "locked"
        /\ pc \in {"verify", "record", "hash"} => view[k] = Locked
        /\ pc = "hash" => good

IInv ==
    /\ TypeOK /\ Placed /\ Sealed /\ Told /\ Removed /\ Accounted /\ Untouched /\ Smooth
    /\ OkLeavesNothing /\ FailureCleansUp /\ CopyWithinLock

\* Bounds and fingerprints are numbers.
LEMMA Numbers ==
    ASSUME TypeOK
    PROVE  /\ N \in Nat /\ N > 0 /\ B \in Nat /\ B > 0 /\ k \in Nat /\ at \in Nat
           /\ k > 0 /\ k <= N + 1 /\ Deep \subseteq File
           /\ vstamp \in [File -> Nat] /\ bound \in [File -> Nat] /\ frozen \in Nat
           /\ stamp \in [File -> Nat] /\ opened \in Nat
           /\ \A field \in {"edits", "tampers", "faults", "interrupts"} : used[field] \in Nat
  BY ModelViewAssumption DEF TypeOK, File

\* What is spent was not nothing.
LEMMA SpendSpends ==
    ASSUME TypeOK, NEW field \in {"edits", "tampers", "faults", "interrupts"}, Spend(field)
    PROVE  /\ used'[field] # 0 /\ world' = world
           /\ used' \in [edits : Nat, tampers : Nat, faults : Nat, interrupts : Nat]
           /\ \A other \in {"edits", "tampers", "faults", "interrupts"} \ {field} :
                 used'[other] = used[other]
  BY DEF TypeOK, Spend

\* What the editor and the outside program do: nothing to the render, and to a
\* copy nothing that its fingerprint does not show.
LEMMA OthersDo ==
    ASSUME TypeOK, Others
    PROVE  /\ UNCHANGED <<pc, k, at, opened, staging, root, sub>>
           /\ UNCHANGED <<books, loader, verdict, torn, world>>
           /\ pc # "done" /\ ~Undisturbed'
           /\ present' \subseteq present
           /\ \A f \in File : vstamp'[f] \in Nat /\ vstamp'[f] >= vstamp[f]
           /\ \A f \in File : vstamp'[f] = vstamp[f] => view'[f] = view[f]
           /\ used'.tampers = 0 =>
                 used.tampers = 0 /\ UNCHANGED <<view, present, vstamp, strangers>>
  <1> USE DEF staged, Undisturbed
  <1>0. vstamp \in [File -> Nat] /\ view \in [File -> Bytes]
    BY DEF TypeOK
  <1>1. ASSUME NEW f \in File, NEW b \in Slot, NEW v \in Byte, EditSource(f, b, v)
        PROVE  /\ UNCHANGED <<pc, k, at, opened, staged, books, loader, verdict, torn, world>>
               /\ pc # "done" /\ used'.edits # 0 /\ used'.tampers = used.tampers
    BY <1>1, SpendSpends DEF EditSource
  <1>2. ASSUME NEW f \in File, NEW v \in {"locked", "other"}, ReplaceSource(f, v)
        PROVE  /\ UNCHANGED <<pc, k, at, opened, staged, books, loader, verdict, torn, world>>
               /\ pc # "done" /\ used'.edits # 0 /\ used'.tampers = used.tampers
    BY <1>2, SpendSpends DEF ReplaceSource
  <1>3. ASSUME NEW f \in File, NEW b \in Slot, NEW v \in Byte, TamperWrite(f, b, v)
        PROVE  /\ UNCHANGED <<pc, k, at, opened, staging, root, sub>>
               /\ UNCHANGED <<books, loader, verdict, torn, world>>
               /\ pc # "done" /\ used'.tampers # 0 /\ present' = present
               /\ vstamp' = [vstamp EXCEPT ![f] = @ + 1]
               /\ view' = [view EXCEPT ![f] = Written(@, b, v)]
    BY <1>3, SpendSpends DEF TamperWrite, sources
  <1>4. ASSUME NEW f \in File, TamperRemove(f)
        PROVE  /\ UNCHANGED <<pc, k, at, opened, staging, root, sub>>
               /\ UNCHANGED <<books, loader, verdict, torn, world>>
               /\ pc # "done" /\ used'.tampers # 0 /\ present' \subseteq present
               /\ UNCHANGED <<view, vstamp>>
    BY <1>4, SpendSpends DEF TamperRemove, sources
  <1>5. ASSUME NEW dir \in {"root", "sub"}, TamperAdd(dir)
        PROVE  /\ UNCHANGED <<pc, k, at, opened, staging, root, sub>>
               /\ UNCHANGED <<books, loader, verdict, torn, world>>
               /\ pc # "done" /\ used'.tampers # 0 /\ present' \subseteq present
               /\ UNCHANGED <<view, vstamp>>
    BY <1>5, SpendSpends DEF TamperAdd, sources
  <1>6. ASSUME UNCHANGED <<view, vstamp>>
        PROVE  /\ \A f \in File : vstamp'[f] \in Nat /\ vstamp'[f] >= vstamp[f]
               /\ \A f \in File : vstamp'[f] = vstamp[f] => view'[f] = view[f]
    BY <1>0, <1>6
  <1>7. ASSUME NEW f \in File, NEW b \in Slot, NEW v \in Byte, TamperWrite(f, b, v)
        PROVE  /\ \A g \in File : vstamp'[g] \in Nat /\ vstamp'[g] >= vstamp[g]
               /\ \A g \in File : vstamp'[g] = vstamp[g] => view'[g] = view[g]
    BY <1>0, <1>3, <1>7
  <1> QED
    BY <1>1, <1>2, <1>3, <1>4, <1>5, <1>6, <1>7 DEF Others

\* Where a failure or an interrupt leads, and what it leaves undone unless the
\* step was torn.
LEMMA AbandonDoes ==
    ASSUME TypeOK, Fault \/ Interrupt
    PROVE  /\ UNCHANGED <<k, at, sources, view, present, vstamp, strangers>>
           /\ UNCHANGED <<books, read, pure, messy>>
           /\ failed' = TRUE /\ (torn => torn') /\ torn' \in BOOLEAN /\ world' = world
           /\ used'.tampers = used.tampers /\ ~Undisturbed'
           /\ pc' \in {"unstage", "uncopy", "leave", "clean", "clean stage", "done"}
           /\ pc # "done"
           /\ pc' = "leave" <=> pc \in Inside
           /\ outcome' = IF pc' = "done" THEN "failed" ELSE outcome
           /\ staging' \in BOOLEAN /\ root' \in BOOLEAN /\ sub' \in BOOLEAN
           /\ cwd' \in {"home", "view"}
           /\ pc \in Inside => k' = k
           /\ pc' = "uncopy" => pc \in {"copying", "verify"}
           /\ pc' = "unstage" => pc = "bind"
           /\ ~torn' =>
                 /\ UNCHANGED <<staging, root, sub, cwd>> /\ pc # "leave"
                 /\ pc' = "clean stage" => pc = "model"
                 /\ pc' = "done" => pc \in {"start", "stage"}
                 /\ pc' = "clean" =>
                       pc \in {"subdir", "open", "copy", "freeze", "hash", "stable", "enter"}
  <1>1. pc \in Phase /\ torn \in BOOLEAN /\ staging \in BOOLEAN /\ root \in BOOLEAN
        /\ sub \in BOOLEAN /\ cwd \in {"home", "view"}
    BY DEF TypeOK
  <1>2. CASE Fault
    <2>1. used'.tampers = used.tampers /\ ~Undisturbed' /\ world' = world
      BY <1>2, SpendSpends DEF Fault, Undisturbed
    <2>2. /\ pc \notin {"clean", "clean sub", "clean root", "clean stage", "done"}
          /\ Abandon(Caught, Fragile) /\ UNCHANGED <<staging, cwd>>
      BY <1>2 DEF Fault
    <2>3. pc' \in Caught[pc]
      BY <2>2 DEF Abandon
    <2>4. /\ pc' \in {"unstage", "uncopy", "leave", "clean", "clean stage", "done"}
          /\ pc' = "leave" <=> pc \in Inside
          /\ pc' = "uncopy" => pc \in {"copying", "verify"}
          /\ pc' = "unstage" => pc = "bind"
          /\ pc' = "clean stage" => pc = "model"
          /\ pc' = "done" => pc \in {"start", "stage", "identify", "unstage"}
          /\ pc' = "clean" => pc \in {"subdir", "open", "copy", "freeze", "record", "hash",
                                     "stable", "enter", "leave", "uncopy"}
      BY <1>1, <2>2, <2>3 DEF Caught, Phase, Inside
    <2> QED
      BY <1>1, <2>1, <2>2, <2>4 DEF Abandon, Fragile, Inside
  <1>3. CASE Interrupt
    <2>1. used'.tampers = used.tampers /\ ~Undisturbed' /\ world' = world
      BY <1>3, SpendSpends DEF Interrupt, Undisturbed
    <2>2. /\ pc # "done" /\ Abandon(Uncaught, FragileToInterrupt)
          /\ cwd' \in IF pc \in {"enter", "leave"} THEN {"home", "view"} ELSE {cwd}
      BY <1>3 DEF Interrupt
    <2>3. pc' \in Uncaught[pc]
      BY <2>2 DEF Abandon
    <2>4. /\ pc' \in {"leave", "clean", "clean stage", "done"}
          /\ pc' = "leave" <=> pc \in Inside
          /\ pc' = "clean stage" => pc \in {"model", "clean", "clean sub", "clean root"}
          /\ pc' = "done" => pc \in Before \cup {"clean stage"}
          /\ pc' = "clean" => pc \in {"subdir", "open", "copy", "freeze", "copying", "verify",
                                     "record", "hash", "stable", "enter", "leave", "uncopy"}
      BY <1>1, <2>2, <2>3 DEF Uncaught, Phase, Inside, Before
    <2> QED
      BY <1>1, <2>1, <2>2, <2>4 DEF Abandon, Fragile, FragileToInterrupt, Inside, Before
  <1> QED
    BY <1>2, <1>3

\* A check or a loader that fails.
LEMMA ChecksDo ==
    ASSUME \E from \in Phase : CheckFails(from) \/ LoaderFails(from)
    PROVE  /\ pc \in Inside /\ pc' = "leave" /\ failed' = TRUE
           /\ UNCHANGED <<k, at, sources, staged, books, loader, messy, outcome, ghosts>>
           /\ ~Unchanged \/ ~pure \/ present # File
  <1>1. PICK from \in Phase : CheckFails(from) \/ LoaderFails(from)
    OBVIOUS
  <1>2. CASE CheckFails(from)
    BY <1>2 DEF CheckFails, Break, Goto, Inside, verdict
  <1>3. CASE LoaderFails(from)
    BY <1>3 DEF LoaderFails, Break, Goto, Inside, verdict
  <1> QED
    BY <1>1, <1>2, <1>3

\* A block that is read.
LEMMA LoadDoes ==
    ASSUME \E f \in File, b \in Block : LoadBlock(f, b)
    PROVE  /\ pc \in {"load", "generate"}
           /\ UNCHANGED <<pc, k, at, sources, staged, books, cwd, verdict, ghosts>>
           /\ \E f \in File, b \in Block :
                 /\ f \in present /\ read' = read \cup {<<f, b>>}
                 /\ pure' = (pure /\ view[f][b] = "locked")
  BY DEF LoadBlock

\* The cleanup removes something it has entered: the newest exists.
LEMMA NewestIsEntry ==
    ASSUME TypeOK, entries # {}
    PROVE  Newest \in entries
  <1> DEFINE T == {N - f : f \in entries}
  <1>1. N \in Nat /\ \A f \in entries : f \in Nat /\ f <= N
    BY ModelViewAssumption DEF TypeOK, File
  <1>2. T \subseteq Nat /\ T # {}
    BY <1>1
  <1>3. PICK x \in T : \A y \in T : ~(<<y, x>> \in OpToRel(<, Nat))
    <2> HIDE DEF T
    <2> QED
      BY <1>2, NatLessThanWellFounded, WFMin
  <1>4. PICK f \in entries : x = N - f
    BY <1>3
  <1>5. ASSUME NEW g \in entries PROVE g <= f
    <2>1. N - g \in T
      OBVIOUS
    <2>2. ~(<<N - g, N - f>> \in OpToRel(<, Nat))
      BY <1>3, <1>4, <2>1
    <2>3. N - g \in Nat /\ N - f \in Nat
      BY <1>1
    <2>4. ~(N - g < N - f)
      BY <2>2, <2>3 DEF OpToRel
    <2> QED
      BY <1>1, <2>4
  <1> HIDE DEF T
  <1> QED
    BY <1>5 DEF Newest

\* The parts of the type invariant.
ControlTypes ==
    /\ pc \in Phase /\ k \in 1..N + 1 /\ at \in 1..B + 1
    /\ cwd \in {"home", "view"} /\ read \subseteq File \X Block /\ pure \in BOOLEAN
    /\ failed \in BOOLEAN /\ messy \in BOOLEAN /\ outcome \in {"none", "ok", "failed"}
    /\ torn \in BOOLEAN /\ world \in Worlds

SourceTypes ==
    /\ source \in [File -> Bytes] /\ stamp \in [File -> Nat]
    /\ held \in Bytes /\ detached \in BOOLEAN /\ opened \in Nat

StagedTypes ==
    /\ view \in [File -> Bytes] /\ present \subseteq File /\ vstamp \in [File -> Nat]
    /\ strangers \subseteq {"root", "sub"}
    /\ staging \in BOOLEAN /\ root \in BOOLEAN /\ sub \in BOOLEAN

BookTypes ==
    /\ known \in BOOLEAN /\ entries \subseteq File /\ bound \in [File -> Nat]
    /\ frozen \in Nat /\ good \in BOOLEAN

UsedType == used \in [edits : Nat, tampers : Nat, faults : Nat, interrupts : Nat]

\* Together they are the type invariant.
LEMMA TypeParts ==
    TypeOK <=> ControlTypes /\ SourceTypes /\ StagedTypes /\ BookTypes /\ UsedType
  BY DEF TypeOK, ControlTypes, SourceTypes, StagedTypes, BookTypes, UsedType

\* A file with one block written, or with a new fingerprint, is one; so is one
\* of the lock's size.
LEMMA WriteBlock ==
    ASSUME NEW F \in [File -> Bytes], NEW f \in File, NEW b \in Slot, NEW v \in Byte
    PROVE  /\ [F EXCEPT ![f] = [@ EXCEPT ![b] = v]] \in [File -> Bytes]
           /\ [F EXCEPT ![f] = Written(@, b, v)] \in [File -> Bytes]
  <1>1. [F[f] EXCEPT ![b] = v] \in Bytes
    BY DEF Bytes
  <1>2. Written(F[f], b, v) \in Bytes
    <2>1. "other" \in Byte /\ F[f] \in [Slot -> Byte]
      BY DEF Byte, Bytes
    <2> QED
      BY <2>1 DEF Bytes, Written
  <1> QED
    BY <1>1, <1>2

LEMMA FilledBytes ==
    ASSUME NEW v \in Byte
    PROVE  Filled(v) \in Bytes
  BY DEF Filled, Bytes, Byte

LEMMA NewStamp ==
    ASSUME NEW S \in [File -> Nat], NEW f \in File
    PROVE  [S EXCEPT ![f] = @ + 1] \in [File -> Nat]
  OBVIOUS

\* The editor and the outside program write bytes and new fingerprints.
LEMMA OthersTypes ==
    ASSUME TypeOK, Others
    PROVE  SourceTypes' /\ StagedTypes' /\ UsedType'
  <1> USE DEF sources, staged
  <1>0. SourceTypes /\ StagedTypes
    BY TypeParts
  <1>1. ASSUME NEW f \in File, NEW b \in Slot, NEW v \in Byte, EditSource(f, b, v)
        PROVE  SourceTypes' /\ StagedTypes' /\ UsedType'
    <2>1. UsedType'
      BY <1>1, SpendSpends DEF EditSource, UsedType
    <2>2. source' \in [File -> Bytes] /\ stamp' \in [File -> Nat]
      BY <1>0, <1>1, WriteBlock, NewStamp DEF EditSource, SourceTypes
    <2> QED
      BY <1>0, <1>1, <2>1, <2>2 DEF EditSource, SourceTypes, StagedTypes
  <1>2. ASSUME NEW f \in File, NEW v \in {"locked", "other"}, ReplaceSource(f, v)
        PROVE  SourceTypes' /\ StagedTypes' /\ UsedType'
    <2>1. UsedType'
      BY <1>2, SpendSpends DEF ReplaceSource, UsedType
    <2>2. Filled(v) \in Bytes
      BY FilledBytes DEF Byte
    <2>3. source' \in [File -> Bytes]
      BY <1>0, <1>2, <2>2 DEF ReplaceSource, SourceTypes
    <2>4. stamp' \in [File -> Nat]
      BY <1>0, <1>2, NewStamp DEF ReplaceSource, SourceTypes
    <2>5. detached' \in BOOLEAN /\ held' \in Bytes /\ opened' \in Nat
      BY <1>0, <1>2 DEF ReplaceSource, SourceTypes
    <2> QED
      BY <1>0, <1>2, <2>1, <2>3, <2>4, <2>5 DEF ReplaceSource, SourceTypes, StagedTypes
  <1>3. ASSUME NEW f \in File, NEW b \in Slot, NEW v \in Byte, TamperWrite(f, b, v)
        PROVE  SourceTypes' /\ StagedTypes' /\ UsedType'
    <2>1. UsedType'
      BY <1>3, SpendSpends DEF TamperWrite, UsedType
    <2>2. view' \in [File -> Bytes] /\ vstamp' \in [File -> Nat]
      BY <1>0, <1>3, WriteBlock, NewStamp DEF TamperWrite, StagedTypes
    <2> QED
      BY <1>0, <1>3, <2>1, <2>2 DEF TamperWrite, SourceTypes, StagedTypes
  <1>4. ASSUME NEW f \in File, TamperRemove(f)
        PROVE  SourceTypes' /\ StagedTypes' /\ UsedType'
    <2>1. UsedType'
      BY <1>4, SpendSpends DEF TamperRemove, UsedType
    <2> QED
      BY <1>0, <1>4, <2>1 DEF TamperRemove, SourceTypes, StagedTypes
  <1>5. ASSUME NEW dir \in {"root", "sub"}, TamperAdd(dir)
        PROVE  SourceTypes' /\ StagedTypes' /\ UsedType'
    <2>1. UsedType'
      BY <1>5, SpendSpends DEF TamperAdd, UsedType
    <2> QED
      BY <1>0, <1>5, <2>1 DEF TamperAdd, SourceTypes, StagedTypes
  <1> QED
    BY <1>1, <1>2, <1>3, <1>4, <1>5 DEF Others

\* The parts are kept one by one: each names the steps that can disturb it.
LEMMA SourceTypesStep ==
    ASSUME TypeOK, Placed, [Next]_vars
    PROVE  SourceTypes'
  <1> USE DEF Goto, Break, sources
  <1>0. SourceTypes
    BY TypeParts
  <1>1. CASE OpenSource \/ Stable
    <2>1. k \in File /\ source' = source /\ stamp' = stamp /\ held' = held /\ detached' = FALSE
          /\ opened' \in {stamp[k], opened}
      BY <1>1, Numbers DEF OpenSource, Stable, Placed, PerFile, File
    <2> QED
      BY <1>0, <2>1 DEF SourceTypes
  <1>2. CASE Others
    BY <1>2, OthersTypes
  <1>3. CASE Fault \/ Interrupt
    BY <1>0, <1>3, AbandonDoes DEF SourceTypes
  <1>4. ASSUME Next, ~(OpenSource \/ Stable \/ Others \/ Fault \/ Interrupt)
        PROVE  UNCHANGED sources
    BY <1>4, ChecksDo, LoadDoes
       DEF Next, Step, Bind, MakeStage, Identify, OpenStage, Unstage, MakeRoot,
       MakeSubdirectory, SizeMismatch, SameSize, ResizedBeforeCopy, CloneSource,
       CreateCopy, CopyBlock, CopyEndsEarly, CopyGrown, CopyDone, Uncopy, Verify,
       CopyVanished, Record, RecordMisfit, Enlist, HashBlock, HashMatches, HashDiffers,
       Unstable, Enter, Leave, FinishLoad, CheckLoaded, FinishGenerate, CheckGenerated,
       CleanFile, FilesCleaned, CleanSubdirectory, CleanRoot, CleanStage, CleanupFault,
       Done, vars
  <1> QED
    BY <1>0, <1>1, <1>2, <1>3, <1>4 DEF SourceTypes, vars

LEMMA StagedTypesStep ==
    ASSUME TypeOK, Placed, [Next]_vars
    PROVE  StagedTypes'
  <1> USE DEF Goto, Break, staged
  <1>0. StagedTypes
    BY TypeParts
  <1>1. CASE \/ MakeStage \/ Unstage \/ MakeRoot \/ MakeSubdirectory
             \/ CleanSubdirectory \/ CleanRoot \/ CleanStage
    <2>1. /\ UNCHANGED <<view, present, vstamp, strangers>>
          /\ staging' \in BOOLEAN /\ root' \in BOOLEAN /\ sub' \in BOOLEAN
      BY <1>0, <1>1 DEF MakeStage, Unstage, MakeRoot, MakeSubdirectory,
         CleanSubdirectory, CleanRoot, CleanStage, StagedTypes
    <2> QED
      BY <1>0, <2>1 DEF StagedTypes
  <1>2. CASE CloneSource \/ CreateCopy
    <2>1. k \in File
      BY <1>2, Numbers DEF CloneSource, CreateCopy, Placed, PerFile, File
    <2>2. Source \in Bytes /\ Filled("short") \in Bytes
      BY <2>1, FilledBytes DEF TypeOK, Source, Byte
    <2>3. view' \in [File -> Bytes]
      BY <1>0, <1>2, <2>1, <2>2 DEF CloneSource, CreateCopy, StagedTypes
    <2>4. vstamp' \in [File -> Nat]
      BY <1>0, <1>2, <2>1, NewStamp DEF CloneSource, CreateCopy, StagedTypes
    <2>5. present' \subseteq File /\ UNCHANGED <<strangers, staging, root, sub>>
      BY <1>0, <1>2, <2>1 DEF CloneSource, CreateCopy, StagedTypes
    <2> QED
      BY <1>0, <2>3, <2>4, <2>5 DEF StagedTypes
  <1>3. CASE CopyBlock
    <2>1. k \in File /\ at \in Slot
      BY <1>3, Numbers DEF CopyBlock, Placed, PerFile, File, Slot, TypeOK
    <2>2. Source[at] \in Byte
      BY <2>1 DEF TypeOK, Source, Bytes
    <2>3. view' \in [File -> Bytes]
      BY <1>0, <1>3, <2>1, <2>2, WriteBlock DEF CopyBlock, StagedTypes
    <2> QED
      BY <1>0, <1>3, <2>3 DEF CopyBlock, StagedTypes
  <1>4. CASE Uncopy \/ CleanFile
    BY <1>0, <1>4 DEF Uncopy, CleanFile, StagedTypes
  <1>5. CASE Others
    BY <1>5, OthersTypes
  <1>6. CASE Fault \/ Interrupt
    BY <1>0, <1>6, AbandonDoes DEF StagedTypes
  <1>7. ASSUME Next, ~(MakeStage \/ Unstage \/ MakeRoot \/ MakeSubdirectory \/ CleanSubdirectory),
               ~(CleanRoot \/ CleanStage \/ CloneSource \/ CreateCopy \/ CopyBlock),
               ~(Uncopy \/ CleanFile \/ Others \/ Fault \/ Interrupt)
        PROVE  UNCHANGED staged
    BY <1>7, ChecksDo, LoadDoes
       DEF Next, Step, Bind, Identify, OpenStage, OpenSource, SizeMismatch, SameSize,
       ResizedBeforeCopy, CopyEndsEarly, CopyGrown, CopyDone, Verify, CopyVanished,
       Record, RecordMisfit, Enlist, HashBlock, HashMatches, HashDiffers, Stable,
       Unstable, Enter, Leave, FinishLoad, CheckLoaded, FinishGenerate, CheckGenerated,
       FilesCleaned, CleanupFault, Done, vars
  <1> QED
    BY <1>0, <1>1, <1>2, <1>3, <1>4, <1>5, <1>6, <1>7 DEF StagedTypes, vars

LEMMA BookTypesStep ==
    ASSUME TypeOK, Placed, [Next]_vars
    PROVE  BookTypes'
  <1> USE DEF Goto, Break, books
  <1>0. BookTypes
    BY TypeParts
  <1>1. CASE MakeSubdirectory \/ CleanFile \/ HashBlock
    BY <1>0, <1>1 DEF MakeSubdirectory, CleanFile, HashBlock, BookTypes
  <1>2. CASE Record \/ RecordMisfit \/ HashMatches
    <2>1. k \in File /\ vstamp[k] \in Nat
      BY <1>2, Numbers DEF Record, RecordMisfit, HashMatches, Placed, PerFile, File
    <2> QED
      BY <1>0, <1>2, <2>1 DEF Record, RecordMisfit, Enlist, HashMatches, BookTypes
  <1>3. CASE CleanupFault
    BY <1>0, <1>3 DEF CleanupFault, BookTypes
  <1>4. CASE Others
    BY <1>0, <1>4, OthersDo DEF BookTypes
  <1>5. CASE Fault \/ Interrupt
    BY <1>0, <1>5, AbandonDoes DEF BookTypes
  <1>6. ASSUME Next, ~(MakeSubdirectory \/ CleanFile \/ HashBlock \/ HashMatches),
               ~(Record \/ RecordMisfit),
               ~(CleanupFault \/ Others \/ Fault \/ Interrupt)
        PROVE  UNCHANGED books
    BY <1>6, ChecksDo, LoadDoes
       DEF Next, Step, Bind, MakeStage, Identify, OpenStage, Unstage, MakeRoot,
       OpenSource, SizeMismatch, SameSize, ResizedBeforeCopy, CloneSource, CreateCopy,
       CopyBlock, CopyEndsEarly, CopyGrown, CopyDone, Uncopy, Verify, CopyVanished,
       HashDiffers, Stable, Unstable, Enter, Leave, FinishLoad, CheckLoaded,
       FinishGenerate, CheckGenerated, FilesCleaned, CleanSubdirectory, CleanRoot,
       CleanStage, Done, vars
  <1> QED
    BY <1>0, <1>1, <1>2, <1>3, <1>4, <1>5, <1>6 DEF BookTypes, vars

LEMMA UsedTypeStep ==
    ASSUME TypeOK, [Next]_vars
    PROVE  UsedType'
  <1> USE DEF Goto, Break, ghosts
  <1>0. UsedType
    BY TypeParts
  <1>1. CASE Others
    BY <1>1, OthersTypes
  <1>2. CASE Fault \/ Interrupt \/ CleanupFault
    BY <1>2, SpendSpends DEF Fault, Interrupt, CleanupFault, UsedType
  <1>3. ASSUME Next, ~(Others \/ Fault \/ Interrupt \/ CleanupFault)
        PROVE  UNCHANGED used
    BY <1>3, ChecksDo, LoadDoes
       DEF Next, Step, Bind, MakeStage, Identify, OpenStage, Unstage, MakeRoot,
       MakeSubdirectory, OpenSource, SizeMismatch, SameSize, ResizedBeforeCopy,
       CloneSource, CreateCopy, CopyBlock, CopyEndsEarly, CopyGrown, CopyDone, Uncopy,
       Verify, CopyVanished, Record, RecordMisfit, Enlist, HashBlock, HashMatches,
       HashDiffers, Stable, Unstable, Enter, Leave, FinishLoad, CheckLoaded,
       FinishGenerate, CheckGenerated, CleanFile, FilesCleaned, CleanSubdirectory,
       CleanRoot, CleanStage, Done, vars
  <1> QED
    BY <1>0, <1>1, <1>2, <1>3 DEF UsedType, vars

LEMMA ControlTypesStep ==
    ASSUME TypeOK, Placed, [Next]_vars
    PROVE  ControlTypes'
  <1> USE DEF Goto, Break, loader, verdict, ghosts
  <1>0. /\ ControlTypes /\ N \in Nat /\ N > 0 /\ B \in Nat /\ k \in Nat /\ at \in Nat
        /\ 1 \in 1..B + 1
    BY TypeParts, Numbers
  <1>1. CASE Bind \/ MakeStage \/ Identify \/ OpenStage \/ MakeRoot \/ MakeSubdirectory
    <2>1. pc' \in Phase
      BY <1>1 DEF Bind, MakeStage, Identify, OpenStage, MakeRoot, MakeSubdirectory,
         ToFile, Phase
    <2> QED
      BY <1>0, <1>1, <2>1 DEF Bind, MakeStage, Identify, OpenStage, MakeRoot,
         MakeSubdirectory, ControlTypes
  <1>2. CASE \/ OpenSource \/ SizeMismatch \/ SameSize \/ ResizedBeforeCopy
             \/ CloneSource \/ CreateCopy
    <2>1. pc' \in Phase /\ at' \in {1, at}
      BY <1>2 DEF OpenSource, SizeMismatch, SameSize, ResizedBeforeCopy, CloneSource,
         CreateCopy, Phase
    <2> QED
      BY <1>0, <1>2, <2>1 DEF OpenSource, SizeMismatch, SameSize, ResizedBeforeCopy,
         CloneSource, CreateCopy, ControlTypes
  <1>3. CASE CopyBlock \/ HashBlock
    <2>1. at' = at + 1 /\ at <= B /\ UNCHANGED <<pc, k, loader, verdict, ghosts>>
      BY <1>3 DEF CopyBlock, HashBlock
    <2>2. at' \in 1..B + 1
      BY <1>0, <2>1 DEF ControlTypes
    <2> QED
      BY <1>0, <2>1, <2>2 DEF ControlTypes
  <1>4. CASE \/ CopyEndsEarly \/ CopyGrown \/ CopyDone \/ Uncopy
             \/ Verify \/ CopyVanished \/ Record \/ RecordMisfit \/ HashMatches \/ HashDiffers
    <2>1. pc' \in Phase /\ at' \in {1, at} /\ failed' \in {TRUE, failed}
          /\ UNCHANGED <<k, loader, messy, outcome, ghosts>>
      BY <1>4 DEF CopyEndsEarly, CopyGrown, CopyDone, Uncopy, Verify, CopyVanished,
         Record, RecordMisfit, Enlist, HashMatches, HashDiffers, Phase
    <2> QED
      BY <1>0, <2>1 DEF ControlTypes
  <1>5. CASE Stable \/ Unstable
    <2>1. pc' \in Phase /\ pc = "stable" /\ k' \in {k, k + 1} /\ failed' \in {TRUE, failed}
          /\ UNCHANGED <<at, loader, messy, outcome, ghosts>>
      BY <1>5 DEF Stable, Unstable, ToFile, Phase
    <2>2. k' \in 1..N + 1
      BY <1>0, <2>1 DEF Placed, PerFile, ControlTypes
    <2> QED
      BY <1>0, <2>1, <2>2 DEF ControlTypes
  <1>6. CASE Enter \/ Leave \/ FinishLoad \/ CheckLoaded \/ FinishGenerate \/ CheckGenerated
    <2>1. pc' \in Phase /\ cwd' \in {"home", "view", cwd}
          /\ UNCHANGED <<k, at, read, pure, verdict, ghosts>>
      BY <1>6 DEF Enter, Leave, FinishLoad, CheckLoaded, FinishGenerate, CheckGenerated,
         Phase
    <2> QED
      BY <1>0, <2>1 DEF ControlTypes
  <1>7. CASE \E from \in Phase : CheckFails(from) \/ LoaderFails(from)
    BY <1>0, <1>7, ChecksDo DEF ControlTypes, Phase
  <1>8. CASE \E f \in File, b \in Block : LoadBlock(f, b)
    <2>1. UNCHANGED <<pc, k, at, cwd, verdict, ghosts>>
      BY <1>8, LoadDoes
    <2>2. PICK f \in File, b \in Block : /\ read' = read \cup {<<f, b>>}
                                         /\ pure' = (pure /\ view[f][b] = "locked")
      BY <1>8, LoadDoes
    <2>3. read' \subseteq File \X Block /\ pure' \in BOOLEAN
      BY <1>0, <2>2 DEF ControlTypes
    <2> QED
      BY <1>0, <2>1, <2>3 DEF ControlTypes
  <1>9. CASE CleanFile \/ FilesCleaned \/ CleanSubdirectory \/ CleanRoot
    <2>1. pc' \in Phase /\ messy' \in BOOLEAN
      BY <1>0, <1>9 DEF CleanFile, FilesCleaned, CleanSubdirectory, CleanRoot, Phase,
         ControlTypes
    <2> QED
      BY <1>0, <1>9, <2>1 DEF CleanFile, FilesCleaned, CleanSubdirectory, CleanRoot,
         ControlTypes
  <1>10. CASE CleanStage
    <2>1. root \in BOOLEAN
      BY DEF TypeOK
    <2> QED
      BY <1>0, <1>10, <2>1 DEF CleanStage, Phase, ControlTypes
  <1>11. CASE Others
    BY <1>0, <1>11, OthersDo DEF ControlTypes
  <1>12. CASE Fault \/ Interrupt
    <2>1. pc' \in Phase /\ cwd' \in {"home", "view"} /\ failed' = TRUE /\ torn' \in BOOLEAN
          /\ outcome' \in {"failed", outcome}
          /\ UNCHANGED <<k, at, read, pure, messy, world>>
      BY <1>12, AbandonDoes DEF Phase
    <2> QED
      BY <1>0, <2>1 DEF ControlTypes
  <1>13. CASE CleanupFault
    <2>1. pc' \in Phase /\ outcome' \in {"failed", outcome}
          /\ UNCHANGED <<k, at, loader, failed, world>> /\ messy' = TRUE /\ torn' = TRUE
      BY <1>0, <1>13 DEF CleanupFault, Spend, Phase, ControlTypes
    <2> QED
      BY <1>0, <2>1 DEF ControlTypes
  <1>14. CASE UNCHANGED vars
    BY <1>0, <1>14 DEF vars, ControlTypes
  <1>15. CASE Unstage
    BY <1>0, <1>15 DEF Unstage, ControlTypes, Phase
  <1> QED
    BY <1>1, <1>2, <1>3, <1>4, <1>5, <1>6, <1>7, <1>8, <1>9, <1>10, <1>11, <1>12, <1>13, <1>14,
       <1>15
       DEF Next, Step, Done

\* Every step keeps every variable in its range.
LEMMA TypeStep ==
    ASSUME TypeOK, Placed, [Next]_vars
    PROVE  TypeOK'
  <1>1. (ControlTypes /\ SourceTypes /\ StagedTypes /\ BookTypes /\ UsedType)' => TypeOK'
    BY TypeParts, PTL
  <1> QED
    BY <1>1, ControlTypesStep, SourceTypesStep, StagedTypesStep, BookTypesStep, UsedTypeStep

\* The file at hand is one of the lock until the last is bound, and the cleanup
\* knows of the earlier ones.
LEMMA PlacedStep ==
    ASSUME TypeOK, Placed, [Next]_vars
    PROVE  Placed'
  <1> USE DEF Goto, Break, sources, staged, books, loader, verdict, ghosts
  <1>0. /\ N \in Nat /\ N > 0 /\ B \in Nat /\ k \in Nat /\ k > 0 /\ k <= N + 1 /\ at \in Nat
        /\ vstamp \in [File -> Nat] /\ bound \in [File -> Nat] /\ frozen \in Nat
        /\ view \in [File -> Bytes] /\ pc \in Phase
    BY Numbers DEF TypeOK
  <1>1. CASE Bind \/ MakeStage \/ Identify \/ OpenStage \/ MakeRoot \/ MakeSubdirectory
    <2>1. CASE MakeRoot
      <3>1. k = 1 /\ pc = "model" /\ pc' = ToFile(1) /\ UNCHANGED <<k, known, entries>>
        BY <2>1 DEF MakeRoot, Placed, Early, Before
      <3>2. pc' = IF 1 \in Deep /\ ~known THEN "subdir" ELSE "open"
        BY <1>0, <3>1 DEF ToFile
      <3>3. pc' \in {"subdir", "open"} /\ (pc' = "open" /\ k \in Deep => known)
        BY <3>1, <3>2
      <3>4. \A f \in entries : f < k
        BY <3>1 DEF Placed, Cleaning
      <3>5. k <= N
        BY <1>0, <3>1
      <3> QED
        BY <3>1, <3>3, <3>4, <3>5 DEF Placed, Early, Before, PerFile, Cleaning, Inside
    <2>2. CASE MakeSubdirectory
      BY <1>0, <2>2 DEF MakeSubdirectory, Placed, Early, Before, PerFile, Cleaning, Inside
    <2>3. CASE Bind \/ MakeStage \/ Identify \/ OpenStage
      BY <1>0, <2>3 DEF Bind, MakeStage, Identify, OpenStage, Early, Before, Placed,
         PerFile, Cleaning, Inside
    <2> QED
      BY <1>1, <2>1, <2>2, <2>3
  <1>2. CASE OpenSource \/ SizeMismatch \/ SameSize \/ ResizedBeforeCopy
    BY <1>2 DEF OpenSource, SizeMismatch, SameSize, ResizedBeforeCopy, Placed, Early,
       Before, PerFile, Cleaning, Inside
  <1>3. CASE CloneSource \/ CreateCopy
    BY <1>3 DEF CloneSource, CreateCopy, Placed, Early, Before, PerFile, Cleaning, Inside
  <1>4. CASE CopyBlock
    BY <1>4 DEF CopyBlock, Placed, Early, Before, PerFile, Cleaning, Inside
  <1>5. CASE CopyEndsEarly \/ CopyGrown \/ CopyDone \/ Uncopy
    BY <1>5 DEF CopyEndsEarly, CopyGrown, CopyDone, Uncopy, Placed, Early, Before,
       PerFile, Cleaning, Inside
  <1>6. CASE Verify \/ CopyVanished \/ Record \/ RecordMisfit
    BY <1>6 DEF Verify, CopyVanished, Record, RecordMisfit, Enlist, Placed, Early,
       Before, PerFile, Cleaning, Inside
  <1>7. CASE HashBlock
    BY <1>7 DEF HashBlock, Placed, Early, Before, PerFile, Cleaning, Inside
  <1>8. CASE HashMatches \/ HashDiffers
    BY <1>8 DEF HashMatches, HashDiffers, Placed, Early, Before, PerFile, Cleaning, Inside
  <1>9. CASE Stable \/ Unstable
    <2>1. CASE Stable
      <3>1. pc = "stable" /\ k <= N /\ k' = k + 1 /\ pc' = ToFile(k + 1)
            /\ UNCHANGED <<known, entries>>
        BY <2>1 DEF Stable, Placed, PerFile
      <3>2. pc' = IF k + 1 > N THEN "enter"
                  ELSE IF k + 1 \in Deep /\ ~known THEN "subdir" ELSE "open"
        BY <3>1 DEF ToFile
      <3>3. \A f \in entries : f < k \/ f = k
        BY <3>1 DEF Placed, Cleaning
      <3>4. entries \subseteq File
        BY DEF TypeOK
      <3>5. \A f \in entries : f < k + 1
        BY <1>0, <3>3, <3>4 DEF File
      <3>6. \/ k' = N + 1 /\ pc' = "enter"
            \/ k' <= N /\ pc' \in {"subdir", "open"} /\ (pc' = "open" /\ k' \in Deep => known)
        BY <1>0, <3>1, <3>2
      <3> QED
        BY <3>1, <3>5, <3>6 DEF Placed, Early, Before, PerFile, Cleaning, Inside
    <2>2. CASE Unstable
      BY <1>0, <2>2 DEF Unstable, Placed, Early, Before, PerFile, Cleaning, Inside
    <2> QED
      BY <1>9, <2>1, <2>2
  <1>10. CASE Enter \/ Leave \/ FinishLoad \/ CheckLoaded
    BY <1>10 DEF Enter, Leave, FinishLoad, CheckLoaded, Placed, Early, Before, PerFile,
       Cleaning, Inside
  <1>11. CASE FinishGenerate \/ CheckGenerated
    BY <1>11 DEF FinishGenerate, CheckGenerated, Placed, Early, Before, PerFile,
       Cleaning, Inside
  <1>12. CASE \E from \in Phase : CheckFails(from) \/ LoaderFails(from)
    BY <1>12, ChecksDo DEF Placed, Early, Before, PerFile, Cleaning, Inside
  <1>13. CASE \E f \in File, b \in Block : LoadBlock(f, b)
    BY <1>13, LoadDoes DEF Placed, Early, Before, PerFile, Cleaning, Inside
  <1>14. CASE CleanFile \/ FilesCleaned
    BY <1>14 DEF CleanFile, FilesCleaned, Placed, Early, Before, PerFile, Cleaning, Inside
  <1>15. CASE CleanSubdirectory \/ CleanRoot \/ CleanStage
    BY <1>15 DEF CleanSubdirectory, CleanRoot, CleanStage, Placed, Early, Before,
       PerFile, Cleaning, Inside
  <1>16. CASE Others
    BY <1>16, OthersDo DEF Placed, Early, Before, PerFile, Cleaning, Inside
  <1>17. CASE Fault \/ Interrupt
    BY <1>17, AbandonDoes DEF Placed, Early, Before, PerFile, Cleaning, Inside
  <1>18. CASE CleanupFault
    BY <1>18 DEF CleanupFault, Spend, Placed, Early, Before, PerFile, Cleaning, Inside
  <1>19. CASE UNCHANGED vars
    BY <1>19 DEF vars, Placed, Early, Before, PerFile, Cleaning, Inside
  <1>20. CASE Unstage
    BY <1>20 DEF Unstage, Placed, Early, Before, PerFile, Cleaning, Inside
  <1> QED
    BY <1>1, <1>2, <1>3, <1>4, <1>5, <1>6, <1>7, <1>8, <1>9, <1>10, <1>11, <1>12, <1>13,
       <1>14, <1>15, <1>16, <1>17, <1>18, <1>19, <1>20
       DEF Next, Step, Done

\* The hash closes over the frozen copy: no step gives a copy other bytes and
\* leaves it the fingerprint it was bound with.
LEMMA SealedStep ==
    ASSUME TypeOK, Placed, Sealed, [Next]_vars
    PROVE  Sealed'
  <1> USE DEF Goto, Break, sources, staged, books, loader, verdict, ghosts
  <1>0. /\ N \in Nat /\ N > 0 /\ B \in Nat /\ k \in Nat /\ k > 0 /\ k <= N + 1 /\ at \in Nat
        /\ vstamp \in [File -> Nat] /\ bound \in [File -> Nat] /\ frozen \in Nat
        /\ view \in [File -> Bytes] /\ pc \in Phase
    BY Numbers DEF TypeOK
  <1>1. CASE Bind \/ MakeStage \/ Identify \/ OpenStage \/ MakeRoot \/ MakeSubdirectory
    BY <1>1 DEF Bind, MakeStage, Identify, OpenStage, MakeRoot, MakeSubdirectory,
       ToFile, Sealed, Hashed
  <1>2. CASE OpenSource \/ SizeMismatch \/ SameSize \/ ResizedBeforeCopy
    BY <1>2 DEF OpenSource, SizeMismatch, SameSize, ResizedBeforeCopy, Sealed, Hashed
  <1>3. CASE CloneSource \/ CreateCopy
    <2>1. /\ pc = "freeze" /\ k \in File /\ pc' \in {"verify", "copying"}
          /\ UNCHANGED <<k, bound>> /\ vstamp' = [vstamp EXCEPT ![k] = @ + 1]
          /\ \A f \in File \ {k} : view'[f] = view[f]
      BY <1>0, <1>3 DEF CloneSource, CreateCopy, Placed, PerFile, File
    <2>2. Hashed' = Hashed /\ k \notin Hashed
      BY <1>0, <2>1 DEF Hashed
    <2>3. \A f \in File : vstamp'[f] = IF f = k THEN vstamp[f] + 1 ELSE vstamp[f]
      BY <1>0, <2>1
    <2>4. \A f \in File : bound'[f] <= vstamp'[f]
      BY <1>0, <2>1, <2>3 DEF Sealed
    <2>5. \A f \in Hashed : f \in File /\ f # k
      BY <2>2 DEF Hashed
    <2> QED
      BY <2>1, <2>2, <2>3, <2>4, <2>5 DEF Sealed
  <1>4. CASE CopyBlock
    BY <1>0, <1>4 DEF CopyBlock, Sealed, Hashed, Placed, PerFile, File
  <1>5. CASE CopyEndsEarly \/ CopyGrown \/ CopyDone \/ Uncopy
    BY <1>5 DEF CopyEndsEarly, CopyGrown, CopyDone, Uncopy, Sealed, Hashed
  <1>6. CASE Verify \/ CopyVanished \/ Record \/ RecordMisfit
    <2>1. CASE Record
      <3>1. /\ pc = "record" /\ pc' = "hash" /\ frozen' = vstamp[k] /\ at' = 1 /\ k \in File
            /\ UNCHANGED <<k, bound, vstamp, view>>
        BY <1>0, <2>1 DEF Record, Enlist, Placed, PerFile, File
      <3>2. Hashed' = Hashed
        BY <3>1 DEF Hashed
      <3>3. frozen' <= vstamp'[k'] /\ \A b \in Block : ~(b < at')
        BY <1>0, <3>1 DEF Block
      <3> QED
        BY <3>1, <3>2, <3>3 DEF Sealed
    <2>2. CASE Verify \/ CopyVanished
      BY <1>0, <2>2 DEF Verify, CopyVanished, Sealed, Hashed
    <2>3. CASE RecordMisfit
      BY <1>0, <2>3 DEF RecordMisfit, Enlist, Sealed, Hashed
    <2> QED
      BY <1>6, <2>1, <2>2, <2>3
  <1>7. CASE HashBlock
    <2>1. /\ pc = "hash" /\ at \in Block /\ at' = at + 1
          /\ good' = (good /\ view[k][at] = "locked")
          /\ UNCHANGED <<pc, k, bound, vstamp, view, frozen>>
      BY <1>0, <1>7 DEF HashBlock, Block, TypeOK
    <2>2. Hashed' = Hashed
      BY <2>1 DEF Hashed
    <2>3. \A b \in Block : b < at + 1 => b < at \/ b = at
      BY <1>0 DEF Block
    <2> QED
      BY <2>1, <2>2, <2>3 DEF Sealed
  <1>8. CASE HashMatches \/ HashDiffers
    <2>1. CASE HashMatches
      <3>1. /\ pc = "hash" /\ pc' = "stable" /\ at = B + 1 /\ good /\ vstamp[k] = frozen
            /\ NoMore(view[k]) /\ bound' = [bound EXCEPT ![k] = vstamp[k]]
            /\ UNCHANGED <<k, vstamp, view>>
            /\ k \in File
        BY <1>0, <2>1 DEF HashMatches, Placed, PerFile, File
      <3>2. \A b \in Block : view[k][b] = "locked"
        <4>1. \A b \in Block : b < at
          BY <1>0, <3>1 DEF Block
        <4> QED
          BY <3>1, <4>1 DEF Sealed
      <3>3. view[k] = Locked
        <4>1. view[k] \in [Slot -> Byte] /\ view[k][B + 1] = "short"
          BY <1>0, <3>1 DEF Bytes, NoMore
        <4>2. \A b \in Slot : b = B + 1 \/ b \in Block
          BY <1>0 DEF Slot, Block
        <4>3. \A b \in Slot : view[k][b] = IF b = B + 1 THEN "short" ELSE "locked"
          BY <3>2, <4>1, <4>2
        <4> QED
          BY <4>1, <4>3 DEF Locked, Filled
      <3>4. Hashed' = Hashed \cup {k}
        BY <1>0, <3>1 DEF Hashed
      <3>5. \A f \in File : bound'[f] = IF f = k THEN vstamp[f] ELSE bound[f]
        BY <1>0, <3>1
      <3>6. \A f \in File : bound'[f] <= vstamp'[f]
        BY <1>0, <3>1, <3>5 DEF Sealed
      <3>7. Hashed \subseteq File
        BY DEF Hashed
      <3> QED
        BY <3>1, <3>3, <3>4, <3>5, <3>6, <3>7 DEF Sealed
    <2>2. CASE HashDiffers
      BY <1>0, <2>2 DEF HashDiffers, Sealed, Hashed
    <2> QED
      BY <1>8, <2>1, <2>2
  <1>9. CASE Stable \/ Unstable
    <2>1. CASE Stable
      <3>1. /\ pc = "stable" /\ k' = k + 1 /\ pc' \in {"enter", "subdir", "open"}
            /\ UNCHANGED <<bound, vstamp, view>>
        BY <2>1 DEF Stable, ToFile
      <3>2. Hashed' = Hashed
        BY <1>0, <3>1 DEF Hashed, File
      <3> QED
        BY <3>1, <3>2 DEF Sealed
    <2>2. CASE Unstable
      BY <1>0, <2>2 DEF Unstable, Sealed, Hashed
    <2> QED
      BY <1>9, <2>1, <2>2
  <1>10. CASE Enter \/ Leave \/ FinishLoad \/ CheckLoaded
    BY <1>10 DEF Enter, Leave, FinishLoad, CheckLoaded, Sealed, Hashed
  <1>11. CASE FinishGenerate \/ CheckGenerated
    BY <1>11 DEF FinishGenerate, CheckGenerated, Sealed, Hashed
  <1>12. CASE \E from \in Phase : CheckFails(from) \/ LoaderFails(from)
    BY <1>12, ChecksDo DEF Sealed, Hashed
  <1>13. CASE \E f \in File, b \in Block : LoadBlock(f, b)
    BY <1>13, LoadDoes DEF Sealed, Hashed
  <1>14. CASE CleanFile \/ FilesCleaned
    BY <1>14 DEF CleanFile, FilesCleaned, Sealed, Hashed
  <1>15. CASE CleanSubdirectory \/ CleanRoot \/ CleanStage
    BY <1>15 DEF CleanSubdirectory, CleanRoot, CleanStage, Sealed, Hashed
  <1>16. CASE Others
    <2>1. /\ UNCHANGED <<pc, k, at, bound, frozen, good>>
          /\ \A f \in File : vstamp'[f] \in Nat /\ vstamp'[f] >= vstamp[f]
          /\ \A f \in File : vstamp'[f] = vstamp[f] => view'[f] = view[f]
      BY <1>16, OthersDo
    <2>2. Hashed' = Hashed /\ Hashed \subseteq File
      BY <2>1 DEF Hashed
    <2>3. ASSUME NEW f \in File
          PROVE  /\ bound'[f] <= vstamp'[f]
                 /\ vstamp'[f] = bound'[f] => vstamp[f] = bound[f] /\ view'[f] = view[f]
      <3>1. bound[f] <= vstamp[f] /\ bound[f] \in Nat /\ vstamp[f] \in Nat
        BY <1>0 DEF Sealed
      <3>2. vstamp'[f] \in Nat /\ vstamp'[f] >= vstamp[f] /\ bound'[f] = bound[f]
        BY <2>1
      <3>3. bound'[f] <= vstamp'[f] /\ (vstamp'[f] = bound'[f] => vstamp'[f] = vstamp[f])
        BY <3>1, <3>2
      <3> QED
        BY <2>1, <3>2, <3>3
    <2>4. ASSUME pc' = "hash"
          PROVE  /\ frozen' <= vstamp'[k']
                 /\ good' /\ vstamp'[k'] = frozen' =>
                       \A b \in Block : b < at' => view'[k'][b] = "locked"
      <3>1. pc = "hash" /\ k \in File
        BY <1>0, <2>1, <2>4 DEF Placed, PerFile, File
      <3>2. frozen <= vstamp[k] /\ frozen \in Nat /\ vstamp[k] \in Nat
        BY <1>0, <3>1 DEF Sealed
      <3>3. vstamp'[k] \in Nat /\ vstamp'[k] >= vstamp[k]
        BY <2>1, <3>1
      <3>4. frozen <= vstamp'[k]
            /\ (vstamp'[k] = frozen => vstamp[k] = frozen /\ vstamp'[k] = vstamp[k])
        BY <3>2, <3>3
      <3> QED
        BY <2>1, <3>1, <3>4 DEF Sealed
    <2> QED
      BY <2>2, <2>3, <2>4 DEF Sealed
  <1>17. CASE Fault \/ Interrupt
    BY <1>17, AbandonDoes DEF Sealed, Hashed
  <1>18. CASE CleanupFault
    BY <1>18 DEF CleanupFault, Spend, Sealed, Hashed
  <1>19. CASE UNCHANGED vars
    BY <1>19 DEF vars, Sealed, Hashed
  <1>20. CASE Unstage
    BY <1>20 DEF Unstage, Sealed, Hashed
  <1> QED
    BY <1>1, <1>2, <1>3, <1>4, <1>5, <1>6, <1>7, <1>8, <1>9, <1>10, <1>11, <1>12, <1>13,
       <1>14, <1>15, <1>16, <1>17, <1>18, <1>19, <1>20
       DEF Next, Step, Done

\* The checks after the load and after the generation let nothing through that
\* the loader should not have read.
LEMMA ToldStep ==
    ASSUME TypeOK, Placed, Sealed, Told, [Next]_vars
    PROVE  Told'
  <1> USE DEF Goto, Break, sources, staged, books, loader, verdict, ghosts
  <1>0. /\ N \in Nat /\ N > 0 /\ B \in Nat /\ k \in Nat /\ k > 0 /\ k <= N + 1 /\ at \in Nat
        /\ vstamp \in [File -> Nat] /\ bound \in [File -> Nat] /\ frozen \in Nat
        /\ view \in [File -> Bytes] /\ pc \in Phase
    BY Numbers DEF TypeOK
  <1>1. CASE Bind \/ MakeStage \/ Identify \/ OpenStage \/ MakeRoot \/ MakeSubdirectory
    BY <1>1 DEF Bind, MakeStage, Identify, OpenStage, MakeRoot, MakeSubdirectory,
       ToFile, Told, Cleaning
  <1>2. CASE OpenSource \/ SizeMismatch \/ SameSize \/ ResizedBeforeCopy
    BY <1>2 DEF OpenSource, SizeMismatch, SameSize, ResizedBeforeCopy, Told, Cleaning
  <1>3. CASE CloneSource \/ CreateCopy
    <2>1. pc = "freeze" /\ pc' \in {"verify", "copying"} /\ UNCHANGED <<pure, outcome>>
      BY <1>3 DEF CloneSource, CreateCopy
    <2>2. pure /\ outcome # "ok"
      BY <1>0, <2>1 DEF Told, Placed, PerFile
    <2> QED
      BY <2>1, <2>2 DEF Told, Cleaning
  <1>4. CASE CopyBlock
    BY <1>4 DEF CopyBlock, Told, Cleaning
  <1>5. CASE CopyEndsEarly \/ CopyGrown \/ CopyDone \/ Uncopy
    BY <1>5 DEF CopyEndsEarly, CopyGrown, CopyDone, Uncopy, Told, Cleaning
  <1>6. CASE Verify \/ CopyVanished \/ Record \/ RecordMisfit
    BY <1>6 DEF Verify, CopyVanished, Record, RecordMisfit, Enlist, Told, Cleaning
  <1>7. CASE HashBlock
    BY <1>7 DEF HashBlock, Told, Cleaning
  <1>8. CASE HashMatches \/ HashDiffers
    <2>1. /\ pc = "hash" /\ pc' \in {"stable", "clean"} /\ UNCHANGED <<pure, outcome>>
          /\ pc' = "clean" => failed'
      BY <1>8 DEF HashMatches, HashDiffers
    <2>2. pure /\ outcome # "ok"
      BY <1>0, <2>1 DEF Told, Placed, PerFile
    <2> QED
      BY <2>1, <2>2 DEF Told, Cleaning
  <1>9. CASE Stable \/ Unstable
    <2>1. /\ pc = "stable" /\ pc' \in {"enter", "subdir", "open", "clean"}
          /\ UNCHANGED <<pure, outcome>>
          /\ pc' = "clean" => failed'
      BY <1>9 DEF Stable, Unstable, ToFile
    <2>2. pure /\ outcome # "ok"
      BY <1>0, <2>1 DEF Told, Placed, PerFile
    <2> QED
      BY <2>1, <2>2 DEF Told, Cleaning
  <1>10. CASE Enter \/ Leave \/ FinishLoad \/ CheckLoaded
    BY <1>10 DEF Enter, Leave, FinishLoad, CheckLoaded, Told, Cleaning
  <1>11. CASE FinishGenerate \/ CheckGenerated
    <2>1. CASE FinishGenerate
      BY <1>0, <2>1 DEF FinishGenerate, Told, Cleaning
    <2>2. CASE CheckGenerated
      <3>1. \A f \in File : vstamp[f] = bound[f]
        BY <2>2 DEF CheckGenerated, Unchanged
      <3>2. pure
        BY <1>0, <3>1 DEF Told
      <3> QED
        BY <2>2, <3>2 DEF CheckGenerated, Told, Cleaning
    <2> QED
      BY <1>11, <2>1, <2>2
  <1>12. CASE \E from \in Phase : CheckFails(from) \/ LoaderFails(from)
    BY <1>12, ChecksDo DEF Told, Cleaning, Inside
  <1>13. CASE \E f \in File, b \in Block : LoadBlock(f, b)
    <2>1. PICK f \in File, b \in Block : pure' = (pure /\ view[f][b] = "locked")
      BY <1>13, LoadDoes
    <2>2. /\ pc \in {"load", "generate"}
          /\ UNCHANGED <<pc, k, vstamp, bound, outcome, failed>>
      BY <1>13, LoadDoes
    <2>3. k = N + 1 /\ outcome # "ok"
      BY <2>2 DEF Placed, Inside, Told
    <2>4. ASSUME pure, ~pure' PROVE vstamp[f] > bound[f]
      <3>1. f \in Hashed
        BY <1>0, <2>3 DEF Hashed, File
      <3>2. view[f] # Locked
        <4>1. b \in Slot /\ b # B + 1
          BY <1>0 DEF Slot, Block
        <4>2. Locked[b] = "locked"
          BY <4>1 DEF Locked, Filled
        <4> QED
          BY <2>1, <2>4, <4>2
      <3>3. vstamp[f] # bound[f] /\ bound[f] <= vstamp[f] /\ bound[f] \in Nat /\ vstamp[f] \in Nat
        BY <1>0, <3>1, <3>2 DEF Sealed
      <3> QED
        BY <3>3
    <2>5. ~pure' => \E g \in File : vstamp[g] > bound[g]
      BY <2>4 DEF Told
    <2> QED
      BY <2>2, <2>3, <2>5 DEF Told, Cleaning
  <1>14. CASE CleanFile \/ FilesCleaned
    BY <1>14 DEF CleanFile, FilesCleaned, Told, Cleaning
  <1>15. CASE CleanSubdirectory \/ CleanRoot \/ CleanStage
    <2>1. /\ pc \in {"clean sub", "clean root", "clean stage"} /\ pc' \in Cleaning
          /\ UNCHANGED <<k, vstamp, bound, pure, read, failed>>
      BY <1>15 DEF CleanSubdirectory, CleanRoot, CleanStage, Cleaning
    <2>2. outcome' = "ok" => pc' = "done" /\ ~failed
      <3>1. outcome # "ok"
        BY <2>1 DEF Told
      <3> QED
        BY <1>15, <3>1 DEF CleanSubdirectory, CleanRoot, CleanStage
    <2> QED
      BY <2>1, <2>2 DEF Told, Cleaning
  <1>16. CASE Others
    <2>1. /\ UNCHANGED <<pc, k, pure, read, failed, outcome, bound>>
          /\ \A f \in File : vstamp'[f] \in Nat /\ vstamp'[f] >= vstamp[f]
      BY <1>16, OthersDo
    <2>2. ASSUME NEW f \in File, vstamp[f] > bound[f] PROVE vstamp'[f] > bound'[f]
      <3>1. vstamp'[f] >= vstamp[f] /\ vstamp'[f] \in Nat /\ vstamp[f] \in Nat
            /\ bound[f] \in Nat /\ bound'[f] = bound[f]
        BY <1>0, <2>1
      <3> QED
        BY <2>2, <3>1
    <2> QED
      BY <2>1, <2>2 DEF Told
  <1>17. CASE Fault \/ Interrupt
    BY <1>17, AbandonDoes DEF Told, Cleaning
  <1>18. CASE CleanupFault
    BY <1>18 DEF CleanupFault, Spend, Told, Cleaning
  <1>19. CASE UNCHANGED vars
    BY <1>19 DEF vars, Told, Cleaning
  <1>20. CASE Unstage
    BY <1>20 DEF Unstage, Told, Cleaning
  <1> QED
    BY <1>1, <1>2, <1>3, <1>4, <1>5, <1>6, <1>7, <1>8, <1>9, <1>10, <1>11, <1>12, <1>13,
       <1>14, <1>15, <1>16, <1>17, <1>18, <1>19, <1>20
       DEF Next, Step, Done

\* A cleanup that notes no trouble had none.
LEMMA RemovedStep ==
    ASSUME TypeOK, Placed, Told, Removed, [Next]_vars
    PROVE  Removed'
  <1> USE DEF Goto, Break, sources, staged, books, loader, verdict, ghosts
  <1>0. /\ N \in Nat /\ N > 0 /\ B \in Nat /\ k \in Nat /\ k > 0 /\ k <= N + 1 /\ at \in Nat
        /\ vstamp \in [File -> Nat] /\ bound \in [File -> Nat] /\ frozen \in Nat
        /\ view \in [File -> Bytes] /\ pc \in Phase
    BY Numbers DEF TypeOK
  <1>1. CASE Bind \/ MakeStage \/ Identify \/ OpenStage \/ MakeRoot \/ MakeSubdirectory
    BY <1>1 DEF Bind, MakeStage, Identify, OpenStage, MakeRoot, MakeSubdirectory,
       ToFile, Removed, Inside
  <1>2. CASE OpenSource \/ SizeMismatch \/ SameSize \/ ResizedBeforeCopy
    BY <1>2 DEF OpenSource, SizeMismatch, SameSize, ResizedBeforeCopy, Removed, Inside
  <1>3. CASE CloneSource \/ CreateCopy
    BY <1>0, <1>3 DEF CloneSource, CreateCopy, Removed, Placed, PerFile, Inside
  <1>4. CASE CopyBlock
    BY <1>4 DEF CopyBlock, Removed, Inside
  <1>5. CASE CopyEndsEarly \/ CopyGrown \/ CopyDone \/ Uncopy
    BY <1>5 DEF CopyEndsEarly, CopyGrown, CopyDone, Uncopy, Removed, Inside
  <1>6. CASE Verify \/ CopyVanished \/ Record \/ RecordMisfit
    BY <1>6 DEF Verify, CopyVanished, Record, RecordMisfit, Enlist, Removed, Inside
  <1>7. CASE HashBlock
    BY <1>7 DEF HashBlock, Removed, Inside
  <1>8. CASE HashMatches \/ HashDiffers
    BY <1>8 DEF HashMatches, HashDiffers, Removed, Inside
  <1>9. CASE Stable \/ Unstable
    BY <1>9 DEF Stable, Unstable, ToFile, Removed, Inside
  <1>10. CASE Enter \/ Leave \/ FinishLoad \/ CheckLoaded
    BY <1>10 DEF Enter, Leave, FinishLoad, CheckLoaded, Removed, Inside
  <1>11. CASE FinishGenerate \/ CheckGenerated
    BY <1>11 DEF FinishGenerate, CheckGenerated, Removed, Inside
  <1>12. CASE \E from \in Phase : CheckFails(from) \/ LoaderFails(from)
    BY <1>12, ChecksDo DEF Removed, Inside
  <1>13. CASE \E f \in File, b \in Block : LoadBlock(f, b)
    BY <1>13, LoadDoes DEF Removed, Inside
  <1>14. CASE CleanFile \/ FilesCleaned
    BY <1>14 DEF CleanFile, FilesCleaned, Removed, Inside
  <1>15. CASE CleanSubdirectory \/ CleanRoot \/ CleanStage
    <2>1. CASE CleanSubdirectory
      <3>1. /\ pc = "clean sub" /\ pc' = "clean root"
            /\ UNCHANGED <<known, present, cwd, failed, torn>>
            /\ ~messy' => Files("sub") = {}
        BY <2>1 DEF CleanSubdirectory, Empty
      <3> QED
        BY <3>1 DEF Removed, Files, Inside
    <2>2. CASE CleanRoot
      <3>1. /\ pc = "clean root" /\ pc' = "clean stage"
            /\ UNCHANGED <<known, present, cwd, failed, torn, sub>>
            /\ ~messy' => ~messy /\ Files("root") = {} /\ ~sub /\ ~root'
        BY <2>2 DEF CleanRoot, Empty
      <3>2. ~messy' => present = {}
        BY <3>1 DEF Removed, Files
      <3> QED
        BY <3>1, <3>2 DEF Removed, Inside
    <2>3. CASE CleanStage
      BY <2>3 DEF CleanStage, Removed, Inside
    <2> QED
      BY <1>15, <2>1, <2>2, <2>3
  <1>16. CASE Others
    <2>1. /\ UNCHANGED <<pc, root, sub, known, cwd, failed, messy, torn>>
          /\ present' \subseteq present
      BY <1>16, OthersDo
    <2> QED
      BY <2>1 DEF Removed
  <1>17. CASE Fault \/ Interrupt
    BY <1>17, AbandonDoes DEF Removed, Inside
  <1>18. CASE CleanupFault
    BY <1>18 DEF CleanupFault, Spend, Removed, Inside
  <1>19. CASE UNCHANGED vars
    BY <1>19 DEF vars, Removed, Inside
  <1>20. CASE Unstage
    BY <1>20 DEF Unstage, Removed, Inside
  <1> QED
    BY <1>1, <1>2, <1>3, <1>4, <1>5, <1>6, <1>7, <1>8, <1>9, <1>10, <1>11, <1>12, <1>13,
       <1>14, <1>15, <1>16, <1>17, <1>18, <1>19, <1>20
       DEF Next, Step, Done

\* Whatever is staged, the cleanup knows of, unless a step was torn.
LEMMA AccountedStep ==
    ASSUME TypeOK, Placed, Removed, Accounted, [Next]_vars
    PROVE  Accounted'
  <1> USE DEF Goto, Break, sources, staged, books, loader, verdict, ghosts
  <1> USE DEF Early, Before
  <1>0. /\ N \in Nat /\ N > 0 /\ B \in Nat /\ k \in Nat /\ k > 0 /\ k <= N + 1 /\ at \in Nat
        /\ vstamp \in [File -> Nat] /\ bound \in [File -> Nat] /\ frozen \in Nat
        /\ view \in [File -> Bytes] /\ pc \in Phase
    BY Numbers DEF TypeOK
  <1>1. CASE Bind \/ MakeStage \/ Identify \/ OpenStage \/ MakeRoot \/ MakeSubdirectory
    BY <1>1 DEF Bind, MakeStage, Identify, OpenStage, MakeRoot, MakeSubdirectory,
       ToFile, Accounted
  <1>2. CASE OpenSource \/ SizeMismatch \/ SameSize \/ ResizedBeforeCopy
    BY <1>2 DEF OpenSource, SizeMismatch, SameSize, ResizedBeforeCopy, Accounted
  <1>3. CASE CloneSource \/ CreateCopy
    BY <1>3 DEF CloneSource, CreateCopy, Accounted
  <1>4. CASE CopyBlock
    BY <1>4 DEF CopyBlock, Accounted
  <1>5. CASE CopyEndsEarly \/ CopyGrown \/ CopyDone \/ Uncopy
    <2>1. CASE CopyEndsEarly \/ CopyGrown \/ CopyDone
      BY <2>1 DEF CopyEndsEarly, CopyGrown, CopyDone, Accounted
    <2>2. CASE Uncopy
      <3>1. /\ pc = "uncopy" /\ pc' = "clean" /\ present' = present \ {k}
            /\ UNCHANGED <<strangers, staging, root, sub, known, entries, torn, used>>
        BY <2>2 DEF Uncopy
      <3>2. k \notin entries
        BY <1>0, <3>1 DEF Placed, Cleaning
      <3> QED
        BY <3>1, <3>2 DEF Accounted
    <2> QED
      BY <1>5, <2>1, <2>2
  <1>6. CASE Verify \/ CopyVanished \/ Record \/ RecordMisfit
    BY <1>6 DEF Verify, CopyVanished, Record, RecordMisfit, Enlist, Accounted
  <1>7. CASE HashBlock
    BY <1>7 DEF HashBlock, Accounted
  <1>8. CASE HashMatches \/ HashDiffers
    BY <1>8 DEF HashMatches, HashDiffers, Accounted
  <1>9. CASE Stable \/ Unstable
    BY <1>9 DEF Stable, Unstable, ToFile, Accounted
  <1>10. CASE Enter \/ Leave \/ FinishLoad \/ CheckLoaded
    BY <1>10 DEF Enter, Leave, FinishLoad, CheckLoaded, Accounted
  <1>11. CASE FinishGenerate \/ CheckGenerated
    BY <1>11 DEF FinishGenerate, CheckGenerated, Accounted
  <1>12. CASE \E from \in Phase : CheckFails(from) \/ LoaderFails(from)
    BY <1>12, ChecksDo DEF Accounted, Inside
  <1>13. CASE \E f \in File, b \in Block : LoadBlock(f, b)
    BY <1>13, LoadDoes DEF Accounted
  <1>14. CASE CleanFile \/ FilesCleaned
    <2>1. CASE CleanFile
      <3>1. /\ pc = "clean" /\ pc' = "clean"
            /\ present' = present \ {Newest} /\ entries' = entries \ {Newest}
            /\ UNCHANGED <<strangers, staging, root, sub, known, torn, used>>
        BY <2>1 DEF CleanFile
      <3> QED
        BY <3>1 DEF Accounted
    <2>2. CASE FilesCleaned
      <3>1. /\ pc = "clean" /\ entries = {}
            /\ \/ known /\ pc' = "clean sub"
               \/ ~known /\ pc' = "clean root"
            /\ UNCHANGED <<present, entries, strangers, staging, root, sub, known, torn, used>>
        BY <2>2 DEF FilesCleaned
      <3> QED
        BY <3>1 DEF Accounted
    <2> QED
      BY <1>14, <2>1, <2>2
  <1>15. CASE CleanSubdirectory \/ CleanRoot \/ CleanStage
    BY <1>15 DEF CleanSubdirectory, CleanRoot, CleanStage, Accounted, Empty, Files
  <1>16. CASE Others
    BY <1>16, OthersDo DEF Accounted
  <1>17. CASE Fault \/ Interrupt
    <2>1. /\ UNCHANGED <<k, present, strangers, entries, known>> /\ (torn => torn')
          /\ used'.tampers = used.tampers
          /\ pc' \in {"unstage", "uncopy", "leave", "clean", "clean stage", "done"}
          /\ pc' = "leave" <=> pc \in Inside
          /\ pc' = "uncopy" => pc \in {"copying", "verify"}
          /\ pc' = "unstage" => pc = "bind"
          /\ ~torn' =>
                /\ UNCHANGED <<staging, root, sub>>
                /\ pc' = "clean stage" => pc = "model"
                /\ pc' = "done" => pc \in {"start", "stage"}
                /\ pc' = "clean" =>
                      pc \in {"subdir", "open", "copy", "freeze", "hash", "stable", "enter"}
      BY <1>17, AbandonDoes
    <2> QED
      BY <2>1 DEF Accounted, Inside
  <1>18. CASE CleanupFault
    BY <1>18 DEF CleanupFault, Spend, Accounted
  <1>19. CASE UNCHANGED vars
    BY <1>19 DEF vars, Accounted
  <1>20. CASE Unstage
    BY <1>20 DEF Unstage, Accounted
  <1> QED
    BY <1>1, <1>2, <1>3, <1>4, <1>5, <1>6, <1>7, <1>8, <1>9, <1>10, <1>11, <1>12, <1>13,
       <1>14, <1>15, <1>16, <1>17, <1>18, <1>19, <1>20
       DEF Next, Step, Done

\* The render itself never changes a copy it has bound.
LEMMA UntouchedStep ==
    ASSUME TypeOK, Placed, Untouched, [Next]_vars
    PROVE  Untouched'
  <1> USE DEF Goto, Break, sources, staged, books, loader, verdict, ghosts
  <1>0. /\ N \in Nat /\ N > 0 /\ B \in Nat /\ k \in Nat /\ k > 0 /\ k <= N + 1 /\ at \in Nat
        /\ vstamp \in [File -> Nat] /\ bound \in [File -> Nat] /\ frozen \in Nat
        /\ view \in [File -> Bytes] /\ pc \in Phase
    BY Numbers DEF TypeOK
  <1>1. CASE Bind \/ MakeStage \/ Identify \/ OpenStage \/ MakeRoot \/ MakeSubdirectory
    BY <1>1 DEF Bind, MakeStage, Identify, OpenStage, MakeRoot, MakeSubdirectory,
       ToFile, Untouched, Hashed, Cleaning
  <1>2. CASE OpenSource \/ SizeMismatch \/ SameSize \/ ResizedBeforeCopy
    BY <1>2 DEF OpenSource, SizeMismatch, SameSize, ResizedBeforeCopy, Untouched,
       Hashed, Cleaning
  <1>3. CASE CloneSource \/ CreateCopy
    <2>1. /\ pc = "freeze" /\ pc' \in {"verify", "copying"} /\ UNCHANGED <<k, bound, used>>
          /\ vstamp' = [vstamp EXCEPT ![k] = @ + 1] /\ present' = present \cup {k}
      BY <1>3 DEF CloneSource, CreateCopy
    <2>2. Hashed' = Hashed /\ k \notin Hashed /\ Hashed \subseteq File
      BY <1>0, <2>1 DEF Hashed
    <2>3. \A f \in Hashed : vstamp'[f] = vstamp[f]
      BY <1>0, <2>1, <2>2
    <2> QED
      BY <2>1, <2>2, <2>3 DEF Untouched, Cleaning
  <1>4. CASE CopyBlock
    BY <1>4 DEF CopyBlock, Untouched, Hashed, Cleaning
  <1>5. CASE CopyEndsEarly \/ CopyGrown \/ CopyDone \/ Uncopy
    <2>1. CASE CopyEndsEarly \/ CopyGrown \/ CopyDone
      <3>1. /\ pc = "copying" /\ pc' \in {"uncopy", "verify"}
            /\ UNCHANGED <<k, bound, vstamp, present, used>>
        BY <2>1 DEF CopyEndsEarly, CopyGrown, CopyDone
      <3>2. Hashed' = Hashed
        BY <3>1 DEF Hashed
      <3> QED
        BY <3>1, <3>2 DEF Untouched, Cleaning
    <2>2. CASE Uncopy
      BY <2>2 DEF Uncopy, Untouched, Cleaning
    <2> QED
      BY <1>5, <2>1, <2>2
  <1>6. CASE Verify \/ CopyVanished \/ Record \/ RecordMisfit
    <2>1. /\ pc \in {"verify", "record"} /\ pc' \in {"record", "uncopy", "hash", "clean"}
          /\ pc' = "record" => pc = "verify"
          /\ UNCHANGED <<k, bound, vstamp, present, used>>
          /\ pc' = "hash" => frozen' = vstamp[k]
      BY <1>6 DEF Verify, CopyVanished, Record, RecordMisfit, Enlist
    <2>2. Hashed' = Hashed
      BY <2>1 DEF Hashed
    <2> QED
      BY <2>1, <2>2 DEF Untouched, Cleaning
  <1>7. CASE HashBlock
    BY <1>7 DEF HashBlock, Untouched, Hashed, Cleaning
  <1>8. CASE HashMatches \/ HashDiffers
    <2>1. CASE HashMatches
      <3>1. /\ pc = "hash" /\ pc' = "stable" /\ bound' = [bound EXCEPT ![k] = vstamp[k]]
            /\ UNCHANGED <<k, vstamp, present, used>> /\ k \in File
        BY <1>0, <2>1 DEF HashMatches, Placed, PerFile, File
      <3>2. Hashed' = Hashed \cup {k} /\ Hashed \subseteq File
        BY <1>0, <3>1 DEF Hashed
      <3>3. \A f \in File : bound'[f] = IF f = k THEN vstamp[f] ELSE bound[f]
        BY <1>0, <3>1
      <3> QED
        BY <3>1, <3>2, <3>3 DEF Untouched, Cleaning
    <2>2. CASE HashDiffers
      BY <2>2 DEF HashDiffers, Untouched, Cleaning
    <2> QED
      BY <1>8, <2>1, <2>2
  <1>9. CASE Stable \/ Unstable
    <2>1. CASE Stable
      <3>1. /\ pc = "stable" /\ k' = k + 1 /\ pc' \in {"enter", "subdir", "open"}
            /\ UNCHANGED <<bound, vstamp, present, used>>
        BY <2>1 DEF Stable, ToFile
      <3>2. Hashed' = Hashed
        BY <1>0, <3>1 DEF Hashed, File
      <3> QED
        BY <3>1, <3>2 DEF Untouched, Cleaning
    <2>2. CASE Unstable
      BY <2>2 DEF Unstable, Untouched, Cleaning
    <2> QED
      BY <1>9, <2>1, <2>2
  <1>10. CASE Enter \/ Leave \/ FinishLoad \/ CheckLoaded
    BY <1>10 DEF Enter, Leave, FinishLoad, CheckLoaded, Untouched, Hashed, Cleaning
  <1>11. CASE FinishGenerate \/ CheckGenerated
    BY <1>11 DEF FinishGenerate, CheckGenerated, Untouched, Hashed, Cleaning
  <1>12. CASE \E from \in Phase : CheckFails(from) \/ LoaderFails(from)
    BY <1>12, ChecksDo DEF Untouched, Hashed, Cleaning, Inside
  <1>13. CASE \E f \in File, b \in Block : LoadBlock(f, b)
    BY <1>13, LoadDoes DEF Untouched, Hashed, Cleaning
  <1>14. CASE CleanFile \/ FilesCleaned
    BY <1>14 DEF CleanFile, FilesCleaned, Untouched, Hashed, Cleaning
  <1>15. CASE CleanSubdirectory \/ CleanRoot \/ CleanStage
    BY <1>15 DEF CleanSubdirectory, CleanRoot, CleanStage, Untouched, Hashed, Cleaning
  <1>16. CASE Others
    <2>1. /\ UNCHANGED <<pc, k, bound, frozen>>
          /\ used'.tampers = 0 => used.tampers = 0 /\ UNCHANGED <<present, vstamp>>
      BY <1>16, OthersDo
    <2>2. Hashed' = Hashed
      BY <2>1 DEF Hashed
    <2> QED
      BY <2>1, <2>2 DEF Untouched
  <1>17. CASE Fault \/ Interrupt
    BY <1>0, <1>17, AbandonDoes DEF Untouched, Hashed, Cleaning, Inside
  <1>18. CASE CleanupFault
    BY <1>18 DEF CleanupFault, Spend, Untouched, Hashed, Cleaning
  <1>19. CASE UNCHANGED vars
    BY <1>19 DEF vars, Untouched, Hashed, Cleaning
  <1>20. CASE Unstage
    BY <1>20 DEF Unstage, Untouched, Hashed, Cleaning
  <1> QED
    BY <1>1, <1>2, <1>3, <1>4, <1>5, <1>6, <1>7, <1>8, <1>9, <1>10, <1>11, <1>12, <1>13,
       <1>14, <1>15, <1>16, <1>17, <1>18, <1>19, <1>20
       DEF Next, Step, Done

\* Undisturbed, the render meets none of its failures: each of them is refuted.
LEMMA SmoothStep ==
    ASSUME TypeOK, Placed, Sealed, Told, Accounted, Untouched, Smooth, [Next]_vars
    PROVE  Smooth'
  <1> USE DEF Goto, Break, sources, staged, books, loader, verdict, ghosts
  <1> SUFFICES ASSUME Undisturbed'
               PROVE  /\ ~failed' /\ ~messy' /\ ~torn' /\ pure' /\ ~detached'
                      /\ outcome' # "failed"
                      /\ pc' \in {"copy", "freeze", "copying", "verify", "record", "hash", "stable"} =>
                             opened' = stamp'[k']
                      /\ pc' = "copying" =>
                             /\ NoMore(view'[k'])
                             /\ \A b \in Block : b < at' => view'[k'][b] = "locked"
                      /\ pc' \in {"verify", "record", "hash"} => view'[k'] = Locked
                      /\ pc' = "hash" => good'
    BY DEF Smooth
  <1>0. /\ N \in Nat /\ N > 0 /\ B \in Nat /\ k \in Nat /\ k > 0 /\ k <= N + 1 /\ at \in Nat
        /\ view \in [File -> Bytes] /\ pc \in Phase /\ at <= B + 1
    BY Numbers DEF TypeOK
  <1> DEFINE Same == UNCHANGED <<source, used>>
  <1>a. ASSUME Same
        PROVE  /\ Undisturbed /\ used.tampers = 0
               /\ ~failed /\ ~messy /\ ~torn /\ pure /\ ~detached /\ outcome # "failed"
               /\ pc \in {"copy", "freeze", "copying", "verify", "record", "hash", "stable"} =>
                     opened = stamp[k]
               /\ pc = "copying" =>
                     NoMore(view[k]) /\ \A b \in Block : b < at => view[k][b] = "locked"
               /\ pc \in {"verify", "record", "hash"} => view[k] = Locked
               /\ pc = "hash" => good
    BY <1>a DEF Undisturbed, Smooth
  <1>b. pc \in PerFile => k \in File
    BY <1>0 DEF Placed, PerFile, File
  <1>w. Whole(Locked) /\ NoMore(Locked) /\ \A b \in Block : Locked[b] = "locked"
    <2>1. B + 1 \in Slot /\ \A b \in Block : b \in Slot /\ b # B + 1
      BY <1>0 DEF Slot, Block
    <2> QED
      BY <2>1 DEF Locked, Filled, Whole, NoMore
  <1>c. ASSUME Same, pc \in {"open", "copy", "freeze", "copying"}
        PROVE  /\ source[k] = Locked /\ Source = Locked
               /\ Whole(source[k]) /\ Whole(Source) /\ NoMore(Source)
    <2>1. k \in File /\ Undisturbed /\ ~detached
      BY <1>a, <1>b, <1>c DEF PerFile
    <2> QED
      BY <1>w, <2>1 DEF Undisturbed, Source
  <1> HIDE DEF Same
  <1>1. CASE Bind \/ MakeStage \/ Identify \/ OpenStage \/ MakeRoot \/ MakeSubdirectory
    <2>1. Same
      BY <1>1 DEF Bind, MakeStage, Identify, OpenStage, MakeRoot, MakeSubdirectory, Same
    <2> QED
      <3>1. pc' \in {"stage", "identify", "bind", "model", "subdir", "open", "enter"}
            /\ UNCHANGED <<failed, messy, torn, pure, detached, outcome>>
        BY <1>1 DEF Bind, MakeStage, Identify, OpenStage, MakeRoot, MakeSubdirectory,
           ToFile
      <3> QED
        BY <1>a, <2>1, <3>1
  <1>2. CASE OpenSource \/ SizeMismatch \/ SameSize \/ ResizedBeforeCopy
    <2>1. Same /\ pc \in {"open", "copy"}
      BY <1>2 DEF OpenSource, SizeMismatch, SameSize, ResizedBeforeCopy, Same
    <2>2. OpenSource \/ SameSize
      BY <1>c, <1>2, <2>1 DEF SizeMismatch, ResizedBeforeCopy
    <2>3. CASE OpenSource
      BY <1>a, <2>1, <2>3 DEF OpenSource
    <2>4. CASE SameSize
      BY <1>a, <2>1, <2>4 DEF SameSize
    <2> QED
      BY <2>2, <2>3, <2>4
  <1>3. CASE CloneSource \/ CreateCopy
    <2>1. Same /\ pc = "freeze" /\ k \in File
      BY <1>b, <1>3 DEF CloneSource, CreateCopy, Same, PerFile
    <2>2. CASE CloneSource
      <3>1. view'[k] = Locked
        BY <1>0, <1>c, <2>1, <2>2 DEF CloneSource
      <3> QED
        BY <1>a, <2>1, <2>2, <3>1 DEF CloneSource
    <2>3. CASE CreateCopy
      <3>1. \A b \in Block : ~(b < 1)
        BY <1>0 DEF Block
      <3>2. NoMore(view'[k])
        BY <1>0, <2>1, <2>3 DEF CreateCopy, NoMore, Filled, Slot
      <3> QED
        BY <1>a, <2>1, <2>3, <3>1, <3>2 DEF CreateCopy
    <2> QED
      BY <1>3, <2>2, <2>3
  <1>4. CASE CopyBlock
    <2>1. Same /\ pc = "copying" /\ k \in File /\ at \in Block
      BY <1>0, <1>b, <1>4 DEF CopyBlock, Same, PerFile, Block, TypeOK
    <2>2. view'[k] = [view[k] EXCEPT ![at] = Source[at]] /\ at' = at + 1
      BY <1>0, <1>4, <2>1 DEF CopyBlock
    <2>3. Source[at] = "locked" /\ view[k] \in [Slot -> Byte] /\ Block \subseteq Slot
      BY <1>0, <1>c, <1>w, <2>1 DEF Bytes, Slot, Block
    <2>4. \A b \in Block : b < at + 1 => b < at \/ b = at
      BY <1>0 DEF Block
    <2>5. \A b \in Block : b < at' => view'[k][b] = "locked"
      BY <1>a, <2>1, <2>2, <2>3, <2>4
    <2>6. NoMore(view'[k])
      BY <1>0, <1>a, <2>1, <2>2, <2>3 DEF NoMore, Block
    <2> QED
      BY <1>a, <1>4, <2>1, <2>5, <2>6 DEF CopyBlock
  <1>5. CASE CopyEndsEarly \/ CopyGrown \/ CopyDone \/ Uncopy
    <2>1. Same /\ pc \in {"copying", "uncopy"}
      BY <1>5 DEF CopyEndsEarly, CopyGrown, CopyDone, Uncopy, Same
    <2>2. ~Uncopy
      BY <1>a, <2>1 DEF Uncopy, Told
    <2>3. ~CopyEndsEarly
      <3>1. SUFFICES ASSUME CopyEndsEarly PROVE FALSE
        OBVIOUS
      <3>2. pc = "copying" /\ at \in Block /\ Source[at] = "short"
        BY <1>0, <3>1 DEF CopyEndsEarly, Block, TypeOK
      <3> QED
        BY <1>c, <1>w, <2>1, <3>2
    <2>7. ~CopyGrown
      BY <1>c, <2>1 DEF CopyGrown
    <2>4. pc = "copying" /\ k \in File /\ at = B + 1 /\ pc' = "verify"
      BY <1>b, <1>5, <2>2, <2>3, <2>7 DEF CopyDone, PerFile
    <2>5. \A b \in Block : b < at
      BY <1>0, <2>4 DEF Block
    <2>6. view[k] = Locked
      <3>1. view[k] \in [Slot -> Byte] /\ \A b \in Block : view[k][b] = "locked"
        BY <1>0, <1>a, <2>1, <2>4, <2>5 DEF Bytes
      <3>2. view[k][B + 1] = "short" /\ \A b \in Slot : b = B + 1 \/ b \in Block
        BY <1>0, <1>a, <2>1, <2>4 DEF NoMore, Slot, Block
      <3>3. \A b \in Slot : view[k][b] = IF b = B + 1 THEN "short" ELSE "locked"
        BY <3>1, <3>2
      <3> QED
        BY <3>1, <3>3 DEF Locked, Filled
    <2> QED
      <3>1. UNCHANGED <<failed, messy, torn, pure, detached, outcome, opened, stamp, k, view>>
        BY <1>5, <2>2, <2>3, <2>7 DEF CopyDone
      <3> QED
        BY <1>a, <2>1, <2>4, <2>6, <3>1
  <1>6. CASE Verify \/ CopyVanished \/ Record \/ RecordMisfit
    <2>1. Same /\ pc \in {"verify", "record"}
      BY <1>6 DEF Verify, CopyVanished, Record, RecordMisfit, Enlist, Same
    <2>2. k \in present /\ Whole(view[k])
      BY <1>a, <1>w, <2>1 DEF Untouched
    <2>3. CASE Verify
      BY <1>a, <2>1, <2>3 DEF Verify
    <2>4. CASE Record
      BY <1>a, <2>1, <2>4 DEF Record, Enlist
    <2> QED
      BY <1>6, <2>2, <2>3, <2>4 DEF CopyVanished, RecordMisfit
  <1>7. CASE HashBlock
    <2>1. Same /\ pc = "hash" /\ at \in Block
      BY <1>0, <1>7 DEF HashBlock, Same, Block, TypeOK
    <2>2. view[k][at] = "locked"
      BY <1>a, <1>w, <2>1
    <2> QED
      BY <1>a, <1>7, <2>1, <2>2 DEF HashBlock
  <1>8. CASE HashMatches \/ HashDiffers
    <2>1. Same /\ pc = "hash"
      BY <1>8 DEF HashMatches, HashDiffers, Same
    <2>2. good /\ NoMore(view[k]) /\ vstamp[k] = frozen
      BY <1>a, <1>w, <2>1 DEF Untouched
    <2> QED
      BY <1>a, <1>8, <2>1, <2>2 DEF HashMatches, HashDiffers
  <1>9. CASE Stable \/ Unstable
    <2>1. Same /\ pc = "stable"
      BY <1>9 DEF Stable, Unstable, Same
    <2>2. opened = stamp[k]
      BY <1>a, <2>1
    <2>3. /\ pc' \in {"subdir", "open", "enter"} /\ ~detached'
          /\ UNCHANGED <<failed, messy, torn, pure, outcome>>
      BY <1>9, <2>2 DEF Stable, Unstable, ToFile
    <2> QED
      BY <1>a, <2>1, <2>3
  <1>10. CASE Enter \/ Leave \/ FinishLoad \/ CheckLoaded
    <2>1. Same
      BY <1>10 DEF Enter, Leave, FinishLoad, CheckLoaded, Same
    <2> QED
      <3>1. pc' \in {"load", "clean", "loaded", "generate"}
            /\ UNCHANGED <<failed, messy, torn, pure, detached, outcome>>
        BY <1>10 DEF Enter, Leave, FinishLoad, CheckLoaded
      <3> QED
        BY <1>a, <2>1, <3>1
  <1>11. CASE FinishGenerate \/ CheckGenerated
    <2>1. Same
      BY <1>11 DEF FinishGenerate, CheckGenerated, Same
    <2> QED
      <3>1. pc' \in {"generated", "leave"}
            /\ UNCHANGED <<failed, messy, torn, pure, detached, outcome>>
        BY <1>11 DEF FinishGenerate, CheckGenerated
      <3> QED
        BY <1>a, <2>1, <3>1
  <1>12. CASE \E from \in Phase : CheckFails(from) \/ LoaderFails(from)
    <2>1. Same /\ pc \in Inside /\ (~Unchanged \/ ~pure \/ present # File)
      BY <1>12, ChecksDo DEF Same
    <2>2. Hashed = File
      BY <1>0, <2>1 DEF Placed, Hashed, File
    <2>3. \A f \in File : f \in present /\ vstamp[f] = bound[f]
      BY <1>a, <2>1, <2>2 DEF Untouched, Inside, Cleaning
    <2>4. present = File
      BY <2>3 DEF TypeOK
    <2>5. strangers = {}
      BY <1>a, <2>1 DEF Accounted
    <2> QED
      BY <1>a, <2>1, <2>3, <2>4, <2>5 DEF Unchanged
  <1>13. CASE \E f \in File, b \in Block : LoadBlock(f, b)
    <2>1. /\ Same /\ pc \in {"load", "generate"}
          /\ UNCHANGED <<pc, k, at, sources, staged, books, cwd, verdict, ghosts>>
      BY <1>13, LoadDoes DEF Same
    <2>2. PICK f \in File, b \in Block : pure' = (pure /\ view[f][b] = "locked")
      BY <1>13, LoadDoes
    <2>3. f \in Hashed
      BY <1>0, <2>1 DEF Placed, Hashed, Inside, File
    <2>4. view[f] = Locked
      BY <1>a, <2>1, <2>3 DEF Untouched, Sealed, Cleaning
    <2>5. pure'
      BY <1>a, <1>w, <2>1, <2>2, <2>4
    <2> QED
      BY <1>a, <2>1, <2>5
  <1>14. CASE CleanFile \/ FilesCleaned
    <2>1. Same /\ pc = "clean"
      BY <1>14 DEF CleanFile, FilesCleaned, Same
    <2>2. CASE CleanFile
      <3>1. entries # {} /\ present = entries
        BY <1>a, <2>1, <2>2 DEF CleanFile, Accounted
      <3>2. Newest \in present
        BY <3>1, NewestIsEntry
      <3> QED
        BY <1>a, <2>1, <2>2, <3>2 DEF CleanFile
    <2>3. CASE FilesCleaned
      BY <1>a, <2>1, <2>3 DEF FilesCleaned
    <2> QED
      BY <1>14, <2>2, <2>3
  <1>15. CASE CleanSubdirectory \/ CleanRoot \/ CleanStage
    <2>1. Same /\ pc \in {"clean sub", "clean root", "clean stage"}
      BY <1>15 DEF CleanSubdirectory, CleanRoot, CleanStage, Same
    <2>2. present = {} /\ strangers = {}
      BY <1>a, <2>1 DEF Accounted
    <2>3. CASE CleanSubdirectory
      <3>1. Empty("sub")
        BY <2>2 DEF Empty, Files
      <3> QED
        BY <1>a, <2>1, <2>3, <3>1 DEF CleanSubdirectory
    <2>4. CASE CleanRoot
      <3>1. Empty("root")
        BY <1>a, <2>1, <2>2, <2>4 DEF CleanRoot, Accounted, Empty, Files
      <3> QED
        BY <1>a, <2>1, <2>4, <3>1 DEF CleanRoot
    <2>5. CASE CleanStage
      <3>1. ~root
        BY <1>a, <2>1, <2>5 DEF CleanStage, Accounted
      <3> QED
        BY <1>a, <2>1, <2>5, <3>1 DEF CleanStage
    <2> QED
      BY <1>15, <2>3, <2>4, <2>5
  <1>16. CASE Others
    BY <1>16, OthersDo
  <1>17. CASE Fault \/ Interrupt
    BY <1>17, AbandonDoes
  <1>18. CASE CleanupFault
    <2>1. used'.faults # 0
      BY <1>18, SpendSpends DEF CleanupFault
    <2> QED
      BY <2>1 DEF Undisturbed
  <1>19. CASE UNCHANGED vars
    <2>1. Same
      BY <1>19 DEF vars, Same
    <2> QED
      BY <1>a, <1>19, <2>1 DEF vars
  <1>20. CASE Unstage
    <2>1. Same /\ pc = "unstage"
      BY <1>20 DEF Unstage, Same
    <2> QED
      BY <1>a, <2>1 DEF Told
  <1> QED
    BY <1>1, <1>2, <1>3, <1>4, <1>5, <1>6, <1>7, <1>8, <1>9, <1>10, <1>11, <1>12, <1>13,
       <1>14, <1>15, <1>16, <1>17, <1>18, <1>19, <1>20
       DEF Next, Step, Done

\* The initial states satisfy the invariant.
LEMMA InitHolds == Init => IInv
  <1> SUFFICES ASSUME Init PROVE IInv
    OBVIOUS
  <1>0. N \in Nat /\ N > 0 /\ B \in Nat /\ B > 0 /\ Deep \subseteq File
    BY ModelViewAssumption DEF File
  <1>1. Locked \in Bytes /\ [Locked EXCEPT ![B] = "other"] \in Bytes
    BY DEF Locked, Filled, Bytes, Byte
  <1>2. /\ source \in [File -> Bytes] /\ view \in [File -> Bytes] /\ held \in Bytes
    BY <1>1 DEF Init
  <1>3. TypeOK
    <2>1. /\ stamp \in [File -> Nat] /\ vstamp \in [File -> Nat] /\ bound \in [File -> Nat]
          /\ k \in 1..N + 1 /\ at \in 1..B + 1 /\ opened \in Nat /\ frozen \in Nat
          /\ used \in [edits : Nat, tampers : Nat, faults : Nat, interrupts : Nat]
      BY <1>0 DEF Init
    <2>2. pc \in Phase /\ world \in Worlds /\ cwd \in {"home", "view"}
          /\ outcome \in {"none", "ok", "failed"}
      BY DEF Init, Phase
    <2> QED
      BY <1>2, <2>1, <2>2 DEF Init, TypeOK
  <1>4. Placed /\ Sealed
    BY <1>0 DEF Init, Placed, Sealed, Hashed, File, PerFile, Early, Before, Inside,
       Cleaning
  <1>5. Told /\ Removed /\ Accounted
    BY DEF Init, Told, Removed, Accounted, Early, Before, Cleaning, Inside
  <1>6. Untouched /\ Smooth
    BY <1>0 DEF Init, Untouched, Hashed, File, Cleaning, Smooth
  <1> QED
    BY <1>3, <1>4, <1>5, <1>6
       DEF IInv, Init, OkLeavesNothing, FailureCleansUp, CopyWithinLock

\* Only the outside program makes a copy longer than the lock says: a copy starts
\* empty, and the loop writes at a block of the lock.
LEMMA WithinStep ==
    ASSUME TypeOK, Placed, CopyWithinLock, [Next]_vars
    PROVE  CopyWithinLock'
  <1> USE DEF Goto, Break, staged, ghosts
  <1>0. /\ B \in Nat /\ k \in Nat /\ N \in Nat /\ k > 0 /\ at \in Nat /\ at > 0
        /\ view \in [File -> Bytes]
    BY Numbers DEF TypeOK
  <1>1. CASE CreateCopy
    <2>1. k \in File /\ view' = [view EXCEPT ![k] = Filled("short")]
          /\ present' = present \cup {k} /\ UNCHANGED <<world, used>>
      BY <1>0, <1>1 DEF CreateCopy, Placed, PerFile, File
    <2>2. NoMore(Filled("short"))
      BY <1>0 DEF NoMore, Filled, Slot
    <2>3. \A f \in File : view'[f] = IF f = k THEN Filled("short") ELSE view[f]
      BY <1>0, <2>1
    <2>4. present \subseteq File
      BY DEF TypeOK
    <2> QED
      BY <2>1, <2>2, <2>3, <2>4 DEF CopyWithinLock, NoMore
  <1>2. CASE CopyBlock
    <2>1. k \in File /\ at \in Block /\ UNCHANGED <<present, world, used>>
          /\ view' = [view EXCEPT ![k] = [@ EXCEPT ![at] = Source[at]]]
      BY <1>0, <1>2 DEF CopyBlock, Placed, PerFile, File, Block
    <2>2. \A f \in File : view'[f][B + 1] = view[f][B + 1]
      <3>1. at # B + 1 /\ view[k] \in [Slot -> Byte]
        BY <1>0, <2>1 DEF Block, Bytes
      <3> QED
        BY <1>0, <2>1, <3>1
    <2>3. present \subseteq File
      BY DEF TypeOK
    <2> QED
      BY <2>1, <2>2, <2>3 DEF CopyWithinLock, NoMore
  <1>3. CASE CloneSource
    BY <1>3 DEF CloneSource, CopyWithinLock
  <1>4. CASE Uncopy \/ CleanFile
    BY <1>4 DEF Uncopy, CleanFile, CopyWithinLock, NoMore
  <1>5. CASE Others
    BY <1>5, OthersDo DEF CopyWithinLock, NoMore
  <1>6. CASE Fault \/ Interrupt
    BY <1>6, AbandonDoes DEF CopyWithinLock, NoMore
  <1>7. CASE CleanupFault
    <2>1. UNCHANGED <<view, present, world>> /\ used'.tampers = used.tampers
      BY <1>7, SpendSpends DEF CleanupFault
    <2> QED
      BY <2>1 DEF CopyWithinLock, NoMore
  <1>8. ASSUME Next, ~(CreateCopy \/ CopyBlock \/ CloneSource \/ Uncopy \/ CleanFile),
               ~(Others \/ Fault \/ Interrupt \/ CleanupFault)
        PROVE  UNCHANGED <<view, present, world, used>>
    BY <1>8, ChecksDo, LoadDoes
       DEF Next, Step, Bind, MakeStage, Identify, OpenStage, Unstage, MakeRoot,
       MakeSubdirectory, OpenSource, SizeMismatch, SameSize, ResizedBeforeCopy,
       CopyEndsEarly, CopyGrown, CopyDone, Verify, CopyVanished, Record, RecordMisfit,
       Enlist, HashBlock, HashMatches, HashDiffers, Stable, Unstable, Enter, Leave,
       FinishLoad, CheckLoaded, FinishGenerate, CheckGenerated, FilesCleaned,
       CleanSubdirectory, CleanRoot, CleanStage, Done, vars
  <1> QED
    BY <1>1, <1>2, <1>3, <1>4, <1>5, <1>6, <1>7, <1>8 DEF CopyWithinLock, NoMore, vars

\* What is done stays so.
LEMMA DoneIsDone ==
    ASSUME TypeOK, pc = "done", [Next]_vars
    PROVE  UNCHANGED vars
  <1> USE DEF Goto, Break
  <1>1. ~Step
    <2>1. ~\E from \in Phase : CheckFails(from) \/ LoaderFails(from)
      BY ChecksDo DEF Inside
    <2>2. ~\E f \in File, b \in Block : LoadBlock(f, b)
      BY LoadDoes
    <2> QED
      BY <2>1, <2>2 DEF Step, Bind, MakeStage, Identify, OpenStage, Unstage, MakeRoot,
         MakeSubdirectory, OpenSource, SizeMismatch, SameSize, ResizedBeforeCopy,
         CloneSource, CreateCopy, CopyBlock, CopyEndsEarly, CopyGrown, CopyDone, Uncopy,
         Verify, CopyVanished, Record, RecordMisfit, Enlist, HashBlock, HashMatches,
         HashDiffers, Stable, Unstable, Enter, Leave, FinishLoad, CheckLoaded,
         FinishGenerate, CheckGenerated, CleanFile, FilesCleaned, CleanSubdirectory,
         CleanRoot, CleanStage
  <1>2. ~Others /\ ~Fault /\ ~Interrupt /\ ~CleanupFault
    BY OthersDo, AbandonDoes DEF CleanupFault
  <1> QED
    BY <1>1, <1>2 DEF Next, Done

\* The render ends with the cleanup, with a failure or with an interrupt.
LEMMA HowItEnds ==
    ASSUME TypeOK, pc # "done", pc' = "done", [Next]_vars
    PROVE  CleanStage \/ Unstage \/ Fault \/ Interrupt \/ CleanupFault
  <1> USE DEF Goto, Break
  <1>1. Step => CleanStage \/ Unstage
    <2>1. ~\E from \in Phase : CheckFails(from) \/ LoaderFails(from)
      BY ChecksDo
    <2>2. ~\E f \in File, b \in Block : LoadBlock(f, b)
      BY LoadDoes
    <2> QED
      BY <2>1, <2>2 DEF Step, Bind, MakeStage, Identify, OpenStage, Unstage, MakeRoot,
         MakeSubdirectory, OpenSource, SizeMismatch, SameSize, ResizedBeforeCopy,
         CloneSource, CreateCopy, CopyBlock, CopyEndsEarly, CopyGrown, CopyDone, Uncopy,
         Verify, CopyVanished, Record, RecordMisfit, Enlist, HashBlock, HashMatches,
         HashDiffers, Stable, Unstable, Enter, Leave, FinishLoad, CheckLoaded,
         FinishGenerate, CheckGenerated, CleanFile, FilesCleaned, CleanSubdirectory,
         CleanRoot, ToFile
  <1>2. ~Others
    BY OthersDo
  <1>3. ~UNCHANGED vars
    BY DEF vars
  <1> QED
    BY <1>1, <1>2, <1>3 DEF Next, Done

\* What ends the render leaves.
LEMMA EndStep ==
    ASSUME IInv, [Next]_vars
    PROVE  OkLeavesNothing' /\ FailureCleansUp'
  <1> USE DEF IInv
  <1>1. CASE pc = "done"
    <2>1. UNCHANGED <<pc, outcome, torn, used, staging, root, sub, present, cwd>>
      BY <1>1, DoneIsDone DEF vars, verdict, ghosts, staged, loader
    <2> QED
      BY <2>1 DEF OkLeavesNothing, FailureCleansUp
  <1>2. ASSUME pc # "done", pc' # "done" PROVE OkLeavesNothing' /\ FailureCleansUp'
    <2>1. Told'
      BY ToldStep
    <2> QED
      BY <1>2, <2>1 DEF Told, OkLeavesNothing, FailureCleansUp
  <1>3. ASSUME pc # "done", pc' = "done" PROVE OkLeavesNothing' /\ FailureCleansUp'
    <2>1. CASE CleanStage
      <3>1. /\ pc = "clean stage" /\ staging' = root
            /\ UNCHANGED <<torn, used, root, sub, present, cwd, entries>>
            /\ outcome' = "ok" => ~failed /\ ~messy
        BY <2>1 DEF CleanStage, Goto, loader, ghosts, books
      <3>2. outcome' = "ok" => OkLeavesNothing'
        BY <3>1 DEF Removed, OkLeavesNothing, Inside
      <3>3. FailureCleansUp'
        BY <3>1 DEF Removed, Accounted, FailureCleansUp, Inside
      <3> QED
        BY <3>2, <3>3 DEF OkLeavesNothing
    <2>2. CASE Fault \/ Interrupt
      <3>1. /\ UNCHANGED <<present, entries>> /\ used'.tampers = used.tampers
            /\ outcome' = "failed"
            /\ ~torn' =>
                  UNCHANGED <<staging, root, sub, cwd>> /\ pc \in {"start", "stage"} /\ ~torn
        BY <1>3, <2>2, AbandonDoes DEF books
      <3>2. ~torn' /\ used'.tampers = 0 =>
               ~staging' /\ ~root' /\ ~sub' /\ present' = {} /\ cwd' = "home"
        <4>1. pc \in {"start", "stage"} => cwd = "home" \/ torn
          BY DEF Removed, Inside
        <4>2. pc \in {"start", "stage"} /\ ~torn /\ used.tampers = 0 =>
                 ~staging /\ ~root /\ ~sub /\ present = {}
          BY DEF Accounted, Early, Before
        <4> QED
          BY <3>1, <4>1, <4>2
      <3> QED
        BY <1>3, <3>1, <3>2 DEF OkLeavesNothing, FailureCleansUp
    <2>3. CASE CleanupFault
      <3>1. torn' /\ outcome' # "ok"
        BY <1>3, <2>3 DEF CleanupFault, Goto, Told
      <3> QED
        BY <3>1 DEF OkLeavesNothing, FailureCleansUp
    <2>4. CASE Unstage
      <3>1. /\ pc = "unstage" /\ ~staging' /\ outcome' = "failed"
            /\ UNCHANGED <<torn, used, root, sub, present, cwd, entries>>
        BY <2>4 DEF Unstage, Goto, loader, ghosts, books
      <3>2. ~torn /\ used.tampers = 0 => ~root /\ ~sub /\ present = {} /\ cwd = "home"
        BY <3>1 DEF Accounted, Removed, Early, Before, Inside
      <3> QED
        BY <3>1, <3>2 DEF OkLeavesNothing, FailureCleansUp
    <2> QED
      BY <1>3, <2>1, <2>2, <2>3, <2>4, HowItEnds
  <1> QED
    BY <1>1, <1>2, <1>3

\* The invariant holds throughout.
THEOREM ViewInvariance == Spec => []IInv
  <1>1. ASSUME IInv, [Next]_vars PROVE IInv'
    BY <1>1, TypeStep, PlacedStep, SealedStep, ToldStep, RemovedStep, AccountedStep,
       UntouchedStep, SmoothStep, EndStep, WithinStep DEF IInv
  <1> QED
    BY InitHolds, <1>1, PTL DEF Spec

\* No copy becomes longer than the lock says, however much the source grows while
\* it is read: the loop stops at the lock's size and the probe after it writes
\* nothing (_filesystem.py, lines 284-298).
THEOREM CopiesStayWithin == Spec => []CopyWithinLock
  BY ViewInvariance, PTL DEF IInv

\* A render that succeeds has loaded the locked bytes and no others, for any
\* number of files and blocks and however often the source and the copies were
\* changed meanwhile (render_manifest, lines 830 and 845).
THEOREM LoadsLockedOnly == Spec => []LoadedIsLocked
  <1>1. IInv => LoadedIsLocked
    BY DEF IInv, Told, LoadedIsLocked, Cleaning
  <1> QED
    BY <1>1, ViewInvariance, PTL

\* No edit of the source, not even one in the middle of a copy, shows in a view
\* that nobody else touches.
THEOREM ViewStaysFrozen == Spec => []ViewIsFrozen
  <1>1. ASSUME IInv PROVE ViewIsFrozen
    <2>1. SUFFICES ASSUME pc \in Inside, used.tampers = 0, NEW f \in File
                   PROVE  view[f] = Locked /\ f \in present /\ vstamp[f] = bound[f]
      BY DEF ViewIsFrozen, Inside
    <2>2. f \in Hashed
      BY <1>1, <2>1, ModelViewAssumption DEF IInv, Placed, Hashed, File
    <2>3. f \in present /\ vstamp[f] = bound[f]
      BY <1>1, <2>1, <2>2 DEF IInv, Untouched, Inside, Cleaning
    <2> QED
      BY <1>1, <2>2, <2>3 DEF IInv, Sealed
  <1> QED
    BY <1>1, ViewInvariance, PTL

\* A render that reports success has removed everything it staged and is back in
\* its working directory, whatever was added to or taken from the view.
THEOREM SuccessLeavesNothing == Spec => []OkLeavesNothing
  BY ViewInvariance, PTL DEF IInv

\* So has one that failed or was interrupted anywhere but between making
\* something and noting it, or while removing it.
THEOREM FailuresCleanUp == Spec => []FailureCleansUp
  BY ViewInvariance, PTL DEF IInv

\* A locked snapshot that nobody disturbs passes every check there is, whether it
\* is cloned or copied.
THEOREM HonestModelsLoad == Spec => []HonestModelLoads
  <1>1. ASSUME IInv PROVE HonestModelLoads
    <2>1. DOMAIN used = {"edits", "tampers", "faults", "interrupts"}
          /\ \A field \in DOMAIN used : used[field] \in Nat
      BY <1>1 DEF IInv, TypeOK
    <2>2. ~Undisturbed => \/ \E field \in DOMAIN used : used[field] > 0
                          \/ \E f \in File : source[f] # Locked
      BY <2>1 DEF Undisturbed
    <2> QED
      BY <1>1, <2>2 DEF IInv, Smooth, HonestModelLoads
  <1> QED
    BY <1>1, ViewInvariance, PTL
=============================================================================
