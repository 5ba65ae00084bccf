----------------------------- MODULE ModelView -----------------------------
(***************************************************************************)
(* _verified_model_view and the use render_manifest makes of it: each file *)
(* of the locked snapshot is frozen into a private staging directory, by a *)
(* clone or block by block, the frozen copy is hashed, the loader reads    *)
(* the copies, and their fingerprints are compared after the load and      *)
(* after the generation.  Then everything staged is removed.               *)
(*                                                                         *)
(* Meanwhile an editor may change or replace the source files, an outside  *)
(* program of the same user may touch the staged ones, calls fail, and the *)
(* user may interrupt.  A block is "locked" (the bytes the lock names),    *)
(* "other", or "short" (the file ends before it); what follows the last    *)
(* block of the lock counts as one more, and should be "short".            *)
(***************************************************************************)
EXTENDS Integers

CONSTANTS N,             \* files of the lock, in its order
          B,             \* blocks of a file
          Deep,          \* files that lie in a subdirectory of the model
          Worlds         \* whether the file system clones, and how often at most
                         \* source files are changed, staged files are changed,
                         \* system calls fail, and the user interrupts

ASSUME ModelViewAssumption ==
    /\ N \in Nat \ {0} /\ B \in Nat \ {0} /\ Deep \subseteq 1..N
    /\ Worlds \subseteq [clone : BOOLEAN, edits : Nat, tampers : Nat,
                          faults : Nat, interrupts : Nat]

File == 1..N
Block == 1..B
Byte == {"locked", "other", "short"}
Slot == 1..B + 1
Bytes == [Slot -> Byte]

VARIABLES
    pc,         \* the next step
    k,          \* the file at hand
    at,         \* the block at hand
    source,     \* source[f]: the file under its name in the model directory
    stamp,      \* stamp[f]: its fingerprint, new with every change
    held,       \* what source_fd reads if it is no longer source[k]
    detached,   \* the open source file was replaced under its name
    opened,     \* fingerprint of the source when it was opened
    view,       \* view[f]: the frozen copy
    present,    \* files that stand in the view
    vstamp,     \* vstamp[f]: fingerprint of the copy
    strangers,  \* directories of the view with an entry nobody froze
    staging,    \* the staging directory exists
    root,       \* "model" exists in it
    sub,        \* the subdirectory exists in that
    known,      \* directory_fds: cleanup knows of the subdirectory
    entries,    \* view_entries: the copies it knows of
    bound,      \* bound_fingerprints
    frozen,     \* the copy's fingerprint before it was hashed
    good,       \* the blocks hashed so far are the locked ones
    cwd,        \* the working directory of the process: its own or the view
    read,       \* blocks the loader has read
    pure,       \* ghost: all of them were the locked ones when read
    failed,     \* the operation failed
    messy,      \* cleanup_failed
    outcome,
    torn,       \* ghost: a call failed or was interrupted where nobody undoes it
    world,      \* the world this happens in
    used        \* ghost: how much of each of its bounds is spent

sources == <<source, stamp, held, detached, opened>>
staged == <<view, present, vstamp, strangers, staging, root, sub>>
books == <<known, entries, bound, frozen, good>>
loader == <<cwd, read, pure>>
verdict == <<failed, messy, outcome>>
ghosts == <<torn, world, used>>
vars == <<pc, k, at, sources, staged, books, loader, verdict, ghosts>>

Phase == {"start", "stage", "identify", "bind", "unstage", "model", "subdir",
          "open", "copy", "freeze", "copying", "uncopy", "verify", "record", "hash", "stable",
          "enter", "load", "loaded", "generate", "generated", "leave",
          "clean", "clean sub", "clean root", "clean stage", "done"}

TypeOK ==
    /\ pc \in Phase
    /\ k \in 1..N + 1 /\ at \in 1..B + 1
    /\ source \in [File -> Bytes] /\ stamp \in [File -> Nat]
    /\ held \in Bytes /\ detached \in BOOLEAN /\ opened \in Nat
    /\ view \in [File -> Bytes] /\ present \subseteq File /\ vstamp \in [File -> Nat]
    /\ strangers \subseteq {"root", "sub"}
    /\ staging \in BOOLEAN /\ root \in BOOLEAN /\ sub \in BOOLEAN
    /\ known \in BOOLEAN /\ entries \subseteq File /\ bound \in [File -> Nat] /\ frozen \in Nat
    /\ good \in BOOLEAN
    /\ cwd \in {"home", "view"}
    /\ read \subseteq File \X Block /\ pure \in BOOLEAN
    /\ failed \in BOOLEAN /\ messy \in BOOLEAN
    /\ outcome \in {"none", "ok", "failed"}
    /\ torn \in BOOLEAN
    /\ world \in Worlds
    /\ used \in [edits : Nat, tampers : Nat, faults : Nat, interrupts : Nat]

\* A file of the lock's size.
Filled(v) == [b \in Slot |-> IF b = B + 1 THEN "short" ELSE v]

Locked == Filled("locked")

Init ==
    /\ pc = "start" /\ k = 1 /\ at = 1
    /\ source \in [File -> {Locked, [Locked EXCEPT ![B] = "other"]}]
    /\ stamp = [f \in File |-> 0]
    /\ held = Locked /\ detached = FALSE /\ opened = 0
    /\ view = [f \in File |-> Locked] /\ present = {}
    /\ vstamp = [f \in File |-> 0]
    /\ strangers = {} /\ staging = FALSE /\ root = FALSE /\ sub = FALSE
    /\ known = FALSE /\ entries = {} /\ bound = [f \in File |-> 0] /\ frozen = 0 /\ good = TRUE
    /\ cwd = "home" /\ read = {} /\ pure = TRUE
    /\ failed = FALSE /\ messy = FALSE /\ outcome = "none" /\ torn = FALSE
    /\ world \in Worlds
    /\ used = [edits |-> 0, tampers |-> 0, faults |-> 0, interrupts |-> 0]

Goto(from, to) == pc = from /\ pc' = to

\* The operation fails here; cleanup goes on from the given step.
Break(from, to) == Goto(from, to) /\ failed' = TRUE /\ UNCHANGED <<messy, outcome>>

\* What source_fd reads.
Source == IF detached THEN held ELSE source[k]

\* The size is the lock's, neither less nor more.
NoMore(bytes) == bytes[B + 1] = "short"
Whole(bytes) == NoMore(bytes) /\ \A b \in Block : bytes[b] # "short"

\* Where the loop over the files goes with file f: the first file of the
\* subdirectory makes it.
ToFile(f) == IF f > N THEN "enter" ELSE IF f \in Deep /\ ~known THEN "subdir" ELSE "open"

-----------------------------------------------------------------------------
\* private_staging_directory and the directories of the view

Bind ==
    /\ Goto("start", "stage")
    /\ UNCHANGED <<k, at, sources, staged, books, loader, verdict, ghosts>>

MakeStage ==
    /\ Goto("stage", "identify")
    /\ staging' = TRUE
    /\ UNCHANGED <<k, at, sources, view, present, vstamp, strangers, root, sub>>
    /\ UNCHANGED <<books, loader, verdict, ghosts>>

\* Its identity is noted: from here on it can be removed again.
Identify ==
    /\ Goto("identify", "bind")
    /\ UNCHANGED <<k, at, sources, staged, books, loader, verdict, ghosts>>

OpenStage ==
    /\ Goto("bind", "model")
    /\ UNCHANGED <<k, at, sources, staged, books, loader, verdict, ghosts>>

\* The except clause, when the directory could not be opened.
Unstage ==
    /\ Goto("unstage", "done")
    /\ staging' = FALSE /\ outcome' = "failed"
    /\ UNCHANGED <<k, at, sources, view, present, vstamp, strangers, root, sub>>
    /\ UNCHANGED <<books, loader, failed, messy, ghosts>>

MakeRoot ==
    /\ Goto("model", ToFile(1))
    /\ root' = TRUE
    /\ UNCHANGED <<k, at, sources, view, present, vstamp, strangers, staging, sub>>
    /\ UNCHANGED <<books, loader, verdict, ghosts>>

MakeSubdirectory ==
    /\ Goto("subdir", "open")
    /\ sub' = TRUE /\ known' = TRUE
    /\ UNCHANGED <<k, at, sources, view, present, vstamp, strangers, staging, root>>
    /\ UNCHANGED <<entries, bound, frozen, good, loader, verdict, ghosts>>

-----------------------------------------------------------------------------
\* One file: _open_locked_model_file, copy_regular_file_from_descriptor,
\* _sha256_descriptor_exact and _require_stable_open_model_file

OpenSource ==
    /\ Goto("open", "copy")
    /\ Whole(source[k])
    /\ opened' = stamp[k] /\ detached' = FALSE
    /\ UNCHANGED <<k, at, source, stamp, held, staged, books, loader, verdict, ghosts>>

SizeMismatch ==
    /\ Break("open", "clean")
    /\ ~Whole(source[k])
    /\ UNCHANGED <<k, at, sources, staged, books, loader, ghosts>>

\* The size is checked again before the copy is made.
SameSize ==
    /\ Goto("copy", "freeze")
    /\ Whole(Source)
    /\ UNCHANGED <<k, at, sources, staged, books, loader, verdict, ghosts>>

ResizedBeforeCopy ==
    /\ Break("copy", "clean")
    /\ ~Whole(Source)
    /\ UNCHANGED <<k, at, sources, staged, books, loader, ghosts>>

\* A clone freezes all blocks at once, as they are by now.
CloneSource ==
    /\ Goto("freeze", "verify")
    /\ world.clone
    /\ view' = [view EXCEPT ![k] = Source]
    /\ present' = present \cup {k}
    /\ vstamp' = [vstamp EXCEPT ![k] = @ + 1]
    /\ UNCHANGED <<k, at, sources, strangers, staging, root, sub, books, loader, verdict, ghosts>>

\* Without clones: a new file, read from the source block by block while the
\* editor goes on.
CreateCopy ==
    /\ Goto("freeze", "copying")
    /\ ~world.clone
    /\ at' = 1
    /\ view' = [view EXCEPT ![k] = Filled("short")]
    /\ present' = present \cup {k}
    /\ vstamp' = [vstamp EXCEPT ![k] = @ + 1]
    /\ UNCHANGED <<k, sources, strangers, staging, root, sub, books, loader, verdict, ghosts>>

\* Mutant of CopyBlock: copies for as long as the source has more.
CopyOn ==
    /\ pc = "copying" /\ at <= B + 1 /\ Source[at] # "short"
    /\ view' = [view EXCEPT ![k] = [@ EXCEPT ![at] = Source[at]]]
    /\ at' = at + 1
    /\ UNCHANGED <<pc, k, sources, present, vstamp, strangers, staging, root, sub>>
    /\ UNCHANGED <<books, loader, verdict, ghosts>>

CopyBlock ==
    /\ pc = "copying" /\ at <= B /\ Source[at] # "short"
    /\ view' = [view EXCEPT ![k] = [@ EXCEPT ![at] = Source[at]]]
    /\ at' = at + 1
    /\ UNCHANGED <<pc, k, sources, present, vstamp, strangers, staging, root, sub>>
    /\ UNCHANGED <<books, loader, verdict, ghosts>>

\* Mutants of CopyEndsEarly: leaves what it copied; reads on at the end.
LeaveCopy ==
    /\ Break("copying", "clean")
    /\ at <= B /\ Source[at] = "short"
    /\ UNCHANGED <<k, at, sources, staged, books, loader, ghosts>>

ReadOn == FALSE

CopyEndsEarly ==
    /\ Break("copying", "uncopy")
    /\ at <= B /\ Source[at] = "short"
    /\ UNCHANGED <<k, at, sources, staged, books, loader, ghosts>>

\* A read after the last block finds that the source has grown, or that it
\* has not.
CopyGrown ==
    /\ Break("copying", "uncopy")
    /\ at = B + 1 /\ ~NoMore(Source)
    /\ UNCHANGED <<k, at, sources, staged, books, loader, ghosts>>

CopyDone ==
    /\ Goto("copying", "verify")
    /\ at = B + 1 /\ NoMore(Source)
    /\ UNCHANGED <<k, at, sources, staged, books, loader, verdict, ghosts>>

\* The except clause of the copy removes what it made.
Uncopy ==
    /\ Goto("uncopy", "clean")
    /\ present' = present \ {k}
    /\ UNCHANGED <<k, at, sources, view, vstamp, strangers, staging, root, sub>>
    /\ UNCHANGED <<books, loader, verdict, ghosts>>

\* The copy is opened under its name, and has the lock's size.
Verify ==
    /\ Goto("verify", "record")
    /\ k \in present /\ Whole(view[k])
    /\ UNCHANGED <<k, at, sources, staged, books, loader, verdict, ghosts>>

CopyVanished ==
    /\ Break("verify", "uncopy")
    /\ k \notin present \/ ~Whole(view[k])
    /\ UNCHANGED <<k, at, sources, staged, books, loader, ghosts>>

\* Its fingerprint is taken, which has its size too, and it is entered for the
\* cleanup, of whatever size it is.
Enlist ==
    /\ frozen' = vstamp[k]
    /\ entries' = entries \cup {k}
    /\ at' = 1 /\ good' = TRUE
    /\ UNCHANGED <<k, sources, staged, known, bound, loader, ghosts>>

Record ==
    /\ Goto("record", "hash")
    /\ Whole(view[k])
    /\ Enlist
    /\ UNCHANGED verdict

RecordMisfit ==
    /\ Break("record", "clean")
    /\ ~Whole(view[k])
    /\ Enlist

HashBlock ==
    /\ pc = "hash" /\ at <= B
    /\ good' = (good /\ view[k][at] = "locked")
    /\ at' = at + 1
    /\ UNCHANGED <<pc, k, sources, staged, known, entries, bound, frozen, loader, verdict, ghosts>>

\* Mutant of HashMatches: takes the digest without comparing it.
HashIgnored ==
    /\ Goto("hash", "stable")
    /\ at = B + 1 /\ vstamp[k] = frozen
    /\ bound' = [bound EXCEPT ![k] = vstamp[k]]
    /\ UNCHANGED <<k, at, sources, staged, known, entries, frozen, good, loader, verdict, ghosts>>

\* The digest is the lock's, and the copy was not changed while it was taken.
HashMatches ==
    /\ Goto("hash", "stable")
    /\ at = B + 1 /\ good /\ NoMore(view[k]) /\ vstamp[k] = frozen
    /\ bound' = [bound EXCEPT ![k] = vstamp[k]]
    /\ UNCHANGED <<k, at, sources, staged, known, entries, frozen, good, loader, verdict, ghosts>>

HashDiffers ==
    /\ Break("hash", "clean")
    /\ at = B + 1 /\ ~(good /\ NoMore(view[k]) /\ vstamp[k] = frozen)
    /\ UNCHANGED <<k, at, sources, staged, books, loader, ghosts>>

\* The source, by descriptor and by name, is still what was opened.
Stable ==
    /\ Goto("stable", ToFile(k + 1))
    /\ opened = stamp[k]
    /\ k' = k + 1 /\ detached' = FALSE
    /\ UNCHANGED <<at, source, stamp, held, opened, staged, books, loader, verdict, ghosts>>

Unstable ==
    /\ Break("stable", "clean")
    /\ opened # stamp[k]
    /\ UNCHANGED <<k, at, sources, staged, books, loader, ghosts>>

-----------------------------------------------------------------------------
\* render_manifest: load, check, generate, check

\* _bound_working_directory: the loader finds the files under relative paths.
Enter ==
    /\ Goto("enter", "load")
    /\ cwd' = "view"
    /\ UNCHANGED <<k, at, sources, staged, books, read, pure, verdict, ghosts>>

Leave ==
    /\ Goto("leave", "clean")
    /\ cwd' = "home"
    /\ UNCHANGED <<k, at, sources, staged, books, read, pure, verdict, ghosts>>

\* The loader maps the files: a block may be read during the load or as late
\* as in the generation, and more than once.
LoadBlock(f, b) ==
    /\ pc \in {"load", "generate"}
    /\ f \in present
    /\ read' = read \cup {<<f, b>>}
    /\ pure' = (pure /\ view[f][b] = "locked")
    /\ UNCHANGED <<pc, k, at, sources, staged, books, cwd, verdict, ghosts>>

FinishLoad ==
    /\ Goto("load", "loaded")
    /\ UNCHANGED <<k, at, sources, staged, books, loader, verdict, ghosts>>

\* Mutants of Unchanged: compares the names only; compares the source.
SameNames == present = File /\ strangers = {}

SameSource == present = File /\ strangers = {} /\ \A f \in File : stamp[f] = bound[f]

\* _require_unchanged_model: the same names, the same fingerprints.
Unchanged ==
    present = File /\ strangers = {} /\ \A f \in File : vstamp[f] = bound[f]

CheckLoaded ==
    /\ Goto("loaded", "generate")
    /\ Unchanged
    /\ UNCHANGED <<k, at, sources, staged, books, loader, verdict, ghosts>>

FinishGenerate ==
    /\ Goto("generate", "generated")
    /\ read = File \X Block
    /\ UNCHANGED <<k, at, sources, staged, books, loader, verdict, ghosts>>

CheckGenerated ==
    /\ Goto("generated", "leave")
    /\ Unchanged
    /\ UNCHANGED <<k, at, sources, staged, books, loader, verdict, ghosts>>

CheckFails(from) ==
    /\ Break(from, "leave")
    /\ from \in {"loaded", "generated"}
    /\ ~Unchanged
    /\ UNCHANGED <<k, at, sources, staged, books, loader, ghosts>>

\* The model cannot be loaded, or a segment cannot be rendered from it.
LoaderFails(from) ==
    /\ Break(from, "leave")
    /\ from \in {"load", "generate"}
    /\ ~pure \/ present # File
    /\ UNCHANGED <<k, at, sources, staged, books, loader, ghosts>>

-----------------------------------------------------------------------------
\* Cleanup, newest entry first, then the directories from the inside out

Newest == CHOOSE f \in entries : \A g \in entries : g <= f

CleanFile ==
    /\ pc = "clean" /\ entries # {}
    /\ present' = present \ {Newest}
    /\ entries' = entries \ {Newest}
    /\ messy' = (messy \/ Newest \notin present)
    /\ UNCHANGED <<pc, k, at, sources, view, vstamp, strangers, staging, root, sub>>
    /\ UNCHANGED <<known, bound, frozen, good, loader, failed, outcome, ghosts>>

FilesCleaned ==
    /\ Goto("clean", IF known THEN "clean sub" ELSE "clean root")
    /\ entries = {}
    /\ UNCHANGED <<k, at, sources, staged, books, loader, verdict, ghosts>>

Files(dir) == IF dir = "sub" THEN present \cap Deep ELSE present \ Deep

\* rmdir removes only this.
Empty(dir) == Files(dir) = {} /\ dir \notin strangers /\ (dir = "root" => ~sub)

CleanSubdirectory ==
    /\ Goto("clean sub", "clean root")
    /\ sub' = ~Empty("sub")
    /\ messy' = (messy \/ ~Empty("sub"))
    /\ UNCHANGED <<k, at, sources, view, present, vstamp, strangers, staging, root>>
    /\ UNCHANGED <<books, loader, failed, outcome, ghosts>>

CleanRoot ==
    /\ Goto("clean root", "clean stage")
    /\ root' = (root /\ ~Empty("root"))
    /\ messy' = (messy \/ ~Empty("root"))
    /\ UNCHANGED <<k, at, sources, view, present, vstamp, strangers, staging, sub>>
    /\ UNCHANGED <<books, loader, failed, outcome, ghosts>>

\* Mutant of CleanStage: forgets what went wrong during the cleanup.
CleanStageQuietly ==
    /\ Goto("clean stage", "done")
    /\ staging' = root
    /\ messy' = (messy \/ root)
    /\ outcome' = IF failed THEN "failed" ELSE "ok"
    /\ UNCHANGED <<k, at, sources, view, present, vstamp, strangers, root, sub>>
    /\ UNCHANGED <<books, loader, failed, ghosts>>

\* A cleanup that could not finish fails a render that had succeeded.
CleanStage ==
    /\ Goto("clean stage", "done")
    /\ staging' = root
    /\ messy' = (messy \/ root)
    /\ outcome' = IF failed \/ messy \/ root THEN "failed" ELSE "ok"
    /\ UNCHANGED <<k, at, sources, view, present, vstamp, strangers, root, sub>>
    /\ UNCHANGED <<books, loader, failed, ghosts>>

Step ==
    \/ Bind \/ MakeStage \/ Identify \/ OpenStage \/ Unstage \/ MakeRoot \/ MakeSubdirectory
    \/ OpenSource \/ SizeMismatch \/ SameSize \/ ResizedBeforeCopy \/ CloneSource
    \/ CreateCopy \/ CopyBlock \/ CopyEndsEarly \/ CopyGrown \/ CopyDone \/ Uncopy
    \/ Verify \/ CopyVanished \/ Record \/ RecordMisfit \/ HashBlock \/ HashMatches \/ HashDiffers
    \/ Stable \/ Unstable
    \/ \E f \in File, b \in Block : LoadBlock(f, b)
    \/ Enter \/ Leave \/ FinishLoad \/ CheckLoaded \/ FinishGenerate \/ CheckGenerated
    \/ \E from \in Phase : CheckFails(from) \/ LoaderFails(from)
    \/ CleanFile \/ FilesCleaned \/ CleanSubdirectory \/ CleanRoot \/ CleanStage

-----------------------------------------------------------------------------
\* What goes on around it

Spend(field) ==
    /\ used[field] < world[field]
    /\ used' = [used EXCEPT ![field] = @ + 1]
    /\ UNCHANGED world

\* A file in which block b is written: "short" cuts it off there, and a gap
\* before it is filled.
Written(bytes, b, v) ==
    [c \in Slot |-> IF c = b \/ (c > b /\ v = "short") THEN v
                     ELSE IF c < b /\ v # "short" /\ bytes[c] = "short" THEN "other"
                     ELSE bytes[c]]

\* The editor writes a block of a source file in place, cuts it off or adds to
\* it, or puts a new file under its name; an open descriptor keeps the old one.
EditSource(f, b, v) ==
    /\ pc # "done" /\ Spend("edits")
    /\ source' = [source EXCEPT ![f] = Written(@, b, v)]
    /\ stamp' = [stamp EXCEPT ![f] = @ + 1]
    /\ UNCHANGED <<pc, k, at, held, detached, opened, staged, books, loader, verdict, torn>>

ReplaceSource(f, v) ==
    /\ pc # "done" /\ Spend("edits")
    /\ source' = [source EXCEPT ![f] = Filled(v)]
    /\ stamp' = [stamp EXCEPT ![f] = @ + 1]
    /\ IF f = k /\ ~detached
       THEN detached' = TRUE /\ held' = source[f]
       ELSE UNCHANGED <<detached, held>>
    /\ UNCHANGED <<pc, k, at, opened, staged, books, loader, verdict, torn>>

\* The outside program writes to, removes or adds a staged file.
TamperWrite(f, b, v) ==
    /\ f \in present /\ pc # "done" /\ Spend("tampers")
    /\ view' = [view EXCEPT ![f] = Written(@, b, v)]
    /\ vstamp' = [vstamp EXCEPT ![f] = @ + 1]
    /\ UNCHANGED <<pc, k, at, sources, present, strangers, staging, root, sub>>
    /\ UNCHANGED <<books, loader, verdict, torn>>

TamperRemove(f) ==
    /\ f \in present /\ pc # "done" /\ Spend("tampers")
    /\ present' = present \ {f}
    /\ UNCHANGED <<pc, k, at, sources, view, vstamp, strangers, staging, root, sub>>
    /\ UNCHANGED <<books, loader, verdict, torn>>

TamperAdd(dir) ==
    /\ IF dir = "sub" THEN sub ELSE root
    /\ dir \notin strangers /\ pc # "done" /\ Spend("tampers")
    /\ strangers' = strangers \cup {dir}
    /\ UNCHANGED <<pc, k, at, sources, view, present, vstamp, staging, root, sub>>
    /\ UNCHANGED <<books, loader, verdict, torn>>

\* Steps in the working directory of the view, which a finally clause leaves.
Inside == {"load", "loaded", "generate", "generated"}

\* Steps before the clauses that clean the staging directory.
Before == {"start", "stage", "identify", "bind", "unstage"}

\* Where an OSError leads from each step: the copy undoes what it created,
\* everything else leaves that to the outer cleanup, which knows only what
\* was recorded.
Caught ==
    [s \in Phase |->
        CASE s \in {"start", "stage", "identify", "unstage"} -> {"done"}
          [] s = "bind"                    -> {"unstage"}
          [] s = "model"                   -> {"clean stage"}
          [] s \in {"copying", "verify"}   -> {"uncopy"}
          [] s \in Inside                  -> {"leave"}
          [] OTHER                         -> {"clean"}]

\* KeyboardInterrupt runs the finally clauses, but not the except clauses,
\* which name OSError and RuntimeError only.
Uncaught ==
    [s \in Phase |->
        CASE s \in Before \cup {"clean stage"}                  -> {"done"}
          [] s \in {"model", "clean", "clean sub", "clean root"} -> {"clean stage"}
          [] s \in Inside                                       -> {"leave"}
          [] OTHER                                              -> {"clean"}]

\* Steps at which something stands that no clause knows of: the staging
\* directory before its identity is noted, a copy before it is entered, and
\* what a failing removal leaves.
Fragile == {"identify", "unstage", "uncopy", "record", "leave"}
FragileToInterrupt ==
    Fragile \cup {"bind", "copying", "verify", "enter", "clean", "clean sub", "clean root",
                  "clean stage"}

\* The step fails before or after it made its directory, which nobody knows of
\* then.
Abandon(to, fragile) ==
    /\ pc' \in to[pc]
    /\ failed' = TRUE
    /\ staging' \in IF pc = "stage" THEN BOOLEAN ELSE {staging}
    /\ root' \in IF pc = "model" THEN BOOLEAN ELSE {root}
    /\ sub' \in IF pc = "subdir" THEN BOOLEAN ELSE {sub}
    /\ torn' = (torn \/ pc \in fragile \/ <<staging, root, sub>>' # <<staging, root, sub>>)
    /\ outcome' = IF pc' = "done" THEN "failed" ELSE outcome
    /\ UNCHANGED <<k, at, sources, view, present, vstamp, strangers, books, read, pure, messy>>

\* A call fails: the mkdir of the staging directory makes nothing then, and
\* after an fchdir the working directory is what it was.
Fault ==
    /\ pc \notin {"clean", "clean sub", "clean root", "clean stage", "done"}
    /\ Spend("faults")
    /\ Abandon(Caught, Fragile)
    /\ UNCHANGED <<staging, cwd>>

\* The interrupt may also come between fchdir and the clause that undoes it.
Interrupt ==
    /\ pc # "done"
    /\ Spend("interrupts")
    /\ Abandon(Uncaught, FragileToInterrupt)
    /\ cwd' \in IF pc \in {"enter", "leave"} THEN {"home", "view"} ELSE {cwd}

\* A cleanup call fails: noted, and the rest goes on.
CleanupFault ==
    /\ Spend("faults")
    /\ messy' = TRUE /\ torn' = TRUE
    /\ \/ /\ pc = "clean" /\ entries # {}
          /\ entries' = entries \ {Newest}
          /\ UNCHANGED <<pc, outcome>>
       \/ /\ Goto("clean sub", "clean root") \/ Goto("clean root", "clean stage")
          /\ UNCHANGED <<entries, outcome>>
       \/ /\ Goto("clean stage", "done")
          /\ outcome' = "failed"
          /\ UNCHANGED entries
    /\ UNCHANGED <<k, at, sources, staged, known, bound, frozen, good, loader, failed>>

Others ==
    \/ \E f \in File, b \in Slot, v \in Byte : /\ b = B + 1 => v # "locked"
                                            /\ (EditSource(f, b, v) \/ TamperWrite(f, b, v))
    \/ \E f \in File, v \in {"locked", "other"} : ReplaceSource(f, v)
    \/ \E f \in File : TamperRemove(f)
    \/ \E dir \in {"root", "sub"} : TamperAdd(dir)

Done == pc = "done" /\ UNCHANGED vars

Next == Step \/ Others \/ Fault \/ CleanupFault \/ Interrupt \/ Done

\* The process is scheduled and the loader reads on; nothing else must happen.
Spec == Init /\ [][Next]_vars /\ WF_vars(Step)

-----------------------------------------------------------------------------
\* Properties

\* A render that succeeds has loaded nothing but the bytes the lock names,
\* and all of them, whatever happened to the source and to the copies: the
\* hash is of the frozen copy, and its fingerprint is compared after the
\* last read (render_manifest, lines 830 and 845).
LoadedIsLocked == outcome = "ok" => pure /\ read = File \X Block

\* Once the snapshot is bound, no change to the source shows in it: a change
\* during the copy is caught by the hash of the copy.
ViewIsFrozen ==
    pc \in {"load", "loaded", "generate", "generated"} /\ used.tampers = 0 =>
        \A f \in File : view[f] = Locked /\ f \in present /\ vstamp[f] = bound[f]

\* However much a source grows while it is copied, no more of it than the lock
\* names is written: a copy never becomes longer, not even the one that is
\* given up when the growth is noticed (_filesystem.py, lines 282-298).
CopyWithinLock ==
    ~world.clone /\ used.tampers = 0 => \A f \in present : NoMore(view[f])

\* Success is only reported with everything staged removed and the working
\* directory restored, whatever the outside program put there and whichever
\* cleanup call failed.
OkLeavesNothing == outcome = "ok" => ~staging /\ ~root /\ ~sub /\ present = {} /\ cwd = "home"

\* A failure or an interrupt leaves nothing staged either, as long as it does
\* not fall between making something and noting it, or on a removal: a staging
\* directory that cannot be opened and a copy that is cut short, grows or
\* cannot be verified are removed again (_filesystem.py, lines 317-325, 374-387).
FailureCleansUp ==
    pc = "done" /\ ~torn /\ used.tampers = 0 =>
        ~staging /\ ~root /\ ~sub /\ present = {} /\ cwd = "home"

\* A locked snapshot nobody touches renders: no check fails without a cause.
HonestModelLoads ==
    pc = "done" /\ outcome = "failed" =>
        \/ \E field \in DOMAIN used : used[field] > 0
        \/ \E f \in File : source[f] # Locked

\* Every render ends.
ViewEnds == <>(pc = "done")
=============================================================================
