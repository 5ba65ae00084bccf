------------------------------ MODULE Publish ------------------------------
(***************************************************************************)
(* How every result of the program reaches its name: private_unlinked_file *)
(* makes a file under a random name and unlinks it, the caller writes and  *)
(* fsyncs the nameless file, and commit_open_file clones it to a name that *)
(* must be free, checks what stands there and fsyncs the directory.  WAV   *)
(* files, benchmark reports, caption snapshots and model files all take    *)
(* this path (_write_wav_at, write_json_atomic, _write_caption_snapshot,   *)
(* download_locked_model).                                                 *)
(*                                                                         *)
(* Several processes run it in one directory.  Each system call is a step. *)
(* Calls fail, processes die, the power goes, and a program outside this   *)
(* one, of the same user, may remove or create a file under any name.      *)
(***************************************************************************)
EXTENDS Naturals

CONSTANTS Proc,        \* processes that publish one file each
          Name,        \* file names of the directory
          TempName,    \* those a random temporary name can take
          Dest,        \* Dest[p]: the name p publishes to
          Payload,     \* Payload[p]: the content p publishes
          Size,        \* blocks in a payload
          MaxTries,    \* names tried before giving up (32 in the code)
          MaxFaults,   \* bound: system calls that fail
          MaxMeddles,  \* bound: steps of the outside program
          MaxCrashes,  \* bound: processes that die on their own
          MaxOutages,  \* bound: power losses
          Nothing,     \* no file
          Foreign,     \* a file none of the processes made
          Torn         \* the content of a file that lost some of its blocks

Temp(p) == <<"temp", p>>
Clone(p) == <<"clone", p>>
File == {"temp", "clone"} \X Proc
Entry == File \cup {Nothing, Foreign}

ASSUME PublishAssumption ==
    /\ Size \in Nat \ {0}
    /\ MaxTries \in Nat \ {0}
    /\ TempName \subseteq Name
    /\ Dest \in [Proc -> Name \ TempName]
    /\ Nothing # Foreign
    /\ Nothing \notin File
    /\ Foreign \notin File
    /\ \A p \in Proc : Payload[p] \notin {Nothing, Foreign, Torn}
    /\ Torn \notin {Nothing, Foreign}
    /\ {MaxFaults, MaxMeddles, MaxCrashes, MaxOutages} \subseteq Nat

VARIABLES
    pc,        \* the next system call of each process
    tries,     \* names private_unlinked_file has tried
    temp,      \* the temporary name it obtained
    written,   \* blocks written to the temporary file
    synced,    \* blocks of it an fsync has made durable
    copied,    \* blocks of it the clone holds
    created,   \* created_identity: the file stat found after the clone
    opened,    \* the file destination_fd stands for
    dir,       \* the directory as processes see it
    disk,      \* the directory as the last fsync left it
    meddled,   \* ghost: the names the outside program has changed
    blind,     \* ghost: processes whose stat or cleanup call failed
    used,      \* how much of each bound is spent
    stale      \* ghost: <<p, n>> once n changed between p's look and its act

procVars == <<tries, temp, written, synced, copied, created, opened>>
sysVars == <<pc, procVars, dir, disk, meddled, blind, used>>
vars == <<sysVars, stale>>

Phase == {"start", "made", "checked", "discard", "discarding", "writing",
          "synced", "cloned", "stated", "opened", "verified", "rollback",
          "unlinking", "resync", "ok", "failed", "crashed"}
Done == {"ok", "failed", "crashed"}

TypeOK ==
    /\ pc \in [Proc -> Phase]
    /\ tries \in [Proc -> 0..MaxTries]
    /\ temp \in [Proc -> TempName \cup {Nothing}]
    /\ written \in [Proc -> 0..Size]
    /\ synced \in [Proc -> 0..Size]
    /\ copied \in [Proc -> 0..Size]
    /\ created \in [Proc -> Entry]
    /\ opened \in [Proc -> Entry]
    /\ dir \in [Name -> Entry]
    /\ disk \in [Name -> Entry]
    /\ meddled \subseteq Name
    /\ blind \subseteq Proc
    /\ used \in [faults : Nat, meddles : Nat, crashes : Nat, outages : Nat]
    /\ stale \subseteq Proc \X Name

Init ==
    /\ pc = [p \in Proc |-> "start"]
    /\ tries = [p \in Proc |-> 0]
    /\ temp = [p \in Proc |-> Nothing]
    /\ written = [p \in Proc |-> 0]
    /\ synced = [p \in Proc |-> 0]
    /\ copied = [p \in Proc |-> 0]
    /\ created = [p \in Proc |-> Nothing]
    /\ opened = [p \in Proc |-> Nothing]
    /\ dir \in [Name -> {Nothing, Foreign}]
    /\ disk = dir
    /\ meddled = {}
    /\ blind = {}
    /\ used = [faults |-> 0, meddles |-> 0, crashes |-> 0, outages |-> 0]
    /\ stale = {}

\* p moves from one system call to the next.
Goto(p, from, to) ==
    /\ pc[p] = from
    /\ pc' = [pc EXCEPT ![p] = to]

\* A file without a name has a link count of zero.
Nameless(f) == \A n \in Name : dir[n] # f

Blocks(f) == IF f[1] = "temp" THEN written[f[2]] ELSE copied[f[2]]

\* What a reader of the file finds there.
Content(f) ==
    CASE f \in {Nothing, Foreign} -> f
      [] f \in File /\ Blocks(f) = Size -> Payload[f[2]]
      [] OTHER -> Torn

-----------------------------------------------------------------------------
\* private_unlinked_file

\* open(O_CREAT | O_EXCL) under a random name that is free.
Create(p, n) ==
    /\ Goto(p, "start", "made")
    /\ dir[n] = Nothing
    /\ dir' = [dir EXCEPT ![n] = Temp(p)]
    /\ temp' = [temp EXCEPT ![p] = n]
    /\ UNCHANGED <<tries, written, synced, copied, created, opened>>
    /\ UNCHANGED <<disk, meddled, blind, used>>

\* Mutant of Collide: trying for ever.
CollideForever(p, n) ==
    /\ pc[p] = "start"
    /\ dir[n] # Nothing
    /\ UNCHANGED sysVars

\* FileExistsError: another name, until the tries are used up.
Collide(p, n) ==
    /\ pc[p] = "start"
    /\ dir[n] # Nothing
    /\ tries' = [tries EXCEPT ![p] = @ + 1]
    /\ pc' = [pc EXCEPT ![p] = IF tries[p] + 1 = MaxTries THEN "failed" ELSE "start"]
    /\ UNCHANGED <<temp, written, synced, copied, created, opened>>
    /\ UNCHANGED <<dir, disk, meddled, blind, used>>

\* fstat and stat must agree; a stat that finds no file leaves no identity
\* to clean up by.
Inspect(p) ==
    /\ Goto(p, "made", CASE dir[temp[p]] = Temp(p) -> "checked"
                         [] dir[temp[p]] = Nothing -> "failed"
                         [] OTHER                  -> "discard")
    /\ UNCHANGED <<procVars, dir, disk, meddled, blind, used>>

\* unlink(name) takes whatever the name holds by now; the descriptor must
\* then stand for a file without a name.
UnlinkTemp(p) ==
    /\ pc[p] = "checked"
    /\ dir' = [dir EXCEPT ![temp[p]] = Nothing]
    /\ pc' = [pc EXCEPT ![p] = IF dir[temp[p]] = Nothing THEN "discard" ELSE "writing"]
    /\ UNCHANGED <<procVars, disk, meddled, blind, used>>

\* The error path: stat the temporary name, unlink it if it is this file.
Discard(p) ==
    /\ Goto(p, "discard", IF dir[temp[p]] = Temp(p) THEN "discarding" ELSE "failed")
    /\ UNCHANGED <<procVars, dir, disk, meddled, blind, used>>

DiscardUnlink(p) ==
    /\ Goto(p, "discarding", "failed")
    /\ dir' = [dir EXCEPT ![temp[p]] = Nothing]
    /\ UNCHANGED <<procVars, disk, meddled, blind, used>>

-----------------------------------------------------------------------------
\* The body: write the payload to the nameless file and fsync it.

WriteBlock(p) ==
    /\ pc[p] = "writing"
    /\ written[p] < Size
    /\ written' = [written EXCEPT ![p] = @ + 1]
    /\ UNCHANGED <<pc, tries, temp, synced, copied, created, opened>>
    /\ UNCHANGED <<dir, disk, meddled, blind, used>>

\* Mutants of SyncFile: no fsync; a short write taken for a complete one.
SkipSync(p) ==
    /\ Goto(p, "writing", "synced")
    /\ written[p] = Size
    /\ UNCHANGED <<procVars, dir, disk, meddled, blind, used>>

SyncShort(p) ==
    /\ Goto(p, "writing", "synced")
    /\ synced' = [synced EXCEPT ![p] = written[p]]
    /\ UNCHANGED <<tries, temp, written, copied, created, opened>>
    /\ UNCHANGED <<dir, disk, meddled, blind, used>>

SyncFile(p) ==
    /\ Goto(p, "writing", "synced")
    /\ written[p] = Size
    /\ synced' = [synced EXCEPT ![p] = written[p]]
    /\ UNCHANGED <<tries, temp, written, copied, created, opened>>
    /\ UNCHANGED <<dir, disk, meddled, blind, used>>

-----------------------------------------------------------------------------
\* commit_open_file

\* Mutant of CloneFile: a rename in its place, which replaces what is there.
RenameOver(p) ==
    /\ Goto(p, "synced", "cloned")
    /\ Nameless(Temp(p))
    /\ dir' = [dir EXCEPT ![Dest[p]] = Clone(p)]
    /\ copied' = [copied EXCEPT ![p] = written[p]]
    /\ UNCHANGED <<tries, temp, written, synced, created, opened>>
    /\ UNCHANGED <<disk, meddled, blind, used>>

\* fclonefileat makes the name and its content appear at once, and only if
\* the name is free and the file nameless.
CloneFile(p) ==
    /\ Goto(p, "synced", "cloned")
    /\ Nameless(Temp(p))
    /\ dir[Dest[p]] = Nothing
    /\ dir' = [dir EXCEPT ![Dest[p]] = Clone(p)]
    /\ copied' = [copied EXCEPT ![p] = written[p]]
    /\ UNCHANGED <<tries, temp, written, synced, created, opened>>
    /\ UNCHANGED <<disk, meddled, blind, used>>

\* The name is taken or the file still has a name: nothing was created, so
\* there is nothing to roll back.
CloneRefused(p) ==
    /\ Goto(p, "synced", "failed")
    /\ dir[Dest[p]] # Nothing \/ ~Nameless(Temp(p))
    /\ UNCHANGED <<procVars, dir, disk, meddled, blind, used>>

StatCreated(p) ==
    /\ Goto(p, "cloned", IF dir[Dest[p]] = Nothing THEN "rollback" ELSE "stated")
    /\ created' = [created EXCEPT ![p] = dir[Dest[p]]]
    /\ UNCHANGED <<tries, temp, written, synced, copied, opened>>
    /\ UNCHANGED <<dir, disk, meddled, blind, used>>

OpenCreated(p) ==
    /\ Goto(p, "stated", IF dir[Dest[p]] = Nothing THEN "rollback" ELSE "opened")
    /\ opened' = [opened EXCEPT ![p] = dir[Dest[p]]]
    /\ UNCHANGED <<tries, temp, written, synced, copied, created>>
    /\ UNCHANGED <<dir, disk, meddled, blind, used>>

\* Mutant of Genuine: wants the clone to be the temporary file itself.
SameInode(p) ==
    /\ dir[Dest[p]] = opened[p]
    /\ opened[p] = Temp(p)

\* The name still holds the opened file, and its bytes are the payload's.
Genuine(p) ==
    /\ dir[Dest[p]] = opened[p]
    /\ Content(opened[p]) = Payload[p]

Verify(p) ==
    /\ Goto(p, "opened", IF Genuine(p) THEN "verified" ELSE "rollback")
    /\ UNCHANGED <<procVars, dir, disk, meddled, blind, used>>

\* Mutant of SyncDir: reports success without the fsync.
SkipSyncDir(p) ==
    /\ Goto(p, "verified", "ok")
    /\ UNCHANGED <<procVars, dir, disk, meddled, blind, used>>

SyncDir(p) ==
    /\ Goto(p, "verified", "ok")
    /\ disk' = dir
    /\ UNCHANGED <<procVars, dir, meddled, blind, used>>

\* Mutant of Rollback: compares before created_identity was ever set.
ForgetIdentity(p) ==
    /\ Goto(p, "rollback",
            IF created[p] = Nothing /\ dir[Dest[p]] = created[p]
            THEN "unlinking" ELSE "failed")
    /\ UNCHANGED <<procVars, dir, disk, meddled, blind, used>>

\* Mutant of Rollback: what stands under the name must be the clone.
RollbackByName(p) ==
    /\ Goto(p, "rollback", IF dir[Dest[p]] # Nothing THEN "unlinking" ELSE "failed")
    /\ UNCHANGED <<procVars, dir, disk, meddled, blind, used>>

\* Rollback: stat the name, unlink it if it is the file created, fsync.
Rollback(p) ==
    /\ Goto(p, "rollback",
            IF created[p] # Nothing /\ dir[Dest[p]] = created[p]
            THEN "unlinking" ELSE "failed")
    /\ UNCHANGED <<procVars, dir, disk, meddled, blind, used>>

RollbackUnlink(p) ==
    /\ Goto(p, "unlinking", IF dir[Dest[p]] = Nothing THEN "failed" ELSE "resync")
    /\ dir' = [dir EXCEPT ![Dest[p]] = Nothing]
    /\ UNCHANGED <<procVars, disk, meddled, blind, used>>

RollbackSync(p) ==
    /\ Goto(p, "resync", "failed")
    /\ disk' = dir
    /\ UNCHANGED <<procVars, dir, meddled, blind, used>>

Step(p) ==
    \/ \E n \in TempName : Create(p, n) \/ Collide(p, n)
    \/ Inspect(p) \/ UnlinkTemp(p) \/ Discard(p) \/ DiscardUnlink(p)
    \/ WriteBlock(p) \/ SyncFile(p)
    \/ CloneFile(p) \/ CloneRefused(p)
    \/ StatCreated(p) \/ OpenCreated(p) \/ Verify(p) \/ SyncDir(p)
    \/ Rollback(p) \/ RollbackUnlink(p) \/ RollbackSync(p)

-----------------------------------------------------------------------------
\* What goes wrong

\* Where the except clauses send a process whose call fails.  A failed stat
\* of the new name leaves created_identity unset, and the rollback then
\* finds nothing to compare with.
AfterFault ==
    [s \in Phase \ Done |->
        CASE s = "checked"                           -> "discard"
          [] s \in {"cloned", "stated", "opened", "verified"} -> "rollback"
          [] OTHER                                   -> "failed"]

\* Calls whose failure hides from the process what it left behind.
Blinding == {"made", "discard", "discarding", "cloned", "rollback", "unlinking"}

Fault(p) ==
    /\ pc[p] \notin Done
    /\ used.faults < MaxFaults
    /\ used' = [used EXCEPT !.faults = @ + 1]
    /\ pc' = [pc EXCEPT ![p] = AfterFault[pc[p]]]
    /\ blind' = IF pc[p] \in Blinding THEN blind \cup {p} ELSE blind
    /\ UNCHANGED <<procVars, dir, disk, meddled>>

\* The process dies, or an interrupt passes through the except clauses,
\* which name OSError and RuntimeError only: no cleanup either way.
Crash(p) ==
    /\ pc[p] \notin Done
    /\ used.crashes < MaxCrashes
    /\ used' = [used EXCEPT !.crashes = @ + 1]
    /\ pc' = [pc EXCEPT ![p] = "crashed"]
    /\ UNCHANGED <<procVars, dir, disk, meddled, blind>>

\* The outside program removes a file, or creates one under a free name.
Meddle(n) ==
    /\ used.meddles < MaxMeddles
    /\ used' = [used EXCEPT !.meddles = @ + 1]
    /\ dir' = [dir EXCEPT ![n] = IF dir[n] = Nothing THEN Foreign ELSE Nothing]
    /\ meddled' = meddled \cup {n}
    /\ UNCHANGED <<pc, procVars, disk, blind>>

\* Power loss: of each name the newest or the last synced entry is left, a
\* file may lose the blocks no fsync covered, and every process is gone.
\* Processes that have not started may start after the reboot.
PowerLoss ==
    /\ used.outages < MaxOutages
    /\ used' = [used EXCEPT !.outages = @ + 1]
    /\ \E kept \in SUBSET Name :
          dir' = [n \in Name |-> IF n \in kept THEN dir[n] ELSE disk[n]]
    /\ disk' = dir'
    /\ pc' = [p \in Proc |-> IF pc[p] \in Done \cup {"start"} THEN pc[p] ELSE "crashed"]
    /\ \E torn \in SUBSET {p \in Proc : synced[p] < copied[p]} :
          copied' = [p \in Proc |-> IF p \in torn THEN synced[p] ELSE copied[p]]
    /\ UNCHANGED <<tries, temp, written, synced, created, opened>>
    /\ UNCHANGED <<meddled, blind>>

\* Every process is done: the program stops.
AllDone ==
    /\ \A p \in Proc : pc[p] \in Done
    /\ UNCHANGED sysVars

\* p has made or looked at what n holds, and its next call relies on that: an
\* unlink, or the stat that tells it what it has made.
Relies(p, n) ==
    \/ pc[p] \in {"checked", "discarding"} /\ n = temp[p]
    \/ pc[p] \in {"cloned", "unlinking"} /\ n = Dest[p]

Notice ==
    stale' = stale \cup {e \in Proc \X Name : /\ Relies(e[1], e[2])
                                              /\ pc'[e[1]] = pc[e[1]]
                                              /\ dir'[e[2]] # dir[e[2]]}

Next ==
    /\ \/ \E p \in Proc : Step(p) \/ Fault(p) \/ Crash(p)
       \/ \E n \in Name : Meddle(n)
       \/ PowerLoss
       \/ AllDone
    /\ Notice

\* The system schedules every process that can run; nothing forces a fault,
\* a crash, a power loss or a step of the outside program.
Spec == Init /\ [][Next]_vars /\ \A p \in Proc : WF_sysVars(Step(p))

-----------------------------------------------------------------------------
\* Properties

\* A published name never shows part of a payload, not even after a power
\* loss and not in what the disk holds: the clone appears in one step, and
\* only once the file behind it is durable (the fsync before
\* commit_open_file in each of its callers).
WholeOrAbsent ==
    \A p \in Proc : Torn \notin {Content(dir[Dest[p]]), Content(disk[Dest[p]])}

\* A publication reported as successful stands, on disk too, against rival
\* publishers of the same name, their rollbacks and power losses: the
\* directory fsync precedes the return of commit_open_file.
SuccessLasts ==
    \A p \in Proc :
        pc[p] = "ok" /\ Dest[p] \notin meddled =>
            dir[Dest[p]] = Clone(p) /\ disk[Dest[p]] = Clone(p)

\* A reported failure leaves neither the temporary nor the published file
\* behind, unless the very calls that look or clean up failed: the except
\* clauses of private_unlinked_file and commit_open_file.
FailureLeavesNothing ==
    \A p \in Proc :
        pc[p] = "failed" /\ p \notin blind /\ used.outages = 0 =>
            Nameless(Temp(p)) /\ Nameless(Clone(p))

\* What a step of this program may do to a name that is taken: only the
\* process that made the file frees it.  Another one may free a name that the
\* outside program had a hand in, where it changed between a look and an act.
SparedName(n) ==
    dir[n] # Nothing /\ dir'[n] # dir[n]
        /\ used'.outages = used.outages /\ used'.meddles = used.meddles
    => /\ dir'[n] = Nothing
       /\ \E p \in Proc : /\ pc'[p] # pc[p]
                         /\ \/ dir[n] \in {Temp(p), Clone(p)}
                            \/ n \in meddled /\ <<p, n>> \in stale

\* No process ever removes or replaces a file it did not make: O_EXCL, the
\* clone that refuses a taken name, and the identity checks before each
\* unlink of _filesystem.py, which tell a rival's or an outside program's file
\* from the one made, unless it came between the check and the unlink.
SparesOthers == [][\A n \in Name : SparedName(n)]_vars

Disturbed == \E k \in DOMAIN used : used[k] > 0

\* Every publisher comes to an end, whatever fails and whoever interferes: the
\* tries for a temporary name are bounded, and every error path returns.  And
\* rivals alone never refuse each other into losing all: each name ends up
\* holding a file, unless a publisher ran out of temporary names.
RivalsDecide ==
    \A p \in Proc :
        /\ <>(pc[p] \in Done)
        /\ <>[](Disturbed \/ dir[Dest[p]] # Nothing \/ tries[p] = MaxTries)

\* The system calls above implement the abstract store.
Dests == {Dest[p] : p \in Proc}

Store == [d \in Dests |-> Content(dir[d])]

Outcome ==
    [p \in Proc |-> CASE pc[p] = "ok"                   -> "ok"
                      [] pc[p] \in {"failed", "crashed"} -> "failed"
                      [] OTHER                           -> "pending"]

WO == INSTANCE WriteOnce WITH store    <- Store,
                              outcome  <- Outcome,
                              tampered <- meddled \cap Dests

\* Readers see a store in which files appear whole, are never overwritten,
\* and survive once reported.
ImplementsWriteOnce == WO!Spec

-----------------------------------------------------------------------------
\* The inductive invariant behind the properties above

HoldsTemp == {"made", "checked", "discard", "discarding"}
HoldsDest == {"cloned", "stated", "opened", "verified", "rollback", "unlinking", "ok"}

TriesLeft == \A p \in Proc : pc[p] = "start" => tries[p] < MaxTries

\* The file is durable before the clone, and only whole clones have names.
SyncedFirst ==
    \A p \in Proc : pc[p] = "synced" => written[p] = Size /\ synced[p] = Size

WholeClones ==
    \A p \in Proc, n \in Name :
        Clone(p) \in {dir[n], disk[n]} => copied[p] = Size /\ synced[p] = Size

TempsApart ==
    \A p \in Proc, n \in Name : Temp(p) \in {dir[n], disk[n]} => n \in TempName

\* While a process can still unlink a name, its own file is there, unless the
\* outside program took it: two processes never hold one name.
TempHeld ==
    \A p \in Proc : pc[p] \in HoldsTemp =>
        /\ temp[p] \in TempName
        /\ temp[p] \notin meddled => dir[temp[p]] = Temp(p)

DestHeld ==
    \A p \in Proc : pc[p] \in HoldsDest /\ Dest[p] \notin meddled =>
        /\ dir[Dest[p]] = Clone(p)
        /\ pc[p] = "ok" => disk[Dest[p]] = Clone(p)

\* A file of somebody else is on disk if it is in the directory, unless the
\* outside program was there.
ForeignStays ==
    \A n \in Name \ meddled : dir[n] = Foreign <=> disk[n] = Foreign

\* Where a process may have left its two files: as long as it is blind to none
\* of its calls, each has a name only where the process still cleans it up.
Sighted(p) == p \notin blind /\ used.outages = 0

TempTraced ==
    \A p \in Proc, n \in Name : Sighted(p) /\ dir[n] = Temp(p) =>
        pc[p] \in HoldsTemp \cup {"crashed"} /\ n = temp[p]

CloneTraced ==
    \A p \in Proc, n \in Name : Sighted(p) /\ dir[n] = Clone(p) =>
        /\ pc[p] \in HoldsDest \cup {"crashed"} /\ n = Dest[p]
        /\ pc[p] \in {"stated", "opened", "verified", "rollback"} => created[p] = Clone(p)

\* A process knows what it has made and what it is about to unlink, unless the
\* name changed after it looked.
KnowsOwn ==
    \A p \in Proc :
        /\ pc[p] \in {"checked", "discarding"} /\ <<p, temp[p]>> \notin stale =>
              dir[temp[p]] = Temp(p)
        /\ <<p, Dest[p]>> \notin stale =>
              /\ created[p] \in {Nothing, Clone(p)}
              /\ pc[p] \in {"cloned", "unlinking"} => dir[Dest[p]] = Clone(p)

\* Holds of every reachable state, and of the successors of every state it
\* holds of.
IInv ==
    /\ TypeOK
    /\ TriesLeft
    /\ SyncedFirst
    /\ WholeClones
    /\ TempsApart
    /\ TempHeld
    /\ DestHeld
    /\ ForeignStays
    /\ TempTraced
    /\ CloneTraced
    /\ KnowsOwn
=============================================================================
