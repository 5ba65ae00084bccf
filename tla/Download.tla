------------------------------ MODULE Download ------------------------------
(***************************************************************************)
(* download_guard.main: validate_download_target rejects a target that     *)
(* holds anything but files of the lock, download_locked_model fetches the *)
(* files that are missing, one after the other, follows redirects, streams *)
(* each body within its byte budget, hashes it, and publishes it; the      *)
(* finished snapshot is validated again.                                   *)
(*                                                                         *)
(* Several invocations may work on one target, an invocation may die, and  *)
(* the user may start it again.  The network answers anything.  A file is  *)
(* published as Publish describes it: through a temporary name that is     *)
(* visible for a moment, and into a free name only.                        *)
(***************************************************************************)
EXTENDS Naturals, FiniteSets

CONSTANTS Proc,          \* invocations of the downloader
          N,             \* files of the lock, in its order
          Size,          \* blocks of a file
          MaxRedirects,  \* MAX_REDIRECTS
          MaxFaults,     \* bound: failed calls and wrong answers
          MaxCrashes     \* bound: invocations that die

ASSUME DownloadAssumption ==
    /\ N \in Nat \ {0} /\ Size \in Nat \ {0} /\ MaxRedirects \in Nat
    /\ {MaxFaults, MaxCrashes} \subseteq Nat

File == 1..N

VARIABLES
    pc,       \* the next step of each invocation
    k,        \* the file it is at
    hops,     \* requests made for that file
    got,      \* blocks of it received
    sound,    \* what was received is what the lock names
    target,   \* target[f]: "absent", "locked", or "wrong"
    strays,   \* invocations whose temporary name stands in the target
    withdrawn, \* ghost: files a failing commit took back
    used      \* ghost: how much of each bound is spent

vars == <<pc, k, hops, got, sound, target, strays, withdrawn, used>>

Phase == {"idle", "validate", "next", "stage", "hide", "request", "body",
          "digest", "commit", "verify", "recheck", "reread", "ok", "failed", "crashed"}

TypeOK ==
    /\ pc \in [Proc -> Phase]
    /\ k \in [Proc -> 1..N + 1]
    /\ hops \in [Proc -> 0..MaxRedirects + 1]
    /\ got \in [Proc -> 0..Size]
    /\ sound \in [Proc -> BOOLEAN]
    /\ target \in [File -> {"absent", "locked", "wrong"}]
    /\ strays \subseteq Proc
    /\ withdrawn \subseteq File
    /\ used \in [faults : Nat, crashes : Nat]

Init ==
    /\ pc = [p \in Proc |-> "idle"]
    /\ k = [p \in Proc |-> 1]
    /\ hops = [p \in Proc |-> 0]
    /\ got = [p \in Proc |-> 0]
    /\ sound = [p \in Proc |-> TRUE]
    /\ target \in [File -> {"absent", "locked", "wrong"}]
    /\ strays = {}
    /\ withdrawn = {}
    /\ used = [faults |-> 0, crashes |-> 0]

Goto(p, from, to) ==
    /\ pc[p] = from
    /\ pc' = [pc EXCEPT ![p] = to]

Running(p) == pc[p] \notin {"idle", "ok", "failed", "crashed"}

Spend ==
    /\ used.faults < MaxFaults
    /\ used' = [used EXCEPT !.faults = @ + 1]

-----------------------------------------------------------------------------
\* The downloader

Start(p) ==
    /\ pc[p] \in {"idle", "failed", "crashed"}
    /\ pc' = [pc EXCEPT ![p] = "validate"]
    /\ k' = [k EXCEPT ![p] = 1]
    /\ UNCHANGED <<hops, got, sound, target, strays, withdrawn, used>>

\* validate_download_target: any entry the lock does not name refuses the
\* target, another invocation's temporary file and a leftover one too.
Validate(p) ==
    /\ Goto(p, "validate", IF strays = {} THEN "next" ELSE "failed")
    /\ UNCHANGED <<k, hops, got, sound, target, strays, withdrawn, used>>

\* Mutant of Existing: a file that stands there is never kept.
RefuseExisting(p) ==
    /\ pc[p] = "next" /\ k[p] <= N
    /\ Goto(p, "next", IF target[k[p]] = "absent" THEN "stage" ELSE "failed")
    /\ UNCHANGED <<k, hops, got, sound, target, strays, withdrawn, used>>

\* _existing_file_matches: a file that stands there is kept if it is the
\* locked one, and never replaced if it is not.
Existing(p) ==
    /\ pc[p] = "next" /\ k[p] <= N
    /\ pc' = [pc EXCEPT ![p] = CASE target[k[p]] = "absent" -> "stage"
                                 [] target[k[p]] = "locked" -> "next"
                                 [] target[k[p]] = "wrong"  -> "failed"]
    /\ k' = [k EXCEPT ![p] = IF target[@] = "locked" THEN @ + 1 ELSE @]
    /\ UNCHANGED <<hops, got, sound, target, strays, withdrawn, used>>

AllThere(p) ==
    /\ Goto(p, "next", "recheck")
    /\ k[p] = N + 1
    /\ UNCHANGED <<k, hops, got, sound, target, strays, withdrawn, used>>

\* private_unlinked_file makes the temporary name and takes it away.
Stage(p) ==
    /\ Goto(p, "stage", "hide")
    /\ strays' = strays \cup {p}
    /\ UNCHANGED <<k, hops, got, sound, target, withdrawn, used>>

Hide(p) ==
    /\ Goto(p, "hide", "request")
    /\ strays' = strays \ {p}
    /\ hops' = [hops EXCEPT ![p] = 0]
    /\ UNCHANGED <<k, got, sound, target, withdrawn, used>>

\* A request is answered by a permitted redirect; a loop of them is a fault ...
Redirect(p) ==
    /\ pc[p] = "request" /\ hops[p] <= MaxRedirects
    /\ hops' = [hops EXCEPT ![p] = @ + 1]
    /\ IF hops[p] = MaxRedirects THEN Spend ELSE UNCHANGED used
    /\ UNCHANGED <<pc, k, got, sound, target, strays, withdrawn>>

TooManyRedirects(p) ==
    /\ Goto(p, "request", "failed")
    /\ hops[p] = MaxRedirects + 1
    /\ UNCHANGED <<k, hops, got, sound, target, strays, withdrawn, used>>

\* ... or by a body, whose length and encoding were not refused.
Answer(p) ==
    /\ Goto(p, "request", "body")
    /\ hops[p] <= MaxRedirects
    /\ got' = [got EXCEPT ![p] = 0]
    /\ sound' = [sound EXCEPT ![p] = TRUE]
    /\ UNCHANGED <<k, hops, target, strays, withdrawn, used>>

\* A block is stored if it fits the budget.
Receive(p) ==
    /\ pc[p] = "body" /\ got[p] < Size
    /\ got' = [got EXCEPT ![p] = @ + 1]
    /\ UNCHANGED <<pc, k, hops, sound, target, strays, withdrawn, used>>

\* The body ends; its length and its digest decide.
BodyEnds(p) ==
    /\ Goto(p, "body", "digest")
    /\ got[p] = Size
    /\ UNCHANGED <<k, hops, got, sound, target, strays, withdrawn, used>>

\* Mutant of Digest: the length decides alone.
LengthOnly(p) ==
    /\ Goto(p, "digest", IF got[p] = Size THEN "commit" ELSE "failed")
    /\ UNCHANGED <<k, hops, got, sound, target, strays, withdrawn, used>>

Digest(p) ==
    /\ Goto(p, "digest", IF got[p] = Size /\ sound[p] THEN "commit" ELSE "failed")
    /\ UNCHANGED <<k, hops, got, sound, target, strays, withdrawn, used>>

\* What a file received in this state is once it is published.
Content(p) == IF got[p] = Size /\ sound[p] THEN "locked" ELSE "wrong"

\* commit_open_file: the clone appears, into a free name only ...
Commit(p) ==
    /\ Goto(p, "commit", "verify")
    /\ target[k[p]] = "absent"
    /\ target' = [target EXCEPT ![k[p]] = Content(p)]
    /\ UNCHANGED <<k, hops, got, sound, strays, withdrawn, used>>

\* Mutants of CommitRefused: the rollback takes the rival's file for its own;
\* the clone is tried again until the name is free.
RefusedAndRemoved(p) ==
    /\ Goto(p, "commit", "failed")
    /\ target[k[p]] # "absent"
    /\ target' = [target EXCEPT ![k[p]] = "absent"]
    /\ UNCHANGED <<k, hops, got, sound, strays, withdrawn, used>>

WaitUntilFree(p) ==
    /\ pc[p] = "commit"
    /\ target[k[p]] # "absent"
    /\ UNCHANGED vars

CommitRefused(p) ==
    /\ Goto(p, "commit", "failed")
    /\ target[k[p]] # "absent"
    /\ UNCHANGED <<k, hops, got, sound, target, strays, withdrawn, used>>

\* ... is read back and its directory synced; then comes the next file.
Committed(p) ==
    /\ Goto(p, "verify", "next")
    /\ k' = [k EXCEPT ![p] = @ + 1]
    /\ UNCHANGED <<hops, got, sound, target, strays, withdrawn, used>>

\* validate_model lists the target, which has to hold exactly the files of the
\* lock: a rival's temporary file refuses it, and so does a file it took back ...
Recheck(p) ==
    /\ Goto(p, "recheck",
            IF strays = {} /\ \A f \in File : target[f] # "absent" THEN "reread" ELSE "failed")
    /\ k' = [k EXCEPT ![p] = 1]
    /\ UNCHANGED <<hops, got, sound, target, strays, withdrawn, used>>

\* ... and reads them one after the other.
Reread(p) ==
    /\ Goto(p, "reread", IF target[k[p]] # "locked" THEN "failed"
                         ELSE IF k[p] = N THEN "ok" ELSE "reread")
    /\ k' = [k EXCEPT ![p] = @ + 1]
    /\ UNCHANGED <<hops, got, sound, target, strays, withdrawn, used>>

Step(p) ==
    \/ Validate(p) \/ Existing(p) \/ AllThere(p) \/ Stage(p) \/ Hide(p)
    \/ TooManyRedirects(p) \/ Answer(p) \/ Receive(p) \/ BodyEnds(p)
    \/ Digest(p) \/ Commit(p) \/ CommitRefused(p) \/ Committed(p)
    \/ Recheck(p) \/ Reread(p)

-----------------------------------------------------------------------------
\* The network and the rest of the world

\* A block arrives damaged: it is stored, and the digest will tell.
Damage(p) ==
    /\ pc[p] = "body" /\ got[p] < Size
    /\ Spend
    /\ got' = [got EXCEPT ![p] = @ + 1]
    /\ sound' = [sound EXCEPT ![p] = FALSE]
    /\ UNCHANGED <<pc, k, hops, target, strays, withdrawn>>

\* The body ends early, or goes on after its last byte.
Truncate(p) ==
    /\ Goto(p, "body", "digest")
    /\ got[p] < Size
    /\ Spend
    /\ UNCHANGED <<k, hops, got, sound, target, strays, withdrawn>>

Overrun(p) ==
    /\ Goto(p, "body", "failed")
    /\ got[p] = Size
    /\ Spend
    /\ UNCHANGED <<k, hops, got, sound, target, strays, withdrawn>>

\* A call fails, or an answer is refused: an unsafe redirect, an error status,
\* an encoding, a length.  A fault between creating and unlinking the
\* temporary name may leave it there.
Fault(p) ==
    /\ Running(p) /\ pc[p] # "verify"
    /\ Spend
    /\ pc' = [pc EXCEPT ![p] = "failed"]
    /\ strays' \in {strays, strays \ {p}}
    /\ UNCHANGED <<k, hops, got, sound, target, withdrawn>>

\* A call of commit_open_file fails after the clone.  The rollback takes the
\* file back; it stays if the calls of the rollback fail too.
CommitFails(p) ==
    /\ Goto(p, "verify", "failed")
    /\ Spend
    /\ \/ /\ target' = [target EXCEPT ![k[p]] = "absent"]
          /\ withdrawn' = withdrawn \cup {k[p]}
       \/ UNCHANGED <<target, withdrawn>>
    /\ UNCHANGED <<k, hops, got, sound, strays>>

Crash(p) ==
    /\ Running(p)
    /\ used.crashes < MaxCrashes
    /\ used' = [used EXCEPT !.crashes = @ + 1]
    /\ pc' = [pc EXCEPT ![p] = "crashed"]
    /\ UNCHANGED <<k, hops, got, sound, target, strays, withdrawn>>

\* Every invocation has succeeded: nobody starts it again.
AllDone ==
    /\ \A p \in Proc : pc[p] = "ok"
    /\ UNCHANGED vars

Next ==
    \/ \E p \in Proc : Start(p) \/ Step(p) \/ Redirect(p) \/ Damage(p) \/ Truncate(p)
                       \/ Overrun(p) \/ Fault(p) \/ CommitFails(p) \/ Crash(p)
    \/ AllDone

\* An invocation is scheduled and the network answers it in the end; a user
\* whose download failed starts it again.
Spec ==
    /\ Init /\ [][Next]_vars
    /\ \A p \in Proc : WF_vars(Step(p)) /\ WF_vars(Start(p))

-----------------------------------------------------------------------------
\* Properties

\* A name of the lock only ever gains the locked content, whatever the network
\* sent and whoever else was downloading, and loses it only to the invocation
\* that put it there, whose own commit is failing (the digest and the length
\* of _download_locked_file, the clone into a free name, the rollback).
OnlyLockedArrives ==
    [][\A f \in File : target'[f] # target[f] =>
          \/ target[f] = "absent" /\ target'[f] = "locked"
          \/ /\ target[f] = "locked" /\ target'[f] = "absent"
             /\ \E p \in Proc : pc[p] = "verify" /\ k[p] = f /\ pc'[p] = "failed"]_vars

\* An invocation that succeeded has seen the whole snapshot, and the snapshot
\* is still there, but for files a rival had put there and then took back.
SuccessIsWhole ==
    \A p \in Proc, f \in File :
        pc[p] = "ok" => target[f] = "locked" \/ f \in withdrawn

\* Nothing more can be downloaded into this target: a wrong file stood in it,
\* or a fault or a crash left a temporary name there, which
\* validate_download_target refuses from then on.
Hopeless ==
    \/ \E f \in File : target[f] = "wrong"
    \/ \E p \in strays : pc[p] # "hide"

\* Starting a failed download again converges, against rivals and faults: the
\* files already there are kept, the snapshot becomes complete and stays so,
\* and every invocation is told so in the end.
Converges ==
    <>[](\/ Hopeless
         \/ (\A f \in File : target[f] = "locked") /\ \A p \in Proc : pc[p] = "ok")

-----------------------------------------------------------------------------
\* The inductive invariant behind OnlyLockedArrives and SuccessIsWhole

\* An invocation that is fetching is at a file of the lock.
AtFile == \A p \in Proc :
    pc[p] \in {"stage", "hide", "request", "body", "digest", "commit", "verify", "reread"}
        => k[p] \in File

Hashed == \A p \in Proc : pc[p] = "commit" => got[p] = Size /\ sound[p]

\* What an invocation may still roll back is there, and is its own alone.
OwnCommit == \A p \in Proc : pc[p] = "verify" =>
    /\ target[k[p]] = "locked"
    /\ \A q \in Proc : pc[q] = "verify" /\ k[q] = k[p] => q = p

\* What has been read again is still there, but for what was withdrawn.
Rechecked == \A p \in Proc, f \in File :
    pc[p] = "reread" /\ f < k[p] => target[f] = "locked" \/ f \in withdrawn

IInv == TypeOK /\ AtFile /\ Hashed /\ OwnCommit /\ Rechecked /\ SuccessIsWhole
=============================================================================
