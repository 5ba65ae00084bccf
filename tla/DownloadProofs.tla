--------------------------- MODULE DownloadProofs ---------------------------
(***************************************************************************)
(* Proofs about Download, for any number of invocations, files, blocks,    *)
(* redirects, faults and crashes.                                          *)
(***************************************************************************)
EXTENDS Download, TLAPS

\* The initial states satisfy the inductive invariant.
LEMMA InitHolds == Init => IInv
BY DownloadAssumption, SMT DEF Init, IInv, TypeOK, AtFile, Hashed, OwnCommit,
   Rechecked, SuccessIsWhole, Phase, File

\* Every step keeps every variable in its range.
LEMMA TypeStep == IInv /\ [Next]_vars => TypeOK'
<1> SUFFICES ASSUME IInv, [Next]_vars PROVE TypeOK'
  OBVIOUS
<1> USE DownloadAssumption DEF IInv, TypeOK, Phase
<1>1. ASSUME NEW p \in Proc, Start(p) PROVE TypeOK'
  BY <1>1, SMT DEF Start
<1>2. ASSUME NEW p \in Proc, Validate(p) PROVE TypeOK'
  BY <1>2, SMT DEF Validate, Goto
<1>3. ASSUME NEW p \in Proc, Existing(p) PROVE TypeOK'
  <2>1. k[p] \in File
    BY <1>3, SMT DEF Existing, File
  <2>2. CASE target[k[p]] = "absent"
    BY <1>3, <2>2, SMT DEF Existing
  <2>3. CASE target[k[p]] = "locked"
    BY <1>3, <2>3, SMT DEF Existing
  <2>4. CASE target[k[p]] = "wrong"
    BY <1>3, <2>4, SMT DEF Existing
  <2> QED
    BY <2>1, <2>2, <2>3, <2>4
<1>4. ASSUME NEW p \in Proc, AllThere(p) PROVE TypeOK'
  BY <1>4, SMT DEF AllThere, Goto
<1>5. ASSUME NEW p \in Proc, Stage(p) PROVE TypeOK'
  BY <1>5, SMT DEF Stage, Goto
<1>6. ASSUME NEW p \in Proc, Hide(p) PROVE TypeOK'
  BY <1>6, SMT DEF Hide, Goto
<1>7. ASSUME NEW p \in Proc, Redirect(p) PROVE TypeOK'
  BY <1>7, SMT DEF Redirect, Spend
<1>8. ASSUME NEW p \in Proc, TooManyRedirects(p) PROVE TypeOK'
  BY <1>8, SMT DEF TooManyRedirects, Goto
<1>9. ASSUME NEW p \in Proc, Answer(p) PROVE TypeOK'
  BY <1>9, SMT DEF Answer, Goto
<1>10. ASSUME NEW p \in Proc, Receive(p) PROVE TypeOK'
  BY <1>10, SMT DEF Receive
<1>11. ASSUME NEW p \in Proc, BodyEnds(p) PROVE TypeOK'
  BY <1>11, SMT DEF BodyEnds, Goto
<1>12. ASSUME NEW p \in Proc, Digest(p) PROVE TypeOK'
  BY <1>12, SMT DEF Digest, Goto
<1>13. ASSUME NEW p \in Proc, Commit(p) PROVE TypeOK'
  <2>1. Content(p) \in {"absent", "locked", "wrong"}
    BY DEF Content
  <2>2. target' \in [File -> {"absent", "locked", "wrong"}]
    BY <1>13, <2>1 DEF Commit
  <2> QED
    BY <1>13, <2>2, SMT DEF Commit, Goto
<1>14. ASSUME NEW p \in Proc, CommitRefused(p) PROVE TypeOK'
  BY <1>14, SMT DEF CommitRefused, Goto
<1>15. ASSUME NEW p \in Proc, Committed(p) PROVE TypeOK'
  BY <1>15, SMT DEF Committed, Goto, AtFile, File
<1>16. ASSUME NEW p \in Proc, Recheck(p) PROVE TypeOK'
  BY <1>16, SMT DEF Recheck, Goto
<1>17. ASSUME NEW p \in Proc, Damage(p) PROVE TypeOK'
  BY <1>17, SMT DEF Damage, Spend
<1>18. ASSUME NEW p \in Proc, Truncate(p) \/ Overrun(p) PROVE TypeOK'
  BY <1>18, SMT DEF Truncate, Overrun, Goto, Spend
<1>19. ASSUME NEW p \in Proc, Fault(p) PROVE TypeOK'
  BY <1>19, SMT DEF Fault, Spend
<1>20. ASSUME NEW p \in Proc, CommitFails(p) PROVE TypeOK'
  BY <1>20, SMT DEF CommitFails, Goto, Spend, AtFile
<1>21. ASSUME NEW p \in Proc, Crash(p) PROVE TypeOK'
  BY <1>21, SMT DEF Crash
<1>22. CASE UNCHANGED vars
  BY <1>22, SMT DEF vars
<1>23. ASSUME NEW p \in Proc, Reread(p) PROVE TypeOK'
  BY <1>23, SMT DEF Reread, Goto, AtFile, File
<1> QED
  BY <1>1, <1>2, <1>3, <1>4, <1>5, <1>6, <1>7, <1>8, <1>9, <1>10, <1>11, <1>12,
     <1>13, <1>14, <1>15, <1>16, <1>17, <1>18, <1>19, <1>20, <1>21, <1>22, <1>23
     DEF Next, Step, AllDone

\* A fetching invocation stays at a file of the lock, and commits only what
\* it has hashed.
LEMMA FetchStep == IInv /\ [Next]_vars => (AtFile /\ Hashed)'
<1> SUFFICES ASSUME IInv, [Next]_vars PROVE (AtFile /\ Hashed)'
  OBVIOUS
<1> USE DownloadAssumption DEF IInv, TypeOK, AtFile, Hashed, File
<1>1. ASSUME NEW p \in Proc, Start(p) PROVE (AtFile /\ Hashed)'
  BY <1>1, SMT DEF Start
<1>2. ASSUME NEW p \in Proc, Validate(p) PROVE (AtFile /\ Hashed)'
  BY <1>2, SMT DEF Validate, Goto
<1>3. ASSUME NEW p \in Proc, Existing(p) PROVE (AtFile /\ Hashed)'
  BY <1>3, SMT DEF Existing
<1>4. ASSUME NEW p \in Proc, AllThere(p) PROVE (AtFile /\ Hashed)'
  BY <1>4, SMT DEF AllThere, Goto
<1>5. ASSUME NEW p \in Proc, Stage(p) PROVE (AtFile /\ Hashed)'
  BY <1>5, SMT DEF Stage, Goto
<1>6. ASSUME NEW p \in Proc, Hide(p) PROVE (AtFile /\ Hashed)'
  BY <1>6, SMT DEF Hide, Goto
<1>7. ASSUME NEW p \in Proc, Redirect(p) PROVE (AtFile /\ Hashed)'
  BY <1>7, SMT DEF Redirect
<1>8. ASSUME NEW p \in Proc, TooManyRedirects(p) PROVE (AtFile /\ Hashed)'
  BY <1>8, SMT DEF TooManyRedirects, Goto
<1>9. ASSUME NEW p \in Proc, Answer(p) PROVE (AtFile /\ Hashed)'
  BY <1>9, SMT DEF Answer, Goto
<1>10. ASSUME NEW p \in Proc, Receive(p) PROVE (AtFile /\ Hashed)'
  BY <1>10, SMT DEF Receive
<1>11. ASSUME NEW p \in Proc, BodyEnds(p) PROVE (AtFile /\ Hashed)'
  BY <1>11, SMT DEF BodyEnds, Goto
<1>12. ASSUME NEW p \in Proc, Digest(p) PROVE (AtFile /\ Hashed)'
  BY <1>12, SMT DEF Digest, Goto
<1>13. ASSUME NEW p \in Proc, Commit(p) PROVE (AtFile /\ Hashed)'
  BY <1>13, SMT DEF Commit, Goto
<1>14. ASSUME NEW p \in Proc, CommitRefused(p) PROVE (AtFile /\ Hashed)'
  BY <1>14, SMT DEF CommitRefused, Goto
<1>15. ASSUME NEW p \in Proc, Committed(p) PROVE (AtFile /\ Hashed)'
  BY <1>15, SMT DEF Committed, Goto
<1>16. ASSUME NEW p \in Proc, Recheck(p) PROVE (AtFile /\ Hashed)'
  BY <1>16, SMT DEF Recheck, Goto
<1>17. ASSUME NEW p \in Proc, Damage(p) PROVE (AtFile /\ Hashed)'
  BY <1>17, SMT DEF Damage
<1>18. ASSUME NEW p \in Proc, Truncate(p) PROVE (AtFile /\ Hashed)'
  BY <1>18, SMT DEF Truncate, Goto
<1>19. ASSUME NEW p \in Proc, Overrun(p) PROVE (AtFile /\ Hashed)'
  BY <1>19, SMT DEF Overrun, Goto
<1>20. ASSUME NEW p \in Proc, Fault(p) PROVE (AtFile /\ Hashed)'
  BY <1>20, SMT DEF Fault, Running
<1>21. ASSUME NEW p \in Proc, CommitFails(p) PROVE (AtFile /\ Hashed)'
  BY <1>21, SMT DEF CommitFails, Goto
<1>22. ASSUME NEW p \in Proc, Crash(p) PROVE (AtFile /\ Hashed)'
  BY <1>22, SMT DEF Crash, Running
<1>23. CASE UNCHANGED vars
  BY <1>23, SMT DEF vars
<1>24. ASSUME NEW p \in Proc, Reread(p) PROVE (AtFile /\ Hashed)'
  BY <1>24, SMT DEF Reread, Goto
<1> QED
  BY <1>1, <1>2, <1>3, <1>4, <1>5, <1>6, <1>7, <1>8, <1>9, <1>10, <1>11,
     <1>12, <1>13, <1>14, <1>15, <1>16, <1>17, <1>18, <1>19, <1>20,
     <1>21, <1>22, <1>23, <1>24 DEF Next, Step, AllDone

\* Two invocations never hold one file between its clone and the end of its
\* commit: the second clone finds the name taken.
LEMMA CommitStep == IInv /\ [Next]_vars => OwnCommit'
<1> SUFFICES ASSUME IInv, [Next]_vars PROVE OwnCommit'
  OBVIOUS
<1> USE DownloadAssumption DEF IInv, TypeOK, AtFile, Hashed, OwnCommit
<1>1. ASSUME NEW p \in Proc, Existing(p) PROVE OwnCommit'
  <2> k[p] \in File
    BY <1>1, SMT DEF Existing, File
  <2>1. pc'[p] \in {"stage", "next", "failed"}
    <3> pc' = [pc EXCEPT ![p] = pc'[p]] /\ target[k[p]] \in {"absent", "locked", "wrong"}
      BY <1>1 DEF Existing
    <3> QED
      BY <1>1, SMT DEF Existing
  <2>2. \A q \in Proc : q # p => pc'[q] = pc[q] /\ k'[q] = k[q]
    BY <1>1, SMT DEF Existing
  <2>3. target' = target /\ withdrawn' = withdrawn
    BY <1>1 DEF Existing
  <2> QED
    BY <2>1, <2>2, <2>3, SMT
<1>2. ASSUME NEW p \in Proc, Commit(p) PROVE OwnCommit'
  <2>1. Content(p) = "locked" /\ k[p] \in File
    BY <1>2 DEF Commit, Goto, Content
  <2>2. target' = [target EXCEPT ![k[p]] = "locked"] /\ target[k[p]] = "absent"
    BY <1>2, <2>1 DEF Commit
  <2> QED
    BY <1>2, <2>1, <2>2, SMT DEF Commit, Goto
<1>3. ASSUME NEW p \in Proc, Start(p) PROVE OwnCommit'
  BY <1>3, SMT DEF Start
<1>4. ASSUME NEW p \in Proc, Validate(p) PROVE OwnCommit'
  BY <1>4, SMT DEF Validate, Goto
<1>5. ASSUME NEW p \in Proc, AllThere(p) PROVE OwnCommit'
  BY <1>5, SMT DEF AllThere, Goto
<1>6. ASSUME NEW p \in Proc, Stage(p) PROVE OwnCommit'
  BY <1>6, SMT DEF Stage, Goto
<1>7. ASSUME NEW p \in Proc, Hide(p) PROVE OwnCommit'
  BY <1>7, SMT DEF Hide, Goto
<1>8. ASSUME NEW p \in Proc, Redirect(p) PROVE OwnCommit'
  BY <1>8, SMT DEF Redirect
<1>9. ASSUME NEW p \in Proc, TooManyRedirects(p) PROVE OwnCommit'
  BY <1>9, SMT DEF TooManyRedirects, Goto
<1>10. ASSUME NEW p \in Proc, Answer(p) PROVE OwnCommit'
  BY <1>10, SMT DEF Answer, Goto
<1>11. ASSUME NEW p \in Proc, Receive(p) PROVE OwnCommit'
  BY <1>11, SMT DEF Receive
<1>12. ASSUME NEW p \in Proc, BodyEnds(p) PROVE OwnCommit'
  BY <1>12, SMT DEF BodyEnds, Goto
<1>13. ASSUME NEW p \in Proc, Digest(p) PROVE OwnCommit'
  BY <1>13, SMT DEF Digest, Goto
<1>14. ASSUME NEW p \in Proc, CommitRefused(p) PROVE OwnCommit'
  BY <1>14, SMT DEF CommitRefused, Goto
<1>15. ASSUME NEW p \in Proc, Committed(p) PROVE OwnCommit'
  BY <1>15, SMT DEF Committed, Goto
<1>16. ASSUME NEW p \in Proc, Recheck(p) PROVE OwnCommit'
  BY <1>16, SMT DEF Recheck, Goto
<1>17. ASSUME NEW p \in Proc, Damage(p) PROVE OwnCommit'
  BY <1>17, SMT DEF Damage
<1>18. ASSUME NEW p \in Proc, Truncate(p) PROVE OwnCommit'
  BY <1>18, SMT DEF Truncate, Goto
<1>19. ASSUME NEW p \in Proc, Overrun(p) PROVE OwnCommit'
  BY <1>19, SMT DEF Overrun, Goto
<1>20. ASSUME NEW p \in Proc, Fault(p) PROVE OwnCommit'
  BY <1>20, SMT DEF Fault, Running
<1>21. ASSUME NEW p \in Proc, CommitFails(p) PROVE OwnCommit'
  BY <1>21, SMT DEF CommitFails, Goto
<1>22. ASSUME NEW p \in Proc, Crash(p) PROVE OwnCommit'
  BY <1>22, SMT DEF Crash, Running
<1>23. CASE UNCHANGED vars
  BY <1>23, SMT DEF vars
<1>24. ASSUME NEW p \in Proc, Reread(p) PROVE OwnCommit'
  BY <1>24, SMT DEF Reread, Goto
<1> QED
  BY <1>1, <1>2, <1>3, <1>4, <1>5, <1>6, <1>7, <1>8, <1>9, <1>10, <1>11,
     <1>12, <1>13, <1>14, <1>15, <1>16, <1>17, <1>18, <1>19, <1>20,
     <1>21, <1>22, <1>23, <1>24 DEF Next, Step, AllDone

\* A file of a snapshot that was validated goes only by its maker's rollback.
LEMMA SuccessStep == IInv /\ [Next]_vars => (SuccessIsWhole /\ Rechecked)'
<1> SUFFICES ASSUME IInv, [Next]_vars PROVE (SuccessIsWhole /\ Rechecked)'
  OBVIOUS
<1> USE DownloadAssumption DEF IInv, TypeOK, AtFile, Hashed, SuccessIsWhole, Rechecked, File
<1>1. ASSUME NEW p \in Proc, Existing(p) PROVE (SuccessIsWhole /\ Rechecked)'
  <2> k[p] \in File
    BY <1>1, SMT DEF Existing, File
  <2>1. pc'[p] \in {"stage", "next", "failed"}
    <3> pc' = [pc EXCEPT ![p] = pc'[p]] /\ target[k[p]] \in {"absent", "locked", "wrong"}
      BY <1>1 DEF Existing
    <3> QED
      BY <1>1, SMT DEF Existing
  <2>2. \A q \in Proc : q # p => pc'[q] = pc[q] /\ k'[q] = k[q]
    BY <1>1, SMT DEF Existing
  <2>3. target' = target /\ withdrawn' = withdrawn
    BY <1>1 DEF Existing
  <2>4. SuccessIsWhole'
    BY <2>1, <2>2, <2>3, SMT
  <2>5. Rechecked'
    BY <2>1, <2>2, <2>3, SMT
  <2> QED
    BY <2>4, <2>5
<1>2. ASSUME NEW p \in Proc, Commit(p) PROVE (SuccessIsWhole /\ Rechecked)'
  <2>1. Content(p) = "locked" /\ k[p] \in File
    BY <1>2 DEF Commit, Goto, Content
  <2>2. target' = [target EXCEPT ![k[p]] = "locked"]
    BY <1>2, <2>1 DEF Commit
  <2> QED
    BY <1>2, <2>1, <2>2, SMT DEF Commit, Goto
<1>3. ASSUME NEW p \in Proc, Start(p) PROVE (SuccessIsWhole /\ Rechecked)'
  BY <1>3, SMT DEF Start
<1>4. ASSUME NEW p \in Proc, Validate(p) PROVE (SuccessIsWhole /\ Rechecked)'
  BY <1>4, SMT DEF Validate, Goto
<1>5. ASSUME NEW p \in Proc, AllThere(p) PROVE (SuccessIsWhole /\ Rechecked)'
  BY <1>5, SMT DEF AllThere, Goto
<1>6. ASSUME NEW p \in Proc, Stage(p) PROVE (SuccessIsWhole /\ Rechecked)'
  BY <1>6, SMT DEF Stage, Goto
<1>7. ASSUME NEW p \in Proc, Hide(p) PROVE (SuccessIsWhole /\ Rechecked)'
  BY <1>7, SMT DEF Hide, Goto
<1>8. ASSUME NEW p \in Proc, Redirect(p) PROVE (SuccessIsWhole /\ Rechecked)'
  <2>1. UNCHANGED <<pc, k, target, withdrawn>>
    BY <1>8 DEF Redirect
  <2> QED
    BY <2>1
<1>9. ASSUME NEW p \in Proc, TooManyRedirects(p) PROVE (SuccessIsWhole /\ Rechecked)'
  BY <1>9, SMT DEF TooManyRedirects, Goto
<1>10. ASSUME NEW p \in Proc, Answer(p) PROVE (SuccessIsWhole /\ Rechecked)'
  BY <1>10, SMT DEF Answer, Goto
<1>11. ASSUME NEW p \in Proc, Receive(p) PROVE (SuccessIsWhole /\ Rechecked)'
  BY <1>11, SMT DEF Receive
<1>12. ASSUME NEW p \in Proc, BodyEnds(p) PROVE (SuccessIsWhole /\ Rechecked)'
  BY <1>12, SMT DEF BodyEnds, Goto
<1>13. ASSUME NEW p \in Proc, Digest(p) PROVE (SuccessIsWhole /\ Rechecked)'
  BY <1>13, SMT DEF Digest, Goto
<1>14. ASSUME NEW p \in Proc, CommitRefused(p) PROVE (SuccessIsWhole /\ Rechecked)'
  BY <1>14, SMT DEF CommitRefused, Goto
<1>15. ASSUME NEW p \in Proc, Committed(p) PROVE (SuccessIsWhole /\ Rechecked)'
  BY <1>15, SMT DEF Committed, Goto
<1>16. ASSUME NEW p \in Proc, Recheck(p) PROVE (SuccessIsWhole /\ Rechecked)'
  BY <1>16, SMT DEF Recheck, Goto
<1>17. ASSUME NEW p \in Proc, Damage(p) PROVE (SuccessIsWhole /\ Rechecked)'
  BY <1>17, SMT DEF Damage
<1>18. ASSUME NEW p \in Proc, Truncate(p) PROVE (SuccessIsWhole /\ Rechecked)'
  BY <1>18, SMT DEF Truncate, Goto
<1>19. ASSUME NEW p \in Proc, Overrun(p) PROVE (SuccessIsWhole /\ Rechecked)'
  BY <1>19, SMT DEF Overrun, Goto
<1>20. ASSUME NEW p \in Proc, Fault(p) PROVE (SuccessIsWhole /\ Rechecked)'
  BY <1>20, SMT DEF Fault, Running
<1>21. ASSUME NEW p \in Proc, CommitFails(p) PROVE (SuccessIsWhole /\ Rechecked)'
  <2>1. /\ pc' = [pc EXCEPT ![p] = "failed"] /\ k' = k
        /\ k[p] \in File
    BY <1>21 DEF CommitFails, Goto
  <2>2. \A f \in File : target[f] = "locked" \/ f \in withdrawn
                          => target'[f] = "locked" \/ f \in withdrawn'
    BY <1>21, <2>1 DEF CommitFails
  <2>3. SuccessIsWhole'
    BY <2>1, <2>2
  <2>4. Rechecked'
    BY <2>1, <2>2
  <2> QED
    BY <2>3, <2>4
<1>22. ASSUME NEW p \in Proc, Crash(p) PROVE (SuccessIsWhole /\ Rechecked)'
  BY <1>22, SMT DEF Crash, Running
<1>23. CASE UNCHANGED vars
  BY <1>23, SMT DEF vars
<1>24. ASSUME NEW p \in Proc, Reread(p) PROVE (SuccessIsWhole /\ Rechecked)'
  BY <1>24, SMT DEF Reread, Goto
<1> QED
  BY <1>1, <1>2, <1>3, <1>4, <1>5, <1>6, <1>7, <1>8, <1>9, <1>10, <1>11,
     <1>12, <1>13, <1>14, <1>15, <1>16, <1>17, <1>18, <1>19, <1>20,
     <1>21, <1>22, <1>23, <1>24 DEF Next, Step, AllDone

\* The inductive invariant holds throughout.
LEMMA Invariance == Spec => []IInv
<1>1. IInv /\ [Next]_vars => IInv'
  BY TypeStep, FetchStep, CommitStep, SuccessStep DEF IInv
<1> QED
  BY InitHolds, <1>1, PTL DEF Spec

\* Type correctness.
THEOREM TypeCorrect == Spec => []TypeOK
<1>1. IInv => TypeOK
  BY DEF IInv
<1> QED
  BY Invariance, <1>1, PTL

\* An invocation that succeeded has seen the whole snapshot, and it is still
\* there but for what rivals withdrew, however many they are.
THEOREM SuccessMeansSnapshot == Spec => []SuccessIsWhole
<1>1. IInv => SuccessIsWhole
  BY DEF IInv
<1> QED
  BY Invariance, <1>1, PTL

\* What a step may do to a file of the lock.
Arrival(f) == target'[f] # target[f] =>
    \/ target[f] = "absent" /\ target'[f] = "locked"
    \/ /\ target[f] = "locked" /\ target'[f] = "absent"
       /\ \E p \in Proc : pc[p] = "verify" /\ k[p] = f /\ pc'[p] = "failed"

\* A step changes a file of the lock only as OnlyLockedArrives allows.
LEMMA ArrivalStep == IInv /\ [Next]_vars => \A f \in File : Arrival(f)
<1> SUFFICES ASSUME IInv, [Next]_vars, NEW f \in File PROVE Arrival(f)
  OBVIOUS
<1> USE DEF IInv, TypeOK, Arrival
<1>1. ASSUME NEW p \in Proc, Commit(p) PROVE Arrival(f)
  <2>1. Content(p) = "locked" /\ k[p] \in File
    BY <1>1 DEF Commit, Goto, Content, Hashed, AtFile
  <2>2. target' = [target EXCEPT ![k[p]] = "locked"] /\ target[k[p]] = "absent"
    BY <1>1, <2>1 DEF Commit
  <2> QED
    BY <2>1, <2>2
<1>2. ASSUME NEW p \in Proc, CommitFails(p) PROVE Arrival(f)
  <2>1. /\ pc[p] = "verify" /\ pc'[p] = "failed"
        /\ k[p] \in File /\ target[k[p]] = "locked"
    BY <1>2 DEF CommitFails, Goto, OwnCommit, AtFile
  <2>2. target' = target \/ target' = [target EXCEPT ![k[p]] = "absent"]
    BY <1>2 DEF CommitFails
  <2> QED
    BY <2>1, <2>2
<1>3. ASSUME NEW p \in Proc, ~Commit(p), ~CommitFails(p), Start(p) \/ Step(p)
        \/ Redirect(p) \/ Damage(p) \/ Truncate(p) \/ Overrun(p) \/ Fault(p) \/ Crash(p)
      PROVE target' = target
  BY <1>3 DEF Step, Start, Validate, Existing, AllThere, Stage, Hide, Redirect, TooManyRedirects,
     Answer, Receive, BodyEnds, Digest, CommitRefused, Committed, Recheck, Reread, Damage, Truncate, Overrun, Fault, Crash
<1>4. CASE UNCHANGED vars
  BY <1>4 DEF vars
<1> QED
  BY <1>1, <1>2, <1>3, <1>4 DEF Next, AllDone

\* Only locked content ever arrives under a name of the lock, and only its
\* maker takes it back, for any network and any number of rivals.
THEOREM NothingElseArrives == Spec => OnlyLockedArrives
<1>1. IInv /\ [Next]_vars => [\A f \in File : Arrival(f)]_vars
  BY ArrivalStep
<1>2. Spec => [][\A f \in File : Arrival(f)]_vars
  BY Invariance, <1>1, PTL DEF Spec
<1> QED
  BY <1>2 DEF OnlyLockedArrives, Arrival
=============================================================================
