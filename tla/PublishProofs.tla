--------------------------- MODULE PublishProofs ---------------------------
(* Theorems about Publish, for any number of processes, names and blocks   *)
(* and any number of faults, crashes, power losses and steps of the        *)
(* outside program.                                                        *)
EXTENDS Publish, TLAPS

\* Files of different processes, or of different kinds, are different, and
\* none of them is the absent or the foreign file.
LEMMA FilesDiffer ==
    ASSUME NEW p \in Proc, NEW q \in Proc
    PROVE  /\ Temp(p) # Clone(q)
           /\ Temp(p) = Temp(q) => p = q
           /\ Clone(p) = Clone(q) => p = q
           /\ {Temp(p), Clone(p)} \subseteq File
           /\ {Nothing, Foreign} \cap {Temp(p), Clone(p)} = {}
           /\ Temp(p)[2] = p /\ Clone(p)[2] = p
  BY PublishAssumption DEF Temp, Clone, File

\* Every name a process may clone to is a name, and no temporary one.
LEMMA DestApart ==
    ASSUME NEW p \in Proc
    PROVE  Dest[p] \in Name /\ Dest[p] \notin TempName
  BY PublishAssumption

\* The initial states satisfy the invariant.
LEMMA InitHolds == Init => IInv
  <1> SUFFICES ASSUME Init PROVE IInv
    OBVIOUS
  <1> USE PublishAssumption, FilesDiffer
  <1>1. TypeOK
    BY DEF Init, TypeOK, Entry, Phase
  <1>2. TriesLeft /\ SyncedFirst
    BY DEF Init, TriesLeft, SyncedFirst
  <1>3. WholeClones /\ TempsApart
    BY DEF Init, WholeClones, TempsApart
  <1>4. TempHeld /\ DestHeld
    BY DEF Init, TempHeld, DestHeld, HoldsTemp, HoldsDest
  <1>5. ForeignStays /\ TempTraced /\ CloneTraced
    BY DEF Init, ForeignStays, TempTraced, CloneTraced
  <1>6. KnowsOwn
    BY DEF Init, KnowsOwn
  <1> QED
    BY <1>1, <1>2, <1>3, <1>4, <1>5, <1>6 DEF IInv

\* Where a failed call leads: to the cleanup of the temporary name, to the
\* rollback of the published one, or out.
LEMMA FaultPhases ==
    ASSUME NEW s \in Phase \ Done
    PROVE  /\ AfterFault[s] \in {"discard", "rollback", "failed"}
           /\ AfterFault[s] = "discard" <=> s = "checked"
           /\ AfterFault[s] = "rollback" <=> s \in {"cloned", "stated", "opened", "verified"}
  BY DEF AfterFault, Phase, Done

\* Every step keeps the types, and a process that tries again has tries left.
LEMMA TypeStep ==
    ASSUME TypeOK, TriesLeft, [Next]_vars
    PROVE  TypeOK' /\ TriesLeft'
  <1> USE PublishAssumption
      DEF TypeOK, TriesLeft, Entry, Phase, Done, Goto, procVars
  <1>0. stale' \subseteq Proc \X Name
    BY DEF Next, Notice, vars
  <1> USE <1>0
  <1>1. ASSUME NEW p \in Proc, NEW n \in TempName, Create(p, n)
        PROVE  TypeOK' /\ TriesLeft'
    BY <1>1, FilesDiffer DEF Create
  <1>2. ASSUME NEW p \in Proc, NEW n \in TempName, Collide(p, n)
        PROVE  TypeOK' /\ TriesLeft'
    <2>1. tries[p] \in 0..MaxTries /\ tries[p] < MaxTries
      BY <1>2 DEF Collide
    <2>2. tries' \in [Proc -> 0..MaxTries]
      BY <1>2, <2>1 DEF Collide
    <2>3. pc' \in [Proc -> Phase]
      BY <1>2 DEF Collide
    <2>4. TriesLeft'
      BY <1>2, <2>1 DEF Collide
    <2> QED
      BY <1>2, <2>2, <2>3, <2>4 DEF Collide
  <1>3. ASSUME NEW p \in Proc, Inspect(p) PROVE TypeOK' /\ TriesLeft'
    BY <1>3 DEF Inspect
  <1>4. ASSUME NEW p \in Proc, UnlinkTemp(p) PROVE TypeOK' /\ TriesLeft'
    BY <1>4 DEF UnlinkTemp
  <1>5. ASSUME NEW p \in Proc, Discard(p) PROVE TypeOK' /\ TriesLeft'
    BY <1>5 DEF Discard
  <1>6. ASSUME NEW p \in Proc, DiscardUnlink(p) PROVE TypeOK' /\ TriesLeft'
    BY <1>6 DEF DiscardUnlink
  <1>7. ASSUME NEW p \in Proc, WriteBlock(p) PROVE TypeOK' /\ TriesLeft'
    BY <1>7 DEF WriteBlock
  <1>8. ASSUME NEW p \in Proc, SyncFile(p) PROVE TypeOK' /\ TriesLeft'
    BY <1>8 DEF SyncFile
  <1>9. ASSUME NEW p \in Proc, CloneFile(p) PROVE TypeOK' /\ TriesLeft'
    BY <1>9, FilesDiffer DEF CloneFile
  <1>10. ASSUME NEW p \in Proc, CloneRefused(p) PROVE TypeOK' /\ TriesLeft'
    BY <1>10 DEF CloneRefused
  <1>11. ASSUME NEW p \in Proc, StatCreated(p) PROVE TypeOK' /\ TriesLeft'
    BY <1>11 DEF StatCreated
  <1>12. ASSUME NEW p \in Proc, OpenCreated(p) PROVE TypeOK' /\ TriesLeft'
    BY <1>12 DEF OpenCreated
  <1>13. ASSUME NEW p \in Proc, Verify(p) PROVE TypeOK' /\ TriesLeft'
    BY <1>13 DEF Verify
  <1>14. ASSUME NEW p \in Proc, SyncDir(p) PROVE TypeOK' /\ TriesLeft'
    BY <1>14 DEF SyncDir
  <1>15. ASSUME NEW p \in Proc, Rollback(p) PROVE TypeOK' /\ TriesLeft'
    BY <1>15 DEF Rollback
  <1>16. ASSUME NEW p \in Proc, RollbackUnlink(p) PROVE TypeOK' /\ TriesLeft'
    BY <1>16 DEF RollbackUnlink
  <1>17. ASSUME NEW p \in Proc, RollbackSync(p) PROVE TypeOK' /\ TriesLeft'
    BY <1>17 DEF RollbackSync
  <1>18. ASSUME NEW p \in Proc, Fault(p) PROVE TypeOK' /\ TriesLeft'
    BY <1>18, FaultPhases DEF Fault
  <1>19. ASSUME NEW p \in Proc, Crash(p) PROVE TypeOK' /\ TriesLeft'
    BY <1>19 DEF Crash
  <1>20. ASSUME NEW m \in Name, Meddle(m) PROVE TypeOK' /\ TriesLeft'
    BY <1>20 DEF Meddle
  <1>21. ASSUME PowerLoss PROVE TypeOK' /\ TriesLeft'
    BY <1>21 DEF PowerLoss
  <1>22. CASE UNCHANGED sysVars
    BY <1>22 DEF sysVars
  <1> QED
    BY <1>1, <1>2, <1>3, <1>4, <1>5, <1>6, <1>7, <1>8, <1>9, <1>10, <1>11,
       <1>12, <1>13, <1>14, <1>15, <1>16, <1>17, <1>18, <1>19, <1>20,
       <1>21, <1>22
    DEF Next, Step, AllDone, vars

\* Every step keeps the named clones whole and durable, and the temporary
\* files under temporary names.
LEMMA WholeStep ==
    ASSUME IInv, [Next]_vars
    PROVE  SyncedFirst' /\ WholeClones' /\ TempsApart'
  <1> USE PublishAssumption, FilesDiffer
      DEF IInv, TypeOK, SyncedFirst, WholeClones, TempsApart, Goto, procVars
  <1>1. ASSUME NEW p \in Proc, NEW n \in TempName, Create(p, n)
        PROVE  SyncedFirst' /\ WholeClones' /\ TempsApart'
    BY <1>1 DEF Create
  <1>2. ASSUME NEW p \in Proc, NEW n \in TempName, Collide(p, n)
        PROVE  SyncedFirst' /\ WholeClones' /\ TempsApart'
    BY <1>2 DEF Collide
  <1>3. ASSUME NEW p \in Proc, Inspect(p)
        PROVE  SyncedFirst' /\ WholeClones' /\ TempsApart'
    BY <1>3 DEF Inspect
  <1>4. ASSUME NEW p \in Proc, UnlinkTemp(p)
        PROVE  SyncedFirst' /\ WholeClones' /\ TempsApart'
    BY <1>4 DEF UnlinkTemp
  <1>5. ASSUME NEW p \in Proc, Discard(p)
        PROVE  SyncedFirst' /\ WholeClones' /\ TempsApart'
    BY <1>5 DEF Discard
  <1>6. ASSUME NEW p \in Proc, DiscardUnlink(p)
        PROVE  SyncedFirst' /\ WholeClones' /\ TempsApart'
    BY <1>6 DEF DiscardUnlink
  <1>7. ASSUME NEW p \in Proc, WriteBlock(p)
        PROVE  SyncedFirst' /\ WholeClones' /\ TempsApart'
    BY <1>7 DEF WriteBlock
  <1>8. ASSUME NEW p \in Proc, SyncFile(p)
        PROVE  SyncedFirst' /\ WholeClones' /\ TempsApart'
    BY <1>8 DEF SyncFile
  <1>9. ASSUME NEW p \in Proc, CloneFile(p)
        PROVE  SyncedFirst' /\ WholeClones' /\ TempsApart'
    BY <1>9 DEF CloneFile
  <1>10. ASSUME NEW p \in Proc, CloneRefused(p)
         PROVE  SyncedFirst' /\ WholeClones' /\ TempsApart'
    BY <1>10 DEF CloneRefused
  <1>11. ASSUME NEW p \in Proc, StatCreated(p)
         PROVE  SyncedFirst' /\ WholeClones' /\ TempsApart'
    BY <1>11 DEF StatCreated
  <1>12. ASSUME NEW p \in Proc, OpenCreated(p)
         PROVE  SyncedFirst' /\ WholeClones' /\ TempsApart'
    BY <1>12 DEF OpenCreated
  <1>13. ASSUME NEW p \in Proc, Verify(p)
         PROVE  SyncedFirst' /\ WholeClones' /\ TempsApart'
    BY <1>13 DEF Verify
  <1>14. ASSUME NEW p \in Proc, SyncDir(p)
         PROVE  SyncedFirst' /\ WholeClones' /\ TempsApart'
    BY <1>14 DEF SyncDir
  <1>15. ASSUME NEW p \in Proc, Rollback(p)
         PROVE  SyncedFirst' /\ WholeClones' /\ TempsApart'
    BY <1>15 DEF Rollback
  <1>16. ASSUME NEW p \in Proc, RollbackUnlink(p)
         PROVE  SyncedFirst' /\ WholeClones' /\ TempsApart'
    BY <1>16 DEF RollbackUnlink
  <1>17. ASSUME NEW p \in Proc, RollbackSync(p)
         PROVE  SyncedFirst' /\ WholeClones' /\ TempsApart'
    BY <1>17 DEF RollbackSync
  <1>18. ASSUME NEW p \in Proc, Fault(p)
         PROVE  SyncedFirst' /\ WholeClones' /\ TempsApart'
    BY <1>18, FaultPhases DEF Fault, TypeOK
  <1>19. ASSUME NEW p \in Proc, Crash(p)
         PROVE  SyncedFirst' /\ WholeClones' /\ TempsApart'
    BY <1>19 DEF Crash
  <1>20. ASSUME NEW m \in Name, Meddle(m)
         PROVE  SyncedFirst' /\ WholeClones' /\ TempsApart'
    BY <1>20 DEF Meddle
  <1>21. ASSUME PowerLoss PROVE SyncedFirst' /\ WholeClones' /\ TempsApart'
    BY <1>21 DEF PowerLoss
  <1>22. CASE UNCHANGED sysVars
    BY <1>22 DEF sysVars
  <1> QED
    BY <1>1, <1>2, <1>3, <1>4, <1>5, <1>6, <1>7, <1>8, <1>9, <1>10, <1>11,
       <1>12, <1>13, <1>14, <1>15, <1>16, <1>17, <1>18, <1>19, <1>20,
       <1>21, <1>22
    DEF Next, Step, AllDone, vars

\* Every step leaves a process the temporary name it can still unlink.
LEMMA TempStep ==
    ASSUME IInv, [Next]_vars
    PROVE  TempHeld'
  <1> USE PublishAssumption, FilesDiffer, DestApart
      DEF IInv, TypeOK, TempHeld, HoldsTemp, Goto, procVars
  <1>1. ASSUME NEW p \in Proc, NEW n \in TempName, Create(p, n) PROVE TempHeld'
    BY <1>1 DEF Create
  <1>2. ASSUME NEW p \in Proc, NEW n \in TempName, Collide(p, n)
        PROVE  TempHeld'
    BY <1>2 DEF Collide
  <1>3. ASSUME NEW p \in Proc, Inspect(p) PROVE TempHeld'
    BY <1>3 DEF Inspect
  <1>4. ASSUME NEW p \in Proc, UnlinkTemp(p) PROVE TempHeld'
    BY <1>4 DEF UnlinkTemp
  <1>5. ASSUME NEW p \in Proc, Discard(p) PROVE TempHeld'
    BY <1>5 DEF Discard
  <1>6. ASSUME NEW p \in Proc, DiscardUnlink(p) PROVE TempHeld'
    BY <1>6 DEF DiscardUnlink
  <1>7. ASSUME NEW p \in Proc, WriteBlock(p) PROVE TempHeld'
    BY <1>7 DEF WriteBlock
  <1>8. ASSUME NEW p \in Proc, SyncFile(p) PROVE TempHeld'
    BY <1>8 DEF SyncFile
  <1>9. ASSUME NEW p \in Proc, CloneFile(p) PROVE TempHeld'
    BY <1>9 DEF CloneFile
  <1>10. ASSUME NEW p \in Proc, CloneRefused(p) PROVE TempHeld'
    BY <1>10 DEF CloneRefused
  <1>11. ASSUME NEW p \in Proc, StatCreated(p) PROVE TempHeld'
    BY <1>11 DEF StatCreated
  <1>12. ASSUME NEW p \in Proc, OpenCreated(p) PROVE TempHeld'
    BY <1>12 DEF OpenCreated
  <1>13. ASSUME NEW p \in Proc, Verify(p) PROVE TempHeld'
    BY <1>13 DEF Verify
  <1>14. ASSUME NEW p \in Proc, SyncDir(p) PROVE TempHeld'
    BY <1>14 DEF SyncDir
  <1>15. ASSUME NEW p \in Proc, Rollback(p) PROVE TempHeld'
    BY <1>15 DEF Rollback
  <1>16. ASSUME NEW p \in Proc, RollbackUnlink(p) PROVE TempHeld'
    BY <1>16 DEF RollbackUnlink
  <1>17. ASSUME NEW p \in Proc, RollbackSync(p) PROVE TempHeld'
    BY <1>17 DEF RollbackSync
  <1>18. ASSUME NEW p \in Proc, Fault(p) PROVE TempHeld'
    BY <1>18, FaultPhases DEF Fault, TypeOK
  <1>19. ASSUME NEW p \in Proc, Crash(p) PROVE TempHeld'
    BY <1>19 DEF Crash
  <1>20. ASSUME NEW m \in Name, Meddle(m) PROVE TempHeld'
    BY <1>20 DEF Meddle
  <1>21. ASSUME PowerLoss PROVE TempHeld'
    BY <1>21 DEF PowerLoss, TypeOK, Done
  <1>22. CASE UNCHANGED sysVars
    BY <1>22 DEF sysVars
  <1> QED
    BY <1>1, <1>2, <1>3, <1>4, <1>5, <1>6, <1>7, <1>8, <1>9, <1>10, <1>11,
       <1>12, <1>13, <1>14, <1>15, <1>16, <1>17, <1>18, <1>19, <1>20,
       <1>21, <1>22
    DEF Next, Step, AllDone, vars

\* Every step leaves a process the published name it can still unlink, and a
\* successful one its file on disk.
LEMMA DestStep ==
    ASSUME IInv, [Next]_vars
    PROVE  DestHeld'
  <1> USE PublishAssumption, FilesDiffer, DestApart
      DEF IInv, TypeOK, TempHeld, HoldsTemp, DestHeld, HoldsDest, Goto,
          procVars
  <1>1. ASSUME NEW p \in Proc, NEW n \in TempName, Create(p, n) PROVE DestHeld'
    BY <1>1 DEF Create
  <1>2. ASSUME NEW p \in Proc, NEW n \in TempName, Collide(p, n)
        PROVE  DestHeld'
    BY <1>2 DEF Collide
  <1>3. ASSUME NEW p \in Proc, Inspect(p) PROVE DestHeld'
    BY <1>3 DEF Inspect
  <1>4. ASSUME NEW p \in Proc, UnlinkTemp(p) PROVE DestHeld'
    BY <1>4 DEF UnlinkTemp
  <1>5. ASSUME NEW p \in Proc, Discard(p) PROVE DestHeld'
    BY <1>5 DEF Discard
  <1>6. ASSUME NEW p \in Proc, DiscardUnlink(p) PROVE DestHeld'
    BY <1>6 DEF DiscardUnlink
  <1>7. ASSUME NEW p \in Proc, WriteBlock(p) PROVE DestHeld'
    BY <1>7 DEF WriteBlock
  <1>8. ASSUME NEW p \in Proc, SyncFile(p) PROVE DestHeld'
    BY <1>8 DEF SyncFile
  <1>9. ASSUME NEW p \in Proc, CloneFile(p) PROVE DestHeld'
    BY <1>9 DEF CloneFile
  <1>10. ASSUME NEW p \in Proc, CloneRefused(p) PROVE DestHeld'
    BY <1>10 DEF CloneRefused
  <1>11. ASSUME NEW p \in Proc, StatCreated(p) PROVE DestHeld'
    BY <1>11 DEF StatCreated
  <1>12. ASSUME NEW p \in Proc, OpenCreated(p) PROVE DestHeld'
    BY <1>12 DEF OpenCreated
  <1>13. ASSUME NEW p \in Proc, Verify(p) PROVE DestHeld'
    BY <1>13 DEF Verify
  <1>14. ASSUME NEW p \in Proc, SyncDir(p) PROVE DestHeld'
    BY <1>14 DEF SyncDir
  <1>15. ASSUME NEW p \in Proc, Rollback(p) PROVE DestHeld'
    BY <1>15 DEF Rollback
  <1>16. ASSUME NEW p \in Proc, RollbackUnlink(p) PROVE DestHeld'
    BY <1>16 DEF RollbackUnlink
  <1>17. ASSUME NEW p \in Proc, RollbackSync(p) PROVE DestHeld'
    BY <1>17 DEF RollbackSync
  <1>18. ASSUME NEW p \in Proc, Fault(p) PROVE DestHeld'
    BY <1>18, FaultPhases DEF Fault, TypeOK
  <1>19. ASSUME NEW p \in Proc, Crash(p) PROVE DestHeld'
    BY <1>19 DEF Crash
  <1>20. ASSUME NEW m \in Name, Meddle(m) PROVE DestHeld'
    BY <1>20 DEF Meddle
  <1>21. ASSUME PowerLoss PROVE DestHeld'
    BY <1>21 DEF PowerLoss, TypeOK, Done
  <1>22. CASE UNCHANGED sysVars
    BY <1>22 DEF sysVars
  <1> QED
    BY <1>1, <1>2, <1>3, <1>4, <1>5, <1>6, <1>7, <1>8, <1>9, <1>10, <1>11,
       <1>12, <1>13, <1>14, <1>15, <1>16, <1>17, <1>18, <1>19, <1>20,
       <1>21, <1>22
    DEF Next, Step, AllDone, vars

\* No step but the outside program's makes or removes a foreign file.
LEMMA ForeignStep ==
    ASSUME IInv, [Next]_vars
    PROVE  ForeignStays'
  <1> USE PublishAssumption, FilesDiffer, DestApart
      DEF IInv, TypeOK, TempHeld, HoldsTemp, DestHeld, HoldsDest, ForeignStays,
          Goto, procVars
  <1>1. ASSUME NEW p \in Proc, NEW n \in TempName, Create(p, n)
       PROVE  ForeignStays'
    BY <1>1 DEF Create
  <1>2. ASSUME NEW p \in Proc, NEW n \in TempName, Collide(p, n)
       PROVE  ForeignStays'
    BY <1>2 DEF Collide
  <1>3. ASSUME NEW p \in Proc, Inspect(p) PROVE ForeignStays'
    BY <1>3 DEF Inspect
  <1>4. ASSUME NEW p \in Proc, UnlinkTemp(p) PROVE ForeignStays'
    BY <1>4 DEF UnlinkTemp
  <1>5. ASSUME NEW p \in Proc, Discard(p) PROVE ForeignStays'
    BY <1>5 DEF Discard
  <1>6. ASSUME NEW p \in Proc, DiscardUnlink(p) PROVE ForeignStays'
    BY <1>6 DEF DiscardUnlink
  <1>7. ASSUME NEW p \in Proc, WriteBlock(p) PROVE ForeignStays'
    BY <1>7 DEF WriteBlock
  <1>8. ASSUME NEW p \in Proc, SyncFile(p) PROVE ForeignStays'
    BY <1>8 DEF SyncFile
  <1>9. ASSUME NEW p \in Proc, CloneFile(p) PROVE ForeignStays'
    BY <1>9 DEF CloneFile
  <1>10. ASSUME NEW p \in Proc, CloneRefused(p) PROVE ForeignStays'
    BY <1>10 DEF CloneRefused
  <1>11. ASSUME NEW p \in Proc, StatCreated(p) PROVE ForeignStays'
    BY <1>11 DEF StatCreated
  <1>12. ASSUME NEW p \in Proc, OpenCreated(p) PROVE ForeignStays'
    BY <1>12 DEF OpenCreated
  <1>13. ASSUME NEW p \in Proc, Verify(p) PROVE ForeignStays'
    BY <1>13 DEF Verify
  <1>14. ASSUME NEW p \in Proc, SyncDir(p) PROVE ForeignStays'
    BY <1>14 DEF SyncDir
  <1>15. ASSUME NEW p \in Proc, Rollback(p) PROVE ForeignStays'
    BY <1>15 DEF Rollback
  <1>16. ASSUME NEW p \in Proc, RollbackUnlink(p) PROVE ForeignStays'
    BY <1>16 DEF RollbackUnlink
  <1>17. ASSUME NEW p \in Proc, RollbackSync(p) PROVE ForeignStays'
    BY <1>17 DEF RollbackSync
  <1>18. ASSUME NEW p \in Proc, Fault(p) PROVE ForeignStays'
    BY <1>18, FaultPhases DEF Fault
  <1>19. ASSUME NEW p \in Proc, Crash(p) PROVE ForeignStays'
    BY <1>19 DEF Crash
  <1>20. ASSUME NEW m \in Name, Meddle(m) PROVE ForeignStays'
    BY <1>20 DEF Meddle
  <1>21. ASSUME PowerLoss PROVE ForeignStays'
    BY <1>21 DEF PowerLoss
  <1>22. CASE UNCHANGED sysVars
    BY <1>22 DEF sysVars
  <1> QED
    BY <1>1, <1>2, <1>3, <1>4, <1>5, <1>6, <1>7, <1>8, <1>9, <1>10, <1>11,
       <1>12, <1>13, <1>14, <1>15, <1>16, <1>17, <1>18, <1>19, <1>20,
       <1>21, <1>22
    DEF Next, Step, AllDone, vars

\* A sighted process gives up neither of its files while they have a name.
LEMMA TempTracedStep ==
    ASSUME IInv, [Next]_vars
    PROVE  TempTraced'
  <1> USE PublishAssumption, FilesDiffer, DestApart
      DEF IInv, TypeOK, TempTraced, HoldsTemp, Sighted, Goto, procVars
  <1>1. ASSUME NEW p \in Proc, NEW n \in TempName, Create(p, n)
       PROVE  TempTraced'
    BY <1>1 DEF Create
  <1>2. ASSUME NEW p \in Proc, NEW n \in TempName, Collide(p, n)
       PROVE  TempTraced'
    BY <1>2 DEF Collide
  <1>3. ASSUME NEW p \in Proc, Inspect(p) PROVE TempTraced'
    BY <1>3 DEF Inspect
  <1>4. ASSUME NEW p \in Proc, UnlinkTemp(p) PROVE TempTraced'
    BY <1>4 DEF UnlinkTemp
  <1>5. ASSUME NEW p \in Proc, Discard(p) PROVE TempTraced'
    BY <1>5 DEF Discard
  <1>6. ASSUME NEW p \in Proc, DiscardUnlink(p) PROVE TempTraced'
    BY <1>6 DEF DiscardUnlink
  <1>7. ASSUME NEW p \in Proc, WriteBlock(p) PROVE TempTraced'
    BY <1>7 DEF WriteBlock
  <1>8. ASSUME NEW p \in Proc, SyncFile(p) PROVE TempTraced'
    BY <1>8 DEF SyncFile
  <1>9. ASSUME NEW p \in Proc, CloneFile(p) PROVE TempTraced'
    BY <1>9 DEF CloneFile
  <1>10. ASSUME NEW p \in Proc, CloneRefused(p) PROVE TempTraced'
    BY <1>10 DEF CloneRefused
  <1>11. ASSUME NEW p \in Proc, StatCreated(p) PROVE TempTraced'
    BY <1>11 DEF StatCreated
  <1>12. ASSUME NEW p \in Proc, OpenCreated(p) PROVE TempTraced'
    BY <1>12 DEF OpenCreated
  <1>13. ASSUME NEW p \in Proc, Verify(p) PROVE TempTraced'
    BY <1>13 DEF Verify
  <1>14. ASSUME NEW p \in Proc, SyncDir(p) PROVE TempTraced'
    BY <1>14 DEF SyncDir
  <1>15. ASSUME NEW p \in Proc, Rollback(p) PROVE TempTraced'
    BY <1>15 DEF Rollback
  <1>16. ASSUME NEW p \in Proc, RollbackUnlink(p) PROVE TempTraced'
    BY <1>16 DEF RollbackUnlink
  <1>17. ASSUME NEW p \in Proc, RollbackSync(p) PROVE TempTraced'
    BY <1>17 DEF RollbackSync
  <1>18. ASSUME NEW p \in Proc, Fault(p) PROVE TempTraced'
    <2>1. pc[p] \in Phase \ Done
      BY <1>18 DEF Fault
    <2>2. pc'[p] = AfterFault[pc[p]] /\ \A q \in Proc \ {p} : pc'[q] = pc[q]
      BY <1>18 DEF Fault
    <2>3. p \notin blind' /\ pc[p] \in HoldsTemp \cup {"crashed"} => pc'[p] \in HoldsTemp
      BY <1>18, <2>1, <2>2, FaultPhases DEF Fault, Blinding, Done
    <2> QED
      BY <1>18, <2>2, <2>3 DEF Fault
  <1>19. ASSUME NEW p \in Proc, Crash(p) PROVE TempTraced'
    BY <1>19 DEF Crash
  <1>20. ASSUME NEW m \in Name, Meddle(m) PROVE TempTraced'
    BY <1>20 DEF Meddle
  <1>21. ASSUME PowerLoss PROVE TempTraced'
    BY <1>21 DEF PowerLoss, Done
  <1>22. CASE UNCHANGED sysVars
    BY <1>22 DEF sysVars
  <1> QED
    BY <1>1, <1>2, <1>3, <1>4, <1>5, <1>6, <1>7, <1>8, <1>9, <1>10, <1>11,
       <1>12, <1>13, <1>14, <1>15, <1>16, <1>17, <1>18, <1>19, <1>20,
       <1>21, <1>22
    DEF Next, Step, AllDone, vars

\* The same of the published file, for whose removal its identity is kept.
LEMMA CloneTracedStep ==
    ASSUME IInv, [Next]_vars
    PROVE  CloneTraced'
  <1> USE PublishAssumption, FilesDiffer, DestApart
      DEF IInv, TypeOK, CloneTraced, HoldsDest, Sighted, Goto, procVars
  <1>1. ASSUME NEW p \in Proc, NEW n \in TempName, Create(p, n)
       PROVE  CloneTraced'
    BY <1>1 DEF Create
  <1>2. ASSUME NEW p \in Proc, NEW n \in TempName, Collide(p, n)
       PROVE  CloneTraced'
    BY <1>2 DEF Collide
  <1>3. ASSUME NEW p \in Proc, Inspect(p) PROVE CloneTraced'
    BY <1>3 DEF Inspect
  <1>4. ASSUME NEW p \in Proc, UnlinkTemp(p) PROVE CloneTraced'
    BY <1>4 DEF UnlinkTemp
  <1>5. ASSUME NEW p \in Proc, Discard(p) PROVE CloneTraced'
    BY <1>5 DEF Discard
  <1>6. ASSUME NEW p \in Proc, DiscardUnlink(p) PROVE CloneTraced'
    BY <1>6 DEF DiscardUnlink
  <1>7. ASSUME NEW p \in Proc, WriteBlock(p) PROVE CloneTraced'
    BY <1>7 DEF WriteBlock
  <1>8. ASSUME NEW p \in Proc, SyncFile(p) PROVE CloneTraced'
    BY <1>8 DEF SyncFile
  <1>9. ASSUME NEW p \in Proc, CloneFile(p) PROVE CloneTraced'
    BY <1>9 DEF CloneFile
  <1>10. ASSUME NEW p \in Proc, CloneRefused(p) PROVE CloneTraced'
    BY <1>10 DEF CloneRefused
  <1>11. ASSUME NEW p \in Proc, StatCreated(p) PROVE CloneTraced'
    BY <1>11 DEF StatCreated
  <1>12. ASSUME NEW p \in Proc, OpenCreated(p) PROVE CloneTraced'
    BY <1>12 DEF OpenCreated
  <1>13. ASSUME NEW p \in Proc, Verify(p) PROVE CloneTraced'
    BY <1>13 DEF Verify
  <1>14. ASSUME NEW p \in Proc, SyncDir(p) PROVE CloneTraced'
    BY <1>14 DEF SyncDir
  <1>15. ASSUME NEW p \in Proc, Rollback(p) PROVE CloneTraced'
    BY <1>15 DEF Rollback
  <1>16. ASSUME NEW p \in Proc, RollbackUnlink(p) PROVE CloneTraced'
    BY <1>16 DEF RollbackUnlink
  <1>17. ASSUME NEW p \in Proc, RollbackSync(p) PROVE CloneTraced'
    BY <1>17 DEF RollbackSync
  <1>18. ASSUME NEW p \in Proc, Fault(p) PROVE CloneTraced'
    <2>1. pc[p] \in Phase \ Done
      BY <1>18 DEF Fault
    <2>2. pc'[p] = AfterFault[pc[p]] /\ \A q \in Proc \ {p} : pc'[q] = pc[q]
      BY <1>18 DEF Fault
    <2>3. p \notin blind' /\ pc[p] \in HoldsDest \cup {"crashed"} => pc'[p] \in HoldsDest
      BY <1>18, <2>1, <2>2, FaultPhases DEF Fault, Blinding, Done
    <2>4. pc'[p] = "rollback" => pc[p] \in {"stated", "opened", "verified"} \/ p \in blind'
      BY <1>18, <2>1, <2>2, FaultPhases DEF Fault, Blinding
    <2>5. pc'[p] \notin {"stated", "opened", "verified"}
      BY <2>1, <2>2, FaultPhases
    <2> QED
      BY <1>18, <2>2, <2>3, <2>4, <2>5 DEF Fault
  <1>19. ASSUME NEW p \in Proc, Crash(p) PROVE CloneTraced'
    BY <1>19 DEF Crash
  <1>20. ASSUME NEW m \in Name, Meddle(m) PROVE CloneTraced'
    BY <1>20 DEF Meddle
  <1>21. ASSUME PowerLoss PROVE CloneTraced'
    BY <1>21 DEF PowerLoss, Done
  <1>22. CASE UNCHANGED sysVars
    BY <1>22 DEF sysVars
  <1> QED
    BY <1>1, <1>2, <1>3, <1>4, <1>5, <1>6, <1>7, <1>8, <1>9, <1>10, <1>11,
       <1>12, <1>13, <1>14, <1>15, <1>16, <1>17, <1>18, <1>19, <1>20,
       <1>21, <1>22
    DEF Next, Step, AllDone, vars

\* What changes between a process's look and its act is noticed.
LEMMA Noticed ==
    ASSUME IInv, [Next]_vars, NEW p \in Proc
    PROVE  /\ stale \subseteq stale'
           /\ \A n \in Name : Relies(p, n) /\ pc'[p] = pc[p] /\ <<p, n>> \notin stale' =>
                 dir'[n] = dir[n]
  <1>1. CASE UNCHANGED vars
    BY <1>1 DEF vars, sysVars
  <1>2. CASE Next
    <2>1. stale \subseteq stale'
      BY <1>2 DEF Next, Notice
    <2>2. ASSUME NEW n \in Name, Relies(p, n), pc'[p] = pc[p], dir'[n] # dir[n]
          PROVE  <<p, n>> \in stale'
      <3> DEFINE e == <<p, n>>
      <3>1. e \in Proc \X Name /\ e[1] = p /\ e[2] = n
        OBVIOUS
      <3>2. Relies(e[1], e[2]) /\ pc'[e[1]] = pc[e[1]] /\ dir'[e[2]] # dir[e[2]]
        BY <2>2, <3>1
      <3> HIDE DEF e
      <3>3. e \in stale'
        BY <1>2, <3>1, <3>2 DEF Next, Notice
      <3> QED
        BY <3>3 DEF e
    <2> QED
      BY <2>1, <2>2
  <1> QED
    BY <1>1, <1>2

\* A process that stays at its call keeps what it knows.
LEMMA StaysPut ==
    ASSUME IInv, [Next]_vars, NEW p \in Proc, pc'[p] = pc[p]
    PROVE  temp'[p] = temp[p] /\ created'[p] = created[p]
  BY DEF IInv, TypeOK, Next, Step, AllDone, vars, sysVars, procVars, Goto, Create, Collide,
         Inspect, UnlinkTemp, Discard, DiscardUnlink, WriteBlock, SyncFile, CloneFile,
         CloneRefused, StatCreated, OpenCreated, Verify, SyncDir, Rollback, RollbackUnlink,
         RollbackSync, Fault, Crash, Meddle, PowerLoss

\* What a process that moves comes to know: by each of its calls.
LEMMA ComesToKnow ==
    ASSUME IInv, [Next]_vars, NEW p \in Proc, pc'[p] # pc[p]
    PROVE  /\ pc'[p] \in {"checked", "discarding"} => dir'[temp'[p]] = Temp(p)
           /\ <<p, Dest[p]>> \notin stale =>
                 /\ created'[p] \in {Nothing, Clone(p)}
                 /\ pc'[p] \in {"cloned", "unlinking"} => dir'[Dest[p]] = Clone(p)
  <1> DEFINE Knows == /\ pc'[p] \in {"checked", "discarding"} => dir'[temp'[p]] = Temp(p)
                      /\ <<p, Dest[p]>> \notin stale =>
                            /\ created'[p] \in {Nothing, Clone(p)}
                            /\ pc'[p] \in {"cloned", "unlinking"} => dir'[Dest[p]] = Clone(p)
  <1>1. /\ pc \in [Proc -> Phase] /\ created \in [Proc -> Entry] /\ dir \in [Name -> Entry]
        /\ temp \in [Proc -> TempName \cup {Nothing}]
        /\ Dest[p] \in Name
        /\ pc[p] \in HoldsTemp => temp[p] \in Name
        /\ <<p, Dest[p]>> \notin stale =>
              /\ created[p] \in {Nothing, Clone(p)}
              /\ pc[p] \in {"cloned", "unlinking"} => dir[Dest[p]] = Clone(p)
    BY PublishAssumption DEF IInv, TypeOK, KnowsOwn, TempHeld
  <1> USE <1>1 DEF Goto, Phase
  <1>2. ASSUME NEW q \in Proc, Step(q), q # p PROVE FALSE
    BY <1>2 DEF Step, Create, Collide, Inspect, UnlinkTemp, Discard, DiscardUnlink,
         WriteBlock, SyncFile, CloneFile, CloneRefused, StatCreated, OpenCreated, Verify,
         SyncDir, Rollback, RollbackUnlink, RollbackSync
  <1>3. CASE Inspect(p)
    BY <1>3 DEF Inspect, procVars
  <1>4. CASE Discard(p)
    BY <1>4 DEF Discard, procVars
  <1>5. CASE CloneFile(p)
    BY <1>5 DEF CloneFile
  <1>6. CASE StatCreated(p)
    BY <1>6 DEF StatCreated
  <1>7. CASE Rollback(p)
    BY <1>7 DEF Rollback, procVars
  <1>8. ASSUME created'[p] = created[p],
               pc'[p] \notin {"checked", "discarding", "cloned", "unlinking"}
        PROVE  Knows
    BY <1>8
  <1>9. ASSUME NEW n \in TempName, Create(p, n) \/ Collide(p, n) PROVE Knows
    BY <1>8, <1>9 DEF Create, Collide
  <1>10. CASE UnlinkTemp(p) \/ DiscardUnlink(p)
    BY <1>8, <1>10 DEF UnlinkTemp, DiscardUnlink, procVars
  <1>11. CASE WriteBlock(p) \/ SyncFile(p)
    BY <1>8, <1>11 DEF WriteBlock, SyncFile
  <1>12. CASE CloneRefused(p) \/ Verify(p) \/ SyncDir(p)
    BY <1>8, <1>12 DEF CloneRefused, Verify, SyncDir, procVars
  <1>13. CASE OpenCreated(p)
    BY <1>8, <1>13 DEF OpenCreated
  <1>14. CASE RollbackUnlink(p) \/ RollbackSync(p)
    BY <1>8, <1>14 DEF RollbackUnlink, RollbackSync, procVars
  <1>15. ASSUME NEW q \in Proc, Fault(q) PROVE Knows
    <2>1. q = p /\ pc[p] \in Phase \ Done /\ pc'[p] = AfterFault[pc[p]]
      BY <1>15 DEF Fault
    <2> QED
      BY <1>8, <1>15, <2>1, FaultPhases DEF Fault, procVars
  <1>16. ASSUME NEW q \in Proc, Crash(q) PROVE Knows
    BY <1>8, <1>16 DEF Crash, procVars
  <1>17. CASE PowerLoss
    BY <1>8, <1>17 DEF PowerLoss, Done
  <1>18. CASE UNCHANGED sysVars \/ \E m \in Name : Meddle(m)
    BY <1>18 DEF sysVars, Meddle
  <1>19. CASE \E q \in Proc : Step(q)
    BY <1>2, <1>3, <1>4, <1>5, <1>6, <1>7, <1>9, <1>10, <1>11, <1>12, <1>13, <1>14, <1>19
    DEF Step
  <1> QED
    BY <1>15, <1>16, <1>17, <1>18, <1>19 DEF Next, AllDone, vars

\* Every step keeps a process informed, or marks what it knows as stale.
LEMMA KnowsStep ==
    ASSUME IInv, [Next]_vars
    PROVE  KnowsOwn'
  <1> SUFFICES ASSUME NEW p \in Proc
               PROVE  /\ pc'[p] \in {"checked", "discarding"} /\ <<p, temp'[p]>> \notin stale' =>
                            dir'[temp'[p]] = Temp(p)
                      /\ <<p, Dest[p]>> \notin stale' =>
                            /\ created'[p] \in {Nothing, Clone(p)}
                            /\ pc'[p] \in {"cloned", "unlinking"} => dir'[Dest[p]] = Clone(p)
    BY DEF KnowsOwn
  <1>1. CASE pc'[p] = pc[p]
    <2>1. pc[p] \in {"checked", "discarding"} => temp[p] \in Name
      BY PublishAssumption DEF IInv, TempHeld, HoldsTemp
    <2>2. Dest[p] \in Name
      BY PublishAssumption
    <2> QED
      BY <1>1, <2>1, <2>2, Noticed, StaysPut DEF IInv, KnowsOwn, Relies
  <1>2. CASE pc'[p] # pc[p]
    BY <1>2, Noticed, ComesToKnow
  <1> QED
    BY <1>1, <1>2

\* The invariant is inductive.
LEMMA StepHolds == IInv /\ [Next]_vars => IInv'
  <1> SUFFICES ASSUME IInv, [Next]_vars PROVE IInv'
    OBVIOUS
  <1>1. TypeOK' /\ TriesLeft'
    BY TypeStep DEF IInv
  <1> QED
    BY <1>1, WholeStep, TempStep, DestStep, ForeignStep, TempTracedStep,
       CloneTracedStep, KnowsStep
    DEF IInv

\* It holds throughout every behaviour.
LEMMA Invariance == Spec => []IInv
  BY InitHolds, StepHolds, PTL DEF Spec

\* Every reachable state is well typed.
THEOREM TypeCorrect == Spec => []TypeOK
  <1>1. IInv => TypeOK
    BY DEF IInv
  <1> QED
    BY <1>1, Invariance, PTL

\* No reader of a published name ever finds part of a payload, power losses
\* included.
THEOREM NeverPartial == Spec => []WholeOrAbsent
  <1>1. IInv => WholeOrAbsent
    <2> SUFFICES ASSUME IInv, NEW p \in Proc, NEW f \in {dir[Dest[p]], disk[Dest[p]]}
                 PROVE  Content(f) # Torn
      BY DEF WholeOrAbsent
    <2> USE PublishAssumption, FilesDiffer, DestApart
    <2>1. f \in Entry
      BY DEF IInv, TypeOK
    <2>2. CASE f \in {Nothing, Foreign}
      BY <2>2 DEF Content
    <2>3. ASSUME NEW q \in Proc, f = Temp(q) PROVE FALSE
      BY <2>3 DEF IInv, TempsApart
    <2>4. ASSUME NEW q \in Proc, f = Clone(q) PROVE Content(f) # Torn
      <3>1. copied[q] = Size
        BY <2>4 DEF IInv, WholeClones
      <3>2. f \in File /\ Blocks(f) = Size /\ f[2] = q
        BY <2>4, <3>1 DEF Blocks, Clone, File
      <3> QED
        BY <3>2 DEF Content
    <2> QED
      BY <2>1, <2>2, <2>3, <2>4 DEF Entry, File, Temp, Clone
  <1> QED
    BY <1>1, Invariance, PTL

\* A publication reported as successful stands, in the directory and on disk.
THEOREM SuccessIsDurable == Spec => []SuccessLasts
  <1>1. IInv => SuccessLasts
    BY DEF IInv, DestHeld, HoldsDest, SuccessLasts
  <1> QED
    BY <1>1, Invariance, PTL

\* A reported failure leaves neither file, unless a call that looks or cleans
\* up failed.
THEOREM FailureIsClean == Spec => []FailureLeavesNothing
  <1>1. IInv => FailureLeavesNothing
    BY DEF IInv, TempTraced, CloneTraced, HoldsTemp, HoldsDest, Sighted,
       FailureLeavesNothing, Nameless
  <1> QED
    BY <1>1, Invariance, PTL

\* Every step that frees a taken name is its maker's, or one of a process that
\* looked before the outside program changed the name.
LEMMA SparesStep ==
    ASSUME IInv, [Next]_vars, NEW n \in Name
    PROVE  SparedName(n)
  <1> USE FilesDiffer, DestApart
      DEF IInv, TypeOK, Goto
  <1>0. ASSUME NEW p \in Proc
        PROVE  /\ pc[p] \in {"checked", "discarding"} =>
                     \/ dir[temp[p]] = Temp(p)
                     \/ temp[p] \in meddled /\ <<p, temp[p]>> \in stale
               /\ pc[p] = "unlinking" =>
                     \/ dir[Dest[p]] = Clone(p)
                     \/ Dest[p] \in meddled /\ <<p, Dest[p]>> \in stale
    BY DEF KnowsOwn, TempHeld, HoldsTemp, DestHeld, HoldsDest
  <1>1. ASSUME NEW p \in Proc, NEW t \in TempName, Create(p, t)
        PROVE  SparedName(n)
    BY <1>1 DEF Create, SparedName
  <1>2. ASSUME NEW p \in Proc, UnlinkTemp(p) PROVE SparedName(n)
    <2>1. pc[p] \in {"checked", "discarding"} /\ pc'[p] # pc[p]
      BY <1>2 DEF UnlinkTemp
    <2>2. dir'[n] = IF n = temp[p] THEN Nothing ELSE dir[n]
      BY <1>2 DEF UnlinkTemp
    <2>3. n = temp[p] => \/ dir[n] = Temp(p)
                         \/ n \in meddled /\ <<p, n>> \in stale
      BY <1>0, <2>1
    <2> QED
      BY <2>1, <2>2, <2>3 DEF SparedName
  <1>3. ASSUME NEW p \in Proc, DiscardUnlink(p) PROVE SparedName(n)
    <2>1. pc[p] \in {"checked", "discarding"} /\ pc'[p] # pc[p]
      BY <1>3 DEF DiscardUnlink
    <2>2. dir'[n] = IF n = temp[p] THEN Nothing ELSE dir[n]
      BY <1>3 DEF DiscardUnlink
    <2>3. n = temp[p] => \/ dir[n] = Temp(p)
                         \/ n \in meddled /\ <<p, n>> \in stale
      BY <1>0, <2>1
    <2> QED
      BY <2>1, <2>2, <2>3 DEF SparedName
  <1>4. ASSUME NEW p \in Proc, CloneFile(p) PROVE SparedName(n)
    BY <1>4 DEF CloneFile, SparedName
  <1>5. ASSUME NEW p \in Proc, RollbackUnlink(p) PROVE SparedName(n)
    <2>1. pc[p] = "unlinking" /\ pc'[p] # pc[p]
      BY <1>5 DEF RollbackUnlink
    <2>2. dir'[n] = IF n = Dest[p] THEN Nothing ELSE dir[n]
      BY <1>5 DEF RollbackUnlink
    <2>3. n = Dest[p] => \/ dir[n] = Clone(p)
                         \/ n \in meddled /\ <<p, n>> \in stale
      BY <1>0, <2>1
    <2> QED
      BY <2>1, <2>2, <2>3 DEF SparedName
  <1>6. ASSUME NEW m \in Name, Meddle(m) PROVE SparedName(n)
    <2>1. used'.meddles = used.meddles + 1 /\ used.meddles \in Nat
      BY <1>6 DEF Meddle
    <2>2. used'.meddles # used.meddles
      BY <2>1
    <2> QED
      BY <2>2 DEF SparedName
  <1>7. ASSUME PowerLoss PROVE SparedName(n)
    BY <1>7 DEF PowerLoss, SparedName
  <1>8. CASE UNCHANGED dir
    BY <1>8 DEF SparedName
  <1> QED
    BY <1>1, <1>2, <1>3, <1>4, <1>5, <1>6, <1>7, <1>8
    DEF Next, Step, AllDone, vars, sysVars, Collide, Inspect, Discard, WriteBlock,
        SyncFile,
        CloneRefused, StatCreated, OpenCreated, Verify, SyncDir, Rollback,
        RollbackSync, Fault, Crash

\* No process removes or replaces what another one made.
THEOREM OthersSpared == Spec => SparesOthers
  <1>1. IInv /\ [Next]_vars => [\A n \in Name : SparedName(n)]_vars
    BY SparesStep
  <1> QED
    BY <1>1, Invariance, PTL DEF Spec, SparesOthers

-----------------------------------------------------------------------------
(* Every step of the system calls is a step of the abstract store or none. *)

\* What a reader finds under a published name is a whole payload, or a file
\* this program did not publish, or none.
ReadsWhole ==
    \A d \in Dests :
        /\ dir[d] \in {Nothing, Foreign} => Store[d] = dir[d]
        /\ \A q \in Proc : dir[d] = Clone(q) => Store[d] = Payload[q]
        /\ \A f \in {dir[d], disk[d]} : f \in {Nothing, Foreign} \/ \E q \in Proc : f = Clone(q)

LEMMA WholeReads == IInv => ReadsWhole
  <1> SUFFICES ASSUME IInv, NEW d \in Dests
               PROVE  /\ dir[d] \in {Nothing, Foreign} => Store[d] = dir[d]
                      /\ \A q \in Proc : dir[d] = Clone(q) => Store[d] = Payload[q]
                      /\ \A f \in {dir[d], disk[d]} :
                            f \in {Nothing, Foreign} \/ \E q \in Proc : f = Clone(q)
    BY DEF ReadsWhole
  <1> USE PublishAssumption, FilesDiffer, DestApart DEF Dests
  <1>1. dir[d] \in {Nothing, Foreign} => Store[d] = dir[d]
    BY DEF Store, Content
  <1>2. ASSUME NEW q \in Proc, dir[d] = Clone(q) PROVE Store[d] = Payload[q]
    <2> DEFINE f == dir[d]
    <2>1. copied[q] = Size
      BY <1>2 DEF IInv, WholeClones
    <2>2. f \in File /\ Blocks(f) = Size /\ f[2] = q /\ f \notin {Nothing, Foreign}
      BY <1>2, <2>1 DEF Blocks, Clone, File
    <2> QED
      BY <2>2 DEF Store, Content
  <1>3. ASSUME NEW f \in {dir[d], disk[d]}
        PROVE  f \in {Nothing, Foreign} \/ \E q \in Proc : f = Clone(q)
    <2>1. \A q \in Proc : f # Temp(q)
      BY DEF IInv, TempsApart
    <2>2. f \in Entry
      BY DEF IInv, TypeOK
    <2> QED
      BY <2>1, <2>2 DEF Entry, File, Clone, Temp
  <1> QED
    BY <1>1, <1>2, <1>3

\* A published name that keeps its file keeps its content.
LEMMA Kept ==
    ASSUME ReadsWhole, ReadsWhole', NEW d \in Dests, dir'[d] = dir[d]
    PROVE  Store'[d] = Store[d]
  BY DEF ReadsWhole

\* The same of the whole store: only four actions change a published name.
LEMMA StoreKept ==
    ASSUME ReadsWhole, ReadsWhole', \A d \in Dests : dir'[d] = dir[d]
    PROVE  Store' = Store
  BY Kept DEF Store

\* A step of p that leaves the published names alone and does not succeed is
\* an abstract failure, or none.
LEMMA QuietStep ==
    ASSUME ReadsWhole, ReadsWhole', TypeOK, NEW p \in Proc, pc[p] \notin Done,
           pc' = [pc EXCEPT ![p] = pc'[p]], pc'[p] # "ok",
           \A d \in Dests : dir'[d] = dir[d], UNCHANGED meddled
    PROVE  [WO!Next]_(WO!vars)
  <1>1. UNCHANGED <<Store, meddled \cap Dests>>
    BY StoreKept
  <1>2. Outcome[p] = "pending"
    BY DEF Outcome, Done
  <1>3. CASE pc'[p] \in {"failed", "crashed"}
    <2>1. Outcome' = [Outcome EXCEPT ![p] = "failed"]
      BY <1>3 DEF Outcome, TypeOK
    <2> QED
      BY <1>1, <1>2, <2>1 DEF WO!Next, WO!Fail
  <1>4. CASE pc'[p] \notin {"failed", "crashed"}
    <2>1. Outcome' = Outcome
      BY <1>4 DEF Outcome, TypeOK, Done
    <2> QED
      BY <1>1, <2>1 DEF WO!vars
  <1> QED
    BY <1>3, <1>4

\* The store with one name changed, pointwise.
LEMMA StoreExcept ==
    ASSUME NEW d \in Dests, NEW v, Store'[d] = v, \A e \in Dests \ {d} : Store'[e] = Store[e]
    PROVE  Store' = [Store EXCEPT ![d] = v]
  <1>1. Store = [e \in Dests |-> Store[e]] /\ Store' = [e \in Dests |-> Store'[e]]
    BY DEF Store
  <1> QED
    BY <1>1

\* The clone publishes.
LEMMA ClonePublishes ==
    ASSUME IInv, ReadsWhole, ReadsWhole', NEW p \in Proc, CloneFile(p)
    PROVE  WO!Publish(p)
  <1>0. \A d \in Dests : dir'[d] = dir[d] => Store'[d] = Store[d]
    BY Kept
  <1> USE DestApart, FilesDiffer, PublishAssumption DEF CloneFile, Goto, IInv, TypeOK, Dests
  <1>1. Outcome[p] = "pending" /\ Store[Dest[p]] = Nothing
    BY DEF Outcome, ReadsWhole
  <1>2. dir'[Dest[p]] = Clone(p) /\ \A d \in Dests \ {Dest[p]} : dir'[d] = dir[d]
    OBVIOUS
  <1>3. Store'[Dest[p]] = Payload[p] /\ \A d \in Dests \ {Dest[p]} : Store'[d] = Store[d]
    BY <1>0, <1>2 DEF ReadsWhole
  <1>4. Store' = [Store EXCEPT ![Dest[p]] = Payload[p]]
    <2> HIDE DestApart, FilesDiffer, PublishAssumption DEF CloneFile, Goto, IInv, TypeOK
    <2>1. Dest[p] \in Dests
      OBVIOUS
    <2> HIDE DEF Dests
    <2> QED
      BY <1>3, <2>1, StoreExcept
  <1>5. UNCHANGED <<Outcome, meddled \cap Dests>>
    BY DEF Outcome
  <1> QED
    BY <1>1, <1>4, <1>5 DEF WO!Publish

\* The directory's fsync reports the success of what stands there.
LEMMA SyncSucceeds ==
    ASSUME IInv, ReadsWhole, ReadsWhole', NEW p \in Proc, SyncDir(p)
    PROVE  WO!Succeed(p)
  <1> USE DestApart DEF SyncDir, Goto, IInv, TypeOK, Dests
  <1>1. Outcome[p] = "pending" /\ Outcome' = [Outcome EXCEPT ![p] = "ok"]
    BY DEF Outcome
  <1>2. Store[Dest[p]] = Payload[p] \/ Dest[p] \in meddled \cap Dests
    BY DEF ReadsWhole, DestHeld, HoldsDest
  <1>3. UNCHANGED <<Store, meddled \cap Dests>>
    BY StoreKept
  <1> QED
    BY <1>1, <1>2, <1>3 DEF WO!Succeed

\* The rollback takes back what nobody was promised, or fails.
LEMMA RollbackRetracts ==
    ASSUME IInv, ReadsWhole, ReadsWhole', NEW p \in Proc, RollbackUnlink(p)
    PROVE  WO!Retract(p) \/ WO!Fail(p)
  <1> USE DestApart, FilesDiffer, PublishAssumption
      DEF RollbackUnlink, IInv, TypeOK, Dests, procVars
  <1>1. Outcome[p] = "pending" /\ pc[p] = "unlinking"
    BY DEF Outcome, Goto
  <1>2. CASE dir[Dest[p]] = Nothing
    <2>1. Outcome' = [Outcome EXCEPT ![p] = "failed"]
      BY <1>2 DEF Outcome, Goto
    <2>2. UNCHANGED <<Store, meddled \cap Dests>>
      BY <1>2, StoreKept
    <2> QED
      BY <1>1, <2>1, <2>2 DEF WO!Fail
  <1>3. CASE dir[Dest[p]] # Nothing
    <2>1. dir'[Dest[p]] = Nothing /\ \A d \in Dests \ {Dest[p]} : dir'[d] = dir[d]
      OBVIOUS
    <2>2. Store'[Dest[p]] = Nothing /\ \A d \in Dests \ {Dest[p]} : Store'[d] = Store[d]
      <3>1. \A d \in Dests \ {Dest[p]} : Store'[d] = Store[d]
        BY <2>1, Kept
      <3>2. dir'[Dest[p]] = Nothing => Store'[Dest[p]] = Nothing
        BY DEF ReadsWhole
      <3> QED
        BY <2>1, <3>1, <3>2
    <2>3. Store' = [Store EXCEPT ![Dest[p]] = Nothing]
      <3> HIDE DEF RollbackUnlink, IInv, TypeOK
      <3> QED
        BY <2>2, StoreExcept
    <2>4. Outcome' = Outcome
      BY <1>1, <1>3 DEF Outcome, Goto
    <2>5. WO!Disposable(Dest[p])
      <3> SUFFICES ASSUME Dest[p] \notin meddled
                   PROVE  ~WO!Confirmed(Dest[p]) /\ Store[Dest[p]] # Foreign
        BY DEF WO!Disposable
      <3>1. dir[Dest[p]] = Clone(p)
        BY <1>1 DEF DestHeld, HoldsDest
      <3>2. \A q \in Proc : Dest[q] = Dest[p] => pc[q] # "ok"
        BY <1>1, <3>1 DEF DestHeld, HoldsDest
      <3>3. ~WO!Confirmed(Dest[p])
        BY <3>2 DEF WO!Confirmed, Outcome
      <3> QED
        BY <3>1, <3>3 DEF ReadsWhole
    <2> QED
      BY <1>1, <2>3, <2>4, <2>5 DEF WO!Retract
  <1> QED
    BY <1>2, <1>3

\* The outside program tampers, or acts where nothing is published.
LEMMA MeddleTampers ==
    ASSUME IInv, ReadsWhole, ReadsWhole', NEW n \in Name, Meddle(n)
    PROVE  [WO!Next]_(WO!vars)
  <1> USE DEF Meddle, IInv, TypeOK
  <1>1. Outcome' = Outcome
    BY DEF Outcome
  <1>2. CASE n \in Dests
    <2>1. dir'[n] \in {Nothing, Foreign} /\ \A d \in Dests \ {n} : dir'[d] = dir[d]
      BY <1>2, DestApart DEF Dests
    <2>2. Store'[n] \in {Nothing, Foreign} /\ \A d \in Dests \ {n} : Store'[d] = Store[d]
      <3>1. \A d \in Dests \ {n} : Store'[d] = Store[d]
        BY <2>1, Kept
      <3>2. dir'[n] \in {Nothing, Foreign} => Store'[n] = dir'[n]
        BY <1>2 DEF ReadsWhole
      <3> QED
        BY <2>1, <3>1, <3>2
    <2>3. \E f \in {Nothing, Foreign} : Store' = [Store EXCEPT ![n] = f]
      <3> HIDE DEF Meddle, IInv, TypeOK
      <3> QED
        BY <1>2, <2>2, StoreExcept
    <2>4. WO!Tamper(n)
      BY <1>1, <1>2, <2>3 DEF WO!Tamper
    <2> QED
      BY <1>2, <2>4 DEF WO!Next, WO!Dests, Dests
  <1>3. CASE n \notin Dests
    <2>1. \A d \in Dests : dir'[d] = dir[d]
      BY <1>3, DestApart DEF Dests
    <2> QED
      BY <1>1, <1>3, <2>1, StoreKept DEF WO!vars
  <1> QED
    BY <1>2, <1>3

\* A power loss gives up nothing that was confirmed, and nothing foreign.
LEMMA LossIsOutage ==
    ASSUME IInv, ReadsWhole, ReadsWhole', PowerLoss
    PROVE  WO!Outage
  <1>1. Store' \in [WO!Dests -> {Payload[p] : p \in Proc} \cup {Nothing, Foreign}]
    <2>1. ASSUME NEW d \in Dests
          PROVE  Store'[d] \in {Payload[p] : p \in Proc} \cup {Nothing, Foreign}
      <3>1. dir'[d] \in {Nothing, Foreign} \/ \E q \in Proc : dir'[d] = Clone(q)
        BY DEF ReadsWhole
      <3>2. dir'[d] \in {Nothing, Foreign} => Store'[d] = dir'[d]
        BY DEF ReadsWhole
      <3>3. \A q \in Proc : dir'[d] = Clone(q) => Store'[d] = Payload[q]
        BY DEF ReadsWhole
      <3> QED
        BY <3>1, <3>2, <3>3
    <2>2. Store' = [d \in Dests |-> Store'[d]]
      BY DEF Store
    <2> QED
      BY <2>1, <2>2 DEF Dests, WO!Dests
  <1>2. ASSUME NEW d \in Dests, Store'[d] # Store[d], d \notin meddled
        PROVE  ~WO!Confirmed(d) /\ Store[d] # Foreign
    <2>1. d \in Name
      BY DestApart DEF Dests
    <2>2. dir'[d] \in {dir[d], disk[d]}
      BY <2>1 DEF PowerLoss
    <2>3. dir'[d] = disk[d] /\ disk[d] # dir[d]
      BY <1>2, <2>2, Kept
    <2>4. \A q \in Proc : Dest[q] = d => pc[q] # "ok"
      BY <1>2, <2>3 DEF IInv, DestHeld, HoldsDest
    <2>5. ~WO!Confirmed(d)
      BY <2>4 DEF WO!Confirmed, Outcome
    <2>6. dir[d] # Foreign
      BY <1>2, <2>1, <2>3 DEF IInv, ForeignStays
    <2>7. Store[d] # Foreign
      <3>1. dir[d] = Nothing \/ \E q \in Proc : dir[d] = Clone(q)
        BY <2>6 DEF ReadsWhole
      <3>2. \A q \in Proc : dir[d] = Clone(q) => Store[d] = Payload[q]
        BY DEF ReadsWhole
      <3>3. dir[d] = Nothing => Store[d] = Nothing
        BY DEF ReadsWhole
      <3> QED
        BY <3>1, <3>2, <3>3, PublishAssumption
    <2> QED
      BY <2>5, <2>7
  <1>3. \A d \in WO!Dests : Store'[d] = Store[d] \/ WO!Disposable(d)
    BY <1>2 DEF WO!Disposable, WO!Dests, Dests
  <1>4. \E died \in SUBSET {p \in Proc : Outcome[p] = "pending"} :
           Outcome' = [p \in Proc |-> IF p \in died THEN "failed" ELSE Outcome[p]]
    <2> DEFINE died == {p \in Proc : pc[p] \notin Done \cup {"start"}}
    <2>1. died \in SUBSET {p \in Proc : Outcome[p] = "pending"}
      BY DEF Outcome, Done
    <2>2. Outcome' = [p \in Proc |-> IF p \in died THEN "failed" ELSE Outcome[p]]
      BY DEF PowerLoss, Outcome, Done
    <2> QED
      BY <2>1, <2>2
  <1>5. UNCHANGED (meddled \cap Dests)
    BY DEF PowerLoss
  <1> QED
    BY <1>1, <1>3, <1>4, <1>5 DEF WO!Outage

\* Step by step, the system calls do what the abstract store does.
LEMMA RefinesStep == IInv /\ ReadsWhole /\ ReadsWhole' /\ [Next]_vars => [WO!Next]_(WO!vars)
  <1> SUFFICES ASSUME IInv, ReadsWhole, ReadsWhole', [Next]_vars
               PROVE  [WO!Next]_(WO!vars)
    OBVIOUS
  <1>0. TypeOK /\ TempHeld
    BY DEF IInv
  <1> USE <1>0 DEF TypeOK, Done, Goto, procVars
  <1>1. ASSUME NEW p \in Proc, NEW n \in TempName, Create(p, n)
        PROVE  [WO!Next]_(WO!vars)
    <2>1. \A d \in Dests : dir'[d] = dir[d]
      BY <1>1, DestApart DEF Create, Dests
    <2>2. pc' = [pc EXCEPT ![p] = pc'[p]] /\ pc[p] \notin Done /\ pc'[p] # "ok" /\ UNCHANGED meddled
      BY <1>1 DEF Create
    <2> HIDE DEF IInv, TypeOK, Done
    <2> QED
      BY <2>1, <2>2, QuietStep DEF IInv
  <1>2. ASSUME NEW p \in Proc, NEW n \in TempName, Collide(p, n)
        PROVE  [WO!Next]_(WO!vars)
    BY <1>2, QuietStep DEF Collide
  <1>3. ASSUME NEW p \in Proc, Inspect(p) PROVE [WO!Next]_(WO!vars)
    <2>1. pc' = [pc EXCEPT ![p] = pc'[p]] /\ pc[p] \notin Done /\ pc'[p] # "ok"
      BY <1>3 DEF Inspect
    <2>2. UNCHANGED <<dir, meddled>>
      BY <1>3 DEF Inspect
    <2> HIDE DEF IInv, TypeOK, Done
    <2> QED
      BY <2>1, <2>2, QuietStep DEF IInv
  <1>4. ASSUME NEW p \in Proc, UnlinkTemp(p) PROVE [WO!Next]_(WO!vars)
    <2>1. \A d \in Dests : dir'[d] = dir[d]
      BY <1>4, DestApart DEF UnlinkTemp, Dests, TempHeld, HoldsTemp
    <2>2. pc' = [pc EXCEPT ![p] = pc'[p]] /\ pc[p] \notin Done /\ pc'[p] # "ok" /\ UNCHANGED meddled
      BY <1>4 DEF UnlinkTemp
    <2> HIDE DEF IInv, TypeOK, Done
    <2> QED
      BY <2>1, <2>2, QuietStep DEF IInv
  <1>5. ASSUME NEW p \in Proc, Discard(p) PROVE [WO!Next]_(WO!vars)
    BY <1>5, QuietStep DEF Discard
  <1>6. ASSUME NEW p \in Proc, DiscardUnlink(p) PROVE [WO!Next]_(WO!vars)
    <2>1. \A d \in Dests : dir'[d] = dir[d]
      BY <1>6, DestApart DEF DiscardUnlink, Dests, TempHeld, HoldsTemp
    <2>2. pc' = [pc EXCEPT ![p] = pc'[p]] /\ pc[p] \notin Done /\ pc'[p] # "ok" /\ UNCHANGED meddled
      BY <1>6 DEF DiscardUnlink
    <2> HIDE DEF IInv, TypeOK, Done
    <2> QED
      BY <2>1, <2>2, QuietStep DEF IInv
  <1>7. ASSUME NEW p \in Proc, WriteBlock(p) PROVE [WO!Next]_(WO!vars)
    BY <1>7, QuietStep DEF WriteBlock
  <1>8. ASSUME NEW p \in Proc, SyncFile(p) PROVE [WO!Next]_(WO!vars)
    BY <1>8, QuietStep DEF SyncFile
  <1>9. ASSUME NEW p \in Proc, CloneFile(p) PROVE [WO!Next]_(WO!vars)
    BY <1>9, ClonePublishes DEF WO!Next
  <1>10. ASSUME NEW p \in Proc, CloneRefused(p) PROVE [WO!Next]_(WO!vars)
    BY <1>10, QuietStep DEF CloneRefused
  <1>11. ASSUME NEW p \in Proc, StatCreated(p) PROVE [WO!Next]_(WO!vars)
    BY <1>11, QuietStep DEF StatCreated
  <1>12. ASSUME NEW p \in Proc, OpenCreated(p) PROVE [WO!Next]_(WO!vars)
    BY <1>12, QuietStep DEF OpenCreated
  <1>13. ASSUME NEW p \in Proc, Verify(p) PROVE [WO!Next]_(WO!vars)
    BY <1>13, QuietStep DEF Verify
  <1>14. ASSUME NEW p \in Proc, SyncDir(p) PROVE [WO!Next]_(WO!vars)
    BY <1>14, SyncSucceeds DEF WO!Next
  <1>15. ASSUME NEW p \in Proc, Rollback(p) PROVE [WO!Next]_(WO!vars)
    BY <1>15, QuietStep DEF Rollback
  <1>16. ASSUME NEW p \in Proc, RollbackUnlink(p) PROVE [WO!Next]_(WO!vars)
    BY <1>16, RollbackRetracts DEF WO!Next
  <1>17. ASSUME NEW p \in Proc, RollbackSync(p) PROVE [WO!Next]_(WO!vars)
    BY <1>17, QuietStep DEF RollbackSync
  <1>18. ASSUME NEW p \in Proc, Fault(p) PROVE [WO!Next]_(WO!vars)
    <2>1. pc[p] \in Phase \ Done /\ pc'[p] = AfterFault[pc[p]]
      BY <1>18 DEF Fault
    <2>2. pc'[p] # "ok"
      BY <2>1, FaultPhases
    <2> QED
      BY <1>18, <2>2, QuietStep DEF Fault
  <1>19. ASSUME NEW p \in Proc, Crash(p) PROVE [WO!Next]_(WO!vars)
    BY <1>19, QuietStep DEF Crash
  <1>20. ASSUME NEW m \in Name, Meddle(m) PROVE [WO!Next]_(WO!vars)
    BY <1>20, MeddleTampers
  <1>21. ASSUME PowerLoss PROVE [WO!Next]_(WO!vars)
    BY <1>21, LossIsOutage DEF WO!Next
  <1>22. CASE UNCHANGED sysVars
    <2>1. Store' = Store
      BY <1>22, StoreKept DEF sysVars
    <2>2. Outcome' = Outcome /\ meddled' = meddled
      BY <1>22 DEF sysVars, Outcome
    <2> QED
      BY <2>1, <2>2 DEF WO!vars
  <1> QED
    BY <1>1, <1>2, <1>3, <1>4, <1>5, <1>6, <1>7, <1>8, <1>9, <1>10, <1>11,
       <1>12, <1>13, <1>14, <1>15, <1>16, <1>17, <1>18, <1>19, <1>20,
       <1>21, <1>22
    DEF Next, Step, AllDone, vars

\* The store starts empty but for files of others.
LEMMA RefinesInit == Init => WO!Init
  <1> SUFFICES ASSUME Init PROVE WO!Init
    OBVIOUS
  <1>1. \A d \in Dests : dir[d] \in {Nothing, Foreign}
    BY DestApart DEF Init, Dests
  <1>2. \A d \in Dests : Content(dir[d]) \in {Nothing, Foreign}
    BY <1>1, PublishAssumption DEF Content
  <1>3. Store \in [WO!Dests -> {Nothing, Foreign}]
    BY <1>2 DEF Store, Dests, WO!Dests
  <1>4. Outcome = [p \in Proc |-> "pending"] /\ meddled \cap Dests = {}
    BY DEF Init, Outcome
  <1> QED
    BY <1>3, <1>4 DEF WO!Init

\* commit_open_file and its callers implement the store of WriteOnce.
THEOREM PublishRefines == Spec => ImplementsWriteOnce
  <1>1. IInv => ReadsWhole
    BY WholeReads
  <1> QED
    BY <1>1, Invariance, RefinesInit, RefinesStep, PTL
    DEF Spec, ImplementsWriteOnce, WO!Spec
-----------------------------------------------------------------------------
(* How a publication ends: after a bounded number of calls, and if nobody  *)
(* but publishers is there, with a file under the name.                    *)

\* The calls still to be made at most from the call s on, with t names tried
\* and w blocks written.
Calls(s, t, w) ==
    CASE s = "start"      -> 11 + Size + (MaxTries - t)
      [] s = "made"       -> 11 + Size
      [] s = "checked"    -> 10 + Size
      [] s = "discard"    -> 2
      [] s = "discarding" -> 1
      [] s = "writing"    -> 9 + (Size - w)
      [] s = "synced"     -> 8
      [] s = "cloned"     -> 7
      [] s = "stated"     -> 6
      [] s = "opened"     -> 5
      [] s = "verified"   -> 4
      [] s = "rollback"   -> 3
      [] s = "unlinking"  -> 2
      [] s = "resync"     -> 1
      [] OTHER            -> 0

CallsLeft(p) == Calls(pc[p], tries[p], written[p])

\* A call, whether it succeeds or fails, leaves its publisher fewer, and
\* nobody else's leaves it more.
Shortens(p) ==
    /\ CallsLeft(p)' <= CallsLeft(p)
    /\ Step(p) \/ Fault(p) \/ Crash(p) => CallsLeft(p)' < CallsLeft(p)

\* Only a publisher that is done has none left.
LEMMA CallsCounted ==
    ASSUME NEW s \in Phase, NEW t \in 0..MaxTries, NEW w \in 0..Size,
           s = "start" => t < MaxTries
    PROVE  /\ Calls(s, t, w) \in 0..11 + Size + MaxTries
           /\ Calls(s, t, w) = 0 <=> s \in Done
           /\ s = "start" => Calls(s, t, w) > 11 + Size
  <1>1. Size \in Nat /\ Size > 0 /\ MaxTries \in Nat /\ MaxTries > 0
    BY PublishAssumption
  <1> QED
    BY <1>1 DEF Calls, Phase, Done

\* Which call may follow which, other than the end.
Follows == {<<"start", "start">>, <<"start", "made">>,
            <<"made", "checked">>, <<"made", "discard">>,
            <<"checked", "writing">>, <<"checked", "discard">>,
            <<"discard", "discarding">>,
            <<"writing", "writing">>, <<"writing", "synced">>, <<"synced", "cloned">>,
            <<"cloned", "stated">>, <<"cloned", "rollback">>,
            <<"stated", "opened">>, <<"stated", "rollback">>,
            <<"opened", "verified">>, <<"opened", "rollback">>,
            <<"verified", "rollback">>, <<"rollback", "unlinking">>,
            <<"unlinking", "resync">>}

\* A publisher that goes from one call to another has tried another name or
\* written another block, or the call is another one.
Moves(p) ==
    /\ pc[p] \notin Done
    /\ pc'[p] \in Phase
    /\ pc'[p] \in Done \/ <<pc[p], pc'[p]>> \in Follows
    /\ pc'[p] = "start" => tries'[p] = tries[p] + 1 /\ pc[p] = "start"
    /\ pc'[p] = "writing" => written'[p] = IF pc[p] = "writing" THEN written[p] + 1 ELSE written[p]

Others(p) == \A q \in Proc \ {p} : pc'[q] = pc[q] /\ tries'[q] = tries[q] /\ written'[q] = written[q]

LEMMA OwnSteps ==
    ASSUME TypeOK, NEW p \in Proc, Step(p) \/ Fault(p) \/ Crash(p)
    PROVE  Moves(p) /\ Others(p)
  <1> USE DEF TypeOK, Goto, procVars, Done, Phase, Moves, Others, Follows
  <1>1. ASSUME NEW n \in TempName, Create(p, n) PROVE Moves(p) /\ Others(p)
    BY <1>1 DEF Create
  <1>2. ASSUME NEW n \in TempName, Collide(p, n) PROVE Moves(p) /\ Others(p)
    <2>1. tries'[p] = tries[p] + 1
      BY <1>2 DEF Collide
    <2>2. pc'[p] \in {"start", "failed"} /\ pc[p] = "start"
      BY <1>2 DEF Collide
    <2> QED
      BY <1>2, <2>1, <2>2 DEF Collide
  <1>3. CASE Inspect(p)
    BY <1>3 DEF Inspect
  <1>4. CASE UnlinkTemp(p)
    BY <1>4 DEF UnlinkTemp
  <1>5. CASE Discard(p)
    BY <1>5 DEF Discard
  <1>6. CASE DiscardUnlink(p)
    BY <1>6 DEF DiscardUnlink
  <1>7. CASE WriteBlock(p)
    BY <1>7 DEF WriteBlock
  <1>8. CASE SyncFile(p)
    BY <1>8 DEF SyncFile
  <1>9. CASE CloneFile(p)
    BY <1>9 DEF CloneFile
  <1>10. CASE CloneRefused(p)
    BY <1>10 DEF CloneRefused
  <1>11. CASE StatCreated(p)
    BY <1>11 DEF StatCreated
  <1>12. CASE OpenCreated(p)
    BY <1>12 DEF OpenCreated
  <1>13. CASE Verify(p)
    BY <1>13 DEF Verify
  <1>14. CASE SyncDir(p)
    BY <1>14 DEF SyncDir
  <1>15. CASE Rollback(p)
    BY <1>15 DEF Rollback
  <1>16. CASE RollbackUnlink(p)
    BY <1>16 DEF RollbackUnlink
  <1>17. CASE RollbackSync(p)
    BY <1>17 DEF RollbackSync
  <1>18. CASE Fault(p)
    <2>1. pc'[p] \in {"discard", "rollback", "failed"} /\ pc[p] \in Phase \ Done
      BY <1>18, FaultPhases DEF Fault
    <2>2. pc'[p] \in Done \/ <<pc[p], pc'[p]>> \in Follows
      BY <1>18, <2>1, FaultPhases DEF Fault
    <2> QED
      BY <1>18, <2>1, <2>2 DEF Fault
  <1>19. CASE Crash(p)
    BY <1>19 DEF Crash
  <1> QED
    BY <1>1, <1>2, <1>3, <1>4, <1>5, <1>6, <1>7, <1>8, <1>9, <1>10, <1>11, <1>12,
       <1>13, <1>14, <1>15, <1>16, <1>17, <1>18, <1>19
    DEF Step

\* A call costs one: what may follow it leaves fewer.
LEMMA MovesShorten ==
    ASSUME IInv, IInv', NEW p \in Proc, Moves(p)
    PROVE  CallsLeft(p)' < CallsLeft(p)
  <1>1. /\ Size \in Nat /\ Size > 0 /\ MaxTries \in Nat /\ MaxTries > 0
        /\ tries[p] \in 0..MaxTries /\ written[p] \in 0..Size
        /\ tries'[p] \in 0..MaxTries /\ written'[p] \in 0..Size
        /\ pc[p] \in Phase /\ pc'[p] \in Phase
        /\ pc[p] = "start" => tries[p] < MaxTries
    BY PublishAssumption DEF IInv, TypeOK, TriesLeft
  <1>2. /\ CallsLeft(p) \in Nat /\ CallsLeft(p) > 0
        /\ pc[p] = "start" => CallsLeft(p) > 11 + Size
    BY CallsCounted, <1>1 DEF Moves, CallsLeft
  <1>3. CASE pc'[p] \in Done
    <2>1. CallsLeft(p)' = 0
      BY <1>3 DEF CallsLeft, Calls, Done
    <2> QED
      BY <1>2, <2>1
  <1>4. CASE pc'[p] = "start"
    <2>1. pc[p] = "start" /\ tries'[p] = tries[p] + 1
      BY <1>4 DEF Moves
    <2> QED
      BY <1>1, <1>4, <2>1 DEF CallsLeft, Calls
  <1>5. CASE pc'[p] = "writing"
    <2>1. /\ pc[p] \in {"checked", "writing"}
          /\ written'[p] = IF pc[p] = "writing" THEN written[p] + 1 ELSE written[p]
      BY <1>5 DEF Moves, Follows, Done
    <2> QED
      BY <1>1, <1>5, <2>1 DEF CallsLeft, Calls
  <1>6. CASE pc'[p] \notin Done \cup {"start", "writing"}
    <2>1. <<pc[p], pc'[p]>> \in Follows
      BY <1>6 DEF Moves
    <2>2. CASE pc[p] = "start"
      <3>1. pc'[p] = "made"
        BY <1>6, <2>1, <2>2 DEF Follows
      <3>2. CallsLeft(p)' = 11 + Size
        BY <3>1 DEF CallsLeft, Calls
      <3> QED
        BY <1>1, <1>2, <2>2, <3>2
    <2>3. CASE pc[p] # "start"
      BY <1>1, <1>6, <2>1, <2>3 DEF Follows, CallsLeft, Calls
    <2> QED
      BY <2>2, <2>3
  <1> QED
    BY <1>3, <1>4, <1>5, <1>6

\* No step of a publication leaves any publisher more calls.
LEMMA CallsStep ==
    ASSUME IInv, IInv', [Next]_vars, NEW p \in Proc
    PROVE  Shortens(p)
  <1>1. CallsLeft(p) \in Nat /\ CallsLeft(p)' \in Nat
    <2>1. /\ Size \in Nat /\ MaxTries \in Nat
          /\ CallsLeft(p) \in 0..11 + Size + MaxTries
      BY CallsCounted, PublishAssumption DEF IInv, TypeOK, TriesLeft, CallsLeft
    <2>2. CallsLeft(p)' \in 0..11 + Size + MaxTries
      BY CallsCounted DEF IInv, TypeOK, TriesLeft, CallsLeft
    <2> QED
      BY <2>1, <2>2
  <1>2. CASE Step(p) \/ Fault(p) \/ Crash(p)
    <2>1. CallsLeft(p)' < CallsLeft(p)
      BY <1>2, OwnSteps, MovesShorten DEF IInv
    <2> QED
      BY <1>1, <2>1 DEF Shortens
  <1>3. ASSUME ~(Step(p) \/ Fault(p) \/ Crash(p)), CallsLeft(p)' = CallsLeft(p)
        PROVE  Shortens(p)
    BY <1>1, <1>3 DEF Shortens
  <1>4. ASSUME ~(Step(p) \/ Fault(p) \/ Crash(p)),
               NEW q \in Proc, Step(q) \/ Fault(q) \/ Crash(q)
        PROVE  CallsLeft(p)' = CallsLeft(p)
    <2>1. p # q /\ Others(q)
      BY <1>4, OwnSteps DEF IInv
    <2> QED
      BY <2>1 DEF Others, CallsLeft
  <1>5. ASSUME NEW n \in Name, Meddle(n) PROVE CallsLeft(p)' = CallsLeft(p)
    BY <1>5 DEF Meddle, procVars, CallsLeft
  <1>6. CASE UNCHANGED sysVars
    <2>1. CallsLeft(p)' = CallsLeft(p)
      BY <1>6 DEF sysVars, procVars, CallsLeft
    <2> QED
      BY <1>2, <1>3, <2>1
  <1>7. CASE PowerLoss
    <2>1. /\ pc'[p] = IF pc[p] \in Done \cup {"start"} THEN pc[p] ELSE "crashed"
          /\ tries' = tries /\ written' = written
      BY <1>7 DEF PowerLoss
    <2>2. CASE pc[p] \in Done \cup {"start"}
      <3>1. CallsLeft(p)' = CallsLeft(p)
        BY <2>1, <2>2 DEF CallsLeft
      <3> QED
        BY <1>2, <1>3, <3>1
    <2>3. CASE pc[p] \notin Done \cup {"start"}
      <3>1. CallsLeft(p)' = 0
        BY <2>1, <2>3 DEF CallsLeft, Calls
      <3>2. pc[p] \in Phase \ Done /\ CallsLeft(p) >= 0
        BY <2>3, CallsCounted DEF IInv, TypeOK, TriesLeft, CallsLeft
      <3>3. ~(Step(p) \/ Fault(p) \/ Crash(p)) => Shortens(p)
        BY <3>1, <3>2 DEF Shortens
      <3> QED
        BY <1>2, <3>3
    <2> QED
      BY <2>2, <2>3
  <1> QED
    BY <1>2, <1>3, <1>4, <1>5, <1>6, <1>7 DEF Next, AllDone, vars

\* However often calls fail and rivals take names, a publication takes at most
\* MaxTries + Size + 11 steps, cleanup included, and stops only when it is done:
\* the tries for a temporary name are bounded, and no error path leads back
\* (_filesystem.py, lines 411-556).
THEOREM CallsAreBounded ==
    Spec => /\ [](\A p \in Proc : /\ CallsLeft(p) \in 0..11 + Size + MaxTries
                                  /\ CallsLeft(p) = 0 <=> pc[p] \in Done)
            /\ [][\A p \in Proc : Shortens(p)]_vars
  <1>1. IInv => \A p \in Proc : /\ CallsLeft(p) \in 0..11 + Size + MaxTries
                                /\ CallsLeft(p) = 0 <=> pc[p] \in Done
    BY CallsCounted DEF IInv, TypeOK, TriesLeft, CallsLeft
  <1>2. IInv /\ IInv' /\ [Next]_vars => [\A p \in Proc : Shortens(p)]_vars
    BY CallsStep
  <1> QED
    BY <1>1, <1>2, Invariance, PTL DEF Spec

\* Without a fault, a crash, a power loss or an outside program, a publisher is
\* on none of the error paths, and has failed only to a rival, or for want of a
\* temporary name.
Rivalry ==
    ~Disturbed =>
        /\ meddled = {} /\ blind = {}
        /\ \A p \in Proc :
              /\ pc[p] \notin {"discard", "discarding", "rollback", "unlinking", "resync", "crashed"}
              /\ pc[p] \in {"opened", "verified"} => opened[p] = Clone(p)
              /\ pc[p] = "failed" => dir[Dest[p]] # Nothing \/ tries[p] = MaxTries

\* Publishers alone never refuse each other into losing all.
SomebodyWins ==
    \A p \in Proc : ~Disturbed /\ pc[p] \in Done => dir[Dest[p]] # Nothing \/ tries[p] = MaxTries

\* Nobody is disturbed who has not been, and nobody was who is not.
LEMMA Undisturbed ==
    ASSUME TypeOK, TypeOK', [Next]_vars, ~Disturbed'
    PROVE  /\ ~Disturbed /\ used.outages = 0
           /\ \/ \E p \in Proc : Step(p)
              \/ UNCHANGED sysVars
  <1>1. /\ used \in [faults : Nat, meddles : Nat, crashes : Nat, outages : Nat]
        /\ used' \in [faults : Nat, meddles : Nat, crashes : Nat, outages : Nat]
    BY DEF TypeOK
  <1>2. \A k \in {"faults", "meddles", "crashes", "outages"} : used'[k] = 0
    BY <1>1 DEF Disturbed
  <1>3. ASSUME NEW p \in Proc, Fault(p) PROVE FALSE
    BY <1>1, <1>2, <1>3 DEF Fault
  <1>4. ASSUME NEW p \in Proc, Crash(p) PROVE FALSE
    BY <1>1, <1>2, <1>4 DEF Crash
  <1>5. ASSUME NEW n \in Name, Meddle(n) PROVE FALSE
    BY <1>1, <1>2, <1>5 DEF Meddle
  <1>6. CASE PowerLoss
    BY <1>1, <1>2, <1>6 DEF PowerLoss
  <1>7. (\E p \in Proc : Step(p)) \/ UNCHANGED sysVars
    BY <1>3, <1>4, <1>5, <1>6 DEF Next, AllDone, vars
  <1>8. used' = used
    <2>1. ASSUME NEW p \in Proc, Step(p) PROVE used' = used
      BY <2>1 DEF Step, Create, Collide, Inspect, UnlinkTemp, Discard, DiscardUnlink,
         WriteBlock, SyncFile, CloneFile, CloneRefused, StatCreated, OpenCreated, Verify,
         SyncDir, Rollback, RollbackUnlink, RollbackSync
    <2> QED
      BY <1>7, <2>1 DEF sysVars
  <1> QED
    BY <1>2, <1>7, <1>8 DEF Disturbed

\* What undisturbed publishers find is what they left there.
LEMMA FindsOwn ==
    ASSUME IInv, Rivalry, ~Disturbed, used.outages = 0, NEW p \in Proc
    PROVE  /\ pc[p] \in {"made", "checked"} => dir[temp[p]] = Temp(p) /\ temp[p] \in TempName
           /\ pc[p] = "synced" => Nameless(Temp(p))
           /\ pc[p] \in {"cloned", "stated", "opened", "verified", "ok"} =>
                 dir[Dest[p]] = Clone(p) /\ Content(Clone(p)) = Payload[p]
  <1> USE PublishAssumption, FilesDiffer, DestApart DEF IInv, Rivalry
  <1>1. pc[p] \in {"made", "checked"} => dir[temp[p]] = Temp(p) /\ temp[p] \in TempName
    BY DEF TempHeld, HoldsTemp, TypeOK
  <1>2. pc[p] = "synced" => Nameless(Temp(p))
    BY DEF TempTraced, HoldsTemp, Sighted, Nameless
  <1>3. ASSUME pc[p] \in {"cloned", "stated", "opened", "verified", "ok"}
        PROVE  dir[Dest[p]] = Clone(p) /\ Content(Clone(p)) = Payload[p]
    <2>1. dir[Dest[p]] = Clone(p)
      BY <1>3 DEF DestHeld, HoldsDest
    <2>2. Clone(p) \in File /\ Blocks(Clone(p)) = Size /\ Clone(p)[2] = p
      BY <2>1 DEF WholeClones, Blocks, Clone
    <2> QED
      BY <2>1, <2>2 DEF Content
  <1> QED
    BY <1>1, <1>2, <1>3

\* A step of one of them leaves no error behind.
LEMMA RivalStep ==
    ASSUME IInv, Rivalry, ~Disturbed, used.outages = 0, NEW p \in Proc, Step(p)
    PROVE  /\ UNCHANGED <<meddled, blind>>
           /\ \A q \in Proc \ {p} : /\ pc'[q] = pc[q] /\ opened'[q] = opened[q]
                                    /\ tries'[q] = tries[q]
           /\ \A q \in Proc : dir[Dest[q]] # Nothing => dir'[Dest[q]] # Nothing
           /\ pc'[p] \notin {"discard", "discarding", "rollback", "unlinking", "resync", "crashed"}
           /\ pc'[p] \in {"opened", "verified"} => opened'[p] = Clone(p)
           /\ pc'[p] = "failed" => dir'[Dest[p]] # Nothing \/ tries'[p] = MaxTries
  <1> DEFINE Goal ==
           /\ UNCHANGED <<meddled, blind>>
           /\ \A q \in Proc \ {p} : /\ pc'[q] = pc[q] /\ opened'[q] = opened[q]
                                    /\ tries'[q] = tries[q]
           /\ \A q \in Proc : dir[Dest[q]] # Nothing => dir'[Dest[q]] # Nothing
           /\ pc'[p] \notin {"discard", "discarding", "rollback", "unlinking", "resync", "crashed"}
           /\ pc'[p] \in {"opened", "verified"} => opened'[p] = Clone(p)
           /\ pc'[p] = "failed" => dir'[Dest[p]] # Nothing \/ tries'[p] = MaxTries
  <1>0. /\ pc \in [Proc -> Phase] /\ tries \in [Proc -> 0..MaxTries]
        /\ opened \in [Proc -> Entry] /\ dir \in [Name -> Entry]
        /\ \A q \in Proc : Dest[q] \in Name /\ Dest[q] \notin TempName
    BY DestApart DEF IInv, TypeOK
  <1>a. /\ pc[p] \in {"made", "checked"} => dir[temp[p]] = Temp(p) /\ temp[p] \in TempName
        /\ pc[p] = "synced" => Nameless(Temp(p))
        /\ pc[p] \in {"cloned", "stated", "opened", "verified", "ok"} =>
                 dir[Dest[p]] = Clone(p) /\ Content(Clone(p)) = Payload[p]
    BY FindsOwn
  <1>b. /\ pc[p] \notin {"discard", "discarding", "rollback", "unlinking", "resync", "crashed"}
        /\ pc[p] \in {"opened", "verified"} => opened[p] = Clone(p)
    BY DEF Rivalry
  <1> USE <1>0, <1>a, <1>b, PublishAssumption, FilesDiffer DEF Goto, procVars
  <1>1. ASSUME NEW n \in TempName, Create(p, n) PROVE Goal
    BY <1>1 DEF Create
  <1>2. ASSUME NEW n \in TempName, Collide(p, n) PROVE Goal
    <2>1. /\ pc'[p] = "failed" => tries'[p] = MaxTries
          /\ pc'[p] \in {"start", "failed"}
      BY <1>2 DEF Collide
    <2> QED
      BY <1>2, <2>1 DEF Collide
  <1>3. CASE Inspect(p)
    BY <1>3 DEF Inspect
  <1>4. CASE UnlinkTemp(p)
    BY <1>4 DEF UnlinkTemp
  <1>5. CASE WriteBlock(p)
    BY <1>5 DEF WriteBlock
  <1>6. CASE SyncFile(p)
    BY <1>6 DEF SyncFile
  <1>7. CASE CloneFile(p)
    BY <1>7 DEF CloneFile
  <1>8. CASE CloneRefused(p)
    BY <1>8 DEF CloneRefused
  <1>9. CASE StatCreated(p)
    BY <1>9 DEF StatCreated
  <1>10. CASE OpenCreated(p)
    BY <1>10 DEF OpenCreated
  <1>11. CASE Verify(p)
    BY <1>11 DEF Verify, Genuine
  <1>12. CASE SyncDir(p)
    BY <1>12 DEF SyncDir
  <1>13. CASE Discard(p) \/ DiscardUnlink(p) \/ Rollback(p) \/ RollbackUnlink(p) \/ RollbackSync(p)
    BY <1>13 DEF Discard, DiscardUnlink, Rollback, RollbackUnlink, RollbackSync
  <1> QED
    BY <1>1, <1>2, <1>3, <1>4, <1>5, <1>6, <1>7, <1>8, <1>9, <1>10, <1>11, <1>12, <1>13
    DEF Step

\* As long as nothing but publishers is there, that holds.
LEMMA RivalryStep == IInv /\ IInv' /\ Rivalry /\ [Next]_vars => Rivalry'
  <1> SUFFICES ASSUME IInv, IInv', Rivalry, [Next]_vars, ~Disturbed'
               PROVE  Rivalry'
    BY DEF Rivalry
  <1>1. ~Disturbed /\ used.outages = 0 /\ ((\E p \in Proc : Step(p)) \/ UNCHANGED sysVars)
    BY Undisturbed DEF IInv
  <1>2. ASSUME NEW p \in Proc, Step(p) PROVE Rivalry'
    BY <1>1, <1>2, RivalStep DEF Rivalry
  <1>3. CASE UNCHANGED sysVars
    BY <1>1, <1>3 DEF Rivalry, sysVars, procVars
  <1> QED
    BY <1>1, <1>2, <1>3

\* Where RivalsDecide ends: when the publishers of a name are done and nothing
\* else has happened, a file stands under the name, unless they ran out of
\* temporary names; a clone that finds its name taken, and nothing else, makes
\* commit_open_file fail.
THEOREM SomebodyWinsAlways == Spec => []SomebodyWins
  <1>1. Init => Rivalry
    BY DEF Init, Rivalry
  <1>2. Spec => []Rivalry
    BY <1>1, RivalryStep, Invariance, PTL DEF Spec
  <1>3. IInv /\ Rivalry => SomebodyWins
    BY FilesDiffer DEF IInv, Rivalry, DestHeld, HoldsDest, SomebodyWins, Done
  <1> QED
    BY <1>2, <1>3, Invariance, PTL
=============================================================================
