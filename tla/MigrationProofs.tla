--------------------------- MODULE MigrationProofs ---------------------------
(***************************************************************************)
(* What module Migration guarantees for any number of processes, contents  *)
(* and backup names.                                                       *)
(***************************************************************************)
EXTENDS Migration, TLAPS

\* The steps that end a call.
Returns(p) ==
    \/ OpenExisting(p) \/ LockTimeout(p) \/ RefuseCorrupt(p) \/ ImportRejected(p)
    \/ IOFailure(p) \/ ReopenFails(p) \/ Sweep(p)

\* What they come to: a code, no lock, and nothing left of what was read.
LEMMA ReturnStep ==
  ASSUME TypeOK, NEW p \in Procs, Returns(p)
  PROVE  /\ UNCHANGED disk
         /\ tmp' \in [Procs -> {Absent, Tables} \cup Libraries]
         /\ pc[p] # "sweep" => \A q \in Procs \ {p} : tmp'[q] = tmp[q]
         /\ \E code \in Success \cup Retryable \cup Terminal : Return(p, code)
<1> USE DEF TypeOK
<1>1. CASE Sweep(p)
  <2>1. \E removed \in SUBSET Procs :
           tmp' = [q \in Procs |-> IF q \in removed THEN Absent ELSE tmp[q]]
    BY <1>1 DEF Sweep
  <2>2. tmp' \in [Procs -> {Absent, Tables} \cup Libraries]
    BY <2>1
  <2>3. QED
    BY <1>1, <2>2 DEF Sweep, Success
<1>2. CASE ~Sweep(p)
  <2>1. UNCHANGED disk /\ tmp' \in {[tmp EXCEPT ![p] = Absent], tmp}
    BY <1>2 DEF Returns, OpenExisting, LockTimeout, RefuseCorrupt,
         ImportRejected, IOFailure, ReopenFails
  <2>2. \E code \in Success \cup Retryable \cup Terminal : Return(p, code)
    BY <1>2 DEF Returns, OpenExisting, OpenErrors, LockTimeout, RefuseCorrupt,
         ImportRejected, IOFailure, ReopenFails, BuildErrors, Success,
         Retryable, Terminal
  <2>3. QED
    BY <2>1, <2>2
<1>3. QED
  BY <1>1, <1>2

\* Every variable keeps its type, through every step of every actor.
THEOREM Typing == Spec => []TypeOK
<1> USE DataAssumption, DatabaseAssumption
    DEF TypeOK, Sources, Labels, Running, Locked, Building, Finishing,
        Success, Retryable, Terminal, disk
<1>1. Init => TypeOK
  <2> SUFFICES ASSUME Init PROVE TypeOK
    OBVIOUS
  <2>1. backups \in [Files -> [BackupNames -> Sources]]
    <3>1. \A f \in Files : backups[f] \in [BackupNames -> Sources]
      BY DEF Init
    <3>2. QED
      BY <3>1 DEF Init
  <2>2. QED
    BY <2>1 DEF Init, Nothing
<1>2. TypeOK /\ [Next]_vars => TypeOK'
  <2> SUFFICES ASSUME TypeOK, [Next]_vars PROVE TypeOK'
    OBVIOUS
  <2>0. Nothing \in [Files -> Content \cup {Absent}]
    BY DEF Nothing
  <2>1. ASSUME NEW p \in Procs, Enter(p) PROVE TypeOK'
    BY <2>1 DEF Enter, Goto
  <2>2. ASSUME NEW p \in Procs, Returns(p) PROVE TypeOK'
    <3> USE DEF Return
    <3>1. /\ snap' = [snap EXCEPT ![p] = Nothing]
          /\ hash' = [hash EXCEPT ![p] = Nothing]
      BY <2>2, ReturnStep
    <3>2. /\ snap' \in [Procs -> [Files -> Content \cup {Absent}]]
          /\ hash' \in [Procs -> [Files -> Content \cup {Absent}]]
      BY <2>0, <3>1
    <3>3. PICK code \in Success \cup Retryable \cup Terminal : Return(p, code)
      BY <2>2, ReturnStep
    <3>4. pc' \in [Procs -> Labels] /\ lock' \in Procs \cup {NoOwner}
      BY <3>3 DEF Goto, Release
    <3>5. result' \in [Procs -> {"none"} \cup Success \cup Retryable \cup Terminal]
      BY <3>3
    <3>6. QED
      BY <2>2, <3>2, <3>4, <3>5, ReturnStep
  <2>3. ASSUME NEW p \in Procs, AcquireLock(p) PROVE TypeOK'
    BY <2>3 DEF AcquireLock, Goto
  <2>4. ASSUME NEW p \in Procs, Recheck(p) PROVE TypeOK'
    BY <2>4 DEF Recheck, Goto
  <2>5. ASSUME NEW p \in Procs, ReadSources(p) PROVE TypeOK'
    <3>1. PICK f \in Files, label \in Labels, next \in Labels :
               ReadSource(p, f, label, next)
      BY <2>5 DEF ReadSources, Files
    <3>2. {Parsed(src[f])} \cup Corrupt \subseteq Content \cup {Absent}
      BY DEF Parsed
    <3>3. snap' \in [Procs -> [Files -> Content \cup {Absent}]]
      BY <3>1, <3>2 DEF ReadSource
    <3>4. QED
      BY <3>1, <3>3 DEF ReadSource, Goto
  <2>6. ASSUME NEW p \in Procs, AcceptSources(p) PROVE TypeOK'
    BY <2>6 DEF AcceptSources, Goto
  <2>7. ASSUME NEW p \in Procs, HashSources(p) PROVE TypeOK'
    <3>1. PICK f \in Files, label \in Labels, next \in Labels :
               HashSource(p, f, label, next)
      BY <2>7 DEF HashSources, Files
    <3>2. Digests(snap[p][f], src[f]) \subseteq Content \cup {Absent}
      BY DEF Digests, Parsed
    <3>3. hash' \in [Procs -> [Files -> Content \cup {Absent}]]
      BY <3>1, <3>2 DEF HashSource
    <3>4. QED
      BY <3>1, <3>3 DEF HashSource, Goto
  <2>8. ASSUME NEW p \in Procs, ClearTemp(p) \/ OpenTemp(p) PROVE TypeOK'
    BY <2>8 DEF ClearTemp, OpenTemp, Goto
  <2>9. ASSUME NEW p \in Procs, ImportCommits(p) PROVE TypeOK'
    BY <2>9 DEF ImportCommits, Imported, Libraries, Goto
  <2>11. ASSUME NEW p \in Procs, Install(p) PROVE TypeOK'
    BY <2>11 DEF Install, Goto
  <2>12. ASSUME NEW p \in Procs, Reopen(p) PROVE TypeOK'
    BY <2>12 DEF Reopen, Goto
  <2>13. ASSUME NEW p \in Procs, BackupSources(p) PROVE TypeOK'
    <3>1. PICK f \in Files, label \in Labels, next \in Labels :
               BackupSource(p, f, label, next)
      BY <2>13 DEF BackupSources, Files
    <3>2. src' \in [Files -> Sources]
      BY <3>1 DEF BackupSource, BackUp
    <3>3. backups' \in [Files -> [BackupNames -> Sources]]
      <4>1. CASE \E n \in BackupNames : BackUp(f, n)
        <5>1. PICK n \in BackupNames : BackUp(f, n)
          BY <4>1
        <5>2. [backups[f] EXCEPT ![n] = src[f]] \in [BackupNames -> Sources]
          OBVIOUS
        <5>3. QED
          BY <5>1, <5>2 DEF BackUp
      <4>2. CASE UNCHANGED <<backups, src>>
        BY <4>2
      <4>3. QED
        BY <3>1, <4>1, <4>2 DEF BackupSource
    <3>4. QED
      BY <3>1, <3>2, <3>3 DEF BackupSource, Goto
  <2>15. ASSUME NEW p \in Procs, Crash(p) PROVE TypeOK'
    <3>1. /\ snap' \in [Procs -> [Files -> Content \cup {Absent}]]
          /\ hash' \in [Procs -> [Files -> Content \cup {Absent}]]
      BY <2>0, <2>15 DEF Crash
    <3>2. QED
      BY <2>15, <3>1 DEF Crash, Goto, Release
  <2>16. CASE Environment
    BY <2>16 DEF Environment, DesktopUpgrade, DesktopSave
  <2>17. CASE UNCHANGED vars
    BY <2>17 DEF vars
  <2>18. QED
    BY <2>1, <2>2, <2>3, <2>4, <2>5, <2>6, <2>7, <2>8, <2>9, <2>11, <2>12,
       <2>13, <2>15, <2>16, <2>17 DEF Next, Step, Returns
<1>3. QED
  BY <1>1, <1>2, PTL DEF Spec

------------------------------------------------------------------------------
(* The lock.                                                               *)

\* A step that takes no lock keeps it from everyone else: whoever is past the
\* acquisition holds migration.lock, after any step.
LEMMA HolderStep ==
  ASSUME TypeOK, HolderOnly, [Next]_vars
  PROVE  HolderOnly'
<1> USE DataAssumption
    DEF TypeOK, HolderOnly, Labels, Running, Locked, Building, Finishing,
        Success, Goto, Release, Return
<1>1. ASSUME NEW p \in Procs, Enter(p) \/ AcquireLock(p)
      PROVE  HolderOnly'
  BY <1>1 DEF Enter, AcquireLock
<1>2. ASSUME NEW p \in Procs, Returns(p) PROVE HolderOnly'
  <2>1. /\ pc'[p] \in {"done", "failed"}
        /\ lock' = IF lock = p THEN NoOwner ELSE lock
        /\ \A q \in Procs \ {p} : pc'[q] = pc[q]
    BY <1>2, ReturnStep
  <2>2. QED
    BY <2>1
<1>3. ASSUME NEW p \in Procs,
             Recheck(p) \/ ReadSources(p) \/ AcceptSources(p) \/ HashSources(p)
             \/ ClearTemp(p) \/ OpenTemp(p) \/ ImportCommits(p) \/ Install(p)
             \/ Reopen(p) \/ BackupSources(p)
      PROVE  HolderOnly'
  BY <1>3 DEF Recheck, ReadSources, ReadSource, AcceptSources, HashSources,
              HashSource, ClearTemp, OpenTemp, ImportCommits, Install, Reopen,
              BackupSources, BackupSource
<1>4. ASSUME NEW p \in Procs, Crash(p) PROVE HolderOnly'
  BY <1>4 DEF Crash
<1>5. CASE Environment
  BY <1>5 DEF Environment, DesktopUpgrade, DesktopSave
<1>6. CASE UNCHANGED vars
  BY <1>6 DEF vars
<1>7. QED
  BY <1>1, <1>2, <1>3, <1>4, <1>5, <1>6 DEF Next, Step, Returns

------------------------------------------------------------------------------
(* What the lock protects.                                                 *)

\* Only the holder installs, so a database cannot appear under a process that
\* has re-checked its absence, nor change under the one that installed it.
LEMMA DatabaseStep ==
  ASSUME TypeOK, HolderOnly, NotYetInstalled, InstalledItsOwn,
         BuildUndisturbed, [Next]_vars
  PROVE  NotYetInstalled' /\ InstalledItsOwn'
<1> USE DataAssumption
    DEF TypeOK, HolderOnly, NotYetInstalled, InstalledItsOwn, Labels, Running,
        Locked, Building, Finishing, Goto, Return, disk
<1>0. ASSUME NEW p \in Procs, Returns(p) \/ Crash(p)
      PROVE  NotYetInstalled' /\ InstalledItsOwn'
  <2>1. UNCHANGED db /\ pc'[p] \in {"idle", "done", "failed"}
    BY <1>0, ReturnStep DEF Crash
  <2>2. \A q \in Procs \ {p} : UNCHANGED <<pc[q], snap[q], hash[q]>>
    BY <1>0, ReturnStep DEF Crash
  <2>3. QED
    BY <2>1, <2>2
<1>1. ASSUME NEW p \in Procs,
             Enter(p) \/ AcquireLock(p) \/ Recheck(p) \/ AcceptSources(p)
             \/ ClearTemp(p) \/ OpenTemp(p) \/ ImportCommits(p)
      PROVE  NotYetInstalled' /\ InstalledItsOwn'
  BY <1>1 DEF Enter, AcquireLock, Recheck, AcceptSources, ClearTemp, OpenTemp,
       ImportCommits
<1>2. ASSUME NEW p \in Procs,
             ReadSources(p) \/ HashSources(p) \/ BackupSources(p)
      PROVE  NotYetInstalled' /\ InstalledItsOwn'
  BY <1>2 DEF ReadSources, ReadSource, HashSources, HashSource, BackupSources,
       BackupSource
<1>3. ASSUME NEW p \in Procs, Install(p)
      PROVE  NotYetInstalled' /\ InstalledItsOwn'
  BY <1>3 DEF Install, BuildUndisturbed
<1>4. ASSUME NEW p \in Procs, Reopen(p)
      PROVE  NotYetInstalled' /\ InstalledItsOwn'
  BY <1>4 DEF Reopen
<1>5. CASE Environment
  BY <1>5 DEF Environment, DesktopUpgrade, DesktopSave
<1>6. CASE UNCHANGED vars
  BY <1>6 DEF vars
<1>7. QED
  BY <1>0, <1>1, <1>2, <1>3, <1>4, <1>5, <1>6 DEF Next, Step, Returns

\* What a process has read of a file and hashed, if that succeeded, stays that of
\* the file until the library is in place: no host renames a source before that,
\* and a desktop's save is on record.
LEMMA SourcesStep ==
  ASSUME TypeOK, HolderOnly, SourcesAsRead, [Next]_vars
  PROVE  SourcesAsRead'
<1> USE DataAssumption
    DEF TypeOK, HolderOnly, ReadBy, HashedBy, Labels, Running, Locked,
        Building, Finishing, Goto, Return, disk
<1> SUFFICES ASSUME NEW q \in Procs, NEW f \in Files \ saved'
             PROVE  /\ pc'[q] \in ReadBy(f) =>
                          snap'[q][f] \in {Parsed(src'[f])} \cup Corrupt
                    /\ pc'[q] \in HashedBy(f) =>
                          hash'[q][f] \in {Parsed(src'[f]), Absent}
  BY DEF SourcesAsRead
<1> DEFINE AsRead == /\ pc[q] \in ReadBy(f) =>
                           snap[q][f] \in {Parsed(src[f])} \cup Corrupt
                     /\ pc[q] \in HashedBy(f) =>
                           hash[q][f] \in {Parsed(src[f]), Absent}
<1>0. f = "snippets" \/ f = "config"
  BY DEF Files
<1>1. f \notin saved => AsRead
  BY DEF SourcesAsRead
<1>2. ASSUME NEW p \in Procs,
             Enter(p) \/ AcquireLock(p) \/ Returns(p) \/ Crash(p)
      PROVE  AsRead'
  <2>1. pc'[p] \notin Building /\ UNCHANGED <<src, saved>>
    BY <1>2, ReturnStep DEF Enter, AcquireLock, Crash
  <2>2. q # p => UNCHANGED <<pc[q], snap[q], hash[q]>>
    BY <1>2, ReturnStep DEF Enter, AcquireLock, Crash
  <2>3. QED
    BY <1>0, <1>1, <2>1, <2>2
<1>3. ASSUME NEW p \in Procs,
             Recheck(p) \/ AcceptSources(p) \/ ClearTemp(p) \/ OpenTemp(p)
             \/ ImportCommits(p) \/ Install(p) \/ Reopen(p)
      PROVE  AsRead'
  <2>1. UNCHANGED <<src, saved, snap, hash>>
    BY <1>3 DEF Recheck, AcceptSources, ClearTemp, OpenTemp, ImportCommits,
         Install, Reopen
  <2>2. CASE Recheck(p) \/ AcceptSources(p)
    <3>1. /\ pc'[q] \in ReadBy(f) => pc[q] \in ReadBy(f)
          /\ pc'[q] \in HashedBy(f) => pc[q] \in HashedBy(f)
      BY <1>0, <2>2 DEF Recheck, AcceptSources
    <3>2. QED
      BY <1>1, <2>1, <3>1
  <2>3. CASE ClearTemp(p) \/ OpenTemp(p) \/ ImportCommits(p)
    <3>1. /\ pc'[q] \in ReadBy(f) => pc[q] \in ReadBy(f)
          /\ pc'[q] \in HashedBy(f) => pc[q] \in HashedBy(f)
      BY <1>0, <2>3 DEF ClearTemp, OpenTemp, ImportCommits
    <3>2. QED
      BY <1>1, <2>1, <3>1
  <2>4. CASE Install(p) \/ Reopen(p)
    <3>1. /\ pc'[q] \in ReadBy(f) => pc[q] \in ReadBy(f)
          /\ pc'[q] \in HashedBy(f) => pc[q] \in HashedBy(f)
      BY <1>0, <2>4 DEF Install, Reopen
    <3>2. QED
      BY <1>1, <2>1, <3>1
  <2>5. QED
    BY <1>3, <2>2, <2>3, <2>4
<1>4. ASSUME NEW p \in Procs, ReadSources(p) PROVE AsRead'
  <2>1. CASE ReadSource(p, "snippets", "readSnippets", "readConfig")
    <3>1. PICK load \in {Parsed(src["snippets"])} \cup Corrupt :
             snap' = [snap EXCEPT ![p]["snippets"] = load]
      BY <2>1 DEF ReadSource
    <3>2. QED
      BY <1>0, <1>1, <2>1, <3>1 DEF ReadSource
  <2>2. CASE ReadSource(p, "config", "readConfig", "check")
    <3>1. PICK load \in {Parsed(src["config"])} \cup Corrupt :
             snap' = [snap EXCEPT ![p]["config"] = load]
      BY <2>2 DEF ReadSource
    <3>2. QED
      BY <1>0, <1>1, <2>2, <3>1 DEF ReadSource
  <2>3. QED
    BY <1>4, <2>1, <2>2 DEF ReadSources
<1>5. ASSUME NEW p \in Procs, HashSources(p) PROVE AsRead'
  <2>1. CASE HashSource(p, "snippets", "hashSnippets", "hashConfig")
    <3>1. PICK digest \in {Absent, Parsed(src["snippets"])} :
             hash' = [hash EXCEPT ![p]["snippets"] = digest]
      BY <2>1 DEF HashSource, Digests
    <3>2. QED
      BY <1>0, <1>1, <2>1, <3>1 DEF HashSource
  <2>2. CASE HashSource(p, "config", "hashConfig", "clearTemp")
    <3>1. PICK digest \in {Absent, Parsed(src["config"])} :
             hash' = [hash EXCEPT ![p]["config"] = digest]
      BY <2>2 DEF HashSource, Digests
    <3>2. QED
      BY <1>0, <1>1, <2>2, <3>1 DEF HashSource
  <2>3. QED
    BY <1>5, <2>1, <2>2 DEF HashSources
<1>6. ASSUME NEW p \in Procs, BackupSources(p) PROVE AsRead'
  <2>1. pc'[q] \notin Building
    BY <1>6 DEF BackupSources, BackupSource
  <2>2. QED
    BY <1>0, <2>1
<1>7. CASE Environment
  BY <1>0, <1>1, <1>7 DEF Environment, DesktopUpgrade, DesktopSave
<1>8. CASE UNCHANGED vars
  BY <1>0, <1>1, <1>8 DEF vars
<1>9. QED
  BY <1>2, <1>3, <1>4, <1>5, <1>6, <1>7, <1>8 DEF Next, Step, Returns

\* What is not accepted is never built, and only the owner of a temporary
\* database, or a sweep under the lock, touches it.
LEMMA BuildStep ==
  ASSUME TypeOK, HolderOnly, OnlyGoodAccepted, BuildUndisturbed, [Next]_vars
  PROVE  OnlyGoodAccepted' /\ BuildUndisturbed'
<1> USE DataAssumption, DatabaseAssumption
    DEF TypeOK, HolderOnly, OnlyGoodAccepted, BuildUndisturbed, Accepted,
        Labels, Running, Locked, Building, Finishing, Goto, Return, disk
<1>0. ASSUME NEW p \in Procs, Returns(p) \/ Crash(p)
      PROVE  OnlyGoodAccepted' /\ BuildUndisturbed'
  <2>1. pc'[p] \in {"idle", "done", "failed"}
    BY <1>0, ReturnStep DEF Crash
  <2>2. \A q \in Procs \ {p} : UNCHANGED <<pc[q], snap[q], hash[q]>>
    BY <1>0, ReturnStep DEF Crash
  <2>3. \A q \in Procs \ {p} :
           pc[q] \in {"import", "install"} => tmp'[q] = tmp[q]
    BY <1>0, ReturnStep DEF Crash
  <2>4. OnlyGoodAccepted'
    BY <2>1, <2>2
  <2>5. BuildUndisturbed'
    BY <2>1, <2>2, <2>3
  <2>6. QED
    BY <2>4, <2>5
<1>1. ASSUME NEW p \in Procs,
             Enter(p) \/ AcquireLock(p) \/ Recheck(p) \/ AcceptSources(p)
             \/ Reopen(p)
      PROVE  OnlyGoodAccepted' /\ BuildUndisturbed'
  BY <1>1 DEF Enter, AcquireLock, Recheck, AcceptSources, Reopen
<1>2. ASSUME NEW p \in Procs,
             ReadSources(p) \/ HashSources(p) \/ BackupSources(p)
      PROVE  OnlyGoodAccepted' /\ BuildUndisturbed'
  BY <1>2 DEF ReadSources, ReadSource, HashSources, HashSource, BackupSources,
       BackupSource
<1>3. ASSUME NEW p \in Procs,
             ClearTemp(p) \/ OpenTemp(p) \/ Install(p)
      PROVE  OnlyGoodAccepted' /\ BuildUndisturbed'
  <2>1. OnlyGoodAccepted'
    BY <1>3 DEF ClearTemp, OpenTemp, Install
  <2>2. \A q \in Procs \ {p} : pc'[q] \notin {"import", "install"}
    BY <1>3 DEF ClearTemp, OpenTemp, Install
  <2>3. pc'[p] # "install" /\ (pc'[p] = "import" => tmp'[p] # Absent)
    BY <1>3 DEF ClearTemp, OpenTemp, Install
  <2>4. QED
    BY <2>1, <2>2, <2>3
<1>4. ASSUME NEW p \in Procs, ImportCommits(p)
      PROVE  OnlyGoodAccepted' /\ BuildUndisturbed'
  <2>1. OnlyGoodAccepted'
    BY <1>4 DEF ImportCommits, CanImport
  <2>2. BuildUndisturbed'
    <3>1. \A q \in Procs \ {p} : pc'[q] \notin {"import", "install"}
      BY <1>4 DEF ImportCommits
    <3>2. pc'[p] = "install" /\ tmp'[p] = Imported(snap'[p], hash'[p])
      BY <1>4 DEF ImportCommits
    <3>3. QED
      BY <3>1, <3>2
  <2>3. QED
    BY <2>1, <2>2
<1>6. CASE Environment
  BY <1>6 DEF Environment, DesktopUpgrade, DesktopSave
<1>7. CASE UNCHANGED vars
  BY <1>7 DEF vars
<1>8. QED
  BY <1>0, <1>1, <1>2, <1>3, <1>4, <1>6, <1>7 DEF Next, Step, Returns

\* The inductive invariant: the lock, and what it keeps still.
THEOREM Invariance == Spec => []IInv
<1> DEFINE Parts == /\ HolderOnly
                    /\ NotYetInstalled
                    /\ InstalledItsOwn
                    /\ SourcesAsRead
                    /\ OnlyGoodAccepted
                    /\ BuildUndisturbed
<1>1. Init => Parts
  BY DEF Init, HolderOnly, NotYetInstalled, InstalledItsOwn, SourcesAsRead,
         OnlyGoodAccepted, BuildUndisturbed, Locked, Building, Finishing,
         ReadBy, HashedBy, Accepted
<1>2. TypeOK /\ Parts /\ [Next]_vars => Parts'
  BY HolderStep, DatabaseStep, SourcesStep, BuildStep
<1>3. TypeOK /\ Parts => IInv
  BY DEF IInv
<1>4. QED
  BY <1>1, <1>2, <1>3, Typing, PTL DEF Spec

------------------------------------------------------------------------------
(* What the invariant is for.                                              *)

\* Only Install writes copyit.db.
LEMMA OnlyInstallWrites ==
  ASSUME [Next]_vars, \A p \in Procs : ~Install(p)
  PROVE  db' = db
BY DEF Next, Step, vars, disk, Enter, OpenExisting, AcquireLock, LockTimeout,
       Recheck, ReadSources, ReadSource, RefuseCorrupt, AcceptSources,
       HashSources, HashSource, ClearTemp, OpenTemp, ImportCommits,
       ImportRejected, IOFailure, Reopen, ReopenFails, BackupSources,
       BackupSource, Sweep, Crash, Environment, DesktopUpgrade, DesktopSave

\* No step of any process replaces an installed database: the process that
\* would rename over it has re-checked under the lock that there is none.
THEOREM InstalledOnce == Spec => InstallOnce
<1>1. IInv /\ [Next]_vars => [db # Absent => db' = db]_vars
  <2> SUFFICES ASSUME IInv, [Next]_vars, db # Absent PROVE db' = db
    OBVIOUS
  <2>1. \A p \in Procs : ~Install(p)
    BY DEF IInv, NotYetInstalled, Install, Building
  <2>2. QED
    BY <2>1, OnlyInstallWrites
<1>2. QED
  BY <1>1, Invariance, PTL DEF Spec, InstallOnce

\* What a process at its rename has built is whole.
LEMMA BuiltIsComplete ==
  ASSUME IInv, NEW p \in Procs, Install(p)
  PROVE  /\ db' = Imported(snap[p], hash[p])
         /\ Complete(db')
         /\ db'.from = snap[p]
         /\ db'.hash = hash[p]
         /\ db'.kind = IF HasUserData(snap[p]) THEN "migrated" ELSE "seeded"
<1>1. /\ db' = Imported(snap[p], hash[p])
      /\ \A f \in Files : snap[p][f] \notin Corrupt \cup Unimportable
  BY DEF Install, IInv, BuildUndisturbed, OnlyGoodAccepted, Accepted
<1>2. /\ snap[p] \in [Files -> Content \cup {Absent}]
      /\ hash[p] \in [Files -> Content \cup {Absent}]
  BY DEF IInv, TypeOK
<1>3. /\ db'.from = snap[p]
      /\ db'.hash = hash[p]
      /\ db'.kind = IF HasUserData(snap[p]) THEN "migrated" ELSE "seeded"
  BY <1>1 DEF Imported
<1>4. db' \in Libraries
  BY <1>1, <1>2 DEF Imported, Libraries
<1>5. QED
  BY <1>1, <1>3, <1>4 DEF Complete

\* copyit.db is whole whenever it exists, whatever crashed before.
THEOREM Wholeness == Spec => []LibraryComplete
<1>1. Init => LibraryComplete
  BY DEF Init, LibraryComplete
<1>2. IInv /\ LibraryComplete /\ [Next]_vars => LibraryComplete'
  <2> SUFFICES ASSUME IInv, LibraryComplete, [Next]_vars
               PROVE  LibraryComplete'
    OBVIOUS
  <2>1. ASSUME NEW p \in Procs, Install(p) PROVE LibraryComplete'
    BY <2>1, BuiltIsComplete DEF LibraryComplete
  <2>2. CASE \A p \in Procs : ~Install(p)
    <3>1. db' = db
      BY <2>2, OnlyInstallWrites
    <3>2. QED
      BY <3>1 DEF LibraryComplete, Complete
  <2>3. QED
    BY <2>1, <2>2
<1>3. QED
  BY <1>1, <1>2, Invariance, PTL DEF Spec

------------------------------------------------------------------------------
(* The user's sources.                                                     *)

\* What a host does to the sources: it moves one to a free backup name.
MovesAside(p, f, n) ==
    /\ pc[p] \in {"backupSnippets", "backupConfig"}
    /\ BackUp(f, n)
    /\ UNCHANGED <<db, saved, tmp>>

\* The legacy files change in three ways only.
LEMMA FileSteps ==
  ASSUME TypeOK, [Next]_vars
  PROVE  \/ \E f \in Files, c \in DesktopWrites : DesktopSave(f, c)
         \/ \E p \in Procs, f \in Files, n \in BackupNames : MovesAside(p, f, n)
         \/ UNCHANGED <<src, backups, saved>>
<1>1. ASSUME NEW p \in Procs, BackupSources(p)
      PROVE  \/ \E f \in Files, n \in BackupNames : MovesAside(p, f, n)
             \/ UNCHANGED <<src, backups, saved>>
  <2>1. PICK f \in Files :
           /\ pc[p] \in {"backupSnippets", "backupConfig"}
           /\ \/ \E n \in BackupNames : BackUp(f, n)
              \/ UNCHANGED <<backups, src>>
           /\ UNCHANGED <<db, saved, tmp>>
    BY <1>1 DEF BackupSources, BackupSource, Files
  <2>2. QED
    BY <2>1 DEF MovesAside
<1>2. ASSUME NEW p \in Procs, Enter(p) \/ Step(p) \/ Crash(p),
             ~BackupSources(p)
      PROVE  UNCHANGED <<src, backups, saved>>
  BY <1>2 DEF Step, disk, Enter, OpenExisting, AcquireLock, LockTimeout,
       Recheck, ReadSources, ReadSource, RefuseCorrupt, AcceptSources,
       HashSources, HashSource, ClearTemp, OpenTemp, ImportCommits,
       ImportRejected, IOFailure, Install, Reopen, ReopenFails, Sweep, Crash
<1>3. CASE Environment
  BY <1>3 DEF Environment, DesktopUpgrade
<1>4. CASE UNCHANGED vars
  BY <1>4 DEF vars, disk
<1>5. QED
  BY <1>1, <1>2, <1>3, <1>4 DEF Next

\* No host step loses a byte of a source or of a backup.
THEOREM NeverLost == Spec => SourcesNeverLost
<1> DEFINE Kept ==
      \A f \in Files :
         /\ src'[f] # src[f] =>
              \/ src'[f] \in DesktopWrites
              \/ /\ src'[f] = Absent
                 /\ \E n \in BackupNames : /\ backups[f][n] = Absent
                                           /\ backups'[f][n] = src[f]
         /\ \A n \in BackupNames :
                backups[f][n] # Absent => backups'[f][n] = backups[f][n]
<1>1. TypeOK /\ [Next]_vars => [Kept]_vars
  <2> SUFFICES ASSUME TypeOK, [Next]_vars PROVE Kept
    OBVIOUS
  <2> USE DEF TypeOK
  <2>1. ASSUME NEW f \in Files, NEW c \in DesktopWrites, DesktopSave(f, c)
        PROVE  Kept
    BY <2>1 DEF DesktopSave
  <2>2. ASSUME NEW p \in Procs, NEW f \in Files, NEW n \in BackupNames,
               MovesAside(p, f, n)
        PROVE  Kept
    <3>1. /\ src' = [src EXCEPT ![f] = Absent]
          /\ backups' = [backups EXCEPT ![f][n] = src[f]]
          /\ backups[f][n] = Absent
      BY <2>2 DEF MovesAside, BackUp, Free
    <3>2. backups'[f][n] = src[f]
      BY <3>1
    <3>3. \A g \in Files, m \in BackupNames :
             g # f \/ m # n => backups'[g][m] = backups[g][m]
      BY <3>1
    <3>4. QED
      BY <3>1, <3>2, <3>3
  <2>3. CASE UNCHANGED <<src, backups, saved>>
    BY <2>3
  <2>4. QED
    BY <2>1, <2>2, <2>3, FileSteps
<1>2. QED
  BY <1>1, Typing, PTL DEF Spec, SourcesNeverLost

\* What a file or its backups hold, they hold after any step, unless an old
\* desktop saves to that file.
LEMMA StoredStays ==
  ASSUME TypeOK, [Next]_vars, NEW f \in Files \ saved'
  PROVE  /\ f \notin saved
         /\ Stored(f) \ {Absent} \subseteq Stored(f)'
         /\ src'[f] \in {src[f], Absent}
<1> USE DEF TypeOK, Stored
<1>1. ASSUME NEW g \in Files, NEW c \in DesktopWrites, DesktopSave(g, c)
      PROVE  f \notin saved /\ f # g /\ UNCHANGED <<src[f], backups[f]>>
  BY <1>1 DEF DesktopSave
<1>2. ASSUME NEW p \in Procs, NEW g \in Files, NEW n \in BackupNames,
             MovesAside(p, g, n)
      PROVE  /\ f \notin saved
             /\ Stored(f) \ {Absent} \subseteq Stored(f)'
             /\ src'[f] \in {src[f], Absent}
  <2>1. /\ src' = [src EXCEPT ![g] = Absent]
        /\ backups' = [backups EXCEPT ![g][n] = src[g]]
        /\ backups[g][n] = Absent
        /\ saved' = saved
    BY <1>2 DEF MovesAside, BackUp, Free
  <2>2. CASE f # g
    BY <2>1, <2>2
  <2>3. CASE f = g
    <3>1. backups'[f][n] = src[f]
      BY <2>1, <2>3
    <3>2. \A m \in BackupNames \ {n} : backups'[f][m] = backups[f][m]
      BY <2>1, <2>3
    <3>3. QED
      BY <2>1, <2>3, <3>1, <3>2
  <2>4. QED
    BY <2>2, <2>3
<1>3. QED
  BY <1>1, <1>2, FileSteps

\* What a process imports is what the files hold, however often reading failed.
LEMMA ImportsTheFiles ==
  ASSUME IInv, NEW p \in Procs, pc[p] \in {"import", "install"},
         NEW f \in Files \ saved
  PROVE  snap[p][f] = Parsed(src[f])
<1>1. snap[p][f] \in {Parsed(src[f])} \cup Corrupt
  BY DEF IInv, SourcesAsRead, ReadBy, Building
<1>2. snap[p][f] \notin Corrupt
  BY DEF IInv, OnlyGoodAccepted, Accepted
<1>3. QED
  BY <1>1, <1>2

\* The seed never takes the place of the user's library.
THEOREM SeedOnlyOnEmpty == Spec => []SeedOnlyWhenEmpty
<1>1. Init => SeedOnlyWhenEmpty
  BY DEF Init, SeedOnlyWhenEmpty
<1>2. IInv /\ SeedOnlyWhenEmpty /\ [Next]_vars => SeedOnlyWhenEmpty'
  <2> SUFFICES ASSUME IInv, SeedOnlyWhenEmpty, [Next]_vars,
                      db' # Absent, db'.kind = "seeded",
                      NEW f \in Files \ saved'
               PROVE  src'[f] \in {Absent, Blank}
    BY DEF SeedOnlyWhenEmpty
  <2>1. f \notin saved /\ src'[f] \in {src[f], Absent}
    BY StoredStays DEF IInv
  <2>2. ASSUME NEW p \in Procs, Install(p)
        PROVE  src[f] \in {Absent, Blank}
    <3>1. ~HasUserData(snap[p])
      BY <2>2, BuiltIsComplete
    <3>2. snap[p][f] = Parsed(src[f])
      BY <2>1, <2>2, ImportsTheFiles DEF Install
    <3>3. QED
      BY <3>1, <3>2 DEF HasUserData, Parsed
  <2>3. CASE \A p \in Procs : ~Install(p)
    BY <2>1, <2>3, OnlyInstallWrites DEF SeedOnlyWhenEmpty
  <2>4. QED
    BY <2>1, <2>2, <2>3
<1>3. QED
  BY <1>1, <1>2, Invariance, PTL DEF Spec

\* A temporary database gets rows only by an import.
LEMMA TempSteps ==
  ASSUME TypeOK, [Next]_vars, NEW q \in Procs, tmp'[q] \in Libraries
  PROVE  \/ tmp'[q] = tmp[q]
         \/ ImportCommits(q) /\ tmp'[q] = Imported(snap[q], hash[q])
<1> USE DatabaseAssumption DEF TypeOK
<1>1. ASSUME NEW p \in Procs, ImportCommits(p)
      PROVE  \/ tmp'[q] = tmp[q]
             \/ ImportCommits(q) /\ tmp'[q] = Imported(snap[q], hash[q])
  BY <1>1 DEF ImportCommits
<1>2. ASSUME NEW p \in Procs,
             ClearTemp(p) \/ OpenTemp(p) \/ ImportRejected(p) \/ Install(p)
             \/ Sweep(p)
      PROVE  tmp'[q] = tmp[q]
  BY <1>2 DEF ClearTemp, OpenTemp, ImportRejected, Install, Sweep
<1>3. ASSUME NEW p \in Procs,
             Enter(p) \/ OpenExisting(p) \/ AcquireLock(p) \/ LockTimeout(p)
             \/ Recheck(p) \/ ReadSources(p) \/ RefuseCorrupt(p)
             \/ AcceptSources(p) \/ HashSources(p) \/ IOFailure(p) \/ Reopen(p)
             \/ ReopenFails(p) \/ BackupSources(p) \/ Crash(p)
      PROVE  tmp' = tmp
  BY <1>3 DEF Enter, OpenExisting, AcquireLock, LockTimeout, Recheck,
       ReadSources, ReadSource, RefuseCorrupt, AcceptSources, HashSources,
       HashSource, IOFailure, Reopen, ReopenFails, BackupSources, BackupSource,
       Crash
<1>4. CASE Environment
  BY <1>4 DEF Environment, DesktopUpgrade, DesktopSave
<1>5. CASE UNCHANGED vars
  BY <1>5 DEF vars
<1>6. QED
  BY <1>1, <1>2, <1>3, <1>4, <1>5 DEF Next, Step

\* No database ever holds the only copy of the user's data.
THEOREM NoOnlyCopy == Spec => []NothingUnique
<1> DEFINE Safe(l) == l \in Libraries =>
                        \A f \in Files \ saved :
                           l.from[f] # Absent => l.from[f] \in Stored(f)
<1> DEFINE StillSafe(l) == l \in Libraries =>
                             \A f \in Files \ saved' :
                                l.from[f] # Absent => l.from[f] \in Stored(f)'
<1>1. Init => NothingUnique
  BY DatabaseAssumption DEF Init, NothingUnique
<1>2. IInv /\ NothingUnique /\ [Next]_vars => NothingUnique'
  <2> SUFFICES ASSUME IInv, NothingUnique, [Next]_vars PROVE NothingUnique'
    OBVIOUS
  <2>1. Safe(db) /\ \A p \in Procs : Safe(tmp[p])
    BY DEF NothingUnique
  <2>2. ASSUME NEW l, Safe(l) PROVE StillSafe(l)
    <3> SUFFICES ASSUME l \in Libraries, NEW f \in Files \ saved',
                        l.from[f] # Absent
                 PROVE  l.from[f] \in Stored(f)'
      OBVIOUS
    <3>1. f \notin saved /\ Stored(f) \ {Absent} \subseteq Stored(f)'
      BY StoredStays DEF IInv
    <3>2. QED
      BY <2>2, <3>1
  <2>3. ASSUME NEW p \in Procs, ImportCommits(p)
        PROVE  Safe(Imported(snap[p], hash[p]))
    <3> SUFFICES ASSUME NEW f \in Files \ saved, snap[p][f] # Absent
                 PROVE  snap[p][f] \in Stored(f)
      BY DEF Imported
    <3>1. snap[p][f] = Parsed(src[f])
      BY <2>3, ImportsTheFiles DEF ImportCommits
    <3>2. QED
      BY <3>1 DEF Parsed, Stored
  <2>4. \A p \in Procs : tmp'[p] \in Libraries => StillSafe(tmp'[p])
    <3> SUFFICES ASSUME NEW p \in Procs, tmp'[p] \in Libraries
                 PROVE  StillSafe(tmp'[p])
      OBVIOUS
    <3>1. CASE tmp'[p] = tmp[p]
      BY <2>1, <2>2, <3>1
    <3>2. CASE /\ ImportCommits(p)
               /\ tmp'[p] = Imported(snap[p], hash[p])
      BY <2>2, <2>3, <3>2
    <3>3. QED
      BY <3>1, <3>2, TempSteps DEF IInv
  <2>5. StillSafe(db')
    <3>1. ASSUME NEW p \in Procs, Install(p) PROVE StillSafe(db')
      BY <2>1, <2>2, <3>1 DEF Install
    <3>2. CASE \A p \in Procs : ~Install(p)
      BY <2>1, <2>2, <3>2, OnlyInstallWrites
    <3>3. QED
      BY <3>1, <3>2
  <2>6. QED
    BY <2>4, <2>5 DEF NothingUnique
<1>3. QED
  BY <1>1, <1>2, Invariance, PTL DEF Spec

------------------------------------------------------------------------------
(* The abstract library.                                                   *)

\* Every step of every process, desktop and crash is a step of module Library
\* or none: seen from outside the lock, the migration is one atomic
\* installation followed by the retirement of the sources.
THEOREM Implements == Spec => Refinement
<1> USE DataAssumption
<1>1. Init => Promise!Init
  <2> SUFFICES ASSUME Init PROVE Promise!Init
    OBVIOUS
  <2>1. \A f \in Files : Parsed(src[f]) \in Content \cup {Absent}
    BY DEF Init, Parsed, Sources
  <2>2. QED
    BY <2>1 DEF Init, Promise!Init, Promise!Files, Files
<1>2. IInv /\ [Next]_vars => [Promise!Next]_Promise!vars
  <2> SUFFICES ASSUME IInv, [Next]_vars
               PROVE  Promise!Next \/ UNCHANGED Promise!vars
    OBVIOUS
  <2> USE DEF Promise!Files, Files
  <2>1. ASSUME NEW p \in Procs, Install(p) PROVE Promise!Install
    <3>1. UNCHANGED <<src, backups, saved>> /\ db = Absent
      BY <2>1 DEF Install, IInv, NotYetInstalled, Building
    <3>2. Complete(db') /\ db'.from = snap[p] /\ db'.hash = hash[p]
      BY <2>1, BuiltIsComplete
    <3>3. Promise!Complete(db')
      <4>1. db' \in Promise!Libraries
        BY <3>2 DEF Complete, Libraries, Promise!Libraries
      <4>2. \A f \in Files : db'.from[f] \in Content \cup {Absent}
        BY <3>2 DEF Complete, Libraries
      <4>3. QED
        BY <3>2, <4>1, <4>2 DEF Complete, HasUserData, Promise!Complete
    <3>4. \A f \in Files \ saved :
             /\ snap[p][f] = Parsed(src[f])
             /\ hash[p][f] \in {Parsed(src[f]), Absent}
      BY <2>1, ImportsTheFiles DEF IInv, SourcesAsRead, Install, HashedBy
    <3>5. QED
      BY <3>1, <3>2, <3>3, <3>4 DEF Promise!Install
  <2>2. ASSUME NEW f \in Files, NEW c \in DesktopWrites, DesktopSave(f, c)
        PROVE  Promise!Save(f, c)
    <3>1. /\ src' = [src EXCEPT ![f] = c]
          /\ saved' = saved \cup {f}
          /\ UNCHANGED <<db, backups>>
      BY <2>2 DEF DesktopSave
    <3>2. Parsed(c) = c
      BY DEF Parsed
    <3>3. \A g \in Files : src'[g] = IF g = f THEN c ELSE src[g]
      BY <3>1 DEF IInv, TypeOK
    <3>4. [g \in Files |-> Parsed(src'[g])]
             = [[g \in Files |-> Parsed(src[g])] EXCEPT ![f] = c]
      BY <3>2, <3>3
    <3>5. QED
      BY <3>1, <3>4 DEF Promise!Save
  <2>3. ASSUME NEW p \in Procs, NEW f \in Files, NEW n \in BackupNames,
               MovesAside(p, f, n)
        PROVE  Promise!Retire(f) \/ UNCHANGED Promise!vars
    <3>1. /\ src' = [src EXCEPT ![f] = Absent]
          /\ backups' = [backups EXCEPT ![f][n] = src[f]]
          /\ backups[f][n] = Absent
          /\ UNCHANGED <<db, saved>>
      BY <2>3 DEF MovesAside, BackUp, Free
    <3>2. db # Absent /\ db.kind = "migrated"
      <4>1. db = Imported(snap[p], hash[p]) /\ HasUserData(snap[p])
        BY <2>3 DEF MovesAside, IInv, InstalledItsOwn, Finishing
      <4>2. db \in Libraries
        BY <4>1 DEF IInv, TypeOK, Imported, Libraries
      <4>3. QED
        BY <4>1, <4>2, DatabaseAssumption DEF Imported
    <3>3. /\ [g \in Files |-> Parsed(src'[g])]
               = [[g \in Files |-> Parsed(src[g])] EXCEPT ![f] = Absent]
          /\ [g \in Files |-> {backups'[g][m] : m \in BackupNames} \cap Content]
               = [[g \in Files |-> {backups[g][m] : m \in BackupNames}
                                      \cap Content]
                    EXCEPT ![f] = @ \cup ({src[f]} \cap Content)]
      <4>1. \A g \in Files \ {f} : src'[g] = src[g] /\ backups'[g] = backups[g]
        BY <3>1 DEF IInv, TypeOK
      <4>2. src'[f] = Absent /\ Parsed(Absent) = Absent
        BY <3>1 DEF IInv, TypeOK, Parsed
      <4>3. {backups'[f][m] : m \in BackupNames} \cap Content
              = ({backups[f][m] : m \in BackupNames} \cap Content)
                  \cup ({src[f]} \cap Content)
        <5>1. backups'[f][n] = src[f]
          BY <3>1 DEF IInv, TypeOK
        <5>2. \A m \in BackupNames \ {n} : backups'[f][m] = backups[f][m]
          BY <3>1 DEF IInv, TypeOK
        <5>3. ASSUME NEW x \in Content
              PROVE  (\E m \in BackupNames : x = backups'[f][m])
                       <=> (\E m \in BackupNames : x = backups[f][m])
                             \/ x = src[f]
          BY <3>1, <5>1, <5>2
        <5>4. QED
          BY <5>3
      <4>4. [g \in Files |-> Parsed(src'[g])]
               = [[g \in Files |-> Parsed(src[g])] EXCEPT ![f] = Absent]
        BY <4>1, <4>2
      <4> DEFINE Old(g) == {backups[g][m] : m \in BackupNames} \cap Content
                 New(g) == {backups'[g][m] : m \in BackupNames} \cap Content
                 Moved == {src[f]} \cap Content
      <4>5. \A g \in Files : New(g) = IF g = f THEN Old(g) \cup Moved ELSE Old(g)
        BY <4>1, <4>3
      <4>6. [g \in Files |-> New(g)]
               = [[g \in Files |-> Old(g)] EXCEPT ![f] = @ \cup Moved]
        <5> HIDE DEF Old, New, Moved
        <5>1. QED
          BY <4>5
      <4>7. QED
        BY <4>4, <4>6
    <3>4. CASE src[f] \in Content
      <4>1. Parsed(src[f]) = src[f] /\ src[f] # Absent
        BY <3>4 DEF Parsed
      <4>2. {src[f]} \cap Content = {src[f]}
        BY <3>4
      <4>3. [g \in Files |-> {backups'[g][m] : m \in BackupNames} \cap Content]
               = [[g \in Files |-> {backups[g][m] : m \in BackupNames}
                                      \cap Content]
                    EXCEPT ![f] = @ \cup {src[f]}]
        <5> DEFINE K == [g \in Files |-> {backups[g][m] : m \in BackupNames}
                                           \cap Content]
        <5>1. [K EXCEPT ![f] = @ \cup ({src[f]} \cap Content)]
                = [K EXCEPT ![f] = @ \cup {src[f]}]
          BY <4>2
        <5>2. QED
          BY <3>3, <5>1
      <4>4. [g \in Files |-> Parsed(src[g])][f] = src[f]
        BY <4>1
      <4>5. QED
        BY <3>1, <3>2, <3>3, <4>1, <4>3, <4>4 DEF Promise!Retire
    <3>5. CASE src[f] \notin Content
      <4>1. Parsed(src[f]) = Absent
        BY <3>5 DEF Parsed, IInv, TypeOK, Sources
      <4>2. QED
        BY <3>1, <3>3, <3>5, <4>1 DEF Promise!vars
    <3>6. QED
      BY <3>4, <3>5
  <2>4. CASE UNCHANGED <<src, backups, saved>> /\ \A p \in Procs : ~Install(p)
    BY <2>4, OnlyInstallWrites DEF Promise!vars
  <2>5. QED
    BY <2>1, <2>2, <2>3, <2>4, FileSteps DEF IInv, Promise!Next
<1>3. QED
  BY <1>1, <1>2, Invariance, PTL DEF Spec, Refinement, Promise!Spec
==============================================================================
