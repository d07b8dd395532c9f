------------------------------ MODULE Migration ------------------------------
(***************************************************************************)
(* ensure_canonical_db (native-host/src/migration.rs): any number of       *)
(* processes (native hosts, and desktops that speak the same protocol)     *)
(* open one data directory at the same time.  The first to hold            *)
(* migration.lock imports the legacy JSON into a temporary database, and   *)
(* installs it with one rename; the others find it installed.  A process   *)
(* may crash between any two steps, and a desktop of the JSON era, which   *)
(* knows nothing of the lock, may save its files at any time.              *)
(*                                                                         *)
(* A file's bytes are a member of Content; what the import does with them  *)
(* (rows, categories, verification) is abstracted to whether it succeeds.  *)
(***************************************************************************)
EXTENDS FiniteSets

CONSTANTS
    Procs,         \* process ids (the <pid> of copyit.db.migrating.<pid>)
    Content,       \* the non-blank contents a legacy JSON file can have
    Corrupt,       \* contents that are not the JSON expected of the file
    Unimportable,  \* contents that parse but fail to insert or to verify
    DesktopWrites, \* contents an old, JSON-writing desktop may save
    OldBackups,    \* contents that backups of earlier migrations may hold
    BackupNames,   \* names unique_backup_path can give to a backup
    Absent,        \* no such file
    Blank,         \* a file of zero bytes or white space only
    Tables,        \* a database with the schema and no rows
    NoOwner        \* nobody holds migration.lock

ASSUME DataAssumption ==
    /\ Corrupt \subseteq Content
    /\ Unimportable \subseteq Content
    /\ DesktopWrites \subseteq Content
    /\ OldBackups \subseteq Content
    /\ Absent \notin Content
    /\ Blank \notin Content
    /\ Absent # Blank
    /\ NoOwner \notin Procs

Files == {"snippets", "config"}
Sources == Content \cup {Absent, Blank}

\* A database with every row of an import: where its rows came from, and the
\* digests in migration_meta (a digest is represented by what was hashed).
Libraries == [kind : {"migrated", "seeded"},
              from : [Files -> Content \cup {Absent}],
              hash : [Files -> Content \cup {Absent}]]

\* Absent, Tables and the libraries are different database files.
ASSUME DatabaseAssumption ==
    /\ Absent \notin Libraries
    /\ Tables \notin Libraries
    /\ Absent # Tables

Success == {"ready", "migrated", "seeded"}
Retryable == {"database_busy", "migration_in_progress"}
Terminal == {"legacy_data_corrupt", "migration_failed", "database_unavailable",
             "unsupported_schema_version"}

\* Where a process is in ensure_canonical_db.
Building == {"readSnippets", "readConfig", "check", "hashSnippets",
             "hashConfig", "clearTemp", "openTemp", "import", "install"}
Finishing == {"reopen", "backupSnippets", "backupConfig", "sweep"}
Locked == {"recheck", "openLocked"} \cup Building \cup Finishing
Running == {"openFast", "wait"} \cup Locked
Labels == {"idle", "done", "failed"} \cup Running

VARIABLES
    db,       \* copyit.db
    tooNew,   \* its schema was upgraded past what this code supports
    src,      \* the legacy JSON files
    backups,  \* their backups, by name
    tmp,      \* copyit.db.migrating.<pid>
    lock,     \* the holder of migration.lock
    saved,    \* history: the files an old desktop has saved to
    pc,       \* per process: the next step of ensure_canonical_db
    snap,     \* per process: the sources as parsed, Absent for Missing
    hash,     \* per process: the sources as hashed
    result    \* per process: what the last call returned

disk == <<db, tooNew, src, backups, saved>>
vars == <<disk, tmp, lock, pc, snap, hash, result>>

------------------------------------------------------------------------------
Nothing == [f \in Files |-> Absent]

Init ==
    /\ db = Absent
    /\ tooNew = FALSE
    /\ src \in [Files -> Sources]
    /\ backups \in [Files -> [BackupNames -> OldBackups \cup {Absent}]]
    /\ tmp = [p \in Procs |-> Absent]
    /\ lock = NoOwner
    /\ saved = {}
    /\ pc = [p \in Procs |-> "idle"]
    /\ snap = [p \in Procs |-> Nothing]
    /\ hash = [p \in Procs |-> Nothing]
    /\ result = [p \in Procs |-> "none"]

Goto(p, label) == pc' = [pc EXCEPT ![p] = label]

\* A plausible bug: a damaged file counts as missing.
ParsedLenient(bytes) == IF bytes \in Corrupt \cup {Blank} THEN Absent ELSE bytes

\* What read_source says of a file, Missing and the absent file being one.
Parsed(bytes) == IF bytes = Blank THEN Absent ELSE bytes

HasUserData(sources) == \E f \in Files : sources[f] # Absent

\* A plausible bug: the kind does not depend on what was found.
ImportedAlways(sources, digests) ==
    [kind |-> "migrated", from |-> sources, hash |-> digests]

\* The database an import of these sources commits.
Imported(sources, digests) ==
    [kind |-> IF HasUserData(sources) THEN "migrated" ELSE "seeded",
     from |-> sources,
     hash |-> digests]

\* Dropping the guard, or the death of the process, releases the lock.
Release(p) == lock' = IF lock = p THEN NoOwner ELSE lock

\* The call returns; what it read is forgotten.
Return(p, code) ==
    /\ Goto(p, IF code \in Success THEN "done" ELSE "failed")
    /\ result' = [result EXCEPT ![p] = code]
    /\ snap' = [snap EXCEPT ![p] = Nothing]
    /\ hash' = [hash EXCEPT ![p] = Nothing]
    /\ Release(p)

------------------------------------------------------------------------------
\* A call starts: the first one, or another after a retryable failure.
Enter(p) ==
    /\ pc[p] = "idle" \/ (pc[p] = "failed" /\ result[p] \in Retryable)
    /\ Goto(p, IF db # Absent THEN "openFast" ELSE "wait")
    /\ result' = [result EXCEPT ![p] = "none"]
    /\ UNCHANGED <<disk, tmp, lock, snap, hash>>

\* Opening a database switches it to WAL, checks its version and its health.
OpenErrors == {"database_busy", "database_unavailable"} \cup
              (IF tooNew THEN {"unsupported_schema_version"} ELSE {})

OpenExisting(p) ==
    /\ pc[p] \in {"openFast", "openLocked"}
    /\ \/ ~tooNew /\ Return(p, "ready")
       \/ \E code \in OpenErrors : Return(p, code)
    /\ UNCHANGED <<disk, tmp>>

\* A plausible bug: a lock that excludes nobody.
AcquireFreely(p) ==
    /\ pc[p] = "wait"
    /\ lock' = p
    /\ Goto(p, "recheck")
    /\ UNCHANGED <<disk, tmp, snap, hash, result>>

AcquireLock(p) ==
    /\ pc[p] = "wait"
    /\ lock = NoOwner
    /\ lock' = p
    /\ Goto(p, "recheck")
    /\ UNCHANGED <<disk, tmp, snap, hash, result>>

\* LOCK_WAIT_BUDGET is spent; the last try_lock_exclusive failed too.
LockTimeout(p) ==
    /\ pc[p] = "wait"
    /\ lock # NoOwner
    /\ Return(p, "migration_in_progress")
    /\ UNCHANGED <<disk, tmp>>

\* A plausible bug: the holder trusts what it saw before it waited.
NoRecheck(p) ==
    /\ pc[p] = "recheck"
    /\ Goto(p, "readSnippets")
    /\ UNCHANGED <<disk, tmp, lock, snap, hash, result>>

Recheck(p) ==
    /\ pc[p] = "recheck"
    /\ Goto(p, IF db # Absent THEN "openLocked" ELSE "readSnippets")
    /\ UNCHANGED <<disk, tmp, lock, snap, hash, result>>

\* A file that cannot be read just then counts as a corrupt one; why a source
\* is corrupt makes no difference.
ReadSource(p, f, label, next) ==
    /\ pc[p] = label
    /\ \E load \in {Parsed(src[f])} \cup Corrupt :
           snap' = [snap EXCEPT ![p][f] = load]
    /\ Goto(p, next)
    /\ UNCHANGED <<disk, tmp, lock, hash, result>>

ReadSources(p) ==
    \/ ReadSource(p, "snippets", "readSnippets", "readConfig")
    \/ ReadSource(p, "config", "readConfig", "check")

\* A corrupt source ends the call: it is neither imported nor seeded over.
RefuseCorrupt(p) ==
    /\ pc[p] = "check"
    /\ \E f \in Files : snap[p][f] \in Corrupt
    /\ Return(p, "legacy_data_corrupt")
    /\ UNCHANGED <<disk, tmp>>

AcceptSources(p) ==
    /\ pc[p] = "check"
    /\ \A f \in Files : snap[p][f] \notin Corrupt
    /\ Goto(p, "hashSnippets")
    /\ UNCHANGED <<disk, tmp, lock, snap, hash, result>>

\* What hash_file can make of a source that was loaded: the digest of the file
\* as it is by now, or "none", for any error of reading it again.  A source
\* that was not loaded has none.
Digests(load, bytes) ==
    {Absent} \cup (IF load = Absent THEN {} ELSE {Parsed(bytes)})

HashSource(p, f, label, next) ==
    /\ pc[p] = label
    /\ \E digest \in Digests(snap[p][f], src[f]) :
           hash' = [hash EXCEPT ![p][f] = digest]
    /\ Goto(p, next)
    /\ UNCHANGED <<disk, tmp, lock, snap, result>>

HashSources(p) ==
    \/ HashSource(p, "snippets", "hashSnippets", "hashConfig")
    \/ HashSource(p, "config", "hashConfig", "clearTemp")

\* A leftover of a crashed process with the same pid; a failure is ignored.
ClearTemp(p) ==
    /\ pc[p] = "clearTemp"
    /\ tmp' \in {[tmp EXCEPT ![p] = Absent], tmp}
    /\ Goto(p, "openTemp")
    /\ UNCHANGED <<disk, lock, snap, hash, result>>

OpenTemp(p) ==
    /\ pc[p] = "openTemp"
    /\ tmp' = [tmp EXCEPT ![p] = IF @ = Absent THEN Tables ELSE @]
    /\ Goto(p, "import")
    /\ UNCHANGED <<disk, lock, snap, hash, result>>

\* A plausible bug: what was inserted is not verified before the commit.
CanImportUnverified(p) == tmp[p] = Tables

\* Rows go in only if none are there, and commit only if they verify.
CanImport(p) ==
    /\ tmp[p] = Tables
    /\ \A f \in Files : snap[p][f] \notin Unimportable

ImportCommits(p) ==
    /\ pc[p] = "import"
    /\ CanImport(p)
    /\ tmp' = [tmp EXCEPT ![p] = Imported(snap[p], hash[p])]
    /\ Goto(p, "install")
    /\ UNCHANGED <<disk, lock, snap, hash, result>>

\* A plausible bug: a rejected import is tried again at once.
ImportRetried(p) ==
    /\ pc[p] = "import"
    /\ ~CanImport(p)
    /\ Goto(p, "clearTemp")
    /\ UNCHANGED <<disk, tmp, lock, snap, hash, result>>

\* What a statement of the import can fail with.
BuildErrors == {"migration_failed", "database_busy", "database_unavailable"}

\* An insert or the verification fails: roll back and remove the temporary
\* database; a failing removal is ignored.
ImportRejected(p) ==
    /\ pc[p] = "import"
    /\ tmp' \in {[tmp EXCEPT ![p] = Absent], tmp}
    /\ \E code \in IF CanImport(p) THEN BuildErrors ELSE {"migration_failed"} :
           Return(p, code)
    /\ UNCHANGED disk

\* An error that is passed up with ?: the temporary database stays as it is.
IOFailure(p) ==
    /\ \/ pc[p] = "wait" /\ Return(p, "migration_failed")
       \/ /\ pc[p] \in {"openTemp", "import", "install"}
          /\ \E code \in BuildErrors : Return(p, code)
    /\ UNCHANGED <<disk, tmp>>

\* std::fs::rename replaces whatever has the name copyit.db.
Install(p) ==
    /\ pc[p] = "install"
    /\ db' = tmp[p]
    /\ tmp' = [tmp EXCEPT ![p] = Absent]
    /\ Goto(p, "reopen")
    /\ UNCHANGED <<tooNew, src, backups, saved, lock, snap, hash, result>>

Reopen(p) ==
    /\ pc[p] = "reopen"
    /\ ~tooNew
    /\ Goto(p, IF HasUserData(snap[p]) THEN "backupSnippets" ELSE "sweep")
    /\ UNCHANGED <<disk, tmp, lock, snap, hash, result>>

\* The ? after the rename: no backups, no sweep.
ReopenFails(p) ==
    /\ pc[p] = "reopen"
    /\ \E code \in OpenErrors : Return(p, code)
    /\ UNCHANGED <<disk, tmp>>

\* A plausible bug: the backup name is not checked.
AnyName(f) == BackupNames

\* unique_backup_path gives the source a name no file has.
Free(f) == {n \in BackupNames : backups[f][n] = Absent}

\* A plausible bug: an imported source is removed, not renamed.
Remove(f, n) ==
    /\ src[f] # Absent
    /\ n \in Free(f)
    /\ src' = [src EXCEPT ![f] = Absent]
    /\ UNCHANGED backups

BackUp(f, n) ==
    /\ src[f] # Absent
    /\ n \in Free(f)
    /\ backups' = [backups EXCEPT ![f][n] = src[f]]
    /\ src' = [src EXCEPT ![f] = Absent]

\* Absent, out of names, or the rename failed: reported, never fatal.
BackupSource(p, f, label, next) ==
    /\ pc[p] = label
    /\ \/ \E n \in BackupNames : BackUp(f, n)
       \/ UNCHANGED <<backups, src>>
    /\ Goto(p, next)
    /\ UNCHANGED <<db, tooNew, saved, tmp, lock, snap, hash, result>>

BackupSources(p) ==
    \/ BackupSource(p, "snippets", "backupSnippets", "backupConfig")
    \/ BackupSource(p, "config", "backupConfig", "sweep")

\* Every temporary database goes, of whatever process; failures are ignored.
Sweep(p) ==
    /\ pc[p] = "sweep"
    /\ \E removed \in SUBSET Procs :
           tmp' = [q \in Procs |-> IF q \in removed THEN Absent ELSE tmp[q]]
    /\ Return(p, IF HasUserData(snap[p]) THEN "migrated" ELSE "seeded")
    /\ UNCHANGED disk

Step(p) ==
    \/ OpenExisting(p) \/ AcquireLock(p) \/ LockTimeout(p) \/ Recheck(p)
    \/ ReadSources(p) \/ RefuseCorrupt(p) \/ AcceptSources(p)
    \/ HashSources(p) \/ ClearTemp(p) \/ OpenTemp(p)
    \/ ImportCommits(p) \/ ImportRejected(p) \/ IOFailure(p)
    \/ Install(p) \/ Reopen(p) \/ ReopenFails(p)
    \/ BackupSources(p) \/ Sweep(p)

------------------------------------------------------------------------------
\* The process exits or is killed; the operating system drops its lock.
Crash(p) ==
    /\ pc[p] # "idle"
    /\ Goto(p, "idle")
    /\ Release(p)
    /\ snap' = [snap EXCEPT ![p] = Nothing]
    /\ hash' = [hash EXCEPT ![p] = Nothing]
    /\ result' = [result EXCEPT ![p] = "none"]
    /\ UNCHANGED <<disk, tmp>>

\* A desktop of the JSON era saves a file; it takes no lock.
DesktopSave(f, c) ==
    /\ src' = [src EXCEPT ![f] = c]
    /\ saved' = saved \cup {f}
    /\ UNCHANGED <<db, tooNew, backups, tmp, lock, pc, snap, hash, result>>

\* A newer desktop upgrades the schema of the installed database.
DesktopUpgrade ==
    /\ db # Absent
    /\ ~tooNew
    /\ tooNew' = TRUE
    /\ UNCHANGED <<db, src, backups, saved, tmp, lock, pc, snap, hash, result>>

Environment ==
    \/ DesktopUpgrade
    \/ \E f \in Files, c \in DesktopWrites : DesktopSave(f, c)

Next ==
    \/ \E p \in Procs : Enter(p) \/ Step(p) \/ Crash(p)
    \/ Environment

\* A call that has started is run by its process, which cannot stop halfway
\* unless it crashes; nobody is obliged to start one.
Fairness == \A p \in Procs : WF_vars(Step(p))

Spec == Init /\ [][Next]_vars /\ Fairness

------------------------------------------------------------------------------
TypeOK ==
    /\ db \in {Absent, Tables} \cup Libraries
    /\ tooNew \in BOOLEAN
    /\ src \in [Files -> Sources]
    /\ backups \in [Files -> [BackupNames -> Sources]]
    /\ tmp \in [Procs -> {Absent, Tables} \cup Libraries]
    /\ lock \in Procs \cup {NoOwner}
    /\ saved \in SUBSET Files
    /\ pc \in [Procs -> Labels]
    /\ snap \in [Procs -> [Files -> Content \cup {Absent}]]
    /\ hash \in [Procs -> [Files -> Content \cup {Absent}]]
    /\ result \in [Procs -> {"none"} \cup Success \cup Retryable \cup Terminal]

\* What a file's content is, or was before the migration moved it aside.
Stored(f) == {src[f]} \cup {backups[f][n] : n \in BackupNames}

\* A library is whole: no tables without rows, no import of a source that is
\* corrupt or cannot be imported, and a seed only where no source had data.
Complete(l) ==
    /\ l \in Libraries
    /\ \A f \in Files : l.from[f] \notin Corrupt \cup Unimportable
    /\ l.kind = "seeded" <=> ~HasUserData(l.from)

\* copyit.db is whole from the instant it exists, whatever crashed before: the
\* installed file is a committed and verified import, never a leftover or a
\* half-built temporary database.
LibraryComplete == db # Absent => Complete(db)

\* The seed never takes the place of the user's library: where copyit.db is a
\* seed, neither JSON file has content, except what an old desktop saved while
\* the host was at work.
SeedOnlyWhenEmpty ==
    db # Absent /\ db.kind = "seeded" =>
        \A f \in Files \ saved : src[f] \in {Absent, Blank}

\* No database holds the only copy of the user's data, so that removing any
\* temporary database is safe (the comment on sweep_stale_temp_migrations):
\* what a library was imported from is still in the file or in a backup of it,
\* unless an old desktop has replaced the file.
NothingUnique ==
    \A l \in {db} \cup {tmp[p] : p \in Procs} :
        l \in Libraries =>
            \A f \in Files \ saved :
                l.from[f] # Absent => l.from[f] \in Stored(f)

\* Nobody else touches the temporary database a process is building, the sweep
\* of another process included: what a process installs is the import it made
\* of the sources it read.
BuildUndisturbed ==
    \A p \in Procs :
        /\ pc[p] = "import" => tmp[p] # Absent
        /\ pc[p] = "install" => tmp[p] = Imported(snap[p], hash[p])

\* The library appears once: no step of any process, after any crash, replaces
\* an installed copyit.db, although the rename would (line 529).
InstallOnce == [][db # Absent => db' = db]_vars

\* No host step loses a byte of the user's: a source only ever goes to a backup
\* name that was free (or an old desktop saves over it), and a backup that
\* exists is never overwritten or removed.
SourcesNeverLost ==
    [][\A f \in Files :
           /\ src'[f] # src[f] =>
                  \/ src'[f] \in DesktopWrites
                  \/ /\ src'[f] = Absent
                     /\ \E n \in BackupNames : /\ backups[f][n] = Absent
                                               /\ backups'[f][n] = src[f]
           /\ \A n \in BackupNames :
                  backups[f][n] # Absent => backups'[f][n] = backups[f][n]
      ]_vars

\* Every call returns: a process waiting for the lock gets it or times out,
\* and none waits for another that waits for it.
EveryCallReturns == \A p \in Procs : pc[p] \in Running ~> pc[p] \notin Running

\* The library the protocol promises (module Library).
Promise == INSTANCE Library WITH
    Good <- Content \ (Corrupt \cup Unimportable),
    lib <- db,
    live <- [f \in Files |-> Parsed(src[f])],
    kept <- [f \in Files |-> {backups[f][n] : n \in BackupNames} \cap Content]

Refinement == Promise!Spec

------------------------------------------------------------------------------
(* Why it holds: the inductive invariant.  Only the holder of the lock is  *)
(* between the re-check and the return, so the directory it decides on is  *)
(* the directory it writes to.                                             *)

\* The steps at which a process has read, hashed and accepted a source.
ReadBy(f) == IF f = "snippets" THEN Building \ {"readSnippets"}
                               ELSE Building \ {"readSnippets", "readConfig"}
HashedBy(f) ==
    IF f = "snippets"
    THEN {"hashConfig", "clearTemp", "openTemp", "import", "install"}
    ELSE {"clearTemp", "openTemp", "import", "install"}
Accepted == {"hashSnippets", "hashConfig", "clearTemp", "openTemp", "import",
             "install"}

HolderOnly == \A p \in Procs : pc[p] \in Locked => lock = p

NotYetInstalled == \A p \in Procs : pc[p] \in Building => db = Absent

InstalledItsOwn ==
    \A p \in Procs :
        /\ pc[p] \in Finishing => db = Imported(snap[p], hash[p])
        /\ pc[p] \in {"backupSnippets", "backupConfig"} => HasUserData(snap[p])

\* A file no old desktop has saved to still is what was read from it, unless
\* reading it failed; its digest is of that content, or there is none.
SourcesAsRead ==
    \A p \in Procs : \A f \in Files \ saved :
        /\ pc[p] \in ReadBy(f) => snap[p][f] \in {Parsed(src[f])} \cup Corrupt
        /\ pc[p] \in HashedBy(f) => hash[p][f] \in {Parsed(src[f]), Absent}

OnlyGoodAccepted ==
    \A p \in Procs : \A f \in Files :
        /\ pc[p] \in Accepted => snap[p][f] \notin Corrupt
        /\ pc[p] = "install" => snap[p][f] \notin Unimportable

IInv ==
    /\ TypeOK
    /\ HolderOnly
    /\ NotYetInstalled
    /\ InstalledItsOwn
    /\ SourcesAsRead
    /\ OnlyGoodAccepted
    /\ BuildUndisturbed
==============================================================================
