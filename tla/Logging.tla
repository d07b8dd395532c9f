------------------------------- MODULE Logging --------------------------------
(***************************************************************************)
(* The diagnostic log (native-host/src/logging.rs), shared by the host     *)
(* processes of several browsers.  A host that starts rotates a log above  *)
(* the cap; a host that writes checks the length, then appends.  Nothing   *)
(* is locked between processes.  A file has an identity of its own: a host *)
(* keeps writing to the file it opened, whatever its name is by then.      *)
(*                                                                         *)
(* Every call on the file system may fail.  set_len always may: on Windows *)
(* a handle opened to append need not allow it.                            *)
(***************************************************************************)
EXTENDS Integers, FiniteSets

CONSTANTS
    Hosts,
    Files,      \* identities of files, used again when a file is gone
    NoFile,
    MaxLog,     \* MAX_LOG_BYTES
    Lines,      \* the lengths of log lines
    MaxLine,    \* the longest that is within MaxLog
    Inherited   \* bound: the length of a log left by an earlier version

ASSUME LoggingAssumption ==
    /\ IsFiniteSet(Hosts)
    /\ NoFile \notin Files
    /\ MaxLog \in Nat \ {0}
    /\ Lines \subseteq Nat \ {0}
    /\ MaxLine \in Nat
    /\ \A n \in Lines : n <= MaxLine \/ n > MaxLog
    /\ Inherited \in Nat

VARIABLES
    size,      \* the length of each file
    active,    \* the file named native-host.log
    backup,    \* the file named native-host.log.old
    step,      \* where each host is in init or log
    handle,    \* the file each host writes to
    line,      \* the length of the line each host is writing
    excused    \* history: hosts a call failed for, or that started with another

disk == <<size, active, backup>>
vars == <<disk, step, handle, line, excused>>

Init ==
    /\ size \in [Files -> {0, MaxLog, Inherited}]
    /\ active \in Files \cup {NoFile}
    /\ backup \in (Files \ {active}) \cup {NoFile}
    /\ step = [h \in Hosts |-> "off"]
    /\ handle = [h \in Hosts |-> NoFile]
    /\ line = [h \in Hosts |-> 0]
    /\ excused = {}

Starting(h) == step[h] \in {"create", "stat", "remove", "rename", "truncate", "open"}

At(h, from) == step[h] = from
Go(h, to) == step' = [step EXCEPT ![h] = to]
Excuse(h) == excused' = excused \cup {h}

\* The files that have a name, or that a host has open.
Used == {active, backup} \cup {handle[h] : h \in Hosts}

------------------------------------------------------------------------------
\* Logger::init.

Start(h) ==
    /\ At(h, "off")
    /\ Go(h, "create")
    /\ excused' = LET others == {g \in Hosts : g # h /\ Starting(g)}
                  IN  (excused \ {h}) \cup others \cup (IF others = {} THEN {} ELSE {h})
    /\ UNCHANGED <<disk, handle, line>>

CreateDir(h) ==
    /\ At(h, "create")
    /\ \/ Go(h, "stat") /\ UNCHANGED excused
       \/ Go(h, "disabled") /\ Excuse(h)
    /\ UNCHANGED <<disk, handle, line>>

\* A length that cannot be read is not looked at.
CheckLength(h) ==
    /\ At(h, "stat")
    /\ \/ /\ Go(h, IF active # NoFile /\ size[active] > MaxLog THEN "remove" ELSE "open")
          /\ UNCHANGED excused
       \/ Go(h, "open") /\ Excuse(h)
    /\ UNCHANGED <<disk, handle, line>>

RemoveBackup(h) ==
    /\ At(h, "remove")
    /\ \/ backup' = NoFile /\ Go(h, "rename") /\ UNCHANGED excused
       \/ Go(h, "truncate") /\ Excuse(h) /\ UNCHANGED backup
    /\ UNCHANGED <<size, active, handle, line>>

\* A plausible bug: a log that was renamed is truncated too.
RenameAndTruncate(h) ==
    /\ At(h, "rename")
    /\ IF active # NoFile THEN backup' = active /\ active' = NoFile
       ELSE UNCHANGED <<active, backup>>
    /\ Go(h, "truncate")
    /\ UNCHANGED <<size, handle, line, excused>>

\* The log is renamed over a backup another host may have made meanwhile; or
\* another host has renamed the log itself.
Rename(h) ==
    /\ At(h, "rename")
    /\ \/ /\ active # NoFile
          /\ backup' = active /\ active' = NoFile
          /\ Go(h, "open")
          /\ UNCHANGED excused
       \/ /\ Go(h, "truncate")
          /\ IF active = NoFile THEN UNCHANGED excused ELSE Excuse(h)
          /\ UNCHANGED <<active, backup>>
    /\ UNCHANGED <<size, handle, line>>

\* truncate_active opens a file that exists.
Truncate(h) ==
    /\ At(h, "truncate")
    /\ \/ /\ active # NoFile
          /\ size' = [size EXCEPT ![active] = 0]
          /\ Go(h, "open")
          /\ UNCHANGED excused
       \/ /\ Go(h, "disabled")
          /\ IF active = NoFile THEN UNCHANGED excused ELSE Excuse(h)
          /\ UNCHANGED size
    /\ UNCHANGED <<active, backup, handle, line>>

OpenLog(h) ==
    /\ At(h, "open")
    /\ \/ /\ active # NoFile
          /\ handle' = [handle EXCEPT ![h] = active]
          /\ Go(h, "on")
          /\ UNCHANGED <<size, active, excused>>
       \/ /\ active = NoFile
          /\ active' \in Files \ Used
          /\ size' = [size EXCEPT ![active'] = 0]
          /\ handle' = [handle EXCEPT ![h] = active']
          /\ Go(h, "on")
          /\ UNCHANGED excused
       \/ Go(h, "disabled") /\ Excuse(h) /\ UNCHANGED <<size, active, handle>>
    /\ UNCHANGED <<backup, line>>

------------------------------------------------------------------------------
\* Logger::log: the length is looked at, then the line is appended.  A line
\* that finds no room takes that of all others; where the length cannot be
\* read, or the file not cut, the line is dropped and nothing changes.

\* A plausible bug: the length is compared without the line.
RoomWithout(h, n) == size[handle[h]] <= MaxLog

Room(h, n) == size[handle[h]] + n <= MaxLog
Fits(n) == n <= MaxLog

Log(h, n) ==
    /\ At(h, "on")
    /\ \/ /\ Fits(n) /\ Room(h, n)
          /\ line' = [line EXCEPT ![h] = n]
          /\ Go(h, "write")
          /\ UNCHANGED size
       \/ /\ Fits(n) /\ ~Room(h, n)
          /\ size' = [size EXCEPT ![handle[h]] = 0]
          /\ line' = [line EXCEPT ![h] = n]
          /\ Go(h, "write")
       \/ /\ ~Fits(n)
          /\ size' = [size EXCEPT ![handle[h]] = 0]
          /\ UNCHANGED <<line, step>>
    /\ UNCHANGED <<active, backup, handle, excused>>

\* write_all may stop anywhere in the line; log does not notice.
AppendLine(h) ==
    /\ At(h, "write")
    /\ \E k \in 0..line[h] : size' = [size EXCEPT ![handle[h]] = @ + k]
    /\ line' = [line EXCEPT ![h] = 0]
    /\ Go(h, "on")
    /\ UNCHANGED <<active, backup, handle, excused>>

\* The process ends, anywhere.
Exit(h) ==
    /\ ~At(h, "off")
    /\ Go(h, "off")
    /\ handle' = [handle EXCEPT ![h] = NoFile]
    /\ line' = [line EXCEPT ![h] = 0]
    /\ excused' = excused \ {h}
    /\ UNCHANGED disk

Next ==
    \E h \in Hosts :
        \/ Start(h) \/ CreateDir(h) \/ CheckLength(h) \/ RemoveBackup(h)
        \/ Rename(h) \/ Truncate(h) \/ OpenLog(h)
        \/ \E n \in Lines : Log(h, n)
        \/ AppendLine(h)
        \/ Exit(h)

Spec == Init /\ [][Next]_vars

------------------------------------------------------------------------------
Steps == {"off", "create", "stat", "remove", "rename", "truncate", "open",
          "on", "write", "disabled"}

\* A host that writes has one file open and a line that fits.
TypeOK ==
    /\ size \in [Files -> Nat]
    /\ active \in Files \cup {NoFile}
    /\ backup \in Files \cup {NoFile}
    /\ step \in [Hosts -> Steps]
    /\ handle \in [Hosts -> Files \cup {NoFile}]
    /\ line \in [Hosts -> {0} \cup {n \in Lines : Fits(n)}]
    /\ excused \subseteq Hosts
    /\ \A h \in Hosts :
        /\ handle[h] # NoFile <=> step[h] \in {"on", "write"}
        /\ line[h] > 0 <=> step[h] = "write"

\* Two names never name one file.
NamesDiffer == active = backup => active = NoFile

\* A host runs without a log only because the file system refused a call of its
\* own, or because it started while another was starting: rotation by itself,
\* from any state of the two files, never costs the log.
OnlyRacesDisable == \A h \in Hosts : step[h] = "disabled" => h \in excused

\* A host that has no excuse is the only one that starts, and the log it is to
\* rotate is still there.
Alone ==
    \A h \in Hosts \ excused :
        /\ Starting(h) => \A g \in Hosts \ {h} : ~Starting(g)
        /\ step[h] \in {"remove", "rename", "truncate"} => active # NoFile

\* The inductive invariant.
IInv == TypeOK /\ NamesDiffer /\ OnlyRacesDisable /\ Alone

Limit == MaxLog + (Cardinality(Hosts) - 1) * MaxLine

\* "bounded to 256 KiB while the host writes" (docs/troubleshooting.md:42), as
\* far as the code keeps it: a file grows beyond the cap only by a line of each
\* other host, and one that is already longer does not grow ("must never
\* continue growing", logging.rs:91), whatever fails.
GrowthIsBounded ==
    [][\A f \in Files :
           size'[f] > size[f] =>
               size'[f] <= Limit]_vars
==============================================================================
