------------------------------- MODULE Library -------------------------------
(***************************************************************************)
(* What the one-time migration promises, without saying how: a data        *)
(* directory has no library, then, at one instant, a complete one, and     *)
(* that one is never replaced.  The legacy JSON of the user is retired (moved *)
(* aside, still readable) only once it has been imported, and nothing but  *)
(* the old JSON-writing desktop ever supersedes it.                        *)
(*                                                                         *)
(* The promise is stated per legacy file, because the only actor outside   *)
(* the migration lock is the old desktop: for a file it has not saved to,  *)
(* the library holds exactly the content the file had.                     *)
(***************************************************************************)

CONSTANTS
    Content,     \* the non-blank contents a legacy JSON file can have
    Good,        \* the contents that can be imported
    Absent       \* no library; no user content in a file

\* The two legacy sources, by the stem of their file name.
Files == {"snippets", "config"}

\* A complete library: where each part came from, and the digests recorded.
Libraries == [kind : {"migrated", "seeded"},
              from : [Files -> Content \cup {Absent}],
              hash : [Files -> Content \cup {Absent}]]

\* A seeded library comes from no file, a migrated one from at least one, and
\* only from files that could be imported.
Complete(l) ==
    /\ l \in Libraries
    /\ \A f \in Files : l.from[f] \in Good \cup {Absent}
    /\ l.kind = "seeded" <=> \A f \in Files : l.from[f] = Absent

VARIABLES
    lib,     \* the library of the data directory, Absent before migration
    live,    \* the user's content in each legacy file, Absent when none
    kept,    \* the user's contents set aside as backups of each file
    saved    \* the files the old desktop has saved to

vars == <<lib, live, kept, saved>>

Init ==
    /\ lib = Absent
    /\ live \in [Files -> Content \cup {Absent}]
    /\ kept \in [Files -> SUBSET Content]
    /\ saved = {}

\* The library appears, whole.  Its digest of a file is none where the file
\* could not be read a second time.
Install ==
    /\ lib = Absent
    /\ Complete(lib')
    /\ \A f \in Files \ saved :
           /\ lib'.from[f] = live[f]
           /\ lib'.hash[f] \in {live[f], Absent}
    /\ UNCHANGED <<live, kept, saved>>

\* An imported source is moved aside; its content stays readable.
Retire(f) ==
    /\ lib # Absent
    /\ lib.kind = "migrated"
    /\ live[f] # Absent
    /\ live' = [live EXCEPT ![f] = Absent]
    /\ kept' = [kept EXCEPT ![f] = @ \cup {live[f]}]
    /\ UNCHANGED <<lib, saved>>

\* The old desktop replaces the content of a file by newer content.
Save(f, c) ==
    /\ live' = [live EXCEPT ![f] = c]
    /\ saved' = saved \cup {f}
    /\ UNCHANGED <<lib, kept>>

Next ==
    \/ Install
    \/ \E f \in Files : Retire(f)
    \/ \E f \in Files, c \in Content : Save(f, c)

Spec == Init /\ [][Next]_vars
==============================================================================
