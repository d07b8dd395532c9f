----------------------------- MODULE MCMigration -----------------------------
(***************************************************************************)
(* Small instances of Migration: two processes, one good, one corrupt and  *)
(* one unimportable content; the dates of backups over 400 years, after    *)
(* which they repeat.                                                      *)
(***************************************************************************)
EXTENDS Migration, TLC, Calendar

\* The processes are interchangeable.  Used only in runs without liveness.
Symmetry == Permutations(Procs)

\* The names of backups carry the date of the Gregorian calendar, leap days
\* and centuries included.
ASSUME DatesAssumption == FollowsTheCalendar(Cycle)
==============================================================================
