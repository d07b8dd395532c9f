----------------------------- MODULE LoggingProofs -----------------------------
(***************************************************************************)
(* Proofs about module Logging, for any hosts, files and lines; and about  *)
(* the dates its lines carry (module Calendar), of any day.                *)
(***************************************************************************)
EXTENDS Logging, Calendar, FiniteSetTheorems, TLAPS

LEMMA InitIInv == Init => IInv
BY LoggingAssumption
   DEF Init, IInv, TypeOK, NamesDiffer, OnlyRacesDisable, Alone, Starting, Steps, Fits

\* A host starts: it is alone, or everybody who is starting has an excuse.
LEMMA StartIInv ==
    ASSUME IInv, NEW h \in Hosts, Start(h)
    PROVE  IInv'
<1> DEFINE others == {g \in Hosts : g # h /\ Starting(g)}
<1> USE LoggingAssumption DEF IInv
<1>1. TypeOK' /\ NamesDiffer'
  BY DEF Start, disk, At, Go, TypeOK, NamesDiffer, Steps
<1>2. \A g \in Hosts : g # h => step'[g] = step[g] /\ (g \in excused => g \in excused')
  BY DEF Start, Go, TypeOK
<1>3. step'[h] = "create" /\ others \subseteq excused' /\ (others # {} => h \in excused')
  BY DEF Start, Go, TypeOK
<1>4. OnlyRacesDisable'
  BY <1>2, <1>3 DEF OnlyRacesDisable
<1>5. Alone'
  BY <1>2, <1>3 DEF Alone, Starting, Start, disk
<1> QED
  BY <1>1, <1>4, <1>5

\* The steps of init that rotate the log.
LEMMA RotateIInv ==
    ASSUME IInv, NEW h \in Hosts,
           CreateDir(h) \/ CheckLength(h) \/ RemoveBackup(h) \/ Rename(h)
    PROVE  IInv'
<1> USE LoggingAssumption DEF IInv
<1>1. TypeOK' /\ NamesDiffer'
  BY DEF CreateDir, CheckLength, RemoveBackup, Rename, disk, At, Go, Excuse,
         TypeOK, NamesDiffer, Steps
<1>2. /\ Starting(h)
      /\ \A g \in Hosts : g # h => step'[g] = step[g] /\ (g \in excused <=> g \in excused')
      /\ h \in excused => h \in excused'
  BY DEF CreateDir, CheckLength, RemoveBackup, Rename, At, Go, Excuse, TypeOK, Starting
<1>3. step'[h] = "disabled" => h \in excused'
  BY DEF CreateDir, CheckLength, RemoveBackup, Rename, At, Go, Excuse, TypeOK
<1>4. OnlyRacesDisable'
  BY <1>2, <1>3 DEF OnlyRacesDisable
<1>5. step'[h] \in {"remove", "rename", "truncate"} /\ h \notin excused' => active' # NoFile
  BY DEF CreateDir, CheckLength, RemoveBackup, Rename, At, Go, Excuse, TypeOK, Alone, disk
<1>6. Alone'
  BY <1>2, <1>5 DEF Alone, Starting
<1> QED
  BY <1>1, <1>4, <1>6

\* The steps of init that end it.
LEMMA OpenIInv ==
    ASSUME IInv, NEW h \in Hosts, Truncate(h) \/ OpenLog(h)
    PROVE  IInv'
<1> USE LoggingAssumption DEF IInv
<1>1. TypeOK' /\ NamesDiffer'
  <2>1. CASE Truncate(h)
    BY <2>1 DEF Truncate, At, Go, Excuse, TypeOK, NamesDiffer, Steps
  <2>2. CASE OpenLog(h)
    BY <2>2 DEF OpenLog, At, Go, Excuse, TypeOK, NamesDiffer, Steps, Used
  <2> QED
    BY <2>1, <2>2
<1>2. /\ Starting(h)
      /\ \A g \in Hosts : g # h => step'[g] = step[g] /\ (g \in excused <=> g \in excused')
      /\ h \in excused => h \in excused'
  BY DEF Truncate, OpenLog, At, Go, Excuse, TypeOK, Starting
<1>3. step'[h] = "disabled" => h \in excused'
  BY DEF Truncate, OpenLog, At, Go, Excuse, TypeOK, Alone
<1>4. step'[h] \in {"open", "on", "disabled"}
  BY DEF Truncate, OpenLog, At, Go, TypeOK
<1>5. OnlyRacesDisable'
  BY <1>2, <1>3 DEF OnlyRacesDisable
<1>6. Alone'
  BY <1>2, <1>3, <1>4 DEF Alone, Starting
<1> QED
  BY <1>1, <1>5, <1>6

\* Writing, and the end of a host.
LEMMA WriteIInv ==
    ASSUME IInv, NEW h \in Hosts,
           (\E n \in Lines : Log(h, n)) \/ AppendLine(h) \/ Exit(h)
    PROVE  IInv'
<1> USE LoggingAssumption DEF IInv
<1>1. TypeOK' /\ NamesDiffer'
  <2>1. ASSUME NEW n \in Lines, Log(h, n) PROVE TypeOK' /\ NamesDiffer'
    BY <2>1 DEF Log, At, Go, Fits, TypeOK, NamesDiffer, Steps
  <2>2. CASE AppendLine(h)
    BY <2>2 DEF AppendLine, At, Go, Fits, TypeOK, NamesDiffer, Steps
  <2>3. CASE Exit(h)
    BY <2>3 DEF Exit, disk, At, Go, TypeOK, NamesDiffer, Steps
  <2> QED
    BY <2>1, <2>2, <2>3
<1>2. /\ \A g \in Hosts : g # h => step'[g] = step[g] /\ (g \in excused <=> g \in excused')
      /\ step'[h] \in {"on", "write", "off"}
      /\ active' = active
  BY DEF Log, AppendLine, Exit, disk, At, Go, TypeOK
<1>3. OnlyRacesDisable'
  BY <1>2 DEF OnlyRacesDisable
<1>4. Alone'
  BY <1>2 DEF Alone, Starting
<1> QED
  BY <1>1, <1>3, <1>4

\* The inductive invariant of the log.
THEOREM Invariance == Spec => []IInv
<1>1. IInv /\ [Next]_vars => IInv'
  <2> SUFFICES ASSUME IInv, [Next]_vars PROVE IInv'
    OBVIOUS
  <2>1. CASE Next
    BY <2>1, StartIInv, RotateIInv, OpenIInv, WriteIInv DEF Next
  <2>2. CASE UNCHANGED vars
    BY <2>2 DEF vars, disk, IInv, TypeOK, NamesDiffer, OnlyRacesDisable, Alone, Starting
  <2> QED
    BY <2>1, <2>2
<1> QED
  BY <1>1, InitIInv, PTL DEF Spec

\* Rotating the log, by as many hosts as there are, never costs a host its log
\* unless a call failed or two hosts started at once (open_bounded).
THEOREM RotationKeepsTheLog == Spec => []OnlyRacesDisable
<1>1. IInv => OnlyRacesDisable
  BY DEF IInv
<1> QED
  BY <1>1, Invariance, PTL

------------------------------------------------------------------------------
\* How far a file grows.  While hosts are between the check and the append, one
\* of them, the last to check, found room for its own line; the others may each
\* add a line it did not see.

Pending(f) == {h \in Hosts : step[h] = "write" /\ handle[h] = f}
Own(c, f) == IF c \in Pending(f) THEN line[c] ELSE 0
Others(c, f) == Cardinality(Pending(f) \ {c})
Seen(c, f) == size[f] + Own(c, f) + Others(c, f) * MaxLine <= Limit
Bounded == \A f \in Files : Pending(f) # {} => \E c \in Hosts : Seen(c, f)

LEMMA TimesMonotone ==
    ASSUME NEW a \in Nat, NEW b \in Nat, NEW n \in Nat, a <= b
    PROVE  a * n <= b * n /\ a * n \in Nat
OBVIOUS

LEMMA TimesNext ==
    ASSUME NEW a \in Nat, NEW n \in Nat
    PROVE  (a + 1) * n = a * n + n
OBVIOUS

\* The hosts other than one.
LEMMA OthersFinite ==
    ASSUME NEW c \in Hosts, NEW P \in SUBSET Hosts
    PROVE  /\ IsFiniteSet(P)
           /\ Cardinality(P \ {c}) \in Nat
           /\ Cardinality(P \ {c}) <= Cardinality(Hosts) - 1
           /\ Cardinality(Hosts) - 1 \in Nat
<1>1. IsFiniteSet(Hosts) /\ IsFiniteSet(P)
  BY LoggingAssumption, FS_Subset
<1>2. IsFiniteSet(Hosts \ {c}) /\ Cardinality(Hosts \ {c}) = Cardinality(Hosts) - 1
  BY <1>1, FS_RemoveElement
<1>3. Cardinality(P \ {c}) <= Cardinality(Hosts \ {c})
  BY <1>2, FS_Subset, P \ {c} \subseteq Hosts \ {c}
<1>4. Cardinality(P \ {c}) \in Nat /\ Cardinality(Hosts \ {c}) \in Nat
  BY <1>1, <1>2, FS_CardinalityType, FS_Subset, P \ {c} \subseteq P
<1> QED
  BY <1>1, <1>2, <1>3, <1>4

LEMMA LimitIsNat ==
    ASSUME NEW c \in Hosts
    PROVE  Limit \in Nat
<1>1. Cardinality(Hosts) - 1 \in Nat
  BY OthersFinite, Hosts \in SUBSET Hosts
<1>2. (Cardinality(Hosts) - 1) * MaxLine \in Nat
  BY <1>1, TimesMonotone, LoggingAssumption
<1> QED
  BY <1>2, LoggingAssumption DEF Limit

\* A line on its way fits, so it is not longer than the longest that does.
LEMMA LineIsShort ==
    ASSUME TypeOK, NEW h \in Hosts
    PROVE  line[h] \in Nat /\ line[h] <= MaxLine
<1>1. line[h] = 0 \/ (line[h] \in Lines /\ line[h] <= MaxLog)
  BY DEF TypeOK, Fits
<1>2. \A n \in Lines : n \in Nat /\ (n <= MaxLog => n <= MaxLine)
  BY LoggingAssumption
<1>3. MaxLine \in Nat
  BY LoggingAssumption
<1> QED
  BY <1>1, <1>2, <1>3

\* Where neither the file nor those who wait to append to it become more.
LEMMA SeenStays ==
    ASSUME TypeOK, NEW f \in Files, NEW c \in Hosts, Seen(c, f),
           size'[f] \in Nat, size'[f] <= size[f], Pending(f)' \subseteq Pending(f),
           \A h \in Pending(f)' : line'[h] = line[h]
    PROVE  Seen(c, f)'
<1>1. Pending(f) \subseteq Hosts
  BY DEF Pending
<1>2. IsFiniteSet(Pending(f)) /\ IsFiniteSet(Pending(f) \ {c})
  BY <1>1, OthersFinite, FS_Subset
<1>3. Others(c, f) \in Nat /\ Others(c, f)' \in Nat
  BY <1>1, OthersFinite DEF Others
<1>4. Others(c, f)' <= Others(c, f)
  BY <1>2, FS_Subset, Pending(f)' \ {c} \subseteq Pending(f) \ {c} DEF Others
<1>5. Others(c, f)' * MaxLine <= Others(c, f) * MaxLine
      /\ Others(c, f)' * MaxLine \in Nat /\ Others(c, f) * MaxLine \in Nat
  BY <1>3, <1>4, TimesMonotone, LoggingAssumption
<1>6. Own(c, f)' <= Own(c, f) /\ Own(c, f)' \in Nat /\ Own(c, f) \in Nat
  <2>1. line[c] \in Nat
    BY LineIsShort
  <2>2. Own(c, f) \in Nat
    BY <2>1 DEF Own
  <2>3. CASE c \in Pending(f)'
    <3>1. c \in Pending(f) /\ line'[c] = line[c]
      BY <2>3
    <3>2. Own(c, f) = line[c]
      BY <3>1 DEF Own
    <3>3. Own(c, f)' = line[c]
      BY <2>3, <3>1 DEF Own
    <3> QED
      BY <2>1, <3>2, <3>3
  <2>4. CASE c \notin Pending(f)'
    <3>1. Own(c, f)' = 0
      BY <2>4 DEF Own
    <3> QED
      BY <2>2, <3>1
  <2> QED
    BY <2>3, <2>4
<1>7. Limit \in Int
  BY LimitIsNat
<1>8. size[f] \in Nat
  BY DEF TypeOK
<1>9. Limit' = Limit
  BY DEF Limit
<1>10. size[f] + Own(c, f) + Others(c, f) * MaxLine <= Limit
  BY DEF Seen
<1>11. size'[f] + Own(c, f)' + Others(c, f)' * MaxLine <= Limit
  BY <1>5, <1>6, <1>7, <1>8, <1>10
<1> QED
  BY <1>9, <1>11 DEF Seen

\* A step that makes no file longer and lets nobody else wait to append.
Shrinks(f) ==
    /\ size'[f] \in Nat /\ size'[f] <= size[f]
    /\ Pending(f)' \subseteq Pending(f)
    /\ \A h \in Pending(f)' : line'[h] = line[h]

LEMMA ShrinkingIsBounded ==
    ASSUME TypeOK, Bounded, NEW f \in Files, Shrinks(f)
    PROVE  Pending(f)' # {} => \E c \in Hosts : Seen(c, f)'
<1> SUFFICES ASSUME Pending(f)' # {} PROVE \E c \in Hosts : Seen(c, f)'
  OBVIOUS
<1>1. PICK c \in Hosts : Seen(c, f)
  BY DEF Bounded, Shrinks
<1>2. Seen(c, f)'
  BY <1>1, SeenStays DEF Shrinks
<1> QED
  BY <1>2

\* The host that looked last found room for its own line, and leaves room for
\* one of each other host.
LEMMA LogBounded ==
    ASSUME TypeOK, Bounded, NEW h \in Hosts, NEW n \in Lines, Log(h, n)
    PROVE  Bounded'
<1> SUFFICES ASSUME NEW f \in Files, Pending(f)' # {}
             PROVE  \E c \in Hosts : Seen(c, f)'
  BY DEF Bounded
<1>1. step[h] = "on" /\ handle' = handle /\ handle[h] \in Files
  BY LoggingAssumption DEF Log, At, TypeOK
<1>2. CASE handle[h] # f \/ ~Fits(n)
  <2>1. (step' = step /\ line' = line) \/ handle[h] # f
    BY <1>2 DEF Log
  <2>2. \A g \in Hosts \ {h} : step'[g] = step[g] /\ line'[g] = line[g]
    BY DEF Log, Go, TypeOK
  <2>3. Pending(f)' = Pending(f) /\ \A g \in Pending(f) : line'[g] = line[g]
    BY <1>1, <2>1, <2>2 DEF Pending
  <2>4. size'[f] \in Nat /\ size'[f] <= size[f]
    BY LoggingAssumption DEF Log, TypeOK
  <2> QED
    BY <2>3, <2>4, ShrinkingIsBounded DEF Shrinks
<1>3. CASE handle[h] = f /\ Fits(n)
  <2>1. step'[h] = "write" /\ line'[h] = n
    BY <1>3 DEF Log, Go, TypeOK
  <2>2. n \in Nat /\ size'[f] \in Nat /\ size'[f] + n <= MaxLog
    BY <1>3, LoggingAssumption DEF Log, Fits, Room, TypeOK
  <2>3. Own(h, f)' = n
    BY <1>1, <1>3, <2>1 DEF Own, Pending
  <2>4. /\ Others(h, f)' \in Nat
        /\ Others(h, f)' <= Cardinality(Hosts) - 1
        /\ Cardinality(Hosts) - 1 \in Nat
    <3>1. Pending(f)' \in SUBSET Hosts
      BY DEF Pending
    <3> QED
      BY <3>1, OthersFinite DEF Others
  <2>5. /\ Others(h, f)' * MaxLine <= (Cardinality(Hosts) - 1) * MaxLine
        /\ Others(h, f)' * MaxLine \in Nat
        /\ (Cardinality(Hosts) - 1) * MaxLine \in Nat
    BY <2>4, TimesMonotone, LoggingAssumption
  <2>6. size'[f] + Own(h, f)' + Others(h, f)' * MaxLine <= Limit'
    BY <2>2, <2>3, <2>5, LoggingAssumption DEF Limit
  <2> QED
    BY <2>6 DEF Seen
<1> QED
  BY <1>2, <1>3

\* A line of the host that looked last was counted; a line of another leaves
\* one less to come.
LEMMA AppendKeepsSeen ==
    ASSUME TypeOK, NEW h \in Hosts, AppendLine(h), NEW c \in Hosts,
           NEW f \in Files, handle[h] = f, Seen(c, f)
    PROVE  Seen(c, f)'
<1>1. f \in Files /\ handle' = handle /\ h \in Pending(f)
  BY LoggingAssumption DEF AppendLine, At, TypeOK, Pending
<1>2. Pending(f)' = Pending(f) \ {h}
  BY <1>1 DEF AppendLine, Go, Pending, TypeOK
<1>3. PICK k \in 0..line[h] : size' = [size EXCEPT ![f] = @ + k]
  BY DEF AppendLine
<1>4. line[h] \in Nat /\ line[h] <= MaxLine /\ line[c] \in Nat
  BY LineIsShort
<1>5. size[f] \in Nat /\ size'[f] = size[f] + k /\ k \in Nat /\ k <= line[h]
  BY <1>1, <1>3, <1>4 DEF TypeOK
<1>6. Pending(f) \in SUBSET Hosts /\ IsFiniteSet(Pending(f) \ {c})
  BY OthersFinite, FS_Subset DEF Pending
<1>7. Others(c, f) \in Nat /\ Others(c, f) * MaxLine \in Nat
  BY <1>6, OthersFinite, TimesMonotone, LoggingAssumption DEF Others
<1>8. Limit \in Nat /\ Limit' = Limit
  BY LimitIsNat DEF Limit
<1>9. size[f] + Own(c, f) + Others(c, f) * MaxLine <= Limit
  BY DEF Seen
<1>10. CASE c = h
  <2>1. Others(c, f)' = Others(c, f)
    BY <1>2, <1>10, Pending(f)' \ {c} = Pending(f) \ {c} DEF Others
  <2>2. Own(c, f) = line[h] /\ Own(c, f)' = 0
    BY <1>1, <1>2, <1>10 DEF Own
  <2>3. size'[f] + Own(c, f)' + Others(c, f)' * MaxLine <= Limit
    BY <1>4, <1>5, <1>7, <1>8, <1>9, <2>1, <2>2
  <2> QED
    BY <1>1, <1>8, <2>3 DEF Seen
<1>11. CASE c # h
  <2>1. Pending(f)' \ {c} = (Pending(f) \ {c}) \ {h} /\ h \in Pending(f) \ {c}
    BY <1>1, <1>2, <1>11
  <2>2. Others(c, f)' = Others(c, f) - 1
    <3>1. Cardinality((Pending(f) \ {c}) \ {h}) = Cardinality(Pending(f) \ {c}) - 1
      BY <1>6, <2>1, FS_RemoveElement
    <3> QED
      BY <2>1, <3>1 DEF Others
  <2>3. Others(c, f)' \in Nat
    BY <1>6, <2>1, OthersFinite DEF Others, Pending
  <2>4. Others(c, f) = Others(c, f)' + 1
    BY <1>7, <2>2, <2>3
  <2>5. Others(c, f) * MaxLine = Others(c, f)' * MaxLine + MaxLine
        /\ Others(c, f)' * MaxLine \in Nat
    BY <2>3, <2>4, TimesNext, TimesMonotone, LoggingAssumption
  <2>6. Own(c, f)' = Own(c, f) /\ Own(c, f) \in Nat
    BY <1>2, <1>4, <1>11 DEF Own, AppendLine, TypeOK
  <2>7. size'[f] + Own(c, f)' + Others(c, f)' * MaxLine <= Limit
    BY <1>4, <1>5, <1>8, <1>9, <2>5, <2>6, LoggingAssumption
  <2> QED
    BY <1>1, <1>8, <2>7 DEF Seen
<1> QED
  BY <1>10, <1>11

LEMMA AppendBounded ==
    ASSUME TypeOK, Bounded, NEW h \in Hosts, AppendLine(h)
    PROVE  Bounded'
<1> SUFFICES ASSUME NEW f \in Files, Pending(f)' # {}
             PROVE  \E c \in Hosts : Seen(c, f)'
  BY DEF Bounded
<1>1. step[h] = "write" /\ handle' = handle /\ handle[h] \in Files
  BY LoggingAssumption DEF AppendLine, At, TypeOK
<1>2. CASE handle[h] = f
  <2>1. PICK c \in Hosts : Seen(c, f)
    BY <1>1, <1>2 DEF Bounded, Pending
  <2> QED
    BY <1>1, <1>2, <2>1, AppendKeepsSeen
<1>3. CASE handle[h] # f
  <2>1. size'[f] = size[f] /\ size[f] \in Nat
    BY <1>1, <1>3 DEF AppendLine, TypeOK
  <2>2. Pending(f)' = Pending(f) /\ \A g \in Pending(f) : line'[g] = line[g]
    BY <1>1, <1>3 DEF Pending, AppendLine, Go, TypeOK
  <2> QED
    BY <2>1, <2>2, ShrinkingIsBounded DEF Shrinks
<1> QED
  BY <1>2, <1>3

\* Everything else that a host does.
LEMMA OtherBounded ==
    ASSUME TypeOK, Bounded, NEW h \in Hosts,
           \/ Start(h) \/ CreateDir(h) \/ CheckLength(h) \/ RemoveBackup(h)
           \/ Rename(h) \/ Truncate(h) \/ OpenLog(h) \/ Exit(h)
    PROVE  Bounded'
<1> SUFFICES ASSUME NEW f \in Files PROVE Shrinks(f)
  BY ShrinkingIsBounded DEF Bounded
<1>1. size'[f] \in Nat /\ size'[f] <= size[f]
  <2>1. CASE OpenLog(h)
    BY <2>1, LoggingAssumption DEF OpenLog, TypeOK
  <2>2. CASE ~OpenLog(h)
    BY <2>2, LoggingAssumption
       DEF Start, CreateDir, CheckLength, RemoveBackup, Rename, Truncate, Exit, disk, TypeOK
  <2> QED
    BY <2>1, <2>2
<1>2. step'[h] # "write"
  BY DEF Start, CreateDir, CheckLength, RemoveBackup, Rename, Truncate, OpenLog, Exit,
         Go, TypeOK
<1>3. \A g \in Hosts \ {h} : step'[g] = step[g] /\ handle'[g] = handle[g] /\ line'[g] = line[g]
  BY DEF Start, CreateDir, CheckLength, RemoveBackup, Rename, Truncate, OpenLog, Exit,
         Go, TypeOK
<1> QED
  BY <1>1, <1>2, <1>3 DEF Shrinks, Pending

LEMMA BoundedInvariance == Spec => []Bounded
<1>1. Init => Bounded
  BY DEF Init, Bounded, Pending
<1>2. TypeOK /\ Bounded /\ [Next]_vars => Bounded'
  <2> SUFFICES ASSUME TypeOK, Bounded, [Next]_vars PROVE Bounded'
    OBVIOUS
  <2>1. CASE UNCHANGED vars
    BY <2>1 DEF vars, disk, Bounded, Pending, Seen, Own, Others, Limit
  <2>2. ASSUME NEW h \in Hosts, NEW n \in Lines, Log(h, n) PROVE Bounded'
    BY <2>2, LogBounded
  <2>3. ASSUME NEW h \in Hosts, AppendLine(h) PROVE Bounded'
    BY <2>3, AppendBounded
  <2>4. ASSUME NEW h \in Hosts,
               \/ Start(h) \/ CreateDir(h) \/ CheckLength(h) \/ RemoveBackup(h)
               \/ Rename(h) \/ Truncate(h) \/ OpenLog(h) \/ Exit(h)
        PROVE  Bounded'
    BY <2>4, OtherBounded
  <2> QED
    BY <2>1, <2>2, <2>3, <2>4 DEF Next
<1>3. IInv => TypeOK
  BY DEF IInv
<1> QED
  BY <1>1, <1>2, <1>3, Invariance, PTL DEF Spec

\* A file grows beyond the cap only by the lines the other hosts had checked.
THEOREM FilesStayBounded == Spec => GrowthIsBounded
<1>1. TypeOK /\ Bounded /\ [Next]_vars =>
        [\A f \in Files : size'[f] > size[f] => size'[f] <= Limit]_vars
  <2> SUFFICES ASSUME TypeOK, Bounded, Next, NEW f \in Files, size'[f] > size[f]
               PROVE  size'[f] <= Limit
    BY DEF vars
  <2>1. PICK h \in Hosts : AppendLine(h) /\ handle[h] = f
    <3>1. PICK h \in Hosts :
            \/ Start(h) \/ CreateDir(h) \/ CheckLength(h) \/ RemoveBackup(h)
            \/ Rename(h) \/ Truncate(h) \/ OpenLog(h) \/ Exit(h)
            \/ (\E n \in Lines : Log(h, n)) \/ AppendLine(h)
      BY DEF Next
    <3>2. size[f] \in Nat
      BY DEF TypeOK
    <3>3. CASE OpenLog(h)
      BY <3>2, <3>3 DEF OpenLog, TypeOK
    <3>4. CASE AppendLine(h) /\ handle[h] # f
      BY <3>2, <3>4 DEF AppendLine, TypeOK
    <3>5. CASE \E n \in Lines : Log(h, n)
      BY <3>2, <3>5 DEF Log, TypeOK
    <3>6. CASE Start(h) \/ CreateDir(h) \/ CheckLength(h) \/ RemoveBackup(h)
               \/ Rename(h) \/ Truncate(h) \/ Exit(h)
      BY <3>2, <3>6
         DEF Start, CreateDir, CheckLength, RemoveBackup, Rename, Truncate, Exit, disk, TypeOK
    <3> QED
      BY <3>1, <3>3, <3>4, <3>5, <3>6
  <2>2. PICK c \in Hosts : Seen(c, f)
    BY <2>1 DEF Bounded, Pending, AppendLine, At
  <2>3. Seen(c, f)'
    BY <2>1, <2>2, AppendKeepsSeen
  <2>4. size'[f] \in Nat
    BY <2>1, LineIsShort DEF AppendLine, TypeOK
  <2>5. Own(c, f)' \in Nat /\ Others(c, f)' * MaxLine \in Nat
    <3>1. Others(c, f)' \in Nat
      <4>1. Pending(f)' \in SUBSET Hosts
        BY DEF Pending
      <4> QED
        BY <4>1, OthersFinite DEF Others
    <3>2. line'[c] \in Nat
      BY <2>1, LineIsShort DEF AppendLine, TypeOK
    <3> QED
      BY <3>1, <3>2, TimesMonotone, LoggingAssumption DEF Own
  <2>6. Limit' = Limit /\ Limit \in Nat
    BY LimitIsNat DEF Limit
  <2> QED
    BY <2>3, <2>4, <2>5, <2>6 DEF Seen
<1>2. IInv => TypeOK
  BY DEF IInv
<1> QED
  BY <1>1, <1>2, Invariance, BoundedInvariance, PTL DEF Spec, GrowthIsBounded

------------------------------------------------------------------------------
\* The calendar of civil_from_days is the Gregorian one, day after day. A day
\* is written by its era (400 years), century, four years, year, and the day
\* of a year that starts in March and so ends with its leap day.

\* A day of an era by the rest of these.
DayOf(c, k, s, d) == 36524 * c + 1461 * k + 365 * s + d

\* The year ends with February 29.
EndsLeap(c, k, s) == s = 3 /\ (k = 24 => c = 3)

\* The days there are.
IsDay(c, k, s, d) ==
    /\ 0 <= c /\ c <= 3
    /\ 0 <= k /\ k <= 24
    /\ 0 <= s /\ s <= 3
    /\ 0 <= d /\ (d < 365 \/ (d = 365 /\ EndsLeap(c, k, s)))

\* Every day of an era is one of these, and its number is written so.
LEMMA EveryDay ==
    ASSUME NEW D \in Int, 0 <= D, D < Cycle
    PROVE  \E c, k, s, d \in Int : IsDay(c, k, s, d) /\ D = DayOf(c, k, s, d)
<1>1. PICK c \in Int, x \in Int : /\ 0 <= c /\ c <= 3
                                  /\ D = 36524 * c + x
                                  /\ 0 <= x /\ (x < 36524 \/ (x = 36524 /\ c = 3))
  <2>1. CASE D < 36524
    <3>1. D = 36524 * 0 + D
      BY SMT
    <3> QED BY <2>1, <3>1, SMT
  <2>2. CASE D >= 36524 /\ D < 73048
    <3>1. D = 36524 * 1 + (D - 36524) /\ 0 <= D - 36524 /\ D - 36524 < 36524
      BY <2>2, SMT
    <3> QED BY <3>1, SMT
  <2>3. CASE D >= 73048 /\ D < 109572
    <3>1. D = 36524 * 2 + (D - 73048) /\ 0 <= D - 73048 /\ D - 73048 < 36524
      BY <2>3, SMT
    <3> QED BY <3>1, SMT
  <2>4. CASE D >= 109572
    <3>1. /\ D = 36524 * 3 + (D - 109572) /\ 0 <= D - 109572
          /\ D - 109572 < 36524 \/ D - 109572 = 36524
      BY <2>4, SMT DEF Cycle
    <3> QED BY <3>1, SMT
  <2> QED BY <2>1, <2>2, <2>3, <2>4, SMT
<1>2. PICK k \in Int, w \in Int : /\ 0 <= k /\ k <= 24
                                  /\ 0 <= w /\ w <= 1460
                                  /\ x = 1461 * k + w
  <2>1. /\ 0 <= x \div 1461 /\ x \div 1461 <= 24 /\ x \div 1461 \in Int
        /\ 0 <= x % 1461 /\ x % 1461 <= 1460 /\ x % 1461 \in Int
        /\ x = 1461 * (x \div 1461) + (x % 1461)
    BY <1>1, SMT
  <2> QED BY <2>1, SMT
<1>3. PICK s \in Int, d \in Int : /\ 0 <= s /\ s <= 3
                                  /\ 0 <= d /\ (d < 365 \/ (d = 365 /\ s = 3))
                                  /\ w = 365 * s + d
  <2>1. CASE w < 365
    <3>1. w = 365 * 0 + w
      BY SMT
    <3> QED BY <1>2, <2>1, <3>1, SMT
  <2>2. CASE w >= 365 /\ w < 730
    <3>1. w = 365 * 1 + (w - 365) /\ 0 <= w - 365 /\ w - 365 < 365
      BY <2>2, SMT
    <3> QED BY <3>1, SMT
  <2>3. CASE w >= 730 /\ w < 1095
    <3>1. w = 365 * 2 + (w - 730) /\ 0 <= w - 730 /\ w - 730 < 365
      BY <2>3, SMT
    <3> QED BY <3>1, SMT
  <2>4. CASE w >= 1095
    <3>1. w = 365 * 3 + (w - 1095) /\ 0 <= w - 1095 /\ (w - 1095 < 365 \/ w - 1095 = 365)
      BY <1>2, <2>4, SMT
    <3> QED BY <3>1, SMT
  <2> QED BY <2>1, <2>2, <2>3, <2>4, SMT
<1>4. D = DayOf(c, k, s, d)
  BY <1>1, <1>2, <1>3, SMT DEF DayOf
<1>5. d = 365 => EndsLeap(c, k, s)
  BY <1>1, <1>2, <1>3, SMT DEF EndsLeap
<1>6. IsDay(c, k, s, d)
  BY <1>1, <1>2, <1>3, <1>5, SMT DEF IsDay
<1> QED
  BY <1>4, <1>6

\* What the divisions of civil_from_days give: by 36524, the days of a century.
LEMMA Centuries ==
    ASSUME NEW q \in Int, NEW r \in Int, 0 <= r, r < 36524
    PROVE  (36524 * q + r) \div 36524 = q
BY SMT

\* By 365, the days of a year.
LEMMA Years ==
    ASSUME NEW q \in Int, NEW r \in Int, 0 <= r, r < 365
    PROVE  (365 * q + r) \div 365 = q
BY SMT

\* By 146097, the days of 400 years, with the remainder.
LEMMA Eras ==
    ASSUME NEW q \in Int, NEW r \in Int, 0 <= r, r < 146097
    PROVE  (146097 * q + r) \div 146097 = q /\ (146097 * q + r) % 146097 = r
BY SMT

\* The year of the era.
YearOf(c, k, s) == 100 * c + 4 * k + s

\* What the code's divisions make of day D of an era: day d of year Y.
SplitsInto(D, Y, d) ==
    /\ 0 <= D /\ D < Cycle
    /\ (D - D \div 1460 + D \div 36524 - D \div 146096) \div 365 = Y
    /\ D - (365 * Y + Y \div 4 - Y \div 100) = d

\* The day d of the year that starts in March, of every day of an era: the
\* divisions take the leap days away before they divide by 365.
LEMMA YearOfDay ==
    ASSUME NEW c \in Int, NEW k \in Int, NEW s \in Int, NEW d \in Int, IsDay(c, k, s, d)
    PROVE  SplitsInto(DayOf(c, k, s, d), YearOf(c, k, s), d)
<1>. PICK D \in Int : D = DayOf(c, k, s, d)
  BY SMT DEF DayOf
<1>. PICK Y \in Int : Y = YearOf(c, k, s)
  BY SMT DEF YearOf
<1> SUFFICES SplitsInto(D, Y, d)
  OBVIOUS
<1> USE DEF IsDay, EndsLeap
<1>0. D = 36524 * c + 1461 * k + 365 * s + d /\ Y = 100 * c + 4 * k + s
  BY SMT DEF DayOf, YearOf
<1>1. 0 <= D /\ D <= 146096
  BY <1>0, SMT
<1>2. Y \div 4 = 25 * c + k /\ Y \div 100 = c
  BY <1>0, SMT
<1>3. D - (365 * Y + Y \div 4 - Y \div 100) = d
  BY <1>0, <1>2, SMT
<1>4. CASE D = 146096
  <2>1. c = 3 /\ k = 24 /\ s = 3 /\ d = 365
    BY <1>0, <1>4, SMT
  <2>2. D \div 1460 = 100 /\ D \div 36524 = 4 /\ D \div 146096 = 1
    BY <1>4, SMT
  <2> QED BY <1>1, <1>3, <1>4, <2>1, <2>2, SMT DEF Cycle, SplitsInto
<1>5. CASE D # 146096
  <2>1. D \div 146096 = 0
    BY <1>1, <1>5, SMT
  <2>2. D \div 36524 = c
    <3>1. PICK r \in Int : D = 36524 * c + r /\ 0 <= r /\ r < 36524
      <4>1. 1461 * k + 365 * s + d < 36524
        BY <1>0, <1>5, SMT
      <4> QED BY <1>0, <4>1, SMT
    <3> QED BY <3>1, Centuries
  <2>3. PICK b \in Int : /\ D \div 1460 = 25 * c + k + b
                         /\ \/ b = 1 /\ k + 24 * c + 365 * s + d >= 1460
                            \/ b = 0 /\ k + 24 * c + 365 * s + d < 1460
    <3>1. D = 1460 * (25 * c + k) + (k + 24 * c + 365 * s + d)
      BY <1>0, SMT
    <3>2. 0 <= k + 24 * c + 365 * s + d /\ k + 24 * c + 365 * s + d < 2920
      BY SMT
    <3>3. CASE k + 24 * c + 365 * s + d >= 1460
      <4>1. D \div 1460 = 25 * c + k + 1
        BY <3>1, <3>2, <3>3, SMT
      <4> QED BY <4>1, <3>3, SMT
    <3>4. CASE k + 24 * c + 365 * s + d < 1460
      <4>1. D \div 1460 = 25 * c + k + 0
        BY <3>1, <3>2, <3>4, SMT
      <4> QED BY <4>1, <3>4, SMT
    <3> QED BY <3>3, <3>4, SMT
  <2>4. D - D \div 1460 + D \div 36524 - D \div 146096 = 365 * Y + (d - b)
    BY <1>0, <2>1, <2>2, <2>3, SMT
  <2>5. 0 <= d - b /\ d - b < 365
    BY <2>3, SMT
  <2>6. (365 * Y + (d - b)) \div 365 = Y
    BY <2>5, d - b \in Int, Years
  <2> QED BY <1>1, <1>3, <2>4, <2>6, SMT DEF Cycle, SplitsInto
<1> QED BY <1>4, <1>5, SMT

\* The year that starts in March ends with February 29 exactly if the calendar
\* year of that February is a leap year.
LEMMA LeapOfYear ==
    ASSUME NEW e \in Int, NEW c \in Int, NEW k \in Int, NEW s \in Int,
           0 <= c /\ c <= 3, 0 <= k /\ k <= 24, 0 <= s /\ s <= 3
    PROVE  Leap(400 * e + YearOf(c, k, s) + 1) <=> EndsLeap(c, k, s)
<1> DEFINE y == 400 * e + YearOf(c, k, s) + 1
<1>1. y % 4 = 0 <=> s = 3
  BY SMT DEF YearOf
<1>2. y % 100 = 0 <=> s = 3 /\ k = 24
  BY SMT DEF YearOf
<1>3. y % 400 = 0 <=> s = 3 /\ k = 24 /\ c = 3
  BY SMT DEF YearOf
<1> QED BY <1>1, <1>2, <1>3, SMT DEF Leap, EndsLeap

\* The date of a day d of the year that starts in March of year y.
DateOf(y, d) ==
    LET mp == (5 * d + 2) \div 153
        m  == IF mp < 10 THEN mp + 3 ELSE mp - 9
    IN  <<y + (IF m <= 2 THEN 1 ELSE 0), m, d - (153 * mp + 2) \div 5 + 1>>

\* Day n is day d of the year that starts in March of y.
IsDayOf(n, y, d, e, c, k, s) ==
    /\ IsDay(c, k, s, d)
    /\ n + 719468 = Cycle * e + DayOf(c, k, s, d)
    /\ y = 400 * e + YearOf(c, k, s)

DayIs(n, y, d) == \E e, c, k, s \in Int : IsDayOf(n, y, d, e, c, k, s)

\* Every day is some day of some year.
LEMMA EveryDayHasAYear ==
    ASSUME NEW n \in Int
    PROVE  \E y, d \in Int : DayIs(n, y, d)
<1> DEFINE e == (n + 719468) \div 146097
           D == (n + 719468) % 146097
<1>1. e \in Int /\ D \in Int /\ n + 719468 = 146097 * e + D /\ 0 <= D /\ D < 146097
  BY SMT
<1> HIDE DEF e, D
<1>2. 0 <= D /\ D < Cycle
  BY <1>1, SMT DEF Cycle
<1>3. PICK c, k, s, d \in Int : IsDay(c, k, s, d) /\ D = DayOf(c, k, s, d)
  BY <1>1, <1>2, EveryDay, SMT
<1> DEFINE y == 400 * e + YearOf(c, k, s)
<1>4. y \in Int
  BY <1>1, SMT DEF YearOf
<1>5. IsDayOf(n, y, d, e, c, k, s)
  BY <1>1, <1>3, SMT DEF IsDayOf, Cycle
<1>6. e \in Int
  BY <1>1, SMT
<1> HIDE DEF y
<1> QED
  BY <1>4, <1>5, <1>6, Zenon DEF DayIs

\* The code's divisions find that day and that year.
LEMMA CivilIsDate ==
    ASSUME NEW n \in Int, NEW y \in Int, NEW d \in Int, DayIs(n, y, d)
    PROVE  CivilFromDays(n) = DateOf(y, d)
<1>. PICK e, c, k, s \in Int : IsDayOf(n, y, d, e, c, k, s)
  BY Zenon DEF DayIs
<1>1. PICK D \in Int : D = DayOf(c, k, s, d)
  BY SMT DEF DayOf
<1>2. PICK Y \in Int : Y = YearOf(c, k, s)
  BY SMT DEF YearOf
<1>3. SplitsInto(D, Y, d)
  <2>1. IsDay(c, k, s, d)
    BY SMT DEF IsDayOf
  <2> QED BY <1>1, <1>2, <2>1, YearOfDay, Zenon
<1>4. n + 719468 = 146097 * e + D /\ y = 400 * e + Y
  BY <1>1, <1>2, SMT DEF Cycle, IsDayOf
<1>5. 0 <= D /\ D < 146097
  BY <1>3, SMT DEF Cycle, SplitsInto
<1>6. (n + 719468) \div 146097 = e /\ (n + 719468) % 146097 = D
  BY <1>4, <1>5, Eras, SMT
<1>7. Y + e * 400 = y
  BY <1>4, SMT
<1> QED
  BY <1>3, <1>6, <1>7, SMT DEF CivilFromDays, DateOf, SplitsInto

\* The day after is the next of its year, or the first of the next year.
LEMMA DayAfter ==
    ASSUME NEW n \in Int, NEW y \in Int, NEW d \in Int, DayIs(n, y, d)
    PROVE  /\ 0 <= d
           /\ \/ /\ d < 364 \/ (d = 364 /\ Leap(y + 1))
                 /\ DayIs(n + 1, y, d + 1)
              \/ /\ (d = 365 /\ Leap(y + 1)) \/ (d = 364 /\ ~Leap(y + 1))
                 /\ DayIs(n + 1, y + 1, 0)
<1>. PICK e, c, k, s \in Int : IsDayOf(n, y, d, e, c, k, s)
  BY Zenon DEF DayIs
<1>1. /\ 0 <= c /\ c <= 3 /\ 0 <= k /\ k <= 24 /\ 0 <= s /\ s <= 3
      /\ 0 <= d /\ (d < 365 \/ (d = 365 /\ EndsLeap(c, k, s)))
      /\ y = 400 * e + YearOf(c, k, s)
  BY SMT DEF IsDayOf, IsDay
<1>2. Leap(y + 1) <=> EndsLeap(c, k, s)
  BY <1>1, LeapOfYear, SMT
<1>3. CASE d < 364 \/ (d = 364 /\ EndsLeap(c, k, s))
  <2>1. IsDayOf(n + 1, y, d + 1, e, c, k, s)
    BY <1>1, <1>3, SMT DEF IsDayOf, IsDay, DayOf, Cycle
  <2>2. DayIs(n + 1, y, d + 1)
    BY <2>1, Zenon DEF DayIs
  <2> QED BY <1>1, <1>2, <1>3, <2>2, SMT
<1>4. CASE d = 365 \/ (d = 364 /\ ~EndsLeap(c, k, s))
  <2> USE <1>1, <1>4 DEF EndsLeap
  <2>1. DayIs(n + 1, y + 1, 0)
    <3>1. CASE s < 3
      <4>1. IsDayOf(n + 1, y + 1, 0, e, c, k, s + 1)
        BY <3>1, SMT DEF IsDayOf, IsDay, DayOf, YearOf, Cycle
      <4> QED BY ONLY <4>1, e \in Int, c \in Int, k \in Int, s + 1 \in Int, Zenon DEF DayIs
    <3>2. CASE s = 3 /\ k < 24
      <4>1. IsDayOf(n + 1, y + 1, 0, e, c, k + 1, 0)
        BY <3>2, SMT DEF IsDayOf, IsDay, DayOf, YearOf, Cycle
      <4> QED BY ONLY <4>1, e \in Int, c \in Int, k + 1 \in Int, 0 \in Int, Zenon DEF DayIs
    <3>3. CASE s = 3 /\ k = 24 /\ c < 3
      <4>1. IsDayOf(n + 1, y + 1, 0, e, c + 1, 0, 0)
        BY <3>3, SMT DEF IsDayOf, IsDay, DayOf, YearOf, Cycle
      <4> QED BY ONLY <4>1, e \in Int, c + 1 \in Int, 0 \in Int, Zenon DEF DayIs
    <3>4. CASE s = 3 /\ k = 24 /\ c = 3
      <4>1. IsDayOf(n + 1, y + 1, 0, e + 1, 0, 0, 0)
        BY <3>4, SMT DEF IsDayOf, IsDay, DayOf, YearOf, Cycle
      <4> QED BY ONLY <4>1, e + 1 \in Int, 0 \in Int, Zenon DEF DayIs
    <3> QED BY <3>1, <3>2, <3>3, <3>4, SMT
  <2> QED BY <1>2, <2>1, SMT
<1>5. \/ d < 364 \/ (d = 364 /\ EndsLeap(c, k, s))
      \/ d = 365 \/ (d = 364 /\ ~EndsLeap(c, k, s))
  BY <1>1, SMT
<1> QED BY <1>3, <1>4, <1>5

\* Within a year that starts in March, the days follow each other.
LEMMA NextInYear ==
    ASSUME NEW y \in Int, NEW d \in Int, 0 <= d, d < 364 \/ (d = 364 /\ Leap(y + 1))
    PROVE  DateOf(y, d + 1) = Tomorrow(DateOf(y, d))
<1> DEFINE First(p) == (153 * p + 2) \div 5
           Month(p) == IF p < 10 THEN p + 3 ELSE p - 9
           Year(p)  == y + (IF Month(p) <= 2 THEN 1 ELSE 0)
           Date(p, x) == <<Year(p), Month(p), x - First(p) + 1>>
<1>1. PICK p \in Int : /\ p = (5 * d + 2) \div 153 /\ 0 <= p /\ p <= 11
                       /\ First(p) <= d /\ d < First(p + 1)
  <2>1. PICK p \in Int : /\ p = (5 * d + 2) \div 153 /\ 0 <= p /\ p <= 11
                         /\ 153 * p <= 5 * d + 2 /\ 5 * d + 2 < 153 * p + 153
    BY SMT
  <2>2. First(p) <= d /\ d < First(p + 1)
    BY <2>1, SMT
  <2> QED BY <2>1, <2>2
<1>2. DateOf(y, d) = Date(p, d)
  BY <1>1, SMT DEF DateOf
<1>3. /\ Year(p) \in Int /\ Month(p) \in Int /\ First(p) \in Int
      /\ Month(p + 1) \in Int /\ First(p + 1) \in Int
  BY SMT
<1>4. p = 0 \/ p = 1 \/ p = 2 \/ p = 3 \/ p = 4 \/ p = 5 \/ p = 6 \/ p = 7 \/ p = 8
      \/ p = 9 \/ p = 10 \/ p = 11
  BY <1>1, SMT
<1>5. ASSUME p # 11
      PROVE  MonthLength(Year(p), Month(p)) = First(p + 1) - First(p)
  BY <1>4, <1>5, SMT DEF MonthLength
<1>6. CASE p # 11 /\ d + 1 < First(p + 1)
  <2>1. (5 * (d + 1) + 2) \div 153 = p
    BY <1>1, <1>6, SMT
  <2>2. DateOf(y, d + 1) = Date(p, d + 1)
    BY <2>1, SMT DEF DateOf
  <2>3. Tomorrow(Date(p, d)) = <<Year(p), Month(p), (d - First(p) + 1) + 1>>
    <3> HIDE DEF Year, Month, First
    <3> QED BY <1>3, <1>5, <1>6, SMT DEF Tomorrow
  <2>4. (d - First(p) + 1) + 1 = (d + 1) - First(p) + 1
    BY <1>3, SMT
  <2> QED BY <1>2, <2>2, <2>3, <2>4
<1>7. CASE p # 11 /\ d + 1 = First(p + 1)
  <2>1. (5 * (d + 1) + 2) \div 153 = p + 1
    BY <1>1, <1>4, <1>7, SMT
  <2>2. DateOf(y, d + 1) = <<Year(p + 1), Month(p + 1), 1>>
    BY <1>7, <2>1, SMT DEF DateOf
  <2>3. Tomorrow(Date(p, d)) = IF Month(p) < 12 THEN <<Year(p), Month(p) + 1, 1>>
                                                ELSE <<Year(p) + 1, 1, 1>>
    <3> HIDE DEF Year, Month, First
    <3> QED BY <1>3, <1>5, <1>7, SMT DEF Tomorrow
  <2>4. CASE p = 9
    BY <1>2, <2>2, <2>3, <2>4, SMT
  <2>5. CASE p # 9
    <3>1. Month(p) < 12 /\ Month(p + 1) = Month(p) + 1 /\ Year(p + 1) = Year(p)
      BY <1>4, <1>7, <2>5, SMT
    <3> HIDE DEF Year, Month, First
    <3> QED BY <1>2, <2>2, <2>3, <3>1
  <2> QED BY <2>4, <2>5
<1>8. CASE p = 11
  <2>1. First(p) = 337 /\ Month(p) = 2 /\ Year(p) = y + 1
    BY <1>8, SMT
  <2>2. DateOf(y, d) = <<y + 1, 2, d - 337 + 1>> /\ 337 <= d /\ d <= 364
    BY <1>1, <1>2, <2>1, SMT
  <2>3. (5 * (d + 1) + 2) \div 153 = 11
    BY <2>2, SMT
  <2>4. DateOf(y, d + 1) = <<y + 1, 2, (d + 1) - 337 + 1>>
    BY <2>3, SMT DEF DateOf
  <2>5. d - 337 + 1 < MonthLength(y + 1, 2)
    BY <2>2, SMT DEF MonthLength
  <2>6. (d + 1) - 337 + 1 = (d - 337 + 1) + 1
    BY SMT
  <2> QED BY <2>2, <2>4, <2>5, <2>6, SMT DEF Tomorrow
<1>9. d + 1 < First(p + 1) \/ d + 1 = First(p + 1)
  BY <1>1, <1>3, SMT
<1> QED BY <1>6, <1>7, <1>8, <1>9, SMT

\* February ends the year that starts in March.
LEMMA NextYear ==
    ASSUME NEW y \in Int, NEW d \in Int, (d = 365 /\ Leap(y + 1)) \/ (d = 364 /\ ~Leap(y + 1))
    PROVE  DateOf(y + 1, 0) = Tomorrow(DateOf(y, d))
<1>1. DateOf(y + 1, 0) = <<y + 1, 3, 1>>
  BY SMT DEF DateOf
<1>2. CASE d = 365 /\ Leap(y + 1)
  <2>1. DateOf(y, 365) = <<y + 1, 2, 29>>
    BY SMT DEF DateOf
  <2> QED BY <1>1, <1>2, <2>1, SMT DEF Tomorrow, MonthLength
<1>3. CASE d = 364 /\ ~Leap(y + 1)
  <2>1. DateOf(y, 364) = <<y + 1, 2, 28>>
    BY SMT DEF DateOf
  <2> QED BY <1>1, <1>3, <2>1, SMT DEF Tomorrow, MonthLength
<1> QED BY <1>2, <1>3

\* Every day is followed by the next day of the Gregorian calendar.
LEMMA NextDay ==
    ASSUME NEW n \in Int
    PROVE  CivilFromDays(n + 1) = Tomorrow(CivilFromDays(n))
<1>1. PICK y, d \in Int : DayIs(n, y, d)
  BY EveryDayHasAYear
<1>2. CivilFromDays(n) = DateOf(y, d)
  BY <1>1, CivilIsDate, Zenon
<1>3. n + 1 \in Int /\ y + 1 \in Int /\ d + 1 \in Int /\ 0 \in Int
  BY SMT
<1>4. CASE (d < 364 \/ (d = 364 /\ Leap(y + 1))) /\ DayIs(n + 1, y, d + 1)
  <2>1. CivilFromDays(n + 1) = DateOf(y, d + 1)
    BY <1>3, <1>4, CivilIsDate, Zenon
  <2>2. DateOf(y, d + 1) = Tomorrow(DateOf(y, d))
    <3>1. 0 <= d
      BY <1>1, DayAfter, SMT
    <3> QED BY <1>4, <3>1, NextInYear, SMT
  <2> QED BY <1>2, <2>1, <2>2, Zenon
<1>5. CASE /\ (d = 365 /\ Leap(y + 1)) \/ (d = 364 /\ ~Leap(y + 1))
           /\ DayIs(n + 1, y + 1, 0)
  <2>1. CivilFromDays(n + 1) = DateOf(y + 1, 0)
    BY <1>3, <1>5, CivilIsDate, Zenon
  <2>2. DateOf(y + 1, 0) = Tomorrow(DateOf(y, d))
    BY <1>5, NextYear, Zenon
  <2> QED BY <1>2, <2>1, <2>2, Zenon
<1>6. \/ /\ d < 364 \/ (d = 364 /\ Leap(y + 1))
         /\ DayIs(n + 1, y, d + 1)
      \/ /\ (d = 365 /\ Leap(y + 1)) \/ (d = 364 /\ ~Leap(y + 1))
         /\ DayIs(n + 1, y + 1, 0)
  BY <1>1, DayAfter, SMT
<1> QED BY <1>4, <1>5, <1>6

\* The dates of civil_from_days are those of the Gregorian calendar, leap days
\* and centuries included: from 1970-01-01 on, for as many days as there are.
THEOREM AllDaysFollow == \A days \in Nat : FollowsTheCalendar(days)
<1>1. CivilFromDays(0) = <<1970, 1, 1>>
  BY SMT DEF CivilFromDays
<1>2. ASSUME NEW days \in Nat, NEW n \in 0..days - 1
      PROVE  CivilFromDays(n + 1) = Tomorrow(CivilFromDays(n))
  BY NextDay, n \in Int, Zenon
<1> QED
  BY <1>1, <1>2, SMT DEF FollowsTheCalendar
==============================================================================
