----------------------------- MODULE Opening_proofs -----------------------------
(***************************************************************************)
(* Proofs about Opening, for every set of samples, every grace and every   *)
(* number of stops and rolls back.                                         *)
(***************************************************************************)
EXTENDS Opening, TLAPS

USE OpeningAssumption

-----------------------------------------------------------------------------
\* Types.

\* What is created is one of the three.
LEMMA TablesCreated == \A i \in 1..3 : CreatedAs[i] \in Tables
<1> TAKE i \in 1..3
<1>1. i = 1 \/ i = 2 \/ i = 3
  OBVIOUS
<1> QED
  BY <1>1 DEF CreatedAs, Tables

LEMMA TypeInit == Init => TypeOK
<1> SUFFICES ASSUME Init
             PROVE  TypeOK
  OBVIOUS
<1>1. json \in BOOLEAN /\ legacy \in BOOLEAN /\ retired \in BOOLEAN
  <2>1. json \in {register = "guid", FALSE} /\ legacy = FALSE /\ retired = FALSE
    BY DEF Init
  <2> QED
    BY <2>1, Zenon
<1>2. /\ register \in {"absent", "guid", "rows"}
      /\ columns \in 0..Columns
      /\ dropped \in {"nobody", "shape", "tombstone"}
      /\ compat \subseteq Tables /\ history \subseteq Tables
      /\ since \in 0..MaxTime
      /\ held \subseteq Sample
  BY DEF Init, Columns
<1>3. /\ at = "down" /\ retiring \in 0..4
      /\ stops \in 0..MaxStops /\ rollBacks \in 0..MaxRollBacks
  BY DEF Init
<1>4. now \in 1..MaxTime
  BY DEF Init
<1>5. /\ copies \in [Sample -> Nat]
      /\ push \in [Sample -> {"owed", "recorded", "both", "answered"}]
  BY DEF Init
<1> QED
  BY <1>1, <1>2, <1>3, <1>4, <1>5 DEF TypeOK

LEMMA TypeNext == TypeOK /\ [Next]_vars => TypeOK'
<1> SUFFICES ASSUME TypeOK, [Next]_vars
             PROVE  TypeOK'
  OBVIOUS
<1> USE DEF TypeOK, disk, process, counts, Tables, Columns, Removed
<1>1. CASE Inspect
  BY <1>1 DEF Inspect
<1>2. CASE ToIntegerKeys
  BY <1>2 DEF ToIntegerKeys
<1>3. CASE CreateSchema
  BY <1>3 DEF CreateSchema
<1>4. CASE AddColumn
  BY <1>4 DEF AddColumn
<1>5. CASE MarkLegacyRemovals
  BY <1>5 DEF MarkLegacyRemovals
<1>6. CASE InspectCompat
  BY <1>6 DEF InspectCompat
<1>7. CASE CreateCompat
  <2>1. compat' \subseteq Tables
    <3>1. PICK i \in 1..3 : compat' = compat \cup {CreatedAs[i]}
      BY <1>7 DEF CreateCompat
    <3> QED
      BY <3>1, TablesCreated
  <2> QED
    BY <1>7, <2>1 DEF CreateCompat
<1>8. CASE Opened
  BY <1>8 DEF Opened, Date
<1>9. CASE Retire
  BY <1>9 DEF Retire
<1>10. CASE DropTable
  <2>1. compat' \subseteq Tables /\ history' \subseteq Tables
    BY <1>10 DEF DropTable
  <2>2. copies' \in [Sample -> Nat]
    BY <1>10 DEF DropTable
  <2>3. retiring' \in 0..4
    BY <1>10 DEF DropTable
  <2> QED
    BY <1>10, <2>1, <2>2, <2>3 DEF DropTable
<1>11. CASE RetireFails
  BY <1>11 DEF RetireFails
<1>12. CASE Forget
  <2>1. legacy' \in BOOLEAN /\ retired' \in BOOLEAN
    BY <1>12, Zenon DEF Forget
  <2> QED
    BY <1>12, <2>1 DEF Forget
<1>13. ASSUME NEW m \in Sample, StoreSeries(m)
       PROVE  TypeOK'
  BY <1>13 DEF StoreSeries, PushIs
<1>14. ASSUME NEW m \in Sample, LegacyActive(m)
       PROVE  TypeOK'
  BY <1>14 DEF LegacyActive, PushIs
<1>15. ASSUME NEW m \in Sample, StoreLegacy(m)
       PROVE  TypeOK'
  BY <1>15 DEF StoreLegacy, PushIs
<1>16. ASSUME NEW m \in Sample, PushFails(m)
       PROVE  TypeOK'
  BY <1>16 DEF PushFails, PushIs
<1>17. CASE Stop
  <2>1. legacy' \in BOOLEAN
    BY <1>17, Zenon DEF Stop
  <2>2. push' \in [Sample -> {"owed", "recorded", "both", "answered"}]
    BY <1>17 DEF Stop
  <2>3. at' = "down" /\ retiring' = 0 /\ stops' \in 0..MaxStops
    BY <1>17 DEF Stop
  <2> QED
    BY <1>17, <2>1, <2>2, <2>3 DEF Stop
<1>18. CASE RollBack
  <2>1. retired' \in BOOLEAN
    BY <1>18, Zenon DEF RollBack
  <2>2. compat' \subseteq Tables /\ rollBacks' \in 0..MaxRollBacks
    BY <1>18 DEF RollBack
  <2> QED
    BY <1>18, <2>1, <2>2 DEF RollBack
<1>19. CASE Tick
  BY <1>19 DEF Tick
<1>20. CASE UNCHANGED vars
  BY <1>20 DEF vars
<1> QED
  BY <1>1, <1>2, <1>3, <1>4, <1>5, <1>6, <1>7, <1>8, <1>9, <1>10, <1>11, <1>12, <1>13, <1>14,
     <1>15, <1>16, <1>17, <1>18, <1>19, <1>20
  DEF Next, Open, Handle, RetireLegacy

\* Every variable keeps the shape the code gives it, whatever file the node starts on
\* and wherever its starts are cut off.
THEOREM OpeningTypeCorrect == Spec => []TypeOK
  BY TypeInit, TypeNext, PTL DEF Spec

-----------------------------------------------------------------------------
\* The inductive invariant.

\* What the statements of Open have done by the time it has come so far, and the
\* retirement runs on a node that is up and writes the tables.
Progress ==
  /\ at \in {"columns", "marking", "compat", "up"} => register = "rows"
  /\ at \in {"compat", "up"} => columns = Columns
  /\ at = "up" => since # 0
  /\ legacy => at = "up"
  /\ retiring # 0 => legacy

\* The grace counts from the one date there is, and nothing is dropped in it.
InGrace == since # 0 /\ now - since < Grace

GraceIsKept ==
  /\ InGrace => compat = Tables /\ retiring = 0
  /\ InGrace /\ at = "up" => legacy
  /\ since = 0 \/ InGrace => history \in {{}, Tables}

\* The table a start looks for is the second to go: once it has, no start asks for
\* the tables again.
StaysRetired ==
  /\ retiring \in 3..4 => "MetricSnapshots" \notin compat
  /\ retired => since # 0 /\ at # "compat" /\ "MetricSnapshots" \notin compat

\* A copy is written by a handler that found the sample new, and nobody finds it new
\* after that.
CopiedOnce ==
  \A m \in Sample : /\ copies[m] <= 1
                    /\ copies[m] # 0 => m \in held
                    /\ push[m] \in {"recorded", "both"} => m \in held /\ copies[m] = 0

\* A file that is refused never gets past the first look at it.
RefusedStays ==
  json => /\ at \in {"down", "refused"}
          /\ since = 0
          /\ \A m \in Sample : push[m] = "owed"

Inv == TypeOK /\ Progress /\ GraceIsKept /\ StaysRetired /\ CopiedOnce /\ RefusedStays

LEMMA InvInit == Init => Inv
<1> SUFFICES ASSUME Init
             PROVE  Inv
  OBVIOUS
<1>1. TypeOK
  BY TypeInit
<1> QED
  BY <1>1 DEF Init, Inv, Progress, InGrace, GraceIsKept, StaysRetired, CopiedOnce, RefusedStays

LEMMA ProgressNext == TypeOK /\ Progress /\ [Next]_vars => Progress'
<1> SUFFICES ASSUME TypeOK /\ Progress, [Next]_vars
             PROVE  Progress'
  OBVIOUS
<1> USE DEF TypeOK, Progress, disk, process, counts
<1>1. CASE Inspect
  BY <1>1 DEF Inspect
<1>2. CASE ToIntegerKeys
  BY <1>2 DEF ToIntegerKeys
<1>3. CASE CreateSchema
  BY <1>3 DEF CreateSchema
<1>4. CASE AddColumn
  BY <1>4 DEF AddColumn
<1>5. CASE MarkLegacyRemovals
  BY <1>5 DEF MarkLegacyRemovals
<1>6. CASE InspectCompat
  BY <1>6 DEF InspectCompat, Wanted
<1>7. CASE CreateCompat
  BY <1>7 DEF CreateCompat
<1>8. CASE Opened
  BY <1>8 DEF Opened, Date
<1>9. CASE Retire
  BY <1>9 DEF Retire
<1>10. CASE DropTable
  BY <1>10 DEF DropTable
<1>11. CASE RetireFails
  BY <1>11 DEF RetireFails
<1>12. CASE Forget
  BY <1>12 DEF Forget
<1>13. ASSUME NEW m \in Sample, StoreSeries(m)
      PROVE  Progress'
  BY <1>13 DEF StoreSeries, PushIs
<1>14. ASSUME NEW m \in Sample, LegacyActive(m)
      PROVE  Progress'
  BY <1>14 DEF LegacyActive, PushIs
<1>15. ASSUME NEW m \in Sample, StoreLegacy(m)
      PROVE  Progress'
  BY <1>15 DEF StoreLegacy, PushIs
<1>16. ASSUME NEW m \in Sample, PushFails(m)
      PROVE  Progress'
  BY <1>16 DEF PushFails, PushIs
<1>17. CASE Stop
  BY <1>17 DEF Stop
<1>18. CASE RollBack
  BY <1>18 DEF RollBack
<1>19. CASE Tick
  BY <1>19 DEF Tick
<1>20. CASE UNCHANGED vars
  BY <1>20 DEF vars
<1> QED
  BY <1>1, <1>2, <1>3, <1>4, <1>5, <1>6, <1>7, <1>8, <1>9, <1>10, <1>11, <1>12, <1>13,
     <1>14, <1>15, <1>16, <1>17, <1>18, <1>19, <1>20
  DEF Next, Open, Handle, RetireLegacy

LEMMA GraceNext == TypeOK /\ Progress /\ GraceIsKept /\ [Next]_vars => GraceIsKept'
<1> SUFFICES ASSUME TypeOK /\ Progress /\ GraceIsKept, [Next]_vars
             PROVE  GraceIsKept'
  OBVIOUS
<1> USE DEF TypeOK, Progress, GraceIsKept, InGrace, disk, process, counts
<1>1. CASE Inspect
  BY <1>1 DEF Inspect
<1>2. CASE ToIntegerKeys
  BY <1>2 DEF ToIntegerKeys
<1>3. CASE CreateSchema
  BY <1>3 DEF CreateSchema
<1>4. CASE AddColumn
  BY <1>4 DEF AddColumn
<1>5. CASE MarkLegacyRemovals
  BY <1>5 DEF MarkLegacyRemovals
<1>6. CASE InspectCompat
  BY <1>6 DEF InspectCompat, Wanted, Tables
<1>7. CASE CreateCompat
  BY <1>7, TablesCreated DEF CreateCompat
<1>8. CASE Opened
  BY <1>8 DEF Opened, Date
<1>9. CASE Retire
  BY <1>9 DEF Retire, LegacyAge
<1>10. CASE DropTable
  BY <1>10 DEF DropTable
<1>11. CASE RetireFails
  BY <1>11 DEF RetireFails
<1>12. CASE Forget
  BY <1>12 DEF Forget
<1>13. ASSUME NEW m \in Sample, StoreSeries(m)
      PROVE  GraceIsKept'
  BY <1>13 DEF StoreSeries, PushIs
<1>14. ASSUME NEW m \in Sample, LegacyActive(m)
      PROVE  GraceIsKept'
  BY <1>14 DEF LegacyActive, PushIs
<1>15. ASSUME NEW m \in Sample, StoreLegacy(m)
      PROVE  GraceIsKept'
  BY <1>15 DEF StoreLegacy, PushIs
<1>16. ASSUME NEW m \in Sample, PushFails(m)
      PROVE  GraceIsKept'
  BY <1>16 DEF PushFails, PushIs
<1>17. CASE Stop
  BY <1>17 DEF Stop
<1>18. CASE RollBack
  BY <1>18 DEF RollBack
<1>19. CASE Tick
  BY <1>19 DEF Tick
<1>20. CASE UNCHANGED vars
  BY <1>20 DEF vars
<1> QED
  BY <1>1, <1>2, <1>3, <1>4, <1>5, <1>6, <1>7, <1>8, <1>9, <1>10, <1>11, <1>12, <1>13,
     <1>14, <1>15, <1>16, <1>17, <1>18, <1>19, <1>20
  DEF Next, Open, Handle, RetireLegacy

LEMMA RetiredNext == TypeOK /\ Progress /\ StaysRetired /\ [Next]_vars => StaysRetired'
<1> SUFFICES ASSUME TypeOK /\ Progress /\ StaysRetired, [Next]_vars
             PROVE  StaysRetired'
  OBVIOUS
<1> USE DEF TypeOK, Progress, StaysRetired, disk, process, counts
<1>1. CASE Inspect
  BY <1>1 DEF Inspect
<1>2. CASE ToIntegerKeys
  BY <1>2 DEF ToIntegerKeys
<1>3. CASE CreateSchema
  BY <1>3 DEF CreateSchema
<1>4. CASE AddColumn
  BY <1>4 DEF AddColumn
<1>5. CASE MarkLegacyRemovals
  BY <1>5 DEF MarkLegacyRemovals
<1>6. CASE InspectCompat
  BY <1>6 DEF InspectCompat, Wanted
<1>7. CASE CreateCompat
  BY <1>7 DEF CreateCompat
<1>8. CASE Opened
  BY <1>8 DEF Opened, Date
<1>9. CASE Retire
  BY <1>9 DEF Retire
<1>10. CASE DropTable
  BY <1>10 DEF DropTable, DroppedAs
<1>11. CASE RetireFails
  BY <1>11 DEF RetireFails
<1>12. CASE Forget
  BY <1>12 DEF Forget
<1>13. ASSUME NEW m \in Sample, StoreSeries(m)
      PROVE  StaysRetired'
  BY <1>13 DEF StoreSeries, PushIs
<1>14. ASSUME NEW m \in Sample, LegacyActive(m)
      PROVE  StaysRetired'
  BY <1>14 DEF LegacyActive, PushIs
<1>15. ASSUME NEW m \in Sample, StoreLegacy(m)
      PROVE  StaysRetired'
  BY <1>15 DEF StoreLegacy, PushIs
<1>16. ASSUME NEW m \in Sample, PushFails(m)
      PROVE  StaysRetired'
  BY <1>16 DEF PushFails, PushIs
<1>17. CASE Stop
  BY <1>17 DEF Stop
<1>18. CASE RollBack
  BY <1>18 DEF RollBack
<1>19. CASE Tick
  BY <1>19 DEF Tick
<1>20. CASE UNCHANGED vars
  BY <1>20 DEF vars
<1> QED
  BY <1>1, <1>2, <1>3, <1>4, <1>5, <1>6, <1>7, <1>8, <1>9, <1>10, <1>11, <1>12, <1>13,
     <1>14, <1>15, <1>16, <1>17, <1>18, <1>19, <1>20
  DEF Next, Open, Handle, RetireLegacy

LEMMA CopiedNext == TypeOK /\ CopiedOnce /\ [Next]_vars => CopiedOnce'
<1> SUFFICES ASSUME TypeOK /\ CopiedOnce, [Next]_vars
             PROVE  CopiedOnce'
  OBVIOUS
<1> USE DEF TypeOK, CopiedOnce, disk, process, counts
<1>1. CASE Inspect
  BY <1>1 DEF Inspect
<1>2. CASE ToIntegerKeys
  BY <1>2 DEF ToIntegerKeys
<1>3. CASE CreateSchema
  BY <1>3 DEF CreateSchema
<1>4. CASE AddColumn
  BY <1>4 DEF AddColumn
<1>5. CASE MarkLegacyRemovals
  BY <1>5 DEF MarkLegacyRemovals
<1>6. CASE InspectCompat
  BY <1>6 DEF InspectCompat
<1>7. CASE CreateCompat
  BY <1>7 DEF CreateCompat
<1>8. CASE Opened
  BY <1>8 DEF Opened
<1>9. CASE Retire
  BY <1>9 DEF Retire
<1>10. CASE DropTable
  BY <1>10 DEF DropTable
<1>11. CASE RetireFails
  BY <1>11 DEF RetireFails
<1>12. CASE Forget
  BY <1>12 DEF Forget
<1>13. ASSUME NEW m \in Sample, StoreSeries(m)
      PROVE  CopiedOnce'
  BY <1>13 DEF StoreSeries, PushIs
<1>14. ASSUME NEW m \in Sample, LegacyActive(m)
      PROVE  CopiedOnce'
  BY <1>14 DEF LegacyActive, PushIs
<1>15. ASSUME NEW m \in Sample, StoreLegacy(m)
      PROVE  CopiedOnce'
  BY <1>15 DEF StoreLegacy, PushIs
<1>16. ASSUME NEW m \in Sample, PushFails(m)
      PROVE  CopiedOnce'
  BY <1>16 DEF PushFails, PushIs
<1>17. CASE Stop
  BY <1>17 DEF Stop
<1>18. CASE RollBack
  BY <1>18 DEF RollBack
<1>19. CASE Tick
  BY <1>19 DEF Tick
<1>20. CASE UNCHANGED vars
  BY <1>20 DEF vars
<1> QED
  BY <1>1, <1>2, <1>3, <1>4, <1>5, <1>6, <1>7, <1>8, <1>9, <1>10, <1>11, <1>12, <1>13,
     <1>14, <1>15, <1>16, <1>17, <1>18, <1>19, <1>20
  DEF Next, Open, Handle, RetireLegacy

LEMMA RefusedNext == TypeOK /\ Progress /\ RefusedStays /\ [Next]_vars => RefusedStays'
<1> SUFFICES ASSUME TypeOK /\ Progress /\ RefusedStays, [Next]_vars
             PROVE  RefusedStays'
  OBVIOUS
<1> USE DEF TypeOK, Progress, RefusedStays, disk, process, counts
<1>1. CASE Inspect
  BY <1>1 DEF Inspect
<1>2. CASE ToIntegerKeys
  BY <1>2 DEF ToIntegerKeys
<1>3. CASE CreateSchema
  BY <1>3 DEF CreateSchema
<1>4. CASE AddColumn
  BY <1>4 DEF AddColumn
<1>5. CASE MarkLegacyRemovals
  BY <1>5 DEF MarkLegacyRemovals
<1>6. CASE InspectCompat
  BY <1>6 DEF InspectCompat
<1>7. CASE CreateCompat
  BY <1>7 DEF CreateCompat
<1>8. CASE Opened
  BY <1>8 DEF Opened
<1>9. CASE Retire
  BY <1>9 DEF Retire
<1>10. CASE DropTable
  BY <1>10 DEF DropTable
<1>11. CASE RetireFails
  BY <1>11 DEF RetireFails
<1>12. CASE Forget
  BY <1>12 DEF Forget
<1>13. ASSUME NEW m \in Sample, StoreSeries(m)
      PROVE  RefusedStays'
  BY <1>13 DEF StoreSeries, PushIs
<1>14. ASSUME NEW m \in Sample, LegacyActive(m)
      PROVE  RefusedStays'
  BY <1>14 DEF LegacyActive, PushIs
<1>15. ASSUME NEW m \in Sample, StoreLegacy(m)
      PROVE  RefusedStays'
  BY <1>15 DEF StoreLegacy, PushIs
<1>16. ASSUME NEW m \in Sample, PushFails(m)
      PROVE  RefusedStays'
  BY <1>16 DEF PushFails, PushIs
<1>17. CASE Stop
  BY <1>17 DEF Stop
<1>18. CASE RollBack
  BY <1>18 DEF RollBack
<1>19. CASE Tick
  BY <1>19 DEF Tick
<1>20. CASE UNCHANGED vars
  BY <1>20 DEF vars
<1> QED
  BY <1>1, <1>2, <1>3, <1>4, <1>5, <1>6, <1>7, <1>8, <1>9, <1>10, <1>11, <1>12, <1>13,
     <1>14, <1>15, <1>16, <1>17, <1>18, <1>19, <1>20
  DEF Next, Open, Handle, RetireLegacy

LEMMA InvNext == Inv /\ [Next]_vars => Inv'
  BY TypeNext, ProgressNext, GraceNext, RetiredNext, CopiedNext, RefusedNext DEF Inv

\* The inductive invariant holds, from whatever file the node starts on.
THEOREM OpeningInvariant == Spec => []Inv
  BY InvInit, InvNext, PTL DEF Spec

-----------------------------------------------------------------------------
\* The properties.

\* Wherever earlier starts were cut off, a node that is up has its register in full,
\* and goes on writing the first build's tables until their grace is over (Open).
THEOREM UsableAfterEveryStart == Spec => []UsableWhenUp
<1>1. Inv => UsableWhenUp
  BY DEF Inv, Progress, GraceIsKept, InGrace, UsableWhenUp
<1> QED
  BY <1>1, OpeningInvariant, PTL

\* A build that is rolled back in the grace window finds its history where it left it,
\* in all three tables (RetireLegacy).
THEOREM HistoryWaitsForARollBack == Spec => []HistoryStays
<1>1. Inv => HistoryStays
  BY DEF Inv, GraceIsKept, InGrace, HistoryStays
<1> QED
  BY <1>1, OpeningInvariant, PTL

\* Tables that were retired stay so over every restart, until the first build is run
\* again (Open's dated && present).
THEOREM RetirementIsFinal == Spec => []RetiredForGood
<1>1. Inv => RetiredForGood
  BY DEF Inv, StaysRetired, RetiredForGood
<1> QED
  BY <1>1, OpeningInvariant, PTL

\* A sample is copied into the first build's tables once, however often its peer retries
\* and wherever the handler was cut off (InsertMetrics).
THEOREM RetriesDoNotCopy == Spec => []NoSecondCopy
<1>1. Inv => NoSecondCopy
  BY DEF Inv, CopiedOnce, NoSecondCopy
<1> QED
  BY <1>1, OpeningInvariant, PTL

\* Nothing but the look at it, and time, happens to a node that refuses its file.
LEMMA RefusedStep == Inv /\ [Next]_vars => (json => UNCHANGED disk)
<1> SUFFICES ASSUME Inv, [Next]_vars
             PROVE  (json => UNCHANGED disk)
  OBVIOUS
<1> USE DEF Inv, Progress, RefusedStays, disk, process, counts
<1>1. CASE Inspect
  BY <1>1 DEF Inspect
<1>2. CASE ToIntegerKeys
  BY <1>2 DEF ToIntegerKeys
<1>3. CASE CreateSchema
  BY <1>3 DEF CreateSchema
<1>4. CASE AddColumn
  BY <1>4 DEF AddColumn
<1>5. CASE MarkLegacyRemovals
  BY <1>5 DEF MarkLegacyRemovals
<1>6. CASE InspectCompat
  BY <1>6 DEF InspectCompat
<1>7. CASE CreateCompat
  BY <1>7 DEF CreateCompat
<1>8. CASE Opened
  BY <1>8 DEF Opened
<1>9. CASE Retire
  BY <1>9 DEF Retire
<1>10. CASE DropTable
  BY <1>10 DEF DropTable
<1>11. CASE RetireFails
  BY <1>11 DEF RetireFails
<1>12. CASE Forget
  BY <1>12 DEF Forget
<1>13. ASSUME NEW m \in Sample, StoreSeries(m)
      PROVE  (json => UNCHANGED disk)
  BY <1>13 DEF StoreSeries, PushIs
<1>14. ASSUME NEW m \in Sample, LegacyActive(m)
      PROVE  (json => UNCHANGED disk)
  BY <1>14 DEF LegacyActive, PushIs
<1>15. ASSUME NEW m \in Sample, StoreLegacy(m)
      PROVE  (json => UNCHANGED disk)
  BY <1>15 DEF StoreLegacy, PushIs
<1>16. ASSUME NEW m \in Sample, PushFails(m)
      PROVE  (json => UNCHANGED disk)
  BY <1>16 DEF PushFails, PushIs
<1>17. CASE Stop
  BY <1>17 DEF Stop
<1>18. CASE RollBack
  BY <1>18 DEF RollBack
<1>19. CASE Tick
  BY <1>19 DEF Tick
<1>20. CASE UNCHANGED vars
  BY <1>20 DEF vars
<1> QED
  BY <1>1, <1>2, <1>3, <1>4, <1>5, <1>6, <1>7, <1>8, <1>9, <1>10, <1>11, <1>12, <1>13,
     <1>14, <1>15, <1>16, <1>17, <1>18, <1>19, <1>20
  DEF Next, Open, Handle, RetireLegacy

\* A database of the build before the disks moved is left exactly as it was found, by
\* every start there ever is (Open).
THEOREM RefusedFileIsLeft == Spec => RefusedIsUntouched
  BY OpeningInvariant, RefusedStep, PTL DEF Spec, RefusedIsUntouched
=============================================================================
