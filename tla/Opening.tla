------------------------------- MODULE Opening -------------------------------
(***************************************************************************)
(* The start of a node on the database it finds (internal/store/store.go,  *)
(* Open, and migrate.go), and the retirement of the tables the first build *)
(* stored readings in (series.go, RetireLegacy; internal/worker/rollup.go, *)
(* retire), with a handler that stores an old peer's samples in between.   *)
(*                                                                         *)
(* Open runs its statements one by one, and only toIntegerKeys is one      *)
(* transaction, so the process may end between any two: by a crash, or by  *)
(* the error Open returns when one of them fails.                          *)
(***************************************************************************)
EXTENDS Integers

CONSTANTS Sample,       \* samples an old peer pushes
          Grace,        \* legacyGrace
          MaxTime,      \* bound: the last instant
          MaxStops,     \* bound: times the process ends
          MaxRollBacks  \* bound: times the first build is run in between

ASSUME OpeningAssumption == /\ Grace \in Nat \ {0}
                            /\ MaxTime \in Nat \ {0}
                            /\ MaxStops \in Nat
                            /\ MaxRollBacks \in Nat

\* compatSchema, in the order it creates them, and RetireLegacy's order.
Tables    == {"MetricSnapshots", "MetricDisks", "AvailabilityRecords"}
CreatedAs == <<"MetricSnapshots", "MetricDisks", "AvailabilityRecords">>
DroppedAs == <<"MetricDisks", "MetricSnapshots", "AvailabilityRecords">>

\* addColumns: Alerts, PushOnly, Removed, MemberAt, Protocol.
Columns == 5
Removed == 3

VARIABLES register,   \* Servers: absent, keyed by GUID, or by row id
          columns,    \* how many of the added columns it has
          dropped,    \* a peer an earlier build removed: by the shape of its row, or a tombstone
          json,       \* whether MetricSnapshots keeps disks as JSON
          compat,     \* which of the first build's tables exist
          history,    \* which of them still hold what the first build stored
          since,      \* "series.since" in Meta; 0 if it is not there
          held,       \* the samples in the series store
          copies,     \* copies[m]: rows of MetricSnapshots about the sample m
          at,         \* where Open has come to
          legacy,     \* Store.legacy
          retiring,   \* the statement RetireLegacy is at; 0 when it is not running
          push,       \* push[m]: how far the handler has come with the sample m
          now,
          stops,
          rollBacks,
          retired     \* whether the tables were retired, with no first build run since

disk    == <<register, columns, dropped, json, compat, history, since, held, copies>>
process == <<at, legacy, retiring, push>>
counts  == <<now, stops, rollBacks, retired>>
vars    == <<disk, process, counts>>

\* A fresh file, or one an earlier build wrote.
Init == /\ register \in {"absent", "guid", "rows"}
        /\ columns \in 0..(Columns - 1)
        /\ register # "rows" => columns = 0
        /\ dropped \in {"nobody", "shape"}
        /\ dropped = "shape" => register # "absent" /\ columns < Removed
        /\ json \in {register = "guid", FALSE}
        /\ compat = IF register = "absent" THEN {} ELSE Tables
        /\ history = compat
        /\ since = 0
        /\ held = {}
        /\ copies = [m \in Sample |-> 0]
        /\ at = "down"
        /\ legacy = FALSE
        /\ retiring = 0
        /\ push = [m \in Sample |-> "owed"]
        /\ now = 1
        /\ stops = 0
        /\ rollBacks = 0
        /\ retired = FALSE

-----------------------------------------------------------------------------
\* Open.

\* A fault: the file is migrated, whatever its disks.
InspectKeysOnly == /\ at = "down"
                   /\ at' = IF register = "guid" THEN "migrate" ELSE "schema"
                   /\ UNCHANGED <<disk, legacy, retiring, push, counts>>

\* hasColumn(MetricSnapshots, DisksJson), then needsIntegerKeys.
Inspect == /\ at = "down"
           /\ at' = IF json THEN "refused"
                    ELSE IF register = "guid" THEN "migrate" ELSE "schema"
           /\ UNCHANGED <<disk, legacy, retiring, push, counts>>

\* toIntegerKeys, one transaction.
ToIntegerKeys == /\ at = "migrate"
                 /\ register' = "rows"
                 /\ columns' = 0
                 /\ at' = "schema"
                 /\ UNCHANGED <<dropped, json, compat, history, since, held, copies,
                                legacy, retiring, push, counts>>

\* The schema: a table created now lacks Protocol alone.  A statement of it that
\* is run again changes nothing, so it is one step here.
CreateSchema == /\ at = "schema"
                /\ register' = "rows"
                /\ columns' = IF register = "absent" THEN Columns - 1 ELSE columns
                /\ at' = "columns"
                /\ UNCHANGED <<dropped, json, compat, history, since, held, copies,
                               legacy, retiring, push, counts>>

AddColumn == /\ at = "columns"
             /\ columns < Columns
             /\ columns' = columns + 1
             /\ at' = IF columns + 1 = Removed THEN "marking" ELSE "columns"
             /\ UNCHANGED <<register, dropped, json, compat, history, since, held, copies,
                            legacy, retiring, push, counts>>

MarkLegacyRemovals == /\ at = "marking"
                      /\ dropped' = IF dropped = "shape" THEN "tombstone" ELSE dropped
                      /\ at' = "columns"
                      /\ UNCHANGED <<register, columns, json, compat, history, since, held,
                                     copies, legacy, retiring, push, counts>>

\* A fault: the tables are taken as wanted whenever they are missing.
Always == TRUE

\* Open's !(dated && !present).
Wanted == since = 0 \/ "MetricSnapshots" \in compat

\* A fault: the date is written as soon as it is found missing.
InspectCompatDating == /\ at = "columns"
                       /\ columns = Columns
                       /\ at' = IF Wanted THEN "compat" ELSE "up"
                       /\ since' = IF since = 0 THEN now ELSE since
                       /\ UNCHANGED <<register, columns, dropped, json, compat, history, held,
                                      copies, legacy, retiring, push, counts>>

InspectCompat == /\ at = "columns"
                 /\ columns = Columns
                 /\ at' = IF Wanted THEN "compat" ELSE "up"
                 /\ UNCHANGED <<disk, legacy, retiring, push, counts>>

\* CREATE TABLE IF NOT EXISTS of the first one missing.
CreateCompat == /\ at = "compat"
                /\ \E i \in 1..3 : /\ CreatedAs[i] \notin compat
                                   /\ \A j \in 1..(i - 1) : CreatedAs[j] \in compat
                                   /\ compat' = compat \cup {CreatedAs[i]}
                /\ UNCHANGED <<register, columns, dropped, json, history, since, held, copies,
                               process, counts>>

\* A fault: the date is that of an unset clock.
DateUnset == 0 - 1

\* A fault: the date is that of the last start.
DateAnew == now

\* The date: "written once and never again".
Date == IF since = 0 THEN now ELSE since

Opened == /\ at = "compat"
          /\ compat = Tables
          /\ legacy' = TRUE
          /\ since' = Date
          /\ at' = "up"
          /\ UNCHANGED <<register, columns, dropped, json, compat, history, held, copies,
                         retiring, push, counts>>

-----------------------------------------------------------------------------
\* The rollup retires the tables.

\* A fault: the grace runs from the first instant there is.
AgeOfAll == now

LegacyAge == now - since

Retire == /\ at = "up"
          /\ legacy
          /\ retiring = 0
          /\ LegacyAge >= Grace
          /\ retiring' = 1
          /\ UNCHANGED <<disk, at, legacy, push, counts>>

DropTable == /\ retiring \in 1..3
             /\ LET t == DroppedAs[retiring]
                IN  /\ compat' = compat \ {t}
                    /\ history' = history \ {t}
                    /\ copies' = IF t = "MetricSnapshots" THEN [m \in Sample |-> 0] ELSE copies
             /\ retiring' = retiring + 1
             /\ UNCHANGED <<register, columns, dropped, json, since, held, at, legacy, push, counts>>

\* A DROP fails: the pass ends, and the next one starts over.
RetireFails == /\ retiring \in 1..3
               /\ retiring' = 0
               /\ UNCHANGED <<disk, at, legacy, push, counts>>

Forget == /\ retiring = 4
          /\ legacy' = FALSE
          /\ retiring' = 0
          /\ retired' = TRUE
          /\ UNCHANGED <<disk, at, push, now, stops, rollBacks>>

-----------------------------------------------------------------------------
\* An old peer pushes a sample until it is answered (storeSyncedMetrics,
\* InsertMetrics).

PushIs(m, step) == push' = [push EXCEPT ![m] = step]

\* A fault: the watermark is not asked.
StoreSeriesAgain(m) ==
  /\ at = "up"
  /\ push[m] = "owed"
  /\ PushIs(m, "recorded")
  /\ held' = held \cup {m}
  /\ UNCHANGED <<register, columns, dropped, json, compat, history, since, copies,
                 at, legacy, retiring, counts>>

\* A fault: the error of a write that failed is dropped.
StoreSeriesUnchecked(m) ==
  /\ at = "up"
  /\ push[m] = "owed"
  /\ IF m \in held THEN PushIs(m, "answered") /\ UNCHANGED held
                   ELSE PushIs(m, "recorded") /\ held' \in {held, held \cup {m}}
  /\ UNCHANGED <<register, columns, dropped, json, compat, history, since, copies,
                 at, legacy, retiring, counts>>

\* The peer's watermark, then RecordSnapshots.
StoreSeries(m) ==
  /\ at = "up"
  /\ push[m] = "owed"
  /\ IF m \in held THEN PushIs(m, "answered") /\ UNCHANGED held
                   ELSE PushIs(m, "recorded") /\ held' = held \cup {m}
  /\ UNCHANGED <<register, columns, dropped, json, compat, history, since, copies,
                 at, legacy, retiring, counts>>

LegacyActive(m) == /\ push[m] = "recorded"
                   /\ PushIs(m, IF legacy THEN "both" ELSE "answered")
                   /\ UNCHANGED <<disk, at, legacy, retiring, counts>>

\* The transaction on the first build's tables fails where one is gone.
StoreLegacy(m) ==
  /\ push[m] = "both"
  /\ IF {"MetricSnapshots", "MetricDisks"} \subseteq compat
     THEN PushIs(m, "answered") /\ copies' = [copies EXCEPT ![m] = @ + 1]
     ELSE PushIs(m, "owed") /\ UNCHANGED copies
  /\ UNCHANGED <<register, columns, dropped, json, compat, history, since, held,
                 at, legacy, retiring, counts>>

\* Any statement of the handler fails, or its answer is lost.
PushFails(m) == /\ push[m] # "owed"
                /\ stops < MaxStops
                /\ stops' = stops + 1
                /\ PushIs(m, "owed")
                /\ UNCHANGED <<disk, at, legacy, retiring, now, rollBacks, retired>>

-----------------------------------------------------------------------------
\* The process ends.
Stop == /\ at \notin {"down", "refused"}
        /\ stops < MaxStops
        /\ stops' = stops + 1
        /\ at' = "down"
        /\ legacy' = FALSE
        /\ retiring' = 0
        /\ push' = [m \in Sample |-> IF push[m] = "answered" THEN "answered" ELSE "owed"]
        /\ UNCHANGED <<disk, now, rollBacks, retired>>

\* The first build is run: it creates its tables again, and runs.
RollBack == /\ at = "down"
            /\ since # 0
            /\ rollBacks < MaxRollBacks
            /\ rollBacks' = rollBacks + 1
            /\ compat' = Tables
            /\ retired' = FALSE
            /\ UNCHANGED <<register, columns, dropped, json, history, since, held, copies,
                           process, now, stops>>

\* The bound leaves room for the grace after the upgrade.
Tick == /\ now < MaxTime
        /\ since = 0 => now < MaxTime - Grace
        /\ now' = now + 1
        /\ UNCHANGED <<disk, process, stops, rollBacks, retired>>

Open == \/ Inspect
        \/ ToIntegerKeys
        \/ CreateSchema
        \/ AddColumn
        \/ MarkLegacyRemovals
        \/ InspectCompat
        \/ CreateCompat
        \/ Opened

Handle(m) == StoreSeries(m) \/ LegacyActive(m) \/ StoreLegacy(m)

RetireLegacy == Retire \/ DropTable \/ Forget

Next == \/ Open
        \/ RetireLegacy \/ RetireFails
        \/ \E m \in Sample : Handle(m) \/ PushFails(m)
        \/ Stop \/ RollBack
        \/ Tick

Spec == Init /\ [][Next]_vars

\* A node is started again, its passes go on, the peer keeps pushing; a DROP
\* that is tried for ever succeeds at last.
Fairness == /\ WF_vars(Open)
            /\ WF_vars(Retire) /\ WF_vars(Forget)
            /\ \A i \in 1..3 : SF_vars(retiring = i /\ DropTable)
            /\ \A m \in Sample : WF_vars(Handle(m))
            /\ WF_vars(Tick)

FairSpec == Spec /\ Fairness

-----------------------------------------------------------------------------
TypeOK == /\ register \in {"absent", "guid", "rows"}
          /\ columns \in 0..Columns
          /\ dropped \in {"nobody", "shape", "tombstone"}
          /\ json \in BOOLEAN
          /\ compat \subseteq Tables
          /\ history \subseteq Tables
          /\ since \in 0..MaxTime
          /\ held \subseteq Sample
          /\ copies \in [Sample -> Nat]
          /\ at \in {"down", "refused", "migrate", "schema", "columns", "marking", "compat", "up"}
          /\ legacy \in BOOLEAN
          /\ retiring \in 0..4
          /\ push \in [Sample -> {"owed", "recorded", "both", "answered"}]
          /\ now \in 1..MaxTime
          /\ stops \in 0..MaxStops
          /\ rollBacks \in 0..MaxRollBacks
          /\ retired \in BOOLEAN

\* Wherever earlier starts were cut off, a node that is up has its register in
\* full, and goes on writing the first build's tables, all there, until their
\* grace is over.
UsableWhenUp ==
  at = "up" => /\ register = "rows" /\ columns = Columns /\ since # 0
               /\ now - since < Grace => legacy /\ compat = Tables

\* "A build rolled back inside the grace window finds its history where it left
\* it" (RetireLegacy), measured from the first start of this build.
HistoryStays == (since = 0 \/ now - since < Grace) => history \in {{}, Tables}

\* Retired tables do not come back with a restart, only with the first build.
RetiredForGood == retired => "MetricSnapshots" \notin compat

\* "A caller that retries after an error cannot end up with two copies of a
\* snapshot" (InsertMetrics), wherever the handler was cut off before.
NoSecondCopy == \A m \in Sample : copies[m] <= 1

\* A database of the build before the disks moved is left exactly as it was
\* found (Open).
RefusedIsUntouched == [][json => UNCHANGED disk]_vars

\* A node that keeps running is rid of the first build's tables in the end.
Retires == json \/ <>[](at = "up" => ~legacy)

\* The peer's sample is stored and answered in the end, a table that is dropped
\* under the handler's hands or not.
PushesAreAnswered == json \/ \A m \in Sample : <>(push[m] = "answered" /\ m \in held)

\* "The peer register - who is in the mesh, and which nodes were removed from it
\* - is untouched and carries across" (README.md, Upgrading).
RemovalsCarryAcross == at = "up" => dropped # "shape"

\* The tables are "kept for two days after an upgrade ... and are then dropped"
\* (README.md, Upgrading): a node that no longer writes them no longer has them.
RetiredAreGone == at = "up" /\ ~legacy => compat = {}
=============================================================================
