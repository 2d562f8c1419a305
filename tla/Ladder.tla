-------------------------------- MODULE Ladder --------------------------------
(***************************************************************************)
(* The checks one node makes of one route, and what becomes of them        *)
(* (internal/worker/rollup.go, internal/store/series.go): every check is a *)
(* row of Samples, sealed buckets of checks are rows of Rollups at the     *)
(* finest rung, sealed buckets of those are rows at the next, and every    *)
(* table is swept by age.  The node may stop between any two statements,   *)
(* and a statement may fail.                                               *)
(*                                                                         *)
(* One unit of time is the interval of the worker (rollupInterval); a node *)
(* that runs makes one check in it.  A row counts its checks and those     *)
(* that succeeded; the values beside the counts are left out.              *)
(***************************************************************************)
EXTENDS Integers, FiniteSets

CONSTANTS Top,              \* the rungs are 0..Top, the coarsest last
          Width, Retain,    \* of each rung
          SampleRetention, SealGrace, SampleInterval,
          RawWindow,        \* LevelFor: up to this long, a chart is drawn from the checks
          MaxPoints,        \* LevelFor: and beyond, from a rung with so few points
          Windows,          \* the windows charts are asked for
          MaxTime,          \* bound: the last instant
          MaxChanges,       \* bound: changes of the route
          MaxFailures,      \* bound: statements that fail
          MaxStops          \* bound: times the node stops

Rung == 0..Top

ASSUME LadderAssumption ==
  /\ Top \in Nat
  /\ Width \in [Rung -> Nat \ {0}] /\ Retain \in [Rung -> Nat]
  /\ \A l \in Rung : l > 0 => Width[l] % Width[l-1] = 0
  /\ {SampleRetention, SealGrace, SampleInterval, RawWindow, MaxPoints,
      MaxTime, MaxChanges, MaxFailures, MaxStops} \subseteq Nat
  /\ Windows \subseteq Nat
  \* "It has to outlast the grace the roll-up waits" (SampleRetention), and so has
  \* each rung the next one's bucket.
  /\ SampleRetention >= SealGrace + Width[0]
  /\ \A l \in Rung : l > 0 => Retain[l-1] >= SealGrace + 2 * Width[l]

VARIABLES now, route,
          checks,      \* every check ever made (not in the code)
          samples,     \* Samples
          rollups,     \* Rollups
          watermark,   \* the rows of Meta
          at,          \* where the worker is
          lastSamplePrune, lastPrune,
          up,
          changes, failures, stops

sweeps == <<lastSamplePrune, lastPrune>>
counts == <<changes, failures, stops>>
tables == <<samples, rollups, watermark>>
vars   == <<now, route, checks, tables, at, sweeps, up, counts>>

Unset == -1

Sample == [at : 0..MaxTime, ok : BOOLEAN]
Rollup == [level : Rung, bucket : Int, count : Nat \ {0}, countOk : Nat]

Rest == [step |-> "rest", level |-> 0]
Step == [step : {"rest", "rows", "mark", "sweep samples", "sweep"}, level : Rung]

Go(step, l) == [step |-> step, level |-> l]

Init == /\ now = 0
        /\ route \in BOOLEAN
        /\ checks = {} /\ samples = {} /\ rollups = {}
        /\ watermark = [l \in Rung |-> Unset]
        /\ at = Go("rows", 0)
        /\ lastSamplePrune = Unset
        /\ lastPrune = [l \in Rung |-> Unset]
        /\ up = TRUE
        /\ changes = 0 /\ failures = 0 /\ stops = 0

-----------------------------------------------------------------------------
\* Buckets.

Least(S)    == CHOOSE i \in S : \A j \in S : i <= j
Greatest(S) == CHOOSE i \in S : \A j \in S : j <= i

Bucket(t, l)   == t \div Width[l]
BucketStart(b, l) == b * Width[l]
BucketEnd(b, l)   == (b + 1) * Width[l]

\* A fault: a bucket is taken as complete while it is open.
SealedAtOnce(l) == Bucket(now, l)

SealedThrough(l) == Bucket(now - SealGrace, l) - 1

\* The checks of a bucket.
In(S, b, l) == {s \in S : Bucket(s.at, l) = b}

Ok(S) == {s \in S : s.ok}

-----------------------------------------------------------------------------
\* Time, the route and its checks.

Checked == \E s \in checks : s.at = now

\* The worker is done with a pass before the next is due.
Tick == /\ now < MaxTime
        /\ up => Checked /\ at = Rest
        /\ now' = now + 1
        /\ at' = IF up THEN Go("rows", 0) ELSE Rest
        /\ UNCHANGED <<route, checks, tables, sweeps, up, counts>>

Change == /\ ~Checked
          /\ changes < MaxChanges
          /\ changes' = changes + 1
          /\ route' = ~route
          /\ UNCHANGED <<now, checks, tables, at, sweeps, up, failures, stops>>

\* The sync worker's check (InsertAvailability).
Check == /\ up
         /\ ~Checked
         /\ LET s == [at |-> now, ok |-> route]
            IN  checks' = checks \cup {s} /\ samples' = samples \cup {s}
         /\ UNCHANGED <<now, route, rollups, watermark, at, sweeps, up, counts>>

-----------------------------------------------------------------------------
\* pass.

\* Faults: a bucket is added to, and the rows of one pass are all there are.
AddUp(rows) ==
  {r \in rollups : ~\E n \in rows : n.level = r.level /\ n.bucket = r.bucket} \cup
  {LET old == {r \in rollups : r.level = n.level /\ r.bucket = n.bucket}
   IN  IF old = {} THEN n
       ELSE [n EXCEPT !.count = @ + (CHOOSE r \in old : TRUE).count,
                      !.countOk = @ + (CHOOSE r \in old : TRUE).countOk] : n \in rows}
Replace(rows) == {r \in rollups : ~\E n \in rows : n.level = r.level} \cup rows

\* ON CONFLICT DO UPDATE: a row is written over the row of its bucket.
Upsert(rows) ==
  {r \in rollups : ~\E n \in rows : n.level = r.level /\ n.bucket = r.bucket} \cup rows

\* The rows RollSamples computes for the buckets from..to-1: one for each bucket that
\* holds a check.
RollSamples(from, to) ==
  {LET S == In(samples, b, 0)
   IN  [level |-> 0, bucket |-> b, count |-> Cardinality(S), countOk |-> Cardinality(Ok(S))] :
     b \in {Bucket(s.at, 0) : s \in samples} \cap from..(to - 1)}

\* The sum of a field over a few rows.
CountOf(rows) ==
  LET sum[R \in SUBSET rows] == IF R = {} THEN 0
                                ELSE LET r == CHOOSE r \in R : TRUE
                                     IN  r.count + sum[R \ {r}]
  IN  sum[rows]

CountOkOf(rows) ==
  LET sum[R \in SUBSET rows] == IF R = {} THEN 0
                                ELSE LET r == CHOOSE r \in R : TRUE
                                     IN  r.countOk + sum[R \ {r}]
  IN  sum[rows]

Ratio(l) == Width[l] \div Width[l-1]

\* And RollLevel, from the rung below.
RollLevel(l, from, to) ==
  LET fine == {r \in rollups : r.level = l - 1}
      Of(b) == {r \in fine : r.bucket \div Ratio(l) = b}
  IN  {[level |-> l, bucket |-> b, count |-> CountOf(Of(b)), countOk |-> CountOkOf(Of(b))] :
         b \in {r.bucket \div Ratio(l) : r \in fine} \cap from..(to - 1)}

\* The first bucket that is not built yet, as the set of it or nothing: the watermark,
\* or where there is none what the oldest row to build from says.
StartOf(l) ==
  IF watermark[l] # Unset THEN {watermark[l]}
  ELSE LET buckets == IF l = 0 THEN {Bucket(s.at, 0) : s \in samples}
                               ELSE {r.bucket \div Ratio(l) : r \in {q \in rollups : q.level = l - 1}}
       IN  IF buckets = {} THEN {} ELSE {Least(buckets)}

\* Where the worker goes after a rung.
After(l) == IF l < Top THEN Go("rows", l + 1) ELSE Go("sweep samples", 0)

\* One rung: the rows, unless there is nothing to build or nothing has sealed.
Rows(l) ==
  /\ up
  /\ at = Go("rows", l)
  /\ IF \E from \in StartOf(l) : from <= SealedThrough(l)
     THEN /\ LET from == Least(StartOf(l))
                 to   == SealedThrough(l) + 1
             IN  rollups' = Upsert(IF l = 0 THEN RollSamples(from, to) ELSE RollLevel(l, from, to))
          /\ at' = Go("mark", l)
     ELSE /\ at' = After(l)
          /\ UNCHANGED rollups
  /\ UNCHANGED <<now, route, checks, samples, watermark, sweeps, up, counts>>

\* Then the watermark.
Mark(l) ==
  /\ up
  /\ at = Go("mark", l)
  /\ watermark' = [watermark EXCEPT ![l] = SealedThrough(l) + 1]
  /\ at' = After(l)
  /\ UNCHANGED <<now, route, checks, samples, rollups, sweeps, up, counts>>

-----------------------------------------------------------------------------
\* prune.

SamplesDue == lastSamplePrune = Unset \/ now - lastSamplePrune >= SampleInterval

\* Faults: what the next rung has not built yet goes as well; nothing goes.
OlderThanGrace == {s \in samples : s.at >= now - SealGrace}
AllSamples     == samples

\* What PruneSamples leaves.
PruneSamples == {s \in samples : s.at >= now - SampleRetention}

SweepSamples ==
  /\ up
  /\ at.step = "sweep samples"
  /\ at' = Go("sweep", 0)
  /\ IF SamplesDue
     THEN lastSamplePrune' = now /\ samples' = PruneSamples
     ELSE UNCHANGED <<lastSamplePrune, samples>>
  /\ UNCHANGED <<now, route, checks, rollups, watermark, lastPrune, up, counts>>

RungDue(l) == lastPrune[l] = Unset \/ now - lastPrune[l] >= Width[l]

\* A fault: a rung is swept once it is as old as it is wide.
PruneByWidth(l) == {r \in rollups : r.level = l => r.bucket >= Bucket(now - Width[l], l)}

\* What PruneRollups leaves.
PruneRollups(l) == {r \in rollups : r.level = l => r.bucket >= Bucket(now - Retain[l], l)}

AfterSweep(l) == IF l < Top THEN Go("sweep", l + 1) ELSE Rest

Sweep(l) ==
  /\ up
  /\ at = Go("sweep", l)
  /\ at' = AfterSweep(l)
  /\ IF RungDue(l)
     THEN lastPrune' = [lastPrune EXCEPT ![l] = now] /\ rollups' = PruneRollups(l)
     ELSE UNCHANGED <<lastPrune, rollups>>
  /\ UNCHANGED <<now, route, checks, samples, watermark, lastSamplePrune, up, counts>>

-----------------------------------------------------------------------------
\* A statement fails: the rest of the pass is skipped, or the rest of the sweep, whose
\* turn counts as taken.  The error is logged.

FailPass == /\ up
            /\ at.step \in {"rows", "mark"}
            /\ failures < MaxFailures
            /\ failures' = failures + 1
            /\ at' = Go("sweep samples", 0)
            /\ UNCHANGED <<now, route, checks, tables, sweeps, up, changes, stops>>

FailSweep == /\ up
             /\ failures < MaxFailures
             /\ \/ /\ at.step = "sweep samples" /\ SamplesDue
                   /\ lastSamplePrune' = now
                   /\ UNCHANGED lastPrune
                \/ /\ at.step = "sweep" /\ RungDue(at.level)
                   /\ lastPrune' = [lastPrune EXCEPT ![at.level] = now]
                   /\ UNCHANGED lastSamplePrune
             /\ failures' = failures + 1
             /\ at' = Rest
             /\ UNCHANGED <<now, route, checks, tables, up, changes, stops>>

Stop == /\ up
        /\ stops < MaxStops
        /\ stops' = stops + 1
        /\ up' = FALSE
        /\ at' = Rest
        /\ UNCHANGED <<now, route, checks, tables, sweeps, changes, failures>>

\* Run: a pass at once, and no sweep made yet.
Start == /\ ~up
         /\ up' = TRUE
         /\ at' = Go("rows", 0)
         /\ lastSamplePrune' = Unset
         /\ lastPrune' = [l \in Rung |-> Unset]
         /\ UNCHANGED <<now, route, checks, tables, counts>>

Next == \/ Tick \/ Change \/ Check
        \/ \E l \in Rung : Rows(l) \/ Mark(l) \/ Sweep(l)
        \/ SweepSamples
        \/ FailPass \/ FailSweep
        \/ Stop \/ Start

Spec == Init /\ [][Next]_vars

-----------------------------------------------------------------------------
\* What is drawn of them.

\* The points of a chart from the checks, and from a rung: each with the checks it
\* stands for.
EdgeRaw(since) == {[first |-> s.at, last |-> s.at, count |-> 1] : s \in {s \in samples : s.at >= since}}

EdgeAtLevel(l, from, to) ==
  {[first |-> BucketStart(r.bucket, l), last |-> BucketEnd(r.bucket, l) - 1, count |-> r.count] :
     r \in {r \in rollups : r.level = l /\ r.bucket \in from..to}}

\* LevelFor, as the set of the rung or nothing.
LevelFor(window) ==
  IF window <= RawWindow THEN {}
  ELSE LET fit == {l \in Rung : window \div MaxPoints <= Width[l]}
       IN  IF fit = {} THEN {Top} ELSE {Least(fit)}

\* handleAvailabilityHistory.
History(window) ==
  IF LevelFor(window) = {}
  THEN EdgeRaw(now - window)
  ELSE LET l == Least(LevelFor(window))
       IN  EdgeAtLevel(l, Bucket(now - window, l), Bucket(now, l))

-----------------------------------------------------------------------------
TypeOK == /\ now \in 0..MaxTime
          /\ route \in BOOLEAN
          /\ checks \subseteq Sample
          /\ samples \subseteq checks
          /\ rollups \subseteq Rollup
          /\ watermark \in [Rung -> Int]
          /\ at \in Step
          /\ lastSamplePrune \in Int
          /\ lastPrune \in [Rung -> Int]
          /\ up \in BOOLEAN
          /\ changes \in 0..MaxChanges
          /\ failures \in 0..MaxFailures
          /\ stops \in 0..MaxStops

\* Statements failed, or the node stopped, but not both: the sweep that follows a pass
\* which failed after a downtime deletes checks that are in no row yet.
OneKindOfFault == failures = 0 \/ stops = 0

\* "Falling behind, restarting, or running the same range twice all cost a rescan and
\* change no number" (Rollup): a row counts every check of its bucket, whatever the
\* pass that wrote it found there.
RescansChangeNothing ==
  \A r \in rollups : LET S == In(checks, r.bucket, r.level)
                     IN  r.count = Cardinality(S) /\ r.countOk = Cardinality(Ok(S))

\* The same, with one kind of fault.
RolledIsExact == OneKindOfFault => RescansChangeNothing

\* A bucket is counted before its checks are swept: until the coarsest rung lets go of
\* it, a check is in Samples or counted in a row.  With one kind of fault.
NothingIsLost ==
  OneKindOfFault =>
    \A c \in checks :
      \/ c \in samples
      \/ \E r \in rollups : r.bucket = Bucket(c.at, r.level)
      \/ Bucket(c.at, Top) < Bucket(now - Retain[Top], Top)

\* A chart shows every check of its window, but for those whose bucket is not built.
\* With one kind of fault.
ChartsAreWhole ==
  OneKindOfFault =>
    \A w \in Windows : \A c \in checks :
      \/ c.at < now - w
      \/ \E l \in LevelFor(w) : watermark[l] = Unset \/ Bucket(c.at, l) >= watermark[l]
      \/ \E p \in History(w) : p.first <= c.at /\ c.at <= p.last

\* After a pass nothing is kept that is much older than its retention, and nothing that
\* sealed is left to build, though the node was away.
KeepsUp ==
  (up /\ at = Rest /\ failures = 0) =>
    /\ \A s \in samples : now - s.at < SampleRetention + SampleInterval
    /\ \A r \in rollups : now - BucketEnd(r.bucket, r.level) < Retain[r.level] + Width[r.level]
    /\ \A c \in checks, l \in Rung :
         \/ Bucket(c.at, l) > SealedThrough(l)
         \/ Bucket(c.at, l) < Bucket(now - Retain[l], l)
         \/ \E r \in rollups : r.level = l /\ r.bucket = Bucket(c.at, l)
=============================================================================
