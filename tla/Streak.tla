-------------------------------- MODULE Streak --------------------------------
(***************************************************************************)
(* How long one route has stood as it stands: EdgeStreak and LatestEdge    *)
(* (internal/store/seriesread.go), which the alerts are decided by, read   *)
(* from the tables of Ladder.  The answer takes several queries, in no     *)
(* transaction, while the sync worker writes its checks and the roll-up    *)
(* builds and sweeps.                                                      *)
(***************************************************************************)
EXTENDS Ladder

VARIABLES reading,   \* where the reader is, and what it has read
          answer     \* the answer given in this period

streakVars == <<vars, reading, answer>>

\* "newest" and "last" are not in the code: the newest check when the reading began,
\* and when it ended.
Idle     == [step |-> "idle"]
NoAnswer == [found |-> FALSE]

Reading(step, ok) == [step |-> step, ok |-> ok, newest |-> {c.at : c \in checks}, broke |-> {}]

Answer(since) == [found |-> TRUE, ok |-> reading.ok, since |-> since,
                  newest |-> reading.newest, last |-> {c.at : c \in checks}]

StreakInit == Init /\ reading = Idle /\ answer = NoAnswer

-----------------------------------------------------------------------------
Newest(S) == {s \in S : \A q \in S : q.at <= s.at}

\* The newest row of the finest rung that has any, as the set of it or nothing.
LatestRollup ==
  LET held == {r.level : r \in rollups}
  IN  IF held = {} THEN {}
      ELSE LET rows == {r \in rollups : r.level = Least(held)}
           IN  {r \in rows : \A q \in rows : q.bucket <= r.bucket}

\* LatestEdge: the result of the newest check that is kept, or else of the newest row;
\* nothing where there is neither.
LatestEdge == IF samples # {} THEN {s.ok : s \in Newest(samples)}
                              ELSE {r.countOk > 0 : r \in LatestRollup}

\* The checks kept that disagree, and the bounds of the rows that do.
Disagreeing(ok) == {s.at : s \in {s \in samples : s.ok # ok}}

\* Faults: a row counts as disagreeing where a failure does not, and is dated from its
\* beginning.
AnyRow(ok)   == {BucketEnd(r.bucket, r.level) : r \in {r \in rollups : r.countOk > 0}}
RowStart(ok) == {BucketStart(r.bucket, r.level) :
                   r \in {r \in rollups : IF ok THEN r.countOk < r.count ELSE r.countOk > 0}}

RowEnds(ok) == {BucketEnd(r.bucket, r.level) :
                  r \in {r \in rollups : IF ok THEN r.countOk < r.count ELSE r.countOk > 0}}

\* oldestEdgeRecord.
OldestEdgeRecord == {s.at : s \in samples} \cup {BucketStart(r.bucket, r.level) : r \in rollups}

\* EdgeStreak begins with the state of the route.
Ask ==
  /\ up
  /\ reading = Idle
  /\ IF LatestEdge = {}
     THEN answer' = NoAnswer /\ UNCHANGED reading
     ELSE reading' = Reading("broke", TRUE \in LatestEdge) /\ UNCHANGED answer
  /\ UNCHANGED vars

\* Then when it last stood otherwise.
ReadBroke ==
  /\ reading.step = "broke"
  /\ reading' = IF Disagreeing(reading.ok) = {}
                THEN [reading EXCEPT !.step = "rows"]
                ELSE [reading EXCEPT !.step = "began",
                                     !.broke = {Greatest(Disagreeing(reading.ok))}]
  /\ UNCHANGED <<vars, answer>>

\* A fault: the run begins with the check that disagrees.
FromBroke == reading.broke

\* The checks that agree since.
Agreeing == {s.at : s \in {s \in samples : /\ s.ok = reading.ok
                                           /\ \A b \in reading.broke : s.at > b}}

\* The exact answer, where the checks hold it.
ReadBegan ==
  /\ reading.step = "began"
  /\ IF Agreeing # {}
     THEN answer' = Answer(Least(Agreeing)) /\ reading' = Idle
     ELSE reading' = [reading EXCEPT !.step = "rows"] /\ UNCHANGED answer
  /\ UNCHANGED vars

\* Or else the end of the last row that disagrees, of all rungs.
ReadRows ==
  /\ reading.step = "rows"
  /\ IF RowEnds(reading.ok) # {}
     THEN answer' = Answer(Greatest(RowEnds(reading.ok))) /\ reading' = Idle
     ELSE reading' = [reading EXCEPT !.step = "oldest"] /\ UNCHANGED answer
  /\ UNCHANGED vars

\* Or else the oldest record there is.
ReadOldest ==
  /\ reading.step = "oldest"
  /\ answer' = Answer(IF OldestEdgeRecord = {} THEN now ELSE Least(OldestEdgeRecord))
  /\ reading' = Idle
  /\ UNCHANGED vars

\* The rest of the node beside it.  The queries of a reading are done before the next
\* period, in which nobody remembers the answer, and end with the node.
Beside ==
  \/ /\ \/ Change \/ Check
        \/ \E l \in Rung : Rows(l) \/ Mark(l) \/ Sweep(l)
        \/ SweepSamples
        \/ FailPass \/ FailSweep
        \/ Start
     /\ UNCHANGED <<reading, answer>>
  \/ Tick /\ reading = Idle /\ answer' = NoAnswer /\ UNCHANGED reading
  \/ Stop /\ reading' = Idle /\ UNCHANGED answer

StreakNext == Beside \/ Ask \/ ReadBroke \/ ReadBegan \/ ReadRows \/ ReadOldest

StreakSpec == StreakInit /\ [][StreakNext]_streakVars

-----------------------------------------------------------------------------
StreakTypeOK ==
  /\ TypeOK
  /\ \/ reading = Idle
     \/ /\ reading.step \in {"broke", "began", "rows", "oldest"}
        /\ reading.ok \in BOOLEAN
        /\ reading.newest \subseteq 0..now
        /\ reading.broke \subseteq 0..now
        /\ reading.step = "began" => reading.broke # {}
  /\ \/ answer = NoAnswer
     \/ answer.ok \in BOOLEAN /\ answer.since \in 0..now

\* The checks up to the one the answer was first read from, or up to its end.
Seen(times) == {c \in checks : c.at \in times}

Against == {c \in Seen(answer.newest) : c.ok # answer.ok}

\* No check came between the first query and the last.
Undisturbed == answer.newest = answer.last

\* "since is when the unbroken run of that state began" (EdgeStreak): no check since
\* says otherwise.  The roll-up may build and sweep between the queries.
UnbrokenIfUndisturbed ==
  (answer.found /\ Undisturbed) => \A c \in Against : c.at < answer.since

\* The same, whatever comes between the queries.
Unbroken == answer.found => \A c \in Against : c.at < answer.since

\* A run that began minutes ago is "answered to the millisecond": while the check
\* before it is younger than the samples' retention, the run begins with the check
\* after it.
RecentIsExact ==
  (answer.found /\ Undisturbed) =>
    \A c \in Against :
      (c.at >= now - SampleRetention /\ (\A d \in Against : d.at <= c.at)
        /\ \E d \in Seen(answer.newest) : d.at > c.at)
      => answer.since = Least({d.at : d \in {d \in Seen(answer.newest) : d.at > c.at}})

\* "available is the state of the newest check" (EdgeStreak).
NewestIsLatest ==
  (answer.found /\ Undisturbed) => \A c \in Newest(Seen(answer.newest)) : c.ok = answer.ok

\* "The finest level that still reaches back that far gives the closest answer"
\* (EdgeStreak): the run is dated no later than the end of the last bucket that
\* disagreed, at any rung that holds it.
DatedClosest ==
  (answer.found /\ Undisturbed) =>
    \A c \in Newest(Against), r \in rollups :
      r.bucket = Bucket(c.at, r.level) => answer.since <= BucketEnd(r.bucket, r.level)

=============================================================================
