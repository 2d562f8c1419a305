------------------------------ MODULE SeriesSync ------------------------------
(***************************************************************************)
(* How the readings and the sealed buckets of one node reach its peers:    *)
(* the cutting of each peer's payload (internal/worker/sync.go,            *)
(* internal/store/seriessync.go), the pushes, and the marks that remember  *)
(* what each peer has been offered.  The node's metric ticker and rollup   *)
(* write what the rounds read.                                             *)
(*                                                                         *)
(* The series of different nodes meet nowhere, so the module follows those *)
(* of one node, "this node"; of its peers it has what they hold of them.   *)
(***************************************************************************)
EXTENDS Integers, FiniteSets

CONSTANTS Peer,         \* the nodes this node pushes to
          Reaching,     \* those of them that push to this node as well
          Watched,      \* push-only nodes, watched by this node
          Metric,       \* the series this node measures about itself
          Rungs,        \* the coarsest rung of the ladder; the finest is 0
          Width,        \* Width[l]: instants in a bucket of rung l
          SealGrace,    \* instants before a bucket is taken to be complete
          Backfill,     \* backfillWindow, in instants
          MaxSeriesRows,\* rows of either kind one push may carry
          Start,        \* the first instant
          MaxTime,      \* bound: the last instant, which stands for all later ones
          MaxRestarts   \* bound: restarts of this node

Raw    == -1                    \* the stream of raw readings
Rung   == 0..Rungs
Stream == {Raw} \cup Rung
Series == Metric \cup Peer \cup Watched    \* a probe is a reading about a node

ASSUME SeriesSyncAssumption ==
  /\ Reaching \subseteq Peer
  /\ Peer \cap Watched = {}
  /\ Rungs \in Nat
  /\ Width \in [Rung -> Nat \ {0}]
  /\ SealGrace \in Nat
  /\ Backfill \in Nat
  /\ MaxSeriesRows \in Nat \ {0}
  /\ Start \in Nat
  /\ \A l \in Rung : Width[l] <= Start
  /\ \A l \in Rung \ {0} : Width[l - 1] <= Width[l] /\ Width[l] % Width[l - 1] = 0
  /\ MaxTime \in Nat
  /\ MaxRestarts \in Nat

\* The bucket of rung l the first instant is in: no row is older.
Origin(l) == Start \div Width[l]

\* A row of Samples or Rollups about this node: key is its Timestamp or Bucket.
Row == [stream : Stream, key : Int, series : Series]

VARIABLES now,        \* the node's clock
          rows,       \* the node's own rows
          pending,    \* the instant of a reading taken and not yet written, or 0
          built,      \* built[l]: the rollup's watermark in Meta, Origin(l) if there is none
          rung,       \* the rung the rollup's pass has come to; 0 between passes
          passAt,     \* the time it started at, once it has passed rung 0
          running,    \* whether a round is in progress
          stamp,      \* the instant the last round started at
          due,        \* the peers whose payload is still to be cut
          cut,        \* cut[m]: the payload for m and the marks to advance to
          out,        \* the peers pushed to that have not answered
          delivered,  \* the peers whose answer came
          marks,      \* marks[m]: peerMarks
          speaks,     \* the peers whose Protocol is known to be the present one
          held,       \* held[m]: the rows of this node that m holds
          restarts

passVars  == <<built, rung, passAt>>
roundVars == <<running, stamp, due, cut, out, delivered>>
vars == <<now, rows, pending, passVars, roundVars, marks, speaks, held, restarts>>

\* seriesMarks, and two things the code does not keep: the instant the raw
\* stream was opened at, and the seams, where a payload cut short ended inside
\* a bucket.
Marks == [known : BOOLEAN, upTo : [Stream -> Int], from : Int,
          seams : SUBSET (Stream \X Int)]

NoMarks == [known |-> FALSE, upTo |-> [s \in Stream |-> 0], from |-> 0, seams |-> {}]

Nothing == [rows |-> {}, marks |-> NoMarks]

Init == /\ now = Start
        /\ rows = {}
        /\ pending = 0
        /\ built = [l \in Rung |-> Origin(l)]
        /\ rung = 0
        /\ passAt = 0
        /\ running = FALSE
        /\ stamp = 0
        /\ due = {}
        /\ cut = [m \in Peer |-> Nothing]
        /\ out = {}
        /\ delivered = {}
        /\ marks = [m \in Peer |-> NoMarks]
        /\ speaks = {}
        /\ held = [m \in Peer |-> {}]
        /\ restarts = 0

In(stream) == {r \in rows : r.stream = stream}

\* Readings of every series in S, taken at the instant t.
Readings(S, t) == {[stream |-> Raw, key |-> t, series |-> s] : s \in S}

-----------------------------------------------------------------------------
\* The metric ticker and the clock.

\* A reading is written, and a round has ended, within an instant of its stamp:
\* a request is given up after 15 seconds, a bucket is sealed after 12 minutes.
Tick == /\ now < MaxTime
        /\ pending \in {0, now}
        /\ running => stamp = now
        /\ now' = now + 1
        /\ UNCHANGED <<rows, pending, passVars, roundVars, marks, speaks, held, restarts>>

Collect == /\ pending = 0
           /\ now < MaxTime
           /\ Readings(Metric, now) \cap rows = {}
           /\ pending' = now
           /\ UNCHANGED <<now, rows, passVars, roundVars, marks, speaks, held, restarts>>

InsertMetrics == /\ pending # 0
                 /\ rows' = rows \cup Readings(Metric, pending)
                 /\ pending' = 0
                 /\ UNCHANGED <<now, passVars, roundVars, marks, speaks, held, restarts>>

-----------------------------------------------------------------------------
\* The rollup.

\* Mutant: the newest bucket to have ended, whatever may still be written to it.
EndedThrough(at, l) == at \div Width[l] - 1

SealedThrough(at, l) == (at - SealGrace) \div Width[l] - 1

\* What rung l is built from, and the bucket of l a row of it belongs to.
Below(l) == IF l = 0 THEN In(Raw) ELSE In(l - 1)

BucketOf(r, l) == r.key \div (IF l = 0 THEN Width[0] ELSE Width[l] \div Width[l - 1])

\* RollSamples and RollLevel, as far as it decides which rows there are: whole
\* buckets from..to, each with a row for every series below.
Rolled(l, from, to) ==
  {r \in {[stream |-> l, key |-> BucketOf(f, l), series |-> f.series] : f \in Below(l)} :
     from <= r.key /\ r.key <= to}

\* One rung of a pass: the rows, then the watermark.  Every rung of the pass goes
\* by the time the pass started at.  Without a watermark it starts from the oldest
\* row below, and not at all if there is none.
RollRung ==
  LET at     == IF rung = 0 THEN now ELSE passAt
      sealed == SealedThrough(at, rung)
      some   == /\ built[rung] <= sealed
                /\ \/ built[rung] # Origin(rung)
                   \/ \E f \in Below(rung) : BucketOf(f, rung) <= sealed
  IN  /\ IF some THEN /\ rows' = rows \cup Rolled(rung, built[rung], sealed)
                      /\ built' = [built EXCEPT ![rung] = sealed + 1]
                 ELSE UNCHANGED <<rows, built>>
      /\ rung' = IF rung = Rungs THEN 0 ELSE rung + 1
      /\ passAt' = IF rung = Rungs THEN 0 ELSE at
      /\ UNCHANGED <<now, pending, roundVars, marks, speaks, held, restarts>>

-----------------------------------------------------------------------------
\* A round.

\* ORDER BY and LIMIT over the streams in E, the coarser rungs first: any of the
\* prefixes that the order leaves open.
Slices(E, limit) ==
  {S \in SUBSET E :
     /\ Cardinality(S) = IF Cardinality(E) < limit THEN Cardinality(E) ELSE limit
     /\ \A r \in S, q \in E \ S : \/ r.stream > q.stream
                                  \/ r.stream = q.stream /\ r.key <= q.key}

\* The newest key among the rows returned, or where the query started from.
High(S, after) ==
  LET newest == {r \in S : \A q \in S : q.key <= r.key}
  IN  IF newest = {} THEN after ELSE (CHOOSE r \in newest : TRUE).key

\* Mutant: a new peer is started from what happens next.
NewestSealed(l) == SealedThrough(now, l)

\* The bucket just before the oldest of a rung, so that the oldest is included.
BeforeOldest(l) ==
  LET oldest == {r \in In(l) : \A q \in In(l) : r.key <= q.key}
  IN  IF oldest = {} THEN 0 ELSE (CHOOSE r \in oldest : TRUE).key - 1

OpeningMarks ==
  [known |-> TRUE,
   upTo  |-> [s \in Stream |-> IF s = Raw THEN now - Backfill ELSE BeforeOldest(s)],
   from  |-> now - Backfill,
   seams |-> {}]

\* Mutant: whatever has been written by now.
OwnSamplesToNow(mk) == {r \in In(Raw) : mk.upTo[Raw] < r.key}

\* What a peer at these marks is owed: readings from before the round started,
\* and sealed buckets.
OwnSamples(mk) == {r \in In(Raw) : mk.upTo[Raw] < r.key /\ r.key < stamp}

OwnRollups(mk) ==
  {r \in rows : r.stream \in Rung /\ mk.upTo[r.stream] < r.key /\ r.key <= SealedThrough(now, r.stream)}

\* The marks after a payload S out of what is owed.
Advance(mk, owed, S) ==
  LET upTo == [s \in Stream |-> High({r \in S : r.stream = s}, mk.upTo[s])]
  IN  [mk EXCEPT !.upTo  = upTo,
                 !.seams = @ \cup {<<r.stream, r.key>> :
                                     r \in {q \in owed \ S : q.key = upTo[q.stream]}}]

MarksOf(m) == IF marks[m].known THEN marks[m] ELSE OpeningMarks

Payload(mk, S, B) ==
  [rows  |-> S \cup B,
   marks |-> Advance(mk, OwnSamples(mk) \cup OwnRollups(mk), S \cup B)]

\* The original form of the payload, which nobody reads in a push that says it is
\* of the present Protocol.
Original(m) == [rows |-> {}, marks |-> marks[m]]

\* watchPushOnly writes at every round, unless within its grace after a start.
StartRound == /\ ~running
              /\ stamp < now \/ now = MaxTime
              /\ pending = 0 \/ stamp < pending
              /\ running' = TRUE
              /\ stamp' = now
              /\ due' = Peer
              /\ \E watched \in {{}, Watched} : rows' = rows \cup Readings(watched, now)
              /\ UNCHANGED <<now, pending, passVars, cut, out, delivered,
                             marks, speaks, held, restarts>>

\* forPeer: a peer gets the series form if it is known to speak it.
CutPayload(m) ==
  /\ m \in due
  /\ due' = due \ {m}
  /\ out' = out \cup {m}
  /\ \/ m \notin speaks /\ cut' = [cut EXCEPT ![m] = Original(m)]
     \/ m \in speaks /\ \E S \in Slices(OwnSamples(MarksOf(m)), MaxSeriesRows),
                           B \in Slices(OwnRollups(MarksOf(m)), MaxSeriesRows) :
                         cut' = [cut EXCEPT ![m] = Payload(MarksOf(m), S, B)]
  /\ UNCHANGED <<now, rows, pending, passVars, running, stamp, delivered,
                 marks, speaks, held, restarts>>

\* The push to m is over: m has stored these rows, the probe is recorded.
PushEnds(m, stored) ==
  /\ due = {}
  /\ m \in out
  /\ out' = out \ {m}
  /\ held' = [held EXCEPT ![m] = @ \cup stored]
  /\ rows' = rows \cup Readings({m}, stamp)
  /\ UNCHANGED <<now, pending, passVars, running, stamp, due, cut, marks, speaks, restarts>>

Answered(m) == PushEnds(m, cut[m].rows) /\ delivered' = delivered \cup {m}

\* The push is lost, or its answer is, or m fails before or between the two
\* statements of storeSyncedSeries.
Unanswered(m) == /\ \E stored \in {{}, {r \in cut[m].rows : r.stream = Raw}, cut[m].rows} :
                      PushEnds(m, stored)
                 /\ UNCHANGED delivered

FinishRound == /\ running
               /\ due = {}
               /\ out = {}
               /\ running' = FALSE
               /\ marks' = [m \in Peer |-> IF m \in delivered THEN cut[m].marks ELSE marks[m]]
               /\ cut' = [m \in Peer |-> Nothing]
               /\ delivered' = {}
               /\ UNCHANGED <<now, rows, pending, passVars, stamp, due, out,
                              speaks, held, restarts>>

\* A push of m's arrives: SetProtocol.
Hear(m) == /\ m \in Reaching \ speaks
           /\ speaks' = speaks \cup {m}
           /\ UNCHANGED <<now, rows, pending, passVars, roundVars, marks, held, restarts>>

\* The process ends and starts again: marks are kept in memory only.
Restart == /\ restarts < MaxRestarts
           /\ restarts' = restarts + 1
           /\ pending' = 0
           /\ running' = FALSE
           /\ due' = {}
           /\ out' = {}
           /\ delivered' = {}
           /\ cut' = [m \in Peer |-> Nothing]
           /\ marks' = [m \in Peer |-> NoMarks]
           /\ rung' = 0
           /\ passAt' = 0
           /\ UNCHANGED <<now, rows, built, stamp, speaks, held>>

Next == \/ Tick \/ Collect \/ InsertMetrics \/ RollRung
        \/ StartRound \/ FinishRound \/ Restart
        \/ \E m \in Peer : CutPayload(m) \/ Answered(m) \/ Unanswered(m) \/ Hear(m)

Spec == Init /\ [][Next]_vars

-----------------------------------------------------------------------------
\* What may be relied on.

TypeOK == /\ now \in Nat
          /\ rows \subseteq Row
          /\ pending \in Nat
          /\ built \in [Rung -> Int]
          /\ rung \in Rung
          /\ passAt \in Nat
          /\ running \in BOOLEAN
          /\ stamp \in Nat
          /\ due \subseteq Peer
          /\ cut \in [Peer -> [rows : SUBSET Row, marks : Marks]]
          /\ out \subseteq Peer
          /\ delivered \subseteq Peer
          /\ marks \in [Peer -> Marks]
          /\ speaks \subseteq Peer
          /\ held \in [Peer -> SUBSET Row]
          /\ restarts \in Nat

\* Rows that the marks say need not be offered again.
Behind(mk) == {r \in rows : /\ mk.known
                            /\ r.key <= mk.upTo[r.stream]
                            /\ r.stream = Raw => mk.from < r.key}

\* "A reading behind the mark is never offered again" (seriessync.go:22), so what
\* is behind a peer's mark the peer holds: probes written after the round they are
\* stamped with, pushes that were lost or stored by half and buckets rolled up late
\* are all still ahead of it.  Only where a payload was cut short inside a bucket
\* is the rest of that bucket missing (see ResumesExactly).
NothingSkipped ==
  \A m \in Peer : \A r \in Behind(marks[m]) :
    r \in held[m] \/ <<r.stream, r.key>> \in marks[m].seams

\* "A node only ever publishes a bucket once it can no longer change"
\* (store/series.go:169): a reading whose bucket has been rolled up at a rung is in
\* that bucket, however late after its stamp it was written.
SealedIsComplete ==
  \A l \in Rung : \A r \in In(Raw) :
    r.key \div Width[l] < built[l] =>
      [stream |-> l, key |-> r.key \div Width[l], series |-> r.series] \in rows

-----------------------------------------------------------------------------
\* Where it comes to.

\* Tickers go on, a round cannot hang, and a peer that is pushed to over and over
\* answers over and over.
Fairness == /\ WF_vars(Tick) /\ WF_vars(InsertMetrics)
            /\ WF_vars(StartRound) /\ WF_vars(FinishRound)
            /\ \A m \in Peer : /\ WF_vars(CutPayload(m))
                               /\ WF_vars(Answered(m) \/ Unanswered(m))
                               /\ SF_vars(Answered(m))
                               /\ WF_vars(Hear(m))

FairSpec == Spec /\ Fairness

\* What a peer is owed: every bucket, and every reading since its stream was
\* opened.  The readings of the last instant wait for a later round.
Owed(m) == {r \in rows : /\ r.stream = Raw => marks[m].from < r.key /\ r.key < MaxTime
                         /\ <<r.stream, r.key>> \notin marks[m].seams}

\* A neighbour met late, or unreachable for a while, "has to be owed exactly what
\* it missed" (sync.go:66): a peer that pushes back ends up holding all of it,
\* whatever is lost on the way and however often this node restarts.
PeersCatchUp == <>[](\A m \in Reaching : marks[m].known /\ Owed(m) \subseteq held[m])

-----------------------------------------------------------------------------
\* What the repository says and the code does not do.

\* "A caller that was cut short resumes exactly where the rows stopped"
\* (seriessync.go:73): no row that the marks have passed is missing.  The mark is a
\* bucket and the limit counts rows, of which a bucket has one for every series.
ResumesExactly ==
  \A m \in Peer : Behind(marks[m]) \subseteq held[m]

\* Any other node "holds its metrics like any peer's" (README.md:268), said of a
\* push-only node, to which nobody pushes: what it measures reaches its peers.
\* Protocol is set by a push from the other side alone.
MetricsAreHeld == \A m \in Peer : rows # {} ~> held[m] # {}

=============================================================================
