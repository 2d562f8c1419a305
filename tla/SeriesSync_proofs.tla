--------------------------- MODULE SeriesSync_proofs ---------------------------
(***************************************************************************)
(* Proofs about SeriesSync, for every set of peers and series, every       *)
(* ladder, grace, limit and number of restarts.                            *)
(***************************************************************************)
EXTENDS SeriesSync, TLAPS

USE SeriesSyncAssumption

-----------------------------------------------------------------------------
\* Division, and the two ends of a set of rows.

LEMMA Quotient ==
  ASSUME NEW k \in Int, NEW w \in Nat \ {0}
  PROVE  /\ k \div w \in Int
         /\ w <= k => 1 <= k \div w
  OBVIOUS

LEMMA Ladder ==
  ASSUME NEW l \in Rung
  PROVE  /\ Width[l] \in Nat \ {0}
         /\ Origin(l) \in Int
         /\ 1 <= Origin(l)
         /\ l # 0 => Width[l] \div Width[l - 1] \in Nat \ {0}
         /\ \A t \in Int : SealedThrough(t, l) \in Int
<1>1. Width[l] \in Nat \ {0} /\ Width[l] <= Start /\ Start \in Int
  BY DEF Rung
<1>2. Origin(l) \in Int /\ 1 <= Origin(l)
  BY <1>1, Quotient DEF Origin
<1>3. ASSUME l # 0 PROVE Width[l] \div Width[l - 1] \in Nat \ {0}
  <2>1. /\ l - 1 \in Rung
        /\ l \in Rung \ {0}
    BY <1>3 DEF Rung
  <2>2. Width[l - 1] \in Nat \ {0} /\ Width[l - 1] <= Width[l]
    BY <2>1
  <2> QED
    BY <1>1, <2>2, Quotient
<1>4. \A t \in Int : SealedThrough(t, l) \in Int
  <2> TAKE t \in Int
  <2>1. (t - SealGrace) \div Width[l] \in Int
    BY <1>1, Quotient
  <2> QED
    BY <2>1 DEF SealedThrough
<1> QED
  BY <1>1, <1>2, <1>3, <1>4

LEMMA HighIsAKey ==
  ASSUME NEW S, NEW after \in Int, \A r \in S : r.key \in Int
  PROVE  /\ High(S, after) \in Int
         /\ High(S, after) = after \/ \E r \in S : High(S, after) = r.key
<1> DEFINE newest == {r \in S : \A q \in S : q.key <= r.key}
<1>1. CASE newest = {}
  BY <1>1 DEF High
<1>2. CASE newest # {}
  <2>1. PICK r \in newest : r = CHOOSE q \in newest : TRUE
    BY <1>2
  <2>2. High(S, after) = r.key
    BY <1>2, <2>1 DEF High
  <2> QED
    BY <2>1, <2>2
<1> QED
  BY <1>1, <1>2

\* The rung is opened ahead of every bucket in it.
LEMMA OpenedBeforeOldest ==
  ASSUME NEW l \in Rung, \A r \in In(l) : r.key \in Int /\ 1 <= r.key
  PROVE  /\ BeforeOldest(l) \in Int
         /\ \A r \in In(l) : BeforeOldest(l) < r.key
         /\ BeforeOldest(l) = 0 \/ \E r \in In(l) : BeforeOldest(l) = r.key - 1
<1> DEFINE oldest == {r \in In(l) : \A q \in In(l) : r.key <= q.key}
<1>1. CASE oldest = {}
  BY <1>1 DEF BeforeOldest
<1>2. CASE oldest # {}
  <2>1. PICK r \in oldest : r = CHOOSE q \in oldest : TRUE
    BY <1>2
  <2>2. BeforeOldest(l) = r.key - 1
    BY <1>2, <2>1 DEF BeforeOldest
  <2> QED
    BY <2>1, <2>2
<1> QED
  BY <1>1, <1>2

-----------------------------------------------------------------------------
\* Types.

LEMMA RolledRows ==
  ASSUME NEW l \in Rung, NEW from \in Int, NEW to \in Int, rows \subseteq Row
  PROVE  \A r \in Rolled(l, from, to) :
           r \in Row /\ r.stream = l /\ from <= r.key /\ r.key <= to
<1>1. \A f \in Below(l) : f \in Row
  BY DEF Below, In
<1>2. \A f \in Below(l) : BucketOf(f, l) \in Int
  <2> TAKE f \in Below(l)
  <2>1. f.key \in Int
    BY <1>1 DEF Row
  <2>2. CASE l = 0
    BY <2>1, <2>2, Ladder, Quotient DEF BucketOf
  <2>3. CASE l # 0
    BY <2>1, <2>3, Ladder, Quotient DEF BucketOf
  <2> QED
    BY <2>2, <2>3
<1>3. \A f \in Below(l) :
        [stream |-> l, key |-> BucketOf(f, l), series |-> f.series] \in Row
  BY <1>1, <1>2 DEF Row, Stream
<1> QED
  BY <1>3 DEF Rolled

LEMMA ReadingRows ==
  ASSUME NEW S \in SUBSET Series, NEW t \in Int
  PROVE  \A r \in Readings(S, t) : r \in Row /\ r.stream = Raw /\ r.key = t /\ r.series \in S
  BY DEF Readings, Row, Stream

LEMMA RawIsNoRung == Raw \in Stream /\ Raw \notin Rung /\ Rung \subseteq Stream /\ Raw \in Int /\ Rung \subseteq Nat
  BY DEF Raw, Rung, Stream

LEMMA OpeningMarksType ==
  ASSUME TypeOK, \A r \in rows : r.stream \in Rung => 1 <= r.key
  PROVE  OpeningMarks \in Marks /\ OpeningMarks.known
<1>1. \A l \in Rung : \A r \in In(l) : r.key \in Int /\ 1 <= r.key
  BY DEF TypeOK, In, Row
<1>2. now - Backfill \in Int
  BY DEF TypeOK
<1>3. \A s \in Stream : (IF s = Raw THEN now - Backfill ELSE BeforeOldest(s)) \in Int
  BY <1>1, <1>2, OpenedBeforeOldest DEF Stream
<1> QED
  BY <1>2, <1>3 DEF OpeningMarks, Marks

LEMMA AdvanceType ==
  ASSUME NEW mk \in Marks, NEW owed \in SUBSET Row, NEW S \in SUBSET owed
  PROVE  Advance(mk, owed, S) \in Marks
<1> DEFINE upTo == [s \in Stream |-> High({r \in S : r.stream = s}, mk.upTo[s])]
           left == {<<r.stream, r.key>> : r \in {q \in owed \ S : q.key = upTo[q.stream]}}
<1>1. mk.upTo \in [Stream -> Int] /\ mk.seams \in SUBSET (Stream \X Int)
  BY DEF Marks
<1>2. \A s \in Stream : High({r \in S : r.stream = s}, mk.upTo[s]) \in Int
  <2> TAKE s \in Stream
  <2>1. mk.upTo[s] \in Int /\ \A r \in {r \in S : r.stream = s} : r.key \in Int
    BY <1>1 DEF Row
  <2> QED
    BY <2>1, HighIsAKey
<1>3. upTo \in [Stream -> Int]
  BY <1>2
<1>4. left \in SUBSET (Stream \X Int)
  <2> SUFFICES ASSUME NEW r \in {q \in owed \ S : q.key = upTo[q.stream]}
               PROVE  <<r.stream, r.key>> \in Stream \X Int
    OBVIOUS
  <2>1. r \in Row
    OBVIOUS
  <2> QED
    BY <2>1 DEF Row
<1> HIDE DEF upTo, left
<1>5. [mk EXCEPT !.upTo = upTo, !.seams = @ \cup left] \in Marks
  BY <1>1, <1>3, <1>4 DEF Marks
<1> QED
  BY <1>5 DEF Advance, upTo, left

LEMMA PayloadType ==
  ASSUME NEW m \in Peer, TypeOK, \A r \in rows : r.stream \in Rung => 1 <= r.key
  PROVE  /\ MarksOf(m) \in Marks
         /\ \A S \in Slices(OwnSamples(MarksOf(m)), MaxSeriesRows),
               B \in Slices(OwnRollups(MarksOf(m)), MaxSeriesRows) :
              Payload(MarksOf(m), S, B) \in [rows : SUBSET Row, marks : Marks]
         /\ Original(m) \in [rows : SUBSET Row, marks : Marks]
<1> DEFINE mk == MarksOf(m)
           owed == OwnSamples(mk) \cup OwnRollups(mk)
<1>1. marks[m] \in Marks
  BY DEF TypeOK
<1>2. mk \in Marks
  BY <1>1, OpeningMarksType DEF MarksOf
<1>3. OwnSamples(mk) \in SUBSET Row /\ OwnRollups(mk) \in SUBSET Row
  BY DEF OwnSamples, OwnRollups, In, TypeOK
<1> HIDE DEF mk
<1>4. ASSUME NEW S \in Slices(OwnSamples(mk), MaxSeriesRows),
             NEW B \in Slices(OwnRollups(mk), MaxSeriesRows)
      PROVE  Payload(mk, S, B) \in [rows : SUBSET Row, marks : Marks]
  <2>1. S \subseteq OwnSamples(mk) /\ B \subseteq OwnRollups(mk)
    BY DEF Slices
  <2>2. S \cup B \in SUBSET owed /\ owed \in SUBSET Row
    BY <1>3, <2>1
  <2>3. Advance(mk, owed, S \cup B) \in Marks
    BY <1>2, <2>2, AdvanceType
  <2>4. S \cup B \in SUBSET Row
    BY <2>2
  <2> QED
    BY <2>3, <2>4 DEF Payload
<1>5. Original(m) \in [rows : SUBSET Row, marks : Marks]
  BY <1>1 DEF Original
<1> QED
  BY <1>2, <1>4, <1>5 DEF mk

\* Keys of buckets lie behind the watermark of their rung, and are positive.
Keys == \A r \in rows : IF r.stream = Raw THEN r.key <= now
                                          ELSE 1 <= r.key /\ r.key < built[r.stream]

LEMMA BuiltForward ==
  ASSUME TypeOK, RollRung
  PROVE  /\ TypeOK'
         /\ \A l \in Rung : built[l] <= built'[l]
         /\ \E N \in SUBSET Row :
              /\ rows' = rows \cup N
              /\ \A r \in N : /\ r.stream \in Rung
                              /\ built[r.stream] <= r.key
                              /\ r.key < built'[r.stream]
<1> DEFINE at == IF rung = 0 THEN now ELSE passAt
           sealed == SealedThrough(at, rung)
           some == /\ built[rung] <= sealed
                   /\ \/ built[rung] # Origin(rung)
                      \/ \E f \in Below(rung) : BucketOf(f, rung) <= sealed
           new == Rolled(rung, built[rung], sealed)
<1>1. /\ rung \in Rung
      /\ at \in Nat
      /\ built[rung] \in Int
  BY DEF TypeOK
<1>2. sealed \in Int
  BY <1>1, Ladder
<1>3. \A r \in new : r \in Row /\ r.stream = rung /\ built[rung] <= r.key /\ r.key <= sealed
  BY <1>1, <1>2, RolledRows DEF TypeOK
<1>4. /\ IF some THEN rows' = rows \cup new /\ built' = [built EXCEPT ![rung] = sealed + 1]
                 ELSE UNCHANGED <<rows, built>>
      /\ rung' = IF rung = Rungs THEN 0 ELSE rung + 1
      /\ passAt' = IF rung = Rungs THEN 0 ELSE at
      /\ UNCHANGED <<now, pending, roundVars, marks, speaks, held, restarts>>
  BY DEF RollRung
<1>5. rung' \in Rung /\ passAt' \in Nat
  BY <1>1, <1>4 DEF Rung
<1> HIDE DEF at, sealed, new
<1>6. CASE some
  <2>1. /\ rows' \subseteq Row
        /\ built' \in [Rung -> Int]
    BY <1>1, <1>2, <1>3, <1>4, <1>6 DEF TypeOK
  <2>2. TypeOK'
    BY <1>4, <1>5, <2>1 DEF TypeOK, roundVars
  <2>3. \A l \in Rung : built[l] <= built'[l]
    BY <1>1, <1>2, <1>4, <1>6 DEF TypeOK
  <2>4. rows' = rows \cup new /\ new \in SUBSET Row
    BY <1>3, <1>4, <1>6
  <2>5. \A r \in new : r.stream \in Rung /\ built[r.stream] <= r.key /\ r.key < built'[r.stream]
    BY <1>1, <1>2, <1>3, <1>4, <1>6 DEF TypeOK, Row
  <2> QED
    BY <2>2, <2>3, <2>4, <2>5
<1>7. CASE ~some
  <2>1. UNCHANGED <<rows, built>>
    BY <1>4, <1>7
  <2>2. TypeOK'
    BY <1>4, <1>5, <2>1 DEF TypeOK, roundVars
  <2>3. {} \in SUBSET Row /\ rows' = rows \cup {}
    BY <2>1
  <2>4. \A l \in Rung : built[l] <= built'[l]
    BY <2>1 DEF TypeOK
  <2> QED
    BY <2>2, <2>3, <2>4
<1> QED
  BY <1>6, <1>7

-----------------------------------------------------------------------------
\* The invariant.

\* A reading is stamped by the clock or with the start of a round, and while one is
\* waiting to be written nothing later than it is there but this round's probes.
Instants ==
  /\ 1 <= now
  /\ stamp <= now
  /\ pending <= now
  /\ \A l \in Rung : 1 <= built[l]
  /\ \A r \in In(Raw) : r.series \in Metric \/ r.key <= stamp
  /\ pending # 0 => \A r \in In(Raw) : r.key < pending \/ r.key = stamp

\* Whatever is still to be written is ahead of the marks.
Ahead(mk) ==
  mk.known =>
    /\ \A l \in Rung : mk.upTo[l] < built[l]
    /\ \/ mk.upTo[Raw] <= mk.from
       \/ mk.upTo[Raw] < stamp /\ (pending # 0 => mk.upTo[Raw] < pending)

\* Of the rows in R, those behind the marks are in H, or at a seam.
Offered(R, mk, H) ==
  \A r \in R : mk.known /\ r.key <= mk.upTo[r.stream] /\ (r.stream = Raw => mk.from < r.key)
               => r \in H \/ <<r.stream, r.key>> \in mk.seams

\* A peer is in one stage of the round at a time.
Stages == /\ due \cap (out \cup delivered) = {}
          /\ out \cap delivered = {}
          /\ ~running => due = {} /\ out = {} /\ delivered = {}

\* The marks of m as they are, and as they will be if its answer comes.
Kept(m) == /\ Ahead(marks[m])
           /\ Offered(rows, marks[m], held[m])

InFlight(m) ==
  m \in out \cup delivered =>
    /\ Ahead(cut[m].marks)
    /\ m \in out => Offered(rows, cut[m].marks, held[m] \cup cut[m].rows)
    /\ m \in delivered => Offered(rows, cut[m].marks, held[m])

Inv == /\ TypeOK
       /\ Keys
       /\ Instants
       /\ Stages
       /\ \A m \in Peer : Kept(m) /\ InFlight(m)

LEMMA InvImplies == Inv => NothingSkipped
<1> SUFFICES ASSUME Inv, NEW m \in Peer, NEW r \in Behind(marks[m])
             PROVE  r \in held[m] \/ <<r.stream, r.key>> \in marks[m].seams
  BY DEF NothingSkipped
<1>1. Offered(rows, marks[m], held[m])
  BY DEF Inv, Kept
<1> QED
  BY <1>1 DEF Offered, Behind

LEMMA InitInv == Init => Inv
<1> SUFFICES ASSUME Init PROVE Inv
  OBVIOUS
<1>1. /\ NoMarks \in Marks
      /\ ~NoMarks.known
  BY RawIsNoRung DEF NoMarks, Marks
<1>2. Nothing \in [rows : SUBSET Row, marks : Marks]
  BY <1>1 DEF Nothing
<1>3. \A l \in Rung : built[l] \in Int /\ 1 <= built[l]
  BY Ladder DEF Init
<1>4. TypeOK
  <2>1. built \in [Rung -> Int]
    BY <1>3 DEF Init
  <2>2. cut \in [Peer -> [rows : SUBSET Row, marks : Marks]]
    BY <1>2, Zenon DEF Init
  <2>3. marks \in [Peer -> Marks] /\ held \in [Peer -> SUBSET Row]
    BY <1>1 DEF Init
  <2>4. rung \in Rung
    BY DEF Init, Rung
  <2> QED
    BY <2>1, <2>2, <2>3, <2>4 DEF Init, TypeOK
<1>5. 0 \in Rung /\ Width[0] \in Nat \ {0} /\ Width[0] <= Start
  BY DEF Rung
<1>6. Keys /\ Instants
  BY <1>3, <1>5 DEF Init, Keys, Instants, In
<1>7. Stages
  BY DEF Init, Stages
<1>8. \A m \in Peer : Kept(m) /\ InFlight(m)
  BY <1>1 DEF Init, Kept, InFlight, Ahead, Offered
<1> QED
  BY <1>4, <1>6, <1>7, <1>8 DEF Inv

-----------------------------------------------------------------------------
\* Rows that are ahead of the marks may be added: at the start of the round or
\* later, where a reading is waiting to be, or in buckets not built before.
Fresh(N) ==
  \A r \in N : IF r.stream = Raw THEN r.key >= stamp \/ (pending # 0 /\ r.key = pending)
                                 ELSE r.key >= built[r.stream]

LEMMA FreshRowsAreOwed ==
  ASSUME TypeOK, NEW N \in SUBSET Row, Fresh(N),
         NEW mk \in Marks, Ahead(mk), NEW H, Offered(rows, mk, H)
  PROVE  Offered(rows \cup N, mk, H)
<1> SUFFICES ASSUME NEW r \in N,
                    mk.known, r.key <= mk.upTo[r.stream], r.stream = Raw => mk.from < r.key
             PROVE  FALSE
  BY DEF Offered
<1>1. /\ r.key \in Int
      /\ r.stream \in Stream
      /\ mk.upTo \in [Stream -> Int]
      /\ mk.from \in Int
  BY DEF Row, Marks
<1>2. stamp \in Int /\ pending \in Int /\ built \in [Rung -> Int]
  BY DEF TypeOK
<1>3. mk.upTo[r.stream] \in Int
  BY <1>1
<1>4. CASE r.stream = Raw
  BY <1>1, <1>2, <1>3, <1>4 DEF Ahead, Fresh
<1>5. CASE r.stream \in Rung
  <2>1. r.stream # Raw /\ built[r.stream] \in Int
    BY <1>2, <1>5, RawIsNoRung
  <2> QED
    BY <1>1, <1>3, <1>5, <2>1 DEF Ahead, Fresh
<1> QED
  BY <1>1, <1>4, <1>5 DEF Stream

\* Holding more never hurts.
LEMMA HeldGrows ==
  ASSUME NEW R, NEW mk, NEW H, NEW H2, H \subseteq H2, Offered(R, mk, H)
  PROVE  Offered(R, mk, H2)
  BY DEF Offered

\* A step that adds fresh rows and touches neither marks nor payloads.
LEMMA Growth ==
  ASSUME Inv, NEW N \in SUBSET Row, Fresh(N), rows' = rows \cup N,
         UNCHANGED <<marks, cut, out, delivered, held>>,
         \A mk \in Marks : Ahead(mk) => Ahead(mk)'
  PROVE  \A m \in Peer : Kept(m)' /\ InFlight(m)'
<1> TAKE m \in Peer
<1>1. marks[m] \in Marks /\ cut[m].marks \in Marks
  BY DEF Inv, TypeOK
<1>2. Kept(m)'
  <2>1. Ahead(marks[m]) /\ Offered(rows, marks[m], held[m])
    BY DEF Inv, Kept
  <2>2. Offered(rows', marks[m], held[m])
    BY <1>1, <2>1, FreshRowsAreOwed DEF Inv
  <2> QED
    BY <1>1, <2>1, <2>2 DEF Kept
<1>3. InFlight(m)'
  <2> SUFFICES ASSUME m \in out \cup delivered
               PROVE  /\ Ahead(cut[m].marks)'
                      /\ m \in out => Offered(rows', cut[m].marks, held[m] \cup cut[m].rows)
                      /\ m \in delivered => Offered(rows', cut[m].marks, held[m])
    BY DEF InFlight
  <2>1. /\ Ahead(cut[m].marks)
        /\ m \in out => Offered(rows, cut[m].marks, held[m] \cup cut[m].rows)
        /\ m \in delivered => Offered(rows, cut[m].marks, held[m])
    BY DEF Inv, InFlight
  <2>2. m \in out => Offered(rows', cut[m].marks, held[m] \cup cut[m].rows)
    BY <1>1, <2>1, FreshRowsAreOwed DEF Inv
  <2>3. m \in delivered => Offered(rows', cut[m].marks, held[m])
    BY <1>1, <2>1, FreshRowsAreOwed DEF Inv
  <2> QED
    BY <1>1, <2>1, <2>2, <2>3
<1> QED
  BY <1>2, <1>3

-----------------------------------------------------------------------------
\* Cutting a payload.

LEMMA OpeningIsOffered ==
  ASSUME Inv
  PROVE  /\ OpeningMarks \in Marks
         /\ OpeningMarks.known
         /\ Ahead(OpeningMarks)
         /\ \A H : Offered(rows, OpeningMarks, H)
<1>1. \A r \in rows : /\ r.key \in Int
                      /\ r.stream \in Stream
                      /\ r.stream \in Rung => 1 <= r.key /\ r.key < built[r.stream]
  BY RawIsNoRung DEF Inv, TypeOK, Keys, Row
<1>2. OpeningMarks \in Marks /\ OpeningMarks.known
  BY <1>1, OpeningMarksType DEF Inv
<1>3. /\ OpeningMarks.upTo[Raw] = now - Backfill
      /\ OpeningMarks.from = now - Backfill
      /\ \A l \in Rung : OpeningMarks.upTo[l] = BeforeOldest(l)
  BY RawIsNoRung DEF OpeningMarks
<1>4. now - Backfill \in Int /\ \A l \in Rung : built[l] \in Int /\ 1 <= built[l]
  BY DEF Inv, TypeOK, Instants
<1>5. \A l \in Rung : \A r \in In(l) : /\ r \in rows
                                       /\ r.stream = l
                                       /\ r.key \in Int
                                       /\ 1 <= r.key
                                       /\ r.key < built[l]
  BY <1>1 DEF In
<1>6. \A l \in Rung : BeforeOldest(l) \in Int /\ BeforeOldest(l) < built[l]
  <2> TAKE l \in Rung
  <2>1. /\ BeforeOldest(l) \in Int
        /\ BeforeOldest(l) = 0 \/ \E r \in In(l) : BeforeOldest(l) = r.key - 1
    BY <1>5, OpenedBeforeOldest
  <2> QED
    BY <1>4, <1>5, <2>1
<1>7. Ahead(OpeningMarks)
  BY <1>3, <1>4, <1>6 DEF Ahead
<1>8. ASSUME NEW H, NEW r \in rows,
             r.key <= OpeningMarks.upTo[r.stream],
             r.stream = Raw => OpeningMarks.from < r.key
      PROVE  FALSE
  <2>1. CASE r.stream = Raw
    BY <1>1, <1>3, <1>4, <1>8, <2>1
  <2>2. CASE r.stream \in Rung
    <3>1. r \in In(r.stream)
      BY <1>8 DEF In
    <3>2. BeforeOldest(r.stream) < r.key
      BY <1>5, <2>2, <3>1, OpenedBeforeOldest
    <3> QED
      BY <1>1, <1>3, <1>6, <1>8, <2>2, <3>2
  <2> QED
    BY <1>1, <2>1, <2>2 DEF Stream
<1>9. \A H : Offered(rows, OpeningMarks, H)
  BY <1>8 DEF Offered
<1> QED
  BY <1>2, <1>7, <1>9

\* A payload carries what lies between the marks it was cut from and those it
\* leads to, but for rows of the very bucket or instant it ends in.
LEMMA PayloadOffers ==
  ASSUME Inv, NEW mk \in Marks, mk.known, Ahead(mk), NEW H, Offered(rows, mk, H),
         NEW S \in Slices(OwnSamples(mk), MaxSeriesRows),
         NEW B \in Slices(OwnRollups(mk), MaxSeriesRows)
  PROVE  /\ Ahead(Payload(mk, S, B).marks)
         /\ Offered(rows, Payload(mk, S, B).marks, H \cup Payload(mk, S, B).rows)
<1> DEFINE owed == OwnSamples(mk) \cup OwnRollups(mk)
           upTo == [s \in Stream |-> High({r \in S \cup B : r.stream = s}, mk.upTo[s])]
           left == {<<r.stream, r.key>> : r \in {q \in owed \ (S \cup B) : q.key = upTo[q.stream]}}
           new  == Payload(mk, S, B).marks
<1>1. /\ mk.upTo \in [Stream -> Int]
      /\ mk.from \in Int
      /\ stamp \in Int
      /\ pending \in Int
      /\ built \in [Rung -> Int]
  BY DEF Marks, Inv, TypeOK
<1>2. \A r \in rows : r.key \in Int /\ r.stream \in Stream
  BY DEF Inv, TypeOK, Row
<1>3. /\ new.known
      /\ new.upTo = upTo
      /\ new.from = mk.from
      /\ new.seams = mk.seams \cup left
      /\ Payload(mk, S, B).rows = S \cup B
  BY DEF Payload, Advance, Marks
<1>4. /\ S \subseteq OwnSamples(mk)
      /\ B \subseteq OwnRollups(mk)
      /\ \A r \in S, q \in OwnSamples(mk) \ S :
           r.stream > q.stream \/ (r.stream = q.stream /\ r.key <= q.key)
      /\ \A r \in B, q \in OwnRollups(mk) \ B :
           r.stream > q.stream \/ (r.stream = q.stream /\ r.key <= q.key)
  BY DEF Slices
<1>5. \A r \in OwnSamples(mk) : /\ r \in rows
                                /\ r.stream = Raw
                                /\ mk.upTo[Raw] < r.key
                                /\ r.key < stamp
  BY DEF OwnSamples, In
<1>6. \A r \in OwnRollups(mk) : /\ r \in rows
                                /\ r.stream \in Rung
                                /\ mk.upTo[r.stream] < r.key
                                /\ r.key <= SealedThrough(now, r.stream)
  BY DEF OwnRollups
<1>7. ASSUME NEW s \in Stream
      PROVE  /\ upTo[s] \in Int
             /\ upTo[s] = mk.upTo[s] \/ \E r \in S \cup B : r.stream = s /\ upTo[s] = r.key
  <2> DEFINE T == {r \in S \cup B : r.stream = s}
  <2>1. \A r \in T : r.key \in Int
    BY <1>2, <1>4, <1>5, <1>6
  <2>2. upTo[s] = High(T, mk.upTo[s]) /\ mk.upTo[s] \in Int
    BY <1>1
  <2> HIDE DEF upTo
  <2>3. High(T, mk.upTo[s]) \in Int
    BY <2>1, <2>2, HighIsAKey
  <2>4. High(T, mk.upTo[s]) = mk.upTo[s] \/ \E r \in T : High(T, mk.upTo[s]) = r.key
    BY <2>1, <2>2, HighIsAKey
  <2> QED
    BY <2>2, <2>3, <2>4
<1> HIDE DEF upTo, new
<1>8. Ahead(new)
  <2>1. \A l \in Rung : upTo[l] < built[l]
    <3> TAKE l \in Rung
    <3>1. mk.upTo[l] < built[l]
      BY DEF Ahead
    <3>2. \A r \in rows : r.stream = l => r.key < built[l]
      BY RawIsNoRung DEF Inv, Keys
    <3>3. l \in Stream
      BY RawIsNoRung
    <3> QED
      BY <1>4, <1>5, <1>6, <1>7, <3>1, <3>2, <3>3
  <2>2. \/ upTo[Raw] <= mk.from
        \/ upTo[Raw] < stamp /\ (pending # 0 => upTo[Raw] < pending)
    <3>1. Raw \in Stream
      BY RawIsNoRung
    <3>2. CASE upTo[Raw] = mk.upTo[Raw]
      BY <3>2 DEF Ahead
    <3>3. ASSUME NEW r \in S \cup B, r.stream = Raw, upTo[Raw] = r.key
          PROVE  upTo[Raw] < stamp /\ (pending # 0 => upTo[Raw] < pending)
      <4>1. r \in In(Raw) /\ r.key < stamp /\ r.key \in Int
        BY <1>2, <1>4, <1>5, <1>6, <3>3, RawIsNoRung DEF In
      <4>2. pending # 0 => r.key < pending \/ r.key = stamp
        BY <4>1 DEF Inv, Instants
      <4> QED
        BY <1>1, <3>3, <4>1, <4>2
    <3> QED
      BY <1>7, <3>1, <3>2, <3>3
  <2> QED
    BY <1>3, <2>1, <2>2 DEF Ahead
<1>9. ASSUME NEW r \in rows,
             r.key <= upTo[r.stream],
             r.stream = Raw => mk.from < r.key
      PROVE  r \in H \cup (S \cup B) \/ <<r.stream, r.key>> \in mk.seams \cup left
  <2>1. /\ r.key \in Int
        /\ r.stream \in Stream
        /\ mk.upTo[r.stream] \in Int
    BY <1>1, <1>2
  <2>2. CASE r.key <= mk.upTo[r.stream]
    BY <1>9, <2>2 DEF Offered
  <2>3. CASE mk.upTo[r.stream] < r.key
    <3>1. PICK e \in S \cup B : e.stream = r.stream /\ upTo[r.stream] = e.key
      BY <1>7, <1>9, <2>1, <2>3
    <3>2. r \notin S \cup B => r.key = upTo[r.stream] /\ r \in owed
      <4> SUFFICES ASSUME r \notin S \cup B
                   PROVE  r.key = upTo[r.stream] /\ r \in owed
        OBVIOUS
      <4>1. CASE e \in S
        <5>1. r.stream = Raw /\ e.key < stamp /\ e.key \in Int
          BY <1>2, <1>4, <1>5, <3>1, <4>1
        <5>2. r \in OwnSamples(mk)
          BY <1>1, <1>9, <2>1, <2>3, <3>1, <5>1 DEF OwnSamples, In
        <5>3. e.key <= r.key
          BY <1>4, <3>1, <4>1, <5>1, <5>2, <2>1, RawIsNoRung
        <5> QED
          BY <1>9, <2>1, <3>1, <5>1, <5>2, <5>3
      <4>2. CASE e \in B
        <5>1. /\ r.stream \in Rung
              /\ e.key <= SealedThrough(now, r.stream)
              /\ e.key \in Int
          BY <1>2, <1>4, <1>6, <3>1, <4>2
        <5> r.stream \in Int
          BY <5>1 DEF Rung
        <5>2. SealedThrough(now, r.stream) \in Int
          BY <5>1, Ladder DEF Inv, TypeOK
        <5>3. r \in OwnRollups(mk)
          BY <1>9, <2>1, <2>3, <3>1, <5>1, <5>2 DEF OwnRollups
        <5>4. e.key <= r.key
          BY <1>4, <3>1, <4>2, <5>1, <5>3
        <5> QED
          BY <1>9, <2>1, <3>1, <5>1, <5>3, <5>4
      <4> QED
        BY <4>1, <4>2
    <3>3. CASE r \in S \cup B
      BY <3>3
    <3>4. CASE r \notin S \cup B
      <4>1. r \in {q \in owed \ (S \cup B) : q.key = upTo[q.stream]}
        BY <3>2, <3>4
      <4> QED
        BY <4>1
    <3> QED
      BY <3>3, <3>4
  <2> QED
    BY <1>1, <2>1, <2>2, <2>3
<1>10. Offered(rows, new, H \cup Payload(mk, S, B).rows)
  BY <1>3, <1>9 DEF Offered
<1> QED
  BY <1>8, <1>10 DEF new

-----------------------------------------------------------------------------
\* Steps.

LEMMA ReadingsType ==
  ASSUME TypeOK, NEW S \in SUBSET Series, NEW t \in Int
  PROVE  Readings(S, t) \in SUBSET Row /\ rows \cup Readings(S, t) \subseteq Row
  BY ReadingRows DEF TypeOK

LEMMA TickInv == ASSUME Inv, Tick PROVE Inv'
<1>1. TypeOK'
  BY DEF Inv, TypeOK, Tick, passVars, roundVars
<1>2. Keys' /\ Instants' /\ Stages'
  BY RawIsNoRung DEF Inv, TypeOK, Tick, passVars, roundVars, Keys, Instants, Stages, In, Row
<1>3. \A m \in Peer : Kept(m)' /\ InFlight(m)'
  BY DEF Inv, Tick, passVars, roundVars, Kept, InFlight, Ahead, Offered
<1> QED
  BY <1>1, <1>2, <1>3 DEF Inv

LEMMA CollectInv == ASSUME Inv, Collect PROVE Inv'
<1>1. TypeOK'
  BY DEF Inv, TypeOK, Collect, passVars, roundVars
<1>2. Keys' /\ Stages'
  BY DEF Inv, Collect, passVars, roundVars, Keys, Stages
<1>3. ASSUME NEW r \in In(Raw) PROVE r.key < now \/ r.key = stamp
  <2>1. /\ r.key \in Int /\ r.key <= now
        /\ stamp \in Int /\ now \in Int /\ stamp <= now
        /\ r = [stream |-> Raw, key |-> r.key, series |-> r.series]
    BY DEF Inv, TypeOK, Keys, Instants, In, Row
  <2>2. CASE r.series \in Metric
    <3>1. r.key # now
      <4> SUFFICES ASSUME r.key = now PROVE FALSE
        OBVIOUS
      <4>1. r \in Readings(Metric, now) /\ r \in rows
        BY <2>1, <2>2 DEF Readings, In
      <4> QED
        BY <4>1 DEF Collect
    <3> QED
      BY <2>1, <3>1
  <2>3. CASE r.series \notin Metric
    <3>1. r.key <= stamp
      BY <2>3 DEF Inv, Instants
    <3> QED
      BY <2>1, <3>1
  <2> QED
    BY <2>2, <2>3
<1>4. Instants'
  <2>1. pending' = now /\ now \in Nat /\ UNCHANGED <<now, rows, built, stamp>>
    BY DEF Inv, TypeOK, Collect, passVars, roundVars
  <2>2. In(Raw)' = In(Raw)
    BY <2>1 DEF In
  <2>3. /\ 1 <= now
        /\ stamp <= now
        /\ \A l \in Rung : 1 <= built[l]
        /\ \A r \in In(Raw) : r.series \in Metric \/ r.key <= stamp
    BY DEF Inv, Instants
  <2> QED
    BY <1>3, <2>1, <2>2, <2>3 DEF Instants
<1>5. ASSUME NEW mk \in Marks, Ahead(mk) PROVE Ahead(mk)'
  <2>1. stamp \in Int /\ now \in Int /\ stamp <= now /\ mk.upTo[Raw] \in Int
    BY RawIsNoRung DEF Inv, TypeOK, Instants, Marks
  <2> QED
    BY <1>5, <2>1 DEF Ahead, Collect, passVars, roundVars
<1>6. \A m \in Peer : Kept(m)' /\ InFlight(m)'
  <2>1. Fresh({}) /\ {} \in SUBSET Row /\ rows' = rows \cup {}
    BY DEF Fresh, Collect
  <2> QED
    BY <1>5, <2>1, Growth DEF Collect, roundVars
<1> QED
  BY <1>1, <1>2, <1>4, <1>6 DEF Inv

LEMMA InsertMetricsInv == ASSUME Inv, InsertMetrics PROVE Inv'
<1> DEFINE N == Readings(Metric, pending)
<1>1. N \in SUBSET Row /\ rows \cup N \subseteq Row
  BY ReadingsType DEF Inv, TypeOK, Series
<1>2. \A r \in N : r.stream = Raw /\ r.key = pending /\ r.series \in Metric
  BY ReadingRows DEF Inv, TypeOK, Series
<1> HIDE DEF N
<1>3. rows' = rows \cup N
  BY DEF InsertMetrics, N
<1>4. TypeOK'
  BY <1>1, <1>3 DEF Inv, TypeOK, InsertMetrics, passVars, roundVars
<1>5. Keys' /\ Instants' /\ Stages'
  <2>1. pending' = 0 /\ UNCHANGED <<now, built, roundVars>>
    BY DEF InsertMetrics, passVars
  <2>2. Keys'
    BY <1>2, <1>3, <2>1 DEF Inv, Instants, Keys
  <2>3. Stages'
    BY <2>1 DEF Inv, Stages, roundVars
  <2>4. \A r \in In(Raw)' : r \in In(Raw) \/ r.series \in Metric
    BY <1>2, <1>3 DEF In
  <2>5. Instants'
    BY <2>1, <2>4 DEF Inv, TypeOK, Instants, roundVars
  <2> QED
    BY <2>2, <2>3, <2>5
<1>6. Fresh(N)
  BY <1>2 DEF Fresh, InsertMetrics
<1>7. \A mk \in Marks : Ahead(mk) => Ahead(mk)'
  BY DEF Ahead, InsertMetrics, passVars, roundVars
<1>8. \A m \in Peer : Kept(m)' /\ InFlight(m)'
  BY <1>1, <1>3, <1>6, <1>7, Growth DEF InsertMetrics, roundVars
<1> QED
  BY <1>4, <1>5, <1>8 DEF Inv

LEMMA RollRungInv == ASSUME Inv, RollRung PROVE Inv'
<1>1. PICK N \in SUBSET Row :
        /\ rows' = rows \cup N
        /\ \A r \in N : /\ r.stream \in Rung
                        /\ built[r.stream] <= r.key
                        /\ r.key < built'[r.stream]
  BY BuiltForward DEF Inv
<1>2. TypeOK' /\ \A l \in Rung : built[l] <= built'[l]
  BY BuiltForward DEF Inv
<1>3. \A l \in Rung : built[l] \in Int /\ built'[l] \in Int /\ 1 <= built[l]
  BY <1>2 DEF Inv, TypeOK, Instants
<1>4. UNCHANGED <<now, pending, roundVars, marks, speaks, held, restarts>>
  BY DEF RollRung
<1>5. \A r \in N : r.key \in Int /\ r.stream # Raw
  BY <1>1, RawIsNoRung DEF Row
<1>6. Keys'
  <2> SUFFICES ASSUME NEW r \in rows'
               PROVE  IF r.stream = Raw THEN r.key <= now
                                        ELSE 1 <= r.key /\ r.key < built'[r.stream]
    BY <1>4 DEF Keys
  <2>1. CASE r \in rows
    <3>1. r.key \in Int /\ r.stream \in Stream
      BY <2>1 DEF Inv, TypeOK, Row
    <3> QED
      BY <1>2, <1>3, <2>1, <3>1 DEF Inv, Keys, Stream
  <2>2. CASE r \in N
    BY <1>1, <1>3, <1>5, <2>2
  <2> QED
    BY <1>1, <2>1, <2>2
<1>7. Instants' /\ Stages'
  BY <1>1, <1>2, <1>3, <1>4, <1>5 DEF Inv, Instants, Stages, roundVars, In
<1>8. Fresh(N)
  BY <1>1, <1>5 DEF Fresh
<1>9. ASSUME NEW mk \in Marks, Ahead(mk) PROVE Ahead(mk)'
  <2>1. \A l \in Rung : mk.upTo[l] \in Int
    BY RawIsNoRung DEF Marks
  <2> QED
    BY <1>2, <1>3, <1>4, <1>9, <2>1 DEF Ahead, roundVars
<1>10. \A m \in Peer : Kept(m)' /\ InFlight(m)'
  BY <1>1, <1>4, <1>8, <1>9, Growth DEF roundVars
<1> QED
  BY <1>2, <1>6, <1>7, <1>10 DEF Inv

LEMMA StartRoundInv == ASSUME Inv, StartRound PROVE Inv'
<1>1. PICK watched \in {{}, Watched} : rows' = rows \cup Readings(watched, now)
  BY DEF StartRound
<1> DEFINE N == Readings(watched, now)
<1>2. watched \in SUBSET Series /\ now \in Int
  BY DEF Inv, TypeOK, Series
<1>3. N \in SUBSET Row /\ rows \cup N \subseteq Row
  BY <1>2, ReadingsType DEF Inv
<1>4. \A r \in N : r.stream = Raw /\ r.key = now
  BY <1>2, ReadingRows
<1> HIDE DEF N
<1>5. /\ rows' = rows \cup N
      /\ ~running
      /\ pending = 0 \/ stamp < pending
      /\ running' = TRUE
      /\ stamp' = now
      /\ due' = Peer
      /\ UNCHANGED <<now, pending, built, rung, passAt, cut, out, delivered,
                     marks, speaks, held, restarts>>
  BY <1>1 DEF StartRound, passVars, N
<1>6. TypeOK'
  BY <1>3, <1>5 DEF Inv, TypeOK
<1>7. Keys' /\ Stages'
  BY <1>4, <1>5 DEF Inv, TypeOK, Keys, Stages
<1>8. \A r \in In(Raw)' : r \in In(Raw) \/ r.key = now
  BY <1>4, <1>5 DEF In
<1>9. \A r \in In(Raw) : r.key \in Int /\ r.key <= now
  BY DEF Inv, TypeOK, Keys, In, Row
<1>10. stamp \in Int /\ pending \in Int /\ now \in Int /\ stamp <= now /\ pending <= now
  BY DEF Inv, TypeOK, Instants
<1>11. Instants'
  BY <1>5, <1>8, <1>9, <1>10 DEF Inv, Instants
<1>12. Fresh(N)
  BY <1>4, <1>10 DEF Fresh
<1>13. ASSUME NEW mk \in Marks, Ahead(mk) PROVE Ahead(mk)'
  <2>1. mk.upTo[Raw] \in Int
    BY RawIsNoRung DEF Marks
  <2> QED
    BY <1>5, <1>10, <1>13, <2>1 DEF Ahead
<1>14. \A m \in Peer : Kept(m)' /\ InFlight(m)'
  BY <1>3, <1>5, <1>12, <1>13, Growth
<1> QED
  BY <1>6, <1>7, <1>11, <1>14 DEF Inv

LEMMA CutPayloadInv == ASSUME Inv, NEW m \in Peer, CutPayload(m) PROVE Inv'
<1>1. PICK c \in [rows : SUBSET Row, marks : Marks] :
        /\ cut' = [cut EXCEPT ![m] = c]
        /\ Ahead(c.marks)
        /\ Offered(rows, c.marks, held[m] \cup c.rows)
  <2>1. \A r \in rows : r.stream \in Rung => 1 <= r.key
    BY RawIsNoRung DEF Inv, Keys
  <2>2. Ahead(marks[m]) /\ Offered(rows, marks[m], held[m])
    BY DEF Inv, Kept
  <2>3. CASE m \notin speaks
    <3>1. cut' = [cut EXCEPT ![m] = Original(m)]
      BY <2>3 DEF CutPayload
    <3>2. Original(m) \in [rows : SUBSET Row, marks : Marks]
      BY <2>1, PayloadType DEF Inv
    <3>3. Original(m).marks = marks[m] /\ held[m] \subseteq held[m] \cup Original(m).rows
      BY DEF Original
    <3> QED
      BY <2>2, <3>1, <3>2, <3>3, HeldGrows
  <2>4. CASE m \in speaks
    <3>1. PICK S \in Slices(OwnSamples(MarksOf(m)), MaxSeriesRows),
               B \in Slices(OwnRollups(MarksOf(m)), MaxSeriesRows) :
            cut' = [cut EXCEPT ![m] = Payload(MarksOf(m), S, B)]
      BY <2>4 DEF CutPayload
    <3>2. MarksOf(m) \in Marks /\ Payload(MarksOf(m), S, B) \in [rows : SUBSET Row, marks : Marks]
      BY <2>1, PayloadType DEF Inv
    <3>3. /\ MarksOf(m).known
          /\ Ahead(MarksOf(m))
          /\ Offered(rows, MarksOf(m), held[m])
      BY <2>2, OpeningIsOffered DEF MarksOf
    <3>4. /\ Ahead(Payload(MarksOf(m), S, B).marks)
          /\ Offered(rows, Payload(MarksOf(m), S, B).marks,
                     held[m] \cup Payload(MarksOf(m), S, B).rows)
      BY <3>2, <3>3, PayloadOffers
    <3> QED
      BY <3>1, <3>2, <3>4
  <2> QED
    BY <2>3, <2>4
<1>2. /\ m \in due
      /\ due' = due \ {m}
      /\ out' = out \cup {m}
      /\ UNCHANGED <<now, rows, pending, built, rung, passAt, running, stamp, delivered,
                     marks, speaks, held, restarts>>
  BY DEF CutPayload, passVars
<1>3. TypeOK'
  BY <1>1, <1>2 DEF Inv, TypeOK
<1>4. Keys' /\ Instants' /\ Stages'
  BY <1>2 DEF Inv, Keys, Instants, Stages, In
<1>5. ASSUME NEW mk PROVE Ahead(mk)' <=> Ahead(mk)
  BY <1>2 DEF Ahead
<1>6. ASSUME NEW q \in Peer PROVE Kept(q)'
  BY <1>2, <1>5 DEF Inv, Kept
<1>7. ASSUME NEW q \in Peer PROVE InFlight(q)'
  <2>1. CASE q = m
    <3>1. cut'[q] = c /\ m \notin delivered
      BY <1>1, <1>2, <2>1 DEF Inv, TypeOK, Stages
    <3> QED
      BY <1>1, <1>2, <1>5, <2>1, <3>1 DEF InFlight
  <2>2. CASE q # m
    <3>1. cut'[q] = cut[q]
      BY <1>1, <2>2 DEF Inv, TypeOK
    <3> QED
      BY <1>2, <1>5, <2>2, <3>1 DEF Inv, InFlight
  <2> QED
    BY <2>1, <2>2
<1> QED
  BY <1>3, <1>4, <1>6, <1>7 DEF Inv

\* Whatever m stores of its payload, and all of it if m is to count as delivered.
LEMMA PushEndsInv ==
  ASSUME Inv, NEW m \in Peer, NEW stored \in SUBSET cut[m].rows, PushEnds(m, stored),
         \/ delivered' = delivered
         \/ delivered' = delivered \cup {m} /\ stored = cut[m].rows
  PROVE  Inv'
<1> DEFINE N == Readings({m}, stamp)
<1>1. {m} \in SUBSET Series /\ stamp \in Int
  BY DEF Inv, TypeOK, Series
<1>2. N \in SUBSET Row /\ rows \cup N \subseteq Row
  BY <1>1, ReadingsType DEF Inv
<1>3. \A r \in N : r.stream = Raw /\ r.key = stamp
  BY <1>1, ReadingRows
<1> HIDE DEF N
<1>4. /\ m \in out
      /\ out' = out \ {m}
      /\ held' = [held EXCEPT ![m] = @ \cup stored]
      /\ rows' = rows \cup N
      /\ due = {}
      /\ UNCHANGED <<now, pending, built, rung, passAt, running, stamp, due, cut,
                     marks, speaks, restarts>>
  BY DEF PushEnds, passVars, N
<1>5. stored \in SUBSET Row /\ cut[m].rows \in SUBSET Row
  BY DEF Inv, TypeOK
<1>6. TypeOK'
  <2>1. held' \in [Peer -> SUBSET Row]
    BY <1>4, <1>5 DEF Inv, TypeOK
  <2>2. out' \subseteq Peer /\ delivered' \subseteq Peer
    BY <1>4 DEF Inv, TypeOK
  <2> QED
    BY <1>2, <1>4, <2>1, <2>2 DEF Inv, TypeOK
<1>7. Keys'
  BY <1>3, <1>4 DEF Inv, Instants, Keys
<1>8. Stages'
  BY <1>4 DEF Inv, Stages
<1>9. Instants'
  <2>1. \A r \in In(Raw)' : r \in In(Raw) \/ r.key = stamp
    BY <1>3, <1>4 DEF In
  <2> QED
    BY <1>1, <1>4, <2>1 DEF Inv, Instants
<1>10. Fresh(N)
  BY <1>1, <1>3 DEF Fresh
<1>11. ASSUME NEW mk PROVE Ahead(mk)' <=> Ahead(mk)
  BY <1>4 DEF Ahead
<1>12. ASSUME NEW q \in Peer
       PROVE  /\ held[q] \subseteq held'[q]
              /\ q = m => held'[q] = held[q] \cup stored
              /\ q # m => held'[q] = held[q]
              /\ marks[q] \in Marks
              /\ cut[q].marks \in Marks
  BY <1>4 DEF Inv, TypeOK
<1>13. ASSUME NEW q \in Peer PROVE Kept(q)'
  <2>1. Ahead(marks[q]) /\ Offered(rows, marks[q], held[q])
    BY DEF Inv, Kept
  <2>2. Offered(rows \cup N, marks[q], held[q])
    BY <1>2, <1>10, <1>12, <2>1, FreshRowsAreOwed DEF Inv
  <2>3. Offered(rows \cup N, marks[q], held'[q])
    BY <1>12, <2>2, HeldGrows
  <2> QED
    BY <1>4, <1>11, <2>1, <2>3 DEF Kept
<1>14. ASSUME NEW q \in Peer PROVE InFlight(q)'
  <2> SUFFICES ASSUME q \in out' \cup delivered'
               PROVE  /\ Ahead(cut[q].marks)
                      /\ q \in out' => Offered(rows', cut[q].marks, held'[q] \cup cut[q].rows)
                      /\ q \in delivered' => Offered(rows', cut[q].marks, held'[q])
    BY <1>4, <1>11 DEF InFlight
  <2>1. /\ q \in out \cup delivered
        /\ q \in out' => q \in out /\ q # m
        /\ q \in delivered' => q \in delivered \/ (q = m /\ stored = cut[m].rows)
    BY <1>4
  <2>2. /\ Ahead(cut[q].marks)
        /\ q \in out => Offered(rows, cut[q].marks, held[q] \cup cut[q].rows)
        /\ q \in delivered => Offered(rows, cut[q].marks, held[q])
    BY <2>1 DEF Inv, InFlight
  <2>3. q \in out => Offered(rows \cup N, cut[q].marks, held[q] \cup cut[q].rows)
    BY <1>2, <1>10, <1>12, <2>2, FreshRowsAreOwed DEF Inv
  <2>4. q \in delivered => Offered(rows \cup N, cut[q].marks, held'[q])
    <3>1. q \in delivered => Offered(rows \cup N, cut[q].marks, held[q])
      BY <1>2, <1>10, <1>12, <2>2, FreshRowsAreOwed DEF Inv
    <3> QED
      BY <1>12, <3>1, HeldGrows
  <2>5. q = m /\ stored = cut[m].rows => held'[q] = held[q] \cup cut[q].rows
    BY <1>12
  <2> QED
    BY <1>4, <1>12, <2>1, <2>2, <2>3, <2>4, <2>5
<1> QED
  BY <1>6, <1>7, <1>8, <1>9, <1>13, <1>14 DEF Inv

LEMMA FinishRoundInv == ASSUME Inv, FinishRound PROVE Inv'
<1>1. /\ running
      /\ due = {}
      /\ out = {}
      /\ running' = FALSE
      /\ marks' = [m \in Peer |-> IF m \in delivered THEN cut[m].marks ELSE marks[m]]
      /\ cut' = [m \in Peer |-> Nothing]
      /\ delivered' = {}
      /\ UNCHANGED <<now, rows, pending, built, rung, passAt, stamp, due, out,
                     speaks, held, restarts>>
  BY DEF FinishRound, passVars
<1>2. Nothing \in [rows : SUBSET Row, marks : Marks]
  BY RawIsNoRung DEF Nothing, NoMarks, Marks
<1>3. marks' \in [Peer -> Marks]
  BY <1>1 DEF Inv, TypeOK
<1>4. cut' \in [Peer -> [rows : SUBSET Row, marks : Marks]]
  BY <1>1, <1>2, Zenon
<1>5. TypeOK'
  BY <1>1, <1>3, <1>4 DEF Inv, TypeOK
<1>6. Keys' /\ Instants' /\ Stages'
  BY <1>1 DEF Inv, Keys, Instants, Stages, In
<1>7. ASSUME NEW mk PROVE Ahead(mk)' <=> Ahead(mk)
  BY <1>1 DEF Ahead
<1>8. ASSUME NEW m \in Peer PROVE Kept(m)' /\ InFlight(m)'
  <2>1. Kept(m)'
    BY <1>1, <1>7 DEF Inv, Kept, InFlight
  <2>2. InFlight(m)'
    BY <1>1 DEF InFlight
  <2> QED
    BY <2>1, <2>2
<1> QED
  BY <1>5, <1>6, <1>8 DEF Inv

LEMMA HearInv == ASSUME Inv, NEW m \in Peer, Hear(m) PROVE Inv'
<1>1. /\ speaks' \subseteq Peer
      /\ UNCHANGED <<now, rows, pending, built, rung, passAt, running, stamp, due, cut,
                     out, delivered, marks, held, restarts>>
  BY DEF Hear, Inv, TypeOK, passVars, roundVars
<1>2. TypeOK'
  BY <1>1 DEF Inv, TypeOK
<1>3. Keys' /\ Instants' /\ Stages'
  BY <1>1 DEF Inv, Keys, Instants, Stages, In
<1>4. \A q \in Peer : Kept(q)' /\ InFlight(q)'
  BY <1>1 DEF Inv, Kept, InFlight, Ahead
<1> QED
  BY <1>2, <1>3, <1>4 DEF Inv

LEMMA RestartInv == ASSUME Inv, Restart PROVE Inv'
<1>1. /\ restarts' = restarts + 1
      /\ pending' = 0 /\ rung' = 0 /\ passAt' = 0
      /\ running' = FALSE /\ due' = {} /\ out' = {} /\ delivered' = {}
      /\ cut' = [m \in Peer |-> Nothing]
      /\ marks' = [m \in Peer |-> NoMarks]
      /\ UNCHANGED <<now, rows, built, stamp, speaks, held>>
  BY DEF Restart
<1>2. /\ NoMarks \in Marks
      /\ ~NoMarks.known
      /\ Nothing \in [rows : SUBSET Row, marks : Marks]
  BY RawIsNoRung DEF Nothing, NoMarks, Marks
<1>3. marks' \in [Peer -> Marks] /\ cut' \in [Peer -> [rows : SUBSET Row, marks : Marks]]
  BY <1>1, <1>2, Zenon
<1>4. rung' \in Rung
  BY <1>1 DEF Rung
<1>5. TypeOK'
  <2>1. restarts' \in Nat
    BY <1>1 DEF Inv, TypeOK
  <2>3. pending' \in Nat /\ passAt' \in Nat
    BY <1>1
  <2>4. running' \in BOOLEAN
    BY <1>1
  <2>2. due' \subseteq Peer /\ out' \subseteq Peer /\ delivered' \subseteq Peer
    BY <1>1
  <2> QED
    BY <1>1, <1>3, <1>4, <2>1, <2>2, <2>3, <2>4 DEF Inv, TypeOK
<1>6. Keys' /\ Instants' /\ Stages'
  BY <1>1 DEF Inv, TypeOK, Keys, Instants, Stages, In
<1>7. \A m \in Peer : Kept(m)' /\ InFlight(m)'
  BY <1>1, <1>2 DEF Kept, InFlight, Ahead, Offered
<1> QED
  BY <1>5, <1>6, <1>7 DEF Inv

LEMMA NextInv == Inv /\ [Next]_vars => Inv'
<1> SUFFICES ASSUME Inv, [Next]_vars PROVE Inv'
  OBVIOUS
<1>1. CASE Tick \/ Collect \/ InsertMetrics \/ RollRung
  BY <1>1, TickInv, CollectInv, InsertMetricsInv, RollRungInv
<1>2. CASE StartRound \/ FinishRound \/ Restart
  BY <1>2, StartRoundInv, FinishRoundInv, RestartInv
<1>3. ASSUME NEW m \in Peer, CutPayload(m) \/ Hear(m) PROVE Inv'
  BY <1>3, CutPayloadInv, HearInv
<1>4. ASSUME NEW m \in Peer, Answered(m) PROVE Inv'
  BY <1>4, PushEndsInv DEF Answered
<1>5. ASSUME NEW m \in Peer, Unanswered(m) PROVE Inv'
  <2>1. PICK stored \in {{}, {r \in cut[m].rows : r.stream = Raw}, cut[m].rows} :
          PushEnds(m, stored)
    BY <1>5 DEF Unanswered
  <2>2. stored \in SUBSET cut[m].rows /\ delivered' = delivered
    BY <1>5 DEF Unanswered
  <2> QED
    BY <2>1, <2>2, PushEndsInv
<1>6. CASE UNCHANGED vars
  <2>1. UNCHANGED <<now, rows, pending, built, rung, passAt, running, stamp, due, cut,
                    out, delivered, marks, speaks, held, restarts>>
    BY <1>6 DEF vars, passVars, roundVars
  <2>2. TypeOK'
    BY <2>1 DEF Inv, TypeOK
  <2>3. Keys' /\ Instants' /\ Stages'
    BY <2>1 DEF Inv, Keys, Instants, Stages, In
  <2>4. \A m \in Peer : Kept(m)' /\ InFlight(m)'
    BY <2>1 DEF Inv, Kept, InFlight, Ahead
  <2> QED
    BY <2>2, <2>3, <2>4 DEF Inv
<1> QED
  BY <1>1, <1>2, <1>3, <1>4, <1>5, <1>6 DEF Next

-----------------------------------------------------------------------------
\* The theorems.

\* Every variable keeps its type.
THEOREM SeriesTypeCorrect == Spec => []TypeOK
<1>1. Inv => TypeOK
  BY DEF Inv
<1> QED
  BY <1>1, InitInv, NextInv, PTL DEF Spec

\* A peer holds every row behind its marks but for the rest of a bucket a payload
\* was cut short in: late probes, lost pushes, half-stored payloads, restarts and
\* interrupted passes of the rollup lose nothing else of forPeer's streams.
THEOREM SkipsNothing == Spec => []NothingSkipped
  BY InitInv, NextInv, InvImplies, PTL DEF Spec

-----------------------------------------------------------------------------
\* Whole buckets: what is behind a watermark does not change any more.

\* A coarser bucket that has ended is made of finer ones that have.
LEMMA Nested ==
  ASSUME NEW a \in Nat \ {0}, NEW b \in Nat \ {0}, b % a = 0, a <= b,
         NEW k \in Int, NEW t \in Int
  PROVE  /\ (k \div a) \div (b \div a) = k \div b
         /\ k \div b <= t \div b - 1 => k \div a <= t \div a - 1
<1> DEFINE c == b \div a
           q == k \div a
           p == k \div b
<1>1. c \in Nat \ {0} /\ a * c = b
  OBVIOUS
<1>2. q \in Int /\ a * q <= k /\ k < a * (q + 1)
  OBVIOUS
<1>3. p \in Int /\ b * p <= k /\ k < b * (p + 1)
  OBVIOUS
<1> HIDE DEF c, q, p
<1>4. a * (c * p) = b * p /\ a * (c * (p + 1)) = b * (p + 1)
  BY <1>1, <1>3
<1>5. c * p \in Int /\ c * (p + 1) \in Int
  BY <1>1, <1>3
<1>6. c * p <= q /\ q < c * (p + 1)
  <2>1. a * (c * p) < a * (q + 1)
    BY <1>2, <1>3, <1>4
  <2>2. a * q < a * (c * (p + 1))
    BY <1>2, <1>3, <1>4
  <2>3. c * p < q + 1
    BY <1>2, <1>5, <2>1
  <2>4. q < c * (p + 1)
    BY <1>2, <1>5, <2>2
  <2> QED
    BY <1>2, <1>5, <2>3, <2>4
<1>7. q \div c = p
  BY <1>1, <1>2, <1>3, <1>6
<1>8. ASSUME p <= t \div b - 1 PROVE q <= t \div a - 1
  <2>1. t \div b \in Int /\ b * (t \div b) <= t
    OBVIOUS
  <2>2. b * (p + 1) <= b * (t \div b)
    BY <1>3, <1>8, <2>1
  <2>3. k < b * (t \div b)
    BY <1>3, <2>1, <2>2
  <2>4. a * (c * (t \div b)) = b * (t \div b) /\ c * (t \div b) \in Int
    BY <1>1, <2>1
  <2>5. a * q < a * (c * (t \div b))
    BY <1>2, <2>1, <2>3, <2>4
  <2>6. q < c * (t \div b)
    BY <1>2, <2>4, <2>5
  <2>7. a * (c * (t \div b)) <= t
    BY <2>1, <2>4
  <2>8. c * (t \div b) <= t \div a
    BY <2>4, <2>7
  <2> QED
    BY <1>2, <2>4, <2>6, <2>8
<1> QED
  BY <1>7, <1>8 DEF c, q, p

LEMMA Later ==
  ASSUME NEW j \in Int, NEW k \in Int, j <= k, NEW w \in Nat \ {0}
  PROVE  j \div w \in Int /\ k \div w \in Int /\ j \div w <= k \div w
  OBVIOUS

\* A reading still to be written is of this instant or of the one before.
Recent ==
  /\ Start <= now
  /\ pending # 0 => Start <= pending /\ now - 1 <= pending
  /\ running => Start <= stamp /\ now - 1 <= stamp
  /\ passAt <= now

\* A rung is not built further than what is sealed by now.
Due(l) == built[l] <= Origin(l) \/ built[l] <= SealedThrough(now, l) + 1

\* Every reading whose bucket of rung l was sealed at the instant is in it.
Done(l, at) ==
  \A r \in In(Raw) : r.key \div Width[l] <= SealedThrough(at, l)
                       => r.key \div Width[l] < built[l]

\* The rungs a pass has been to are done as of the time it goes by.
PassDone == \A j \in Rung : j < rung => Done(j, passAt)

SealInv == /\ Inv
           /\ Recent
           /\ \A l \in Rung : Due(l)
           /\ PassDone
           /\ SealedIsComplete

LEMMA InitSeal == Init => SealInv
<1> SUFFICES ASSUME Init PROVE SealInv
  OBVIOUS
<1>1. Inv
  BY InitInv
<1>2. Recent
  BY DEF Init, Recent
<1>3. \A l \in Rung : Due(l)
  BY Ladder DEF Init, Due
<1>4. PassDone
  BY RawIsNoRung DEF Init, PassDone
<1>5. SealedIsComplete
  BY DEF Init, SealedIsComplete, In
<1> QED
  BY <1>1, <1>2, <1>3, <1>4, <1>5 DEF SealInv

\* The instants that readings have as keys.
LEMMA RawKeys == ASSUME TypeOK PROVE \A r \in In(Raw) : r.key \in Int /\ r.series \in Series
  BY DEF TypeOK, In, Row

\* A step that leaves the rows, and the pass but for giving it up.
LEMMA RowsRest ==
  ASSUME SealInv, Inv', UNCHANGED <<rows, built>>, now' = now \/ now' = now + 1,
         rung' = 0 \/ UNCHANGED <<rung, passAt>>
  PROVE  (\A l \in Rung : Due(l)') /\ PassDone' /\ SealedIsComplete'
<1> DEFINE t1 == now - SealGrace
           t2 == now' - SealGrace
<1>1. t1 \in Int /\ t2 \in Int /\ t1 <= t2
  <2>1. now \in Int /\ SealGrace \in Int
    BY DEF SealInv, Inv, TypeOK
  <2> QED
    BY <2>1
<1> HIDE DEF t1, t2
<1>2. ASSUME NEW l \in Rung PROVE Due(l)'
  <2>1. Width[l] \in Nat \ {0} /\ built[l] \in Int /\ Origin(l) \in Int
    BY Ladder DEF SealInv, Inv, TypeOK
  <2>2. /\ t1 \div Width[l] \in Int /\ t2 \div Width[l] \in Int
        /\ t1 \div Width[l] <= t2 \div Width[l]
    BY <1>1, <2>1, Later
  <2>3. built[l] <= Origin(l) \/ built[l] <= (t1 \div Width[l] - 1) + 1
    BY DEF SealInv, Due, SealedThrough, t1
  <2>4. built[l] <= Origin(l) \/ built[l] <= (t2 \div Width[l] - 1) + 1
    BY <2>1, <2>2, <2>3
  <2> QED
    BY <2>4 DEF Due, SealedThrough, Origin, t2
<1>3. In(Raw)' = In(Raw)
  BY DEF In
<1>4. PassDone'
  BY <1>3, RawIsNoRung DEF SealInv, PassDone, Done, SealedThrough
<1>5. SealedIsComplete'
  BY <1>3 DEF SealInv, SealedIsComplete
<1> QED
  BY <1>2, <1>4, <1>5

\* Readings of this instant or the one before are in no bucket built yet, nor in one
\* sealed when the pass began: the grace covers them.
LEMMA LateReadings ==
  ASSUME SealGrace >= 1, SealInv, UNCHANGED <<now, built, rung, passAt>>,
         NEW N \in SUBSET Row, rows' = rows \cup N,
         \A r \in N : r.stream = Raw /\ Start <= r.key /\ now - 1 <= r.key
  PROVE  (\A l \in Rung : Due(l)') /\ PassDone' /\ SealedIsComplete'
<1>1. now \in Int /\ passAt \in Int /\ passAt <= now
  BY DEF SealInv, Inv, TypeOK, Recent
<1>2. \A r \in N : r.key \in Int
  BY DEF Row
<1>3. ASSUME NEW l \in Rung, NEW r \in N
      PROVE  /\ ~(r.key \div Width[l] < built[l])
             /\ ~(r.key \div Width[l] <= SealedThrough(passAt, l))
  <2>1. /\ Width[l] \in Nat \ {0}
        /\ built[l] \in Int
        /\ now - SealGrace \in Int /\ passAt - SealGrace \in Int
        /\ now - SealGrace <= r.key /\ passAt - SealGrace <= r.key
        /\ Start \in Int /\ Start <= r.key /\ r.key \in Int
    BY <1>1, <1>2, Ladder DEF SealInv, Inv, TypeOK
  <2>2. /\ r.key \div Width[l] \in Int
        /\ (now - SealGrace) \div Width[l] \in Int
        /\ (now - SealGrace) \div Width[l] <= r.key \div Width[l]
    BY <2>1, Later
  <2>3. /\ (passAt - SealGrace) \div Width[l] \in Int
        /\ (passAt - SealGrace) \div Width[l] <= r.key \div Width[l]
    BY <2>1, Later
  <2>4. Start \div Width[l] \in Int /\ Start \div Width[l] <= r.key \div Width[l]
    BY <2>1, Later
  <2>5. built[l] <= Start \div Width[l] \/ built[l] <= ((now - SealGrace) \div Width[l] - 1) + 1
    BY DEF SealInv, Due, SealedThrough, Origin
  <2>6. ~(r.key \div Width[l] < built[l])
    BY <2>1, <2>2, <2>4, <2>5
  <2>7. ~(r.key \div Width[l] <= (passAt - SealGrace) \div Width[l] - 1)
    BY <2>2, <2>3
  <2> QED
    BY <2>6, <2>7 DEF SealedThrough
<1>4. \A r \in In(Raw)' : r \in In(Raw) \/ r \in N
  BY DEF In
<1>5. \A l \in Rung : Due(l)'
  BY DEF SealInv, Due, SealedThrough, Origin
<1>6. PassDone'
  <2> SUFFICES ASSUME NEW j \in Rung, j < rung, NEW r \in In(Raw)',
                      r.key \div Width[j] <= SealedThrough(passAt, j)
               PROVE  r.key \div Width[j] < built[j]
    BY DEF PassDone, Done, SealedThrough
  <2>1. r \in In(Raw)
    BY <1>3, <1>4
  <2> QED
    BY <2>1 DEF SealInv, PassDone, Done
<1>7. SealedIsComplete'
  <2> SUFFICES ASSUME NEW l \in Rung, NEW r \in In(Raw)', r.key \div Width[l] < built[l]
               PROVE  [stream |-> l, key |-> r.key \div Width[l], series |-> r.series] \in rows'
    BY DEF SealedIsComplete
  <2>1. r \in In(Raw)
    BY <1>3, <1>4
  <2> QED
    BY <2>1 DEF SealInv, SealedIsComplete
<1> QED
  BY <1>5, <1>6, <1>7

\* One rung of a pass: what was sealed when the pass began is built from the rung
\* below, which is done.
LEMMA RollRungSeal ==
  ASSUME SealInv, RollRung, Inv'
  PROVE  Recent' /\ (\A l \in Rung : Due(l)') /\ PassDone' /\ SealedIsComplete'
<1> DEFINE at == IF rung = 0 THEN now ELSE passAt
           sealed == SealedThrough(at, rung)
           some == /\ built[rung] <= sealed
                   /\ \/ built[rung] # Origin(rung)
                      \/ \E f \in Below(rung) : BucketOf(f, rung) <= sealed
           new == Rolled(rung, built[rung], sealed)
<1>1. /\ rung \in Rung
      /\ at \in Int /\ now \in Int /\ at <= now
      /\ built \in [Rung -> Int]
      /\ rows \subseteq Row
  BY DEF SealInv, Inv, TypeOK, Recent
<1>2. sealed \in Int /\ Width[rung] \in Nat \ {0}
  BY <1>1, Ladder
<1>3. /\ IF some THEN rows' = rows \cup new /\ built' = [built EXCEPT ![rung] = sealed + 1]
                 ELSE UNCHANGED <<rows, built>>
      /\ rung' = IF rung = Rungs THEN 0 ELSE rung + 1
      /\ passAt' = IF rung = Rungs THEN 0 ELSE at
      /\ UNCHANGED <<now, pending, running, stamp>>
  BY DEF RollRung, roundVars
<1>4. ASSUME NEW r \in In(Raw), r.key \div Width[rung] <= sealed
      PROVE  \E f \in Below(rung) : /\ f.series = r.series
                                    /\ BucketOf(f, rung) = r.key \div Width[rung]
  <2>1. CASE rung = 0
    BY <2>1 DEF Below, BucketOf
  <2>2. CASE rung # 0
    <3> DEFINE j == rung - 1
               f == [stream |-> j, key |-> r.key \div Width[j], series |-> r.series]
    <3>1. j \in Rung /\ j < rung /\ rung \in Rung \ {0}
      BY <1>1, <2>2 DEF Rung
    <3>2. /\ Width[j] \in Nat \ {0}
          /\ Width[j] <= Width[rung]
          /\ Width[rung] % Width[j] = 0
      BY <3>1
    <3>3. r.key \in Int /\ at - SealGrace \in Int
      BY <1>1, RawKeys DEF SealInv, Inv
    <3>4. /\ (r.key \div Width[j]) \div (Width[rung] \div Width[j]) = r.key \div Width[rung]
          /\ r.key \div Width[rung] <= (at - SealGrace) \div Width[rung] - 1
               => r.key \div Width[j] <= (at - SealGrace) \div Width[j] - 1
      BY <1>2, <3>2, <3>3, Nested
    <3>5. r.key \div Width[j] <= SealedThrough(passAt, j)
      BY <1>4, <2>2, <3>4 DEF SealedThrough
    <3>6. r.key \div Width[j] < built[j]
      BY <3>1, <3>5 DEF SealInv, PassDone, Done
    <3>7. f \in rows
      BY <3>1, <3>6 DEF SealInv, SealedIsComplete
    <3>8. f \in Below(rung)
      BY <2>2, <3>7 DEF Below, In
    <3>9. BucketOf(f, rung) = r.key \div Width[rung]
      BY <2>2, <3>4 DEF BucketOf
    <3> QED
      BY <3>8, <3>9
  <2> QED
    BY <2>1, <2>2
<1>5. \A r \in new : r.stream = rung
  BY <1>1, <1>2, RolledRows
<1> HIDE DEF at, sealed, new
<1>6. /\ rows \subseteq rows'
      /\ In(Raw)' = In(Raw)
      /\ \A l \in Rung : built'[l] = IF some /\ l = rung THEN sealed + 1 ELSE built[l]
  <2>1. CASE some
    BY <1>1, <1>3, <1>5, <2>1, RawIsNoRung DEF In
  <2>2. CASE ~some
    BY <1>3, <2>2 DEF In
  <2> QED
    BY <2>1, <2>2
<1>7. \A r \in In(Raw) : \A l \in Rung : r.key \div Width[l] \in Int /\ r.series \in Series
  BY RawKeys, Ladder, Quotient DEF SealInv, Inv
<1>8. SealedIsComplete'
  <2> SUFFICES ASSUME NEW l \in Rung, NEW r \in In(Raw), r.key \div Width[l] < built'[l]
               PROVE  [stream |-> l, key |-> r.key \div Width[l], series |-> r.series] \in rows'
    BY <1>6 DEF SealedIsComplete
  <2>1. CASE r.key \div Width[l] < built[l]
    BY <1>6, <2>1 DEF SealInv, SealedIsComplete
  <2>2. CASE ~(r.key \div Width[l] < built[l])
    <3>1. some /\ l = rung /\ built'[l] = sealed + 1
      BY <1>6, <2>2
    <3>2. built[rung] <= r.key \div Width[rung] /\ r.key \div Width[rung] <= sealed
      BY <1>1, <1>2, <1>7, <2>2, <3>1
    <3>3. PICK f \in Below(rung) : /\ f.series = r.series
                                   /\ BucketOf(f, rung) = r.key \div Width[rung]
      BY <1>4, <3>2
    <3>4. [stream |-> rung, key |-> BucketOf(f, rung), series |-> f.series] \in new
      BY <3>2, <3>3 DEF new, Rolled
    <3> QED
      BY <1>3, <3>1, <3>3, <3>4
  <2> QED
    BY <2>1, <2>2
<1>9. ASSUME NEW r \in In(Raw), r.key \div Width[rung] <= SealedThrough(at, rung)
      PROVE  r.key \div Width[rung] < built'[rung]
  <2>1. r.key \div Width[rung] \in Int /\ r.key \div Width[rung] <= sealed
    BY <1>1, <1>7, <1>9 DEF sealed
  <2>2. CASE some
    BY <1>1, <1>2, <1>6, <2>1, <2>2
  <2>3. CASE ~some
    <3>1. built'[rung] = built[rung] /\ built[rung] \in Int
      BY <1>1, <1>6, <2>3
    <3>2. PICK f \in Below(rung) : BucketOf(f, rung) = r.key \div Width[rung]
      BY <1>4, <2>1
    <3>3. ~(built[rung] <= sealed)
      BY <2>1, <2>3, <3>2
    <3> QED
      BY <1>2, <2>1, <3>1, <3>3
  <2> QED
    BY <2>2, <2>3
<1>10. PassDone'
  <2> SUFFICES ASSUME NEW j \in Rung, j < rung', NEW r \in In(Raw),
                      r.key \div Width[j] <= SealedThrough(passAt', j)
               PROVE  r.key \div Width[j] < built'[j]
    BY <1>6 DEF PassDone, Done, SealedThrough
  <2>1. j \in Nat /\ rung \in Nat
    BY <1>1, RawIsNoRung
  <2>2. rung' = rung + 1 /\ passAt' = at
    BY <1>3, <2>1
  <2>3. CASE j = rung
    BY <1>9, <2>2, <2>3
  <2>4. CASE j # rung
    <3>1. j < rung /\ rung # 0
      BY <2>1, <2>2, <2>4
    <3>2. passAt' = passAt
      BY <2>2, <3>1 DEF at
    <3>3. r.key \div Width[j] < built[j]
      BY <3>1, <3>2 DEF SealInv, PassDone, Done, SealedThrough
    <3> QED
      BY <1>6, <2>4, <3>3
  <2> QED
    BY <2>3, <2>4
<1>11. ASSUME NEW l \in Rung PROVE Due(l)'
  <2>1. CASE some /\ l = rung
    <3>1. /\ at - SealGrace \in Int /\ now - SealGrace \in Int
          /\ at - SealGrace <= now - SealGrace
      BY <1>1
    <3>2. /\ (at - SealGrace) \div Width[l] \in Int
          /\ (now - SealGrace) \div Width[l] \in Int
          /\ (at - SealGrace) \div Width[l] <= (now - SealGrace) \div Width[l]
      BY <1>2, <2>1, <3>1, Later
    <3>3. built'[l] = ((at - SealGrace) \div Width[l] - 1) + 1
      BY <1>6, <2>1 DEF sealed, SealedThrough
    <3>4. built'[l] <= ((now - SealGrace) \div Width[l] - 1) + 1
      BY <3>2, <3>3
    <3> QED
      BY <1>3, <3>4 DEF Due, SealedThrough
  <2>2. CASE ~(some /\ l = rung)
    <3>1. built'[l] = built[l] /\ Due(l)
      BY <1>6, <2>2 DEF SealInv
    <3> QED
      BY <1>3, <3>1 DEF Due, SealedThrough, Origin
  <2> QED
    BY <2>1, <2>2
<1>12. Recent'
  <2>1. passAt' = 0 \/ passAt' = at
    BY <1>3
  <2>2. 0 <= now
    BY <1>1 DEF SealInv, Recent
  <2> QED
    BY <1>1, <1>3, <2>1, <2>2 DEF SealInv, Recent
<1> QED
  BY <1>8, <1>10, <1>11, <1>12

LEMMA NextSeal ==
  ASSUME SealGrace >= 1
  PROVE  SealInv /\ [Next]_vars => SealInv'
<1> SUFFICES ASSUME SealInv, [Next]_vars PROVE SealInv'
  OBVIOUS
<1>1. Inv'
  BY NextInv DEF SealInv
<1>2. /\ now \in Nat /\ pending \in Nat /\ stamp \in Nat /\ passAt \in Nat
      /\ Recent /\ Stages /\ 1 <= now
  BY DEF SealInv, Inv, TypeOK, Instants
<1>3. CASE Tick
  <2>1. /\ UNCHANGED <<rows, built, rung, passAt, pending, running, stamp>>
        /\ now' = now + 1
        /\ pending \in {0, now}
        /\ running => stamp = now
    BY <1>3 DEF Tick, passVars, roundVars
  <2>2. Recent'
    BY <1>2, <2>1 DEF Recent
  <2> QED
    BY <1>1, <1>2, <2>1, <2>2, RowsRest DEF SealInv
<1>4. CASE Collect
  <2>1. /\ UNCHANGED <<now, rows, built, rung, passAt, running, stamp>>
        /\ pending' = now
    BY <1>4 DEF Collect, passVars, roundVars
  <2>2. Recent'
    BY <1>2, <2>1 DEF Recent
  <2> QED
    BY <1>1, <1>2, <2>1, <2>2, RowsRest DEF SealInv
<1>5. CASE InsertMetrics
  <2> DEFINE N == Readings(Metric, pending)
  <2>1. /\ UNCHANGED <<now, built, rung, passAt, running, stamp>>
        /\ rows' = rows \cup N
        /\ pending # 0 /\ pending' = 0
    BY <1>5 DEF InsertMetrics, passVars, roundVars
  <2>2. \A r \in N : r \in Row /\ r.stream = Raw /\ r.key = pending
    BY <1>2, ReadingRows DEF Series
  <2> HIDE DEF N
  <2>3. \A r \in N : Start <= r.key /\ now - 1 <= r.key
    BY <1>2, <2>1, <2>2 DEF Recent
  <2>4. Recent'
    BY <1>2, <2>1 DEF Recent
  <2>5. (\A l \in Rung : Due(l)') /\ PassDone' /\ SealedIsComplete'
    BY <2>1, <2>2, <2>3, LateReadings
  <2> QED
    BY <1>1, <2>4, <2>5 DEF SealInv
<1>6. CASE RollRung
  BY <1>1, <1>6, RollRungSeal DEF SealInv
<1>7. CASE StartRound
  <2>1. PICK watched \in {{}, Watched} : rows' = rows \cup Readings(watched, now)
    BY <1>7 DEF StartRound
  <2> DEFINE N == Readings(watched, now)
  <2>2. /\ UNCHANGED <<now, built, rung, passAt, pending>>
        /\ stamp' = now
    BY <1>7 DEF StartRound, passVars
  <2>3. \A r \in N : r \in Row /\ r.stream = Raw /\ r.key = now
    BY <1>2, ReadingRows DEF Series
  <2> HIDE DEF N
  <2>4. \A r \in N : Start <= r.key /\ now - 1 <= r.key
    BY <1>2, <2>3 DEF Recent
  <2>5. Recent'
    BY <1>2, <2>2 DEF Recent
  <2>6. (\A l \in Rung : Due(l)') /\ PassDone' /\ SealedIsComplete'
    BY <2>1, <2>2, <2>3, <2>4, LateReadings DEF N
  <2> QED
    BY <1>1, <2>5, <2>6 DEF SealInv
<1>8. ASSUME NEW m \in Peer, Answered(m) \/ Unanswered(m) PROVE SealInv'
  <2> DEFINE N == Readings({m}, stamp)
  <2>1. /\ UNCHANGED <<now, built, rung, passAt, pending, running, stamp>>
        /\ rows' = rows \cup N
        /\ m \in out
    BY <1>8 DEF Answered, Unanswered, PushEnds, passVars
  <2>2. \A r \in N : r \in Row /\ r.stream = Raw /\ r.key = stamp
    BY <1>2, ReadingRows DEF Series
  <2> HIDE DEF N
  <2>3. running
    BY <1>2, <2>1 DEF Stages
  <2>4. \A r \in N : Start <= r.key /\ now - 1 <= r.key
    BY <1>2, <2>2, <2>3 DEF Recent
  <2>5. Recent'
    BY <1>2, <2>1 DEF Recent
  <2>6. (\A l \in Rung : Due(l)') /\ PassDone' /\ SealedIsComplete'
    BY <2>1, <2>2, <2>4, LateReadings
  <2> QED
    BY <1>1, <2>5, <2>6 DEF SealInv
<1>9. ASSUME NEW m \in Peer, CutPayload(m) \/ Hear(m) PROVE SealInv'
  <2>1. UNCHANGED <<now, rows, built, rung, passAt, pending, running, stamp>>
    BY <1>9 DEF CutPayload, Hear, passVars, roundVars
  <2>2. Recent'
    BY <1>2, <2>1 DEF Recent
  <2> QED
    BY <1>1, <1>2, <2>1, <2>2, RowsRest DEF SealInv
<1>10. CASE FinishRound
  <2>1. /\ UNCHANGED <<now, rows, built, rung, passAt, pending, stamp>>
        /\ running' = FALSE
    BY <1>10 DEF FinishRound, passVars
  <2>2. Recent'
    BY <1>2, <2>1 DEF Recent
  <2> QED
    BY <1>1, <1>2, <2>1, <2>2, RowsRest DEF SealInv
<1>11. CASE Restart
  <2>1. /\ UNCHANGED <<now, rows, built, stamp>>
        /\ running' = FALSE
        /\ pending' = 0 /\ rung' = 0 /\ passAt' = 0
    BY <1>11 DEF Restart
  <2>2. Recent'
    BY <1>2, <2>1 DEF Recent
  <2> QED
    BY <1>1, <1>2, <2>1, <2>2, RowsRest DEF SealInv
<1>12. CASE UNCHANGED vars
  <2>1. UNCHANGED <<now, rows, built, rung, passAt, pending, running, stamp>>
    BY <1>12 DEF vars, passVars, roundVars
  <2>2. Recent'
    BY <1>2, <2>1 DEF Recent
  <2> QED
    BY <1>1, <1>2, <2>1, <2>2, RowsRest DEF SealInv
<1> QED
  BY <1>3, <1>4, <1>5, <1>6, <1>7, <1>8, <1>9, <1>10, <1>11, <1>12 DEF Next

\* A reading whose bucket has been built at a rung is in that bucket, for every
\* ladder, wherever passes were interrupted and however late within its grace the
\* reading was written: 12 minutes in the code, where a request is given up after 15
\* seconds (series.go:169).  With no grace at all a reading written in the instant
\* after its own would be left out.
THEOREM SealedBucketsAreComplete ==
  ASSUME SealGrace >= 1
  PROVE  Spec => []SealedIsComplete
<1>1. SealInv => SealedIsComplete
  BY DEF SealInv
<1>2. SealInv /\ [Next]_vars => SealInv'
  BY NextSeal
<1> QED
  BY <1>1, <1>2, InitSeal, PTL DEF Spec

===============================================================================
