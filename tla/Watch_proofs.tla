---------------------------- MODULE Watch_proofs ----------------------------
(***************************************************************************)
(* Proofs about Watch, for every interval, grace and lateness.             *)
(***************************************************************************)
EXTENDS Watch, TLAPS

LEMMA Constants ==
  /\ Interval \in Nat \ {0} /\ PeerInterval \in Nat \ {0}
  /\ OpeningDelay \in Nat \ {0} /\ MinGrace \in Nat \ {0}
  /\ Late \in Nat /\ Horizon \in Nat /\ Losses \in Nat /\ Stops \in Nat
  /\ PeerInterval <= Interval /\ Late < Interval
BY WatchAssumption

\* The grace outlasts two rounds of the peer, late as they may be.
LEMMA GraceIsLong ==
  /\ Grace \in Nat
  /\ 3 * Interval <= Grace
  /\ 2 * PeerInterval + Late < Grace
<1>1. Grace \in Nat /\ 3 * Interval <= Grace
  BY Constants DEF Grace, Larger
<1> QED
  BY <1>1, Constants

LEMMA OpeningIsShort ==
  /\ Opening(Interval) \in Nat \ {0} /\ Opening(Interval) <= Interval
  /\ Opening(PeerInterval) \in Nat \ {0} /\ Opening(PeerInterval) <= PeerInterval
BY Constants DEF Opening, Smaller

-----------------------------------------------------------------------------
LEMMA TypeInit == Init => TypeOK
<1> SUFFICES ASSUME Init PROVE TypeOK
  OBVIOUS
<1>1. row.at = -1 /\ row.ok = TRUE
  BY DEF Init, NoRow, Unset
<1>2. due \in Nat /\ peerDue \in Nat
  BY Constants, OpeningIsShort DEF Init
<1>3. on \in BOOLEAN /\ peerOn \in BOOLEAN /\ away \in BOOLEAN
  BY DEF Init
<1>4. /\ now \in Nat /\ started \in 0..now /\ seen \in 0..now /\ stamp = Unset
      /\ missed \in Nat /\ lost \in 0..Losses /\ stops \in 0..Stops
  BY Constants DEF Init
<1>5. row.at \in {Unset} \cup 0..now /\ row.ok \in BOOLEAN
  BY <1>1 DEF Unset
<1> QED
  BY <1>2, <1>3, <1>4, <1>5 DEF TypeOK

LEMMA TypeNext == TypeOK /\ [Next]_vars => TypeOK'
<1> SUFFICES ASSUME TypeOK, [Next]_vars PROVE TypeOK'
  OBVIOUS
<1> USE Constants, OpeningIsShort, GraceIsLong DEF TypeOK, Unset
<1>1. CASE Tick
  BY <1>1 DEF Tick, watcher, peer
<1>2. CASE StartRound
  BY <1>2 DEF StartRound, peer, Listened
<1>3. CASE Watch
  BY <1>3 DEF Watch, peer
<1>4. CASE Arrive
  <2>1. on' \in BOOLEAN /\ peerOn' \in BOOLEAN /\ away' \in BOOLEAN
    BY <1>4 DEF Arrive, watcher
  <2> QED
    BY <1>4, <2>1 DEF Arrive, watcher
<1>5. CASE Miss
  BY <1>5 DEF Miss, watcher
<1>6. CASE Stop
  <2>1. on' \in BOOLEAN /\ peerOn' \in BOOLEAN /\ away' \in BOOLEAN
    BY <1>6 DEF Stop, peer
  <2> QED
    BY <1>6, <2>1 DEF Stop, peer
<1>7. CASE Start
  BY <1>7 DEF Start, peer
<1>8. CASE StopPeer
  <2>1. on' \in BOOLEAN /\ peerOn' \in BOOLEAN /\ away' \in BOOLEAN
    BY <1>8 DEF StopPeer, watcher
  <2> QED
    BY <1>8, <2>1 DEF StopPeer, watcher
<1>9. CASE StartPeer
  BY <1>9 DEF StartPeer, watcher
<1>10. CASE UNCHANGED vars
  BY <1>10 DEF vars, watcher, peer
<1> QED
  BY <1>1, <1>2, <1>3, <1>4, <1>5, <1>6, <1>7, <1>8, <1>9, <1>10 DEF Next

\* Every variable of the watch keeps its shape, and no round judges a peer before the
\* node has listened for the grace.
THEOREM WatchTypeCorrect == Spec => []TypeOK
  BY TypeInit, TypeNext, PTL DEF Spec

-----------------------------------------------------------------------------
\* What is known of the peer's next push: it is at most one round away, and nothing of
\* it is overdue; while at most one push in a row has failed, it is no further than two
\* rounds from the last one heard, or from the start of the node.
PeerInv ==
  /\ ~away => peerOn /\ peerDue <= now + PeerInterval
  /\ peerOn => now <= peerDue + Late
  /\ (on /\ ~away /\ missed = 0) => peerDue <= Larger(seen, started) + PeerInterval
  /\ (on /\ ~away /\ missed = 1) => peerDue <= Larger(seen, started) + 2 * PeerInterval

LEMMA PeerInit == Init => PeerInv
BY Constants DEF Init, PeerInv, Larger

LEMMA PeerNext == TypeOK /\ PeerInv /\ [Next]_vars => PeerInv'
<1> SUFFICES ASSUME TypeOK, PeerInv, [Next]_vars PROVE PeerInv'
  OBVIOUS
<1> USE Constants, OpeningIsShort DEF TypeOK, PeerInv, Larger
<1>1. CASE Tick
  BY <1>1 DEF Tick, watcher, peer
<1>2. CASE StartRound
  BY <1>2 DEF StartRound, peer
<1>3. CASE Watch
  BY <1>3 DEF Watch, peer
<1>4. CASE Arrive
  BY <1>4 DEF Arrive, watcher
<1>5. CASE Miss
  BY <1>5 DEF Miss, watcher
<1>6. CASE Stop
  BY <1>6 DEF Stop, peer
<1>7. CASE Start
  BY <1>7 DEF Start, peer
<1>8. CASE StopPeer
  BY <1>8 DEF StopPeer, watcher
<1>9. CASE StartPeer
  BY <1>9 DEF StartPeer, watcher
<1>10. CASE UNCHANGED vars
  BY <1>10 DEF vars, watcher, peer
<1> QED
  BY <1>1, <1>2, <1>3, <1>4, <1>5, <1>6, <1>7, <1>8, <1>9, <1>10 DEF Next

\* A row that says "down" is written only when two pushes in a row have failed while the
\* node was listening, or the peer has been down.
LEMMA ForgivingStep ==
  ASSUME TypeOK, PeerInv, [Next]_vars, row' # row, ~row'.ok
  PROVE  missed >= 2 \/ away
<1>1. Watch
  BY DEF Next, vars, watcher, Tick, StartRound, Arrive, Miss, Stop, Start, StopPeer, StartPeer
<1>2. /\ stamp # Unset /\ on /\ stamp >= started + Grace
      /\ stamp \in Nat /\ stamp <= now
  BY <1>1 DEF Watch, TypeOK, Unset
<1>3. stamp - seen > Grace
  <2>1. ~(stamp - seen <= Grace)
    BY <1>1 DEF Watch
  <2> QED
    BY <2>1, <1>2, GraceIsLong DEF TypeOK
<1>4. SUFFICES ASSUME missed < 2, ~away PROVE FALSE
  BY DEF TypeOK
<1>5. missed = 0 \/ missed = 1
  BY <1>4 DEF TypeOK
<1>6. peerDue <= Larger(seen, started) + 2 * PeerInterval
  BY <1>2, <1>4, <1>5, Constants DEF PeerInv, TypeOK, Larger
<1>7. now <= Larger(seen, started) + 2 * PeerInterval + Late
  BY <1>4, <1>6, Constants DEF PeerInv, TypeOK, Larger
<1> QED
  BY <1>2, <1>3, <1>7, Constants, GraceIsLong DEF TypeOK, Larger

\* One push that is lost, and a restart of the watching node, are forgiven.
THEOREM OnePushForgiven == Spec => OnePushIsForgiven
<1>1. Init => TypeOK /\ PeerInv
  BY TypeInit, PeerInit
<1>2. TypeOK /\ PeerInv /\ [Next]_vars => (TypeOK /\ PeerInv)'
  BY TypeNext, PeerNext
<1>3. TypeOK /\ PeerInv /\ [Next]_vars
        => [row' # row /\ ~row'.ok => missed >= 2 \/ away]_vars
  BY ForgivingStep
<1> QED
  BY <1>1, <1>2, <1>3, PTL DEF Spec, OnePushIsForgiven

-----------------------------------------------------------------------------
\* When the node last heard the peer, or started; and that it has recorded the peer as
\* down since.
Heard == Larger(seen, started)
Down == row.at > Heard /\ ~row.ok

\* Why silence is recorded.  A tick is at most a round away and never missed by more
\* than Late.  A row that says "down" was written by a round more than the grace after
\* the last push, so the rounds that follow it say the same.  And once the next tick is
\* due later than a round after the grace, the tick before it fell after the grace: its
\* round has recorded the peer as down, or is about to.
SilenceInv ==
  /\ on => now <= due + Late /\ due <= now + Interval + Late
  /\ stamp # Unset => now <= stamp + Late /\ row.at <= stamp
  /\ Down => row.at > seen + Grace
  /\ (on /\ due > Heard + Grace + Interval /\ ~Down)
        => /\ stamp # Unset /\ stamp > Heard + Grace
           /\ stamp <= Heard + Grace + Interval + Late

LEMMA SilenceInit == Init => SilenceInv
<1> SUFFICES ASSUME Init PROVE SilenceInv
  OBVIOUS
<1>1. ~Down
  BY DEF Init, Down, NoRow
<1>2. /\ now = 0 /\ stamp = Unset /\ seen = 0 /\ started = 0
      /\ due \in Nat /\ due <= Interval
  BY OpeningIsShort, Constants DEF Init
<1> QED
  BY <1>1, <1>2, Constants, GraceIsLong DEF SilenceInv, Heard, Larger

\* Ticks and the starts of rounds leave the row and what was heard alone.
LEMMA SilenceTick == TypeOK /\ SilenceInv /\ Tick => SilenceInv'
<1> SUFFICES ASSUME TypeOK, SilenceInv, Tick PROVE SilenceInv'
  OBVIOUS
<1>1. Heard' = Heard /\ Down' = Down /\ row' = row /\ Grace' = Grace
  BY DEF Tick, watcher, Heard, Down, Grace
<1> QED
  BY <1>1, Constants, GraceIsLong DEF SilenceInv, Tick, watcher, TypeOK, Unset

LEMMA SilenceRound == TypeOK /\ SilenceInv /\ StartRound => SilenceInv'
<1> SUFFICES ASSUME TypeOK, SilenceInv, StartRound PROVE SilenceInv'
  OBVIOUS
<1>1. Heard' = Heard /\ Down' = Down /\ row' = row /\ seen' = seen /\ now' = now
  BY DEF StartRound, Heard, Down
<1>2. Heard \in Nat /\ started <= Heard /\ seen <= Heard
  BY DEF TypeOK, Heard, Larger
<1>3. due' = due + Interval /\ now >= due /\ now <= due + Late
  BY DEF StartRound, SilenceInv
<1>4. stamp' # Unset => stamp' = now /\ row.at <= now
  BY DEF StartRound, TypeOK, Unset
<1>5. ASSUME due' > Heard + Grace + Interval, ~Down
      PROVE  /\ stamp' # Unset /\ stamp' > Heard + Grace
             /\ stamp' <= Heard + Grace + Interval + Late
  <2>1. now > Heard + Grace
    BY <1>2, <1>3, <1>5, Constants, GraceIsLong DEF TypeOK
  <2>2. stamp' = now
    BY <2>1, <1>2, Constants, GraceIsLong DEF StartRound, Listened, TypeOK
  <2>3. due <= Heard + Grace + Interval
    BY <1>2, <1>5, Constants, GraceIsLong DEF SilenceInv, StartRound, TypeOK
  <2> QED
    BY <2>1, <2>2, <2>3, <1>2, <1>3, Constants, GraceIsLong DEF TypeOK, Unset
<1> QED
  BY <1>1, <1>3, <1>4, <1>5, Constants, GraceIsLong DEF SilenceInv, TypeOK, Unset

\* A round that watches after the grace records the peer as down, and no round after a
\* row that says "down" takes it back.
LEMMA SilenceWatch == TypeOK /\ SilenceInv /\ Watch => SilenceInv'
<1> SUFFICES ASSUME TypeOK, SilenceInv, Watch PROVE SilenceInv'
  OBVIOUS
<1>1. /\ Heard' = Heard /\ seen' = seen /\ now' = now /\ on' = on /\ due' = due
      /\ stamp' = Unset /\ row'.at = stamp
  BY DEF Watch, Heard
<1>2. Heard \in Nat /\ seen <= Heard /\ stamp \in Nat
  BY DEF TypeOK, Heard, Larger, Watch, Unset
<1>3. ~row'.ok <=> ~(stamp - seen <= Grace)
  BY DEF Watch
<1>4. ~row'.ok <=> stamp > seen + Grace
  BY <1>2, <1>3, GraceIsLong DEF TypeOK
<1>5. Down' <=> stamp > Heard /\ stamp > seen + Grace
  BY <1>1, <1>4 DEF Down
<1>6. Down => Down'
  <2> HAVE Down
  <2>1. row.at <= stamp /\ row.at > Heard /\ row.at > seen + Grace /\ row.at \in Int
    BY DEF SilenceInv, Watch, Down, TypeOK, Unset
  <2> QED
    BY <2>1, <1>2, <1>5, GraceIsLong DEF TypeOK
<1>7. stamp > Heard + Grace => Down'
  BY <1>2, <1>5, GraceIsLong DEF TypeOK
<1>8. (on /\ due > Heard + Grace + Interval) => Down'
  BY <1>6, <1>7 DEF SilenceInv
<1>9. Down' => row'.at > seen + Grace
  BY <1>1, <1>5
<1>10. on => now <= due + Late /\ due <= now + Interval + Late
  BY DEF SilenceInv
<1> QED
  BY <1>1, <1>8, <1>9, <1>10 DEF SilenceInv

\* Hearing the peer, or starting, begins the wait anew.
LEMMA SilenceAnew ==
  ASSUME TypeOK, SilenceInv, Arrive \/ Start
  PROVE  SilenceInv'
<1>1. /\ Heard' = now /\ row' = row /\ stamp' = stamp /\ now' = now
      /\ (stamp # Unset => now <= stamp + Late)
  BY DEF Arrive, Start, watcher, Heard, Larger, TypeOK, SilenceInv
<1>2. ~Down'
  BY <1>1 DEF Down, TypeOK, Unset
<1>3. due' \in Nat /\ now <= due' + Late /\ due' <= now + Interval + Late
  BY Constants, OpeningIsShort DEF Arrive, Start, watcher, TypeOK, SilenceInv
<1>4. stamp' # Unset => now' <= stamp' + Late /\ row'.at <= stamp'
  BY <1>1 DEF SilenceInv
<1>5. due' <= Heard' + Grace + Interval
  BY <1>1, <1>3, Constants, GraceIsLong DEF TypeOK
<1>6. ~(due' > Heard' + Grace + Interval)
  BY <1>1, <1>3, <1>5, Constants, GraceIsLong DEF TypeOK
<1> QED
  BY <1>1, <1>2, <1>3, <1>4, <1>6 DEF SilenceInv

LEMMA SilenceNext == TypeOK /\ SilenceInv /\ [Next]_vars => SilenceInv'
<1> SUFFICES ASSUME TypeOK, SilenceInv, [Next]_vars PROVE SilenceInv'
  OBVIOUS
<1>1. CASE Tick
  BY <1>1, SilenceTick
<1>2. CASE StartRound
  BY <1>2, SilenceRound
<1>3. CASE Watch
  BY <1>3, SilenceWatch
<1>4. CASE Arrive \/ Start
  BY <1>4, SilenceAnew
<1>5. CASE Stop
  <2>1. ~on' /\ stamp' = Unset /\ Heard' = Heard /\ row' = row /\ seen' = seen
    BY <1>5 DEF Stop, Heard
  <2> QED
    BY <2>1 DEF SilenceInv, Down
<1>6. CASE Miss \/ StopPeer \/ StartPeer \/ UNCHANGED vars
  <2>1. UNCHANGED <<now, on, started, due, stamp, row, seen>>
    BY <1>6 DEF Miss, StopPeer, StartPeer, vars, watcher
  <2> QED
    BY <2>1 DEF SilenceInv, Down, Heard
<1> QED
  BY <1>1, <1>2, <1>3, <1>4, <1>5, <1>6 DEF Next

LEMMA SilenceHolds == TypeOK /\ SilenceInv => SilenceIsRecorded
<1> SUFFICES ASSUME TypeOK, SilenceInv, on, ~Down,
                    now > Heard + Grace + Interval + 2 * Late
             PROVE  FALSE
  BY DEF SilenceIsRecorded, Down, Heard, Grace
<1>1. Heard \in Nat
  BY DEF TypeOK, Heard, Larger
<1>2. due > Heard + Grace + Interval
  BY <1>1, Constants, GraceIsLong DEF SilenceInv, TypeOK
<1>3. stamp # Unset /\ stamp <= Heard + Grace + Interval + Late /\ now <= stamp + Late
  BY <1>2 DEF SilenceInv
<1> QED
  BY <1>1, <1>3, Constants, GraceIsLong DEF TypeOK, Unset

\* A peer that went silent is recorded as down within a round of the grace, whatever
\* came before: SilenceIsRecorded.
THEOREM SilenceRecorded == Spec => []SilenceIsRecorded
<1>1. Init => TypeOK /\ SilenceInv
  BY TypeInit, SilenceInit
<1>2. TypeOK /\ SilenceInv /\ [Next]_vars => (TypeOK /\ SilenceInv)'
  BY TypeNext, SilenceNext
<1> QED
  BY <1>1, <1>2, SilenceHolds, PTL DEF Spec
=============================================================================
