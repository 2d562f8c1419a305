------------------------------- MODULE Watch -------------------------------
(***************************************************************************)
(* The watch over a push-only peer: worker/sync.go, watchPushOnly.         *)
(*                                                                         *)
(* Nobody can reach such a peer, so every round of a node records whether  *)
(* the pushes of the peer still arrive.  The watching node and the peer    *)
(* run on tickers of their own, both may stop and start, and pushes may be *)
(* lost.  What a round does after the watch, and a late scheduler, hold    *)
(* the next round up by no more than Late; a push is handled within Late   *)
(* of the peer's tick, or it is lost.                                      *)
(***************************************************************************)
EXTENDS Integers

CONSTANTS Interval,       \* SyncIntervalSeconds of the watching node
          PeerInterval,   \* SyncIntervalSeconds of the peer
          OpeningDelay,   \* the thirty seconds that bound the opening delay
          MinGrace,       \* minPushGrace
          Late,           \* how far behind its ticker anything may run
          Horizon,        \* bound: time ends here
          Losses,         \* bound: pushes lost on the way
          Stops           \* bound: stops of either process

\* The peer syncs as often as the node that watches it ("keep its SyncIntervalSeconds no
\* longer than the other nodes'", README.md), and nothing is late by a whole round.
ASSUME WatchAssumption ==
  /\ {Interval, PeerInterval, OpeningDelay, MinGrace} \subseteq Nat \ {0}
  /\ {Late, Horizon, Losses, Stops} \subseteq Nat
  /\ PeerInterval <= Interval
  /\ Late < Interval

VARIABLES now,
          on,        \* the watching node runs
          started,   \* when its worker started
          due,       \* its next tick
          stamp,     \* the time of the round that is watching, or Unset
          seen,      \* "LastSeen" of the peer
          row,       \* the newest row about the peer
          peerOn,    \* the peer runs
          peerDue,   \* its next tick
          missed,    \* pushes that failed since the last one that arrived, or
                     \* since the watching node started
          away,      \* the peer has been down since its last push arrived
          lost, stops

watcher == <<on, started, due, stamp, row>>
peer == <<peerOn, peerDue, away>>
vars == <<now, watcher, seen, peer, missed, lost, stops>>

Unset == -1
NoRow == [at |-> Unset, ok |-> TRUE]

Larger(i, j)  == IF i < j THEN j ELSE i
Smaller(i, j) == IF i < j THEN i ELSE j

\* Faults: the grace is a round too short, or too long.
GraceOfTwo  == Larger(2 * Interval, MinGrace)
GraceOfFour == Larger(4 * Interval, MinGrace)

\* pushGrace
Grace == Larger(3 * Interval, MinGrace)

\* The delay before the first round, in Run.
Opening(interval) == Smaller(interval, OpeningDelay)

\* Both have run for a while: the peer has just pushed, and the watching node
\* has just read its clock to start.
Init ==
  /\ now = 0
  /\ on = TRUE /\ started = 0 /\ due = Opening(Interval)
  /\ stamp = Unset /\ row = NoRow /\ seen = 0
  /\ peerOn = TRUE /\ peerDue \in 1..PeerInterval /\ away = FALSE
  /\ missed = 0 /\ lost = 0 /\ stops = 0

\* Time does not pass over a tick by more than Late.
Tick ==
  /\ now < Horizon
  /\ on => now < due + Late
  /\ stamp # Unset => now < stamp + Late
  /\ peerOn => now < peerDue + Late
  /\ now' = now + 1
  /\ UNCHANGED <<watcher, seen, peer, missed, lost, stops>>

\* watchPushOnly holds its judgement until the node has listened for Grace.
Listened == now - started >= Grace

\* round: the time is read, and the watch is the first thing done with it.
StartRound ==
  /\ on /\ stamp = Unset /\ now >= due
  /\ due' = due + Interval
  /\ stamp' = IF Listened THEN now ELSE Unset
  /\ UNCHANGED <<now, on, started, row, seen, peer, missed, lost, stops>>

\* ListPushOnly and InsertAvailability
Watch ==
  /\ stamp # Unset
  /\ row' = [at |-> stamp, ok |-> stamp - seen <= Grace]
  /\ stamp' = Unset
  /\ UNCHANGED <<now, on, started, due, seen, peer, missed, lost, stops>>

\* handleSync stores the peer with the time on this node's clock.
Arrive ==
  /\ peerOn /\ now >= peerDue /\ on
  /\ peerDue' = peerDue + PeerInterval
  /\ seen' = now /\ missed' = 0 /\ away' = FALSE
  /\ UNCHANGED <<now, watcher, peerOn, lost, stops>>

\* A push that is lost, or finds nobody listening.
Miss ==
  /\ peerOn /\ now >= peerDue
  /\ IF on THEN lost < Losses /\ lost' = lost + 1 ELSE lost' = lost
  /\ peerDue' = peerDue + PeerInterval
  /\ missed' = missed + 1
  /\ UNCHANGED <<now, watcher, seen, peerOn, away, stops>>

Stop ==
  /\ on /\ stops < Stops
  /\ on' = FALSE /\ stamp' = Unset /\ stops' = stops + 1
  /\ UNCHANGED <<now, started, due, row, seen, peer, missed, lost>>

\* Run: the ticker is made once the opening delay is over.
Start ==
  /\ ~on
  /\ on' = TRUE /\ started' = now /\ missed' = 0
  /\ \E late \in 0..Late : due' = now + Opening(Interval) + late
  /\ UNCHANGED <<now, stamp, row, seen, peer, lost, stops>>

StopPeer ==
  /\ peerOn /\ stops < Stops
  /\ peerOn' = FALSE /\ away' = TRUE /\ stops' = stops + 1
  /\ UNCHANGED <<now, watcher, seen, peerDue, missed, lost>>

StartPeer ==
  /\ ~peerOn
  /\ peerOn' = TRUE
  /\ \E late \in 0..Late : peerDue' = now + Opening(PeerInterval) + late
  /\ UNCHANGED <<now, watcher, seen, away, missed, lost, stops>>

Next == \/ Tick \/ StartRound \/ Watch \/ Arrive \/ Miss
        \/ Stop \/ Start \/ StopPeer \/ StartPeer

Spec == Init /\ [][Next]_vars
----------------------------------------------------------------------------
\* The type of every variable; a round in progress belongs to a running node,
\* and its time is that of a round which had listened for long enough.
TypeOK ==
  /\ now \in Nat /\ started \in 0..now /\ seen \in 0..now
  /\ on \in BOOLEAN /\ peerOn \in BOOLEAN /\ away \in BOOLEAN
  /\ stamp \in {Unset} \cup 0..now
  /\ stamp # Unset => on /\ stamp >= started + Grace
  /\ row.at \in {Unset} \cup 0..now /\ row.ok \in BOOLEAN
  /\ due \in Nat /\ peerDue \in Nat
  /\ missed \in Nat /\ lost \in 0..Losses /\ stops \in 0..Stops

\* A peer that runs is not recorded as down for one push lost to a slow link,
\* nor for what a restart of the watching node did not hear: two of its pushes
\* in a row failed while the node was listening (pushGrace; "one push lost to
\* a slow link or a restart does not register").
OnePushIsForgiven ==
  [][row' # row /\ ~row'.ok => missed >= 2 \/ away]_vars

\* A node that runs and hears nothing of a peer any more has it recorded as
\* down within a round of the grace, whatever came before (watchPushOnly:
\* three rounds, and never less than thirty seconds).
SilenceIsRecorded ==
  LET since == Larger(seen, started)
  IN  on /\ now > since + Larger(3 * Interval, MinGrace) + Interval + 2 * Late
        => row.at > since /\ ~row.ok
============================================================================
