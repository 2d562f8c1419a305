-------------------------------- MODULE Mesh --------------------------------
(***************************************************************************)
(* Membership of the mesh: every node's register of servers, the sync      *)
(* rounds that push to the peers in it (internal/worker/sync.go), the      *)
(* handlers that answer them and the dashboard operations that add and     *)
(* remove nodes (internal/api/api.go).                                     *)
(*                                                                         *)
(* The store runs one statement at a time, so an action is a run of        *)
(* statements whose interleaving with the other actors makes no            *)
(* difference; the places where it does make one are separate actions: a   *)
(* round's listing of peers, its pushes, the 410 check of a push, the      *)
(* storing of it, the handling of the answer, learning from the replies.   *)
(***************************************************************************)
EXTENDS ServerRegister, FiniteSets

CONSTANTS Node,            \* the servers
          PushOnlyNode,    \* those that start as push-only: nobody can reach them
          Published,       \* those with a PublicUrl configured
          Link,            \* <<n, m>>: n starts out holding an address for m
          LegacyRemoval,   \* <<n, m>>: n starts out with an unstamped tombstone for m
          Clock,           \* Clock[n]: the milliseconds at which operators act on n
          Target,          \* the nodes operators decide about
          Switching,       \* nodes that may be restarted with PushOnly changed
          MaxSwitches,     \* bound: restarts that change it
          MaxRounds        \* bound: sync rounds in progress at one time

ASSUME MeshAssumption ==
  /\ PushOnlyNode \subseteq Node
  /\ Published \subseteq Node
  /\ Link \cap (Node \X PushOnlyNode) = {}
  /\ Link \cap LegacyRemoval = {}
  /\ \A n \in Node : <<n, n>> \notin Link \cup LegacyRemoval
  /\ Clock \in [Node -> SUBSET (Nat \ {0})]
  /\ Target \subseteq Node
  /\ Switching \subseteq Node
  /\ MaxSwitches \in Nat
  /\ MaxRounds \in Nat

VARIABLES register,   \* register[n][m]: n's row for m
          rounds,     \* the nodes with a sync round in progress
          push,       \* push[n][m]: how far n's push to m has got in n's round
          payload,    \* payload[n]: the decisions n's round carries
          learned,    \* learned[n]: peers named in the replies to n's round
          adding,     \* adding[n]: nodes n has been introduced to and not stored yet
          intros,     \* <<to, about>>: cross-introductions under way
          silent,     \* the nodes now running as push-only
          switches,   \* how many restarts have changed PushOnly
          ticks,      \* ticks[n]: the readings left on n's clock
          made        \* history: every decision that took effect where it was made

syncVars     == <<rounds, push, payload, learned>>
operatorVars == <<adding, intros, ticks, made>>
modeVars     == <<silent, switches>>
vars         == <<register, syncVars, operatorVars, modeVars>>

\* "sent": on its way; "checked": past refuseRemoved; "gone": answered with 410
PushState == {"none", "sent", "checked", "gone"}

NoPayload == [m \in Node |-> NoDecision]

\* What the rest of the mesh may be told about m in one announcement.
Announce(m, row) == [target |-> m, at |-> row.at, removed |-> row.removed]

\* What n makes of its own row when it starts; PublicUrl is ignored on a
\* push-only node.
StartSelf(row, n, pushOnly) ==
  SetPushOnly(UpsertSelf(row, n \in Published /\ ~pushOnly), pushOnly)

FirstRow(n, m) ==
  IF n = m THEN StartSelf(NoRow, n, n \in PushOnlyNode)
  ELSE [NoRow EXCEPT !.known   = <<n, m>> \in Link \cup LegacyRemoval,
                     !.addr    = <<n, m>> \in Link,
                     !.removed = <<n, m>> \in LegacyRemoval]

Init == /\ register = [n \in Node |-> [m \in Node |-> FirstRow(n, m)]]
        /\ rounds   = {}
        /\ push     = [n \in Node |-> [m \in Node |-> "none"]]
        /\ payload  = [n \in Node |-> NoPayload]
        /\ learned  = [n \in Node |-> {}]
        /\ adding   = [n \in Node |-> {}]
        /\ intros   = {}
        /\ silent   = PushOnlyNode
        /\ switches = 0
        /\ ticks    = Clock
        /\ made     = {}

\* The address n publishes: none on a push-only node.
Publishes(n) == n \in Published \ silent

-----------------------------------------------------------------------------
\* The dashboard of one node.

\* A reading of n's clock: later than its earlier ones, and possibly behind
\* what another node's clock has already stamped.
Tick(n, t) == /\ t \in ticks[n]
              /\ ticks' = [ticks EXCEPT ![n] = {u \in @ : u > t}]

\* The decision in n's row for m is new: it was made here.
Record(n, m) ==
  made' = IF register'[n][m].at > register[n][m].at
            THEN made \cup {Announce(m, register'[n][m])}
            ELSE made

\* DELETE /api/peers/{id}: a row there is none of is 404, self is refused.
RemovePeer(n, m, t) ==
  /\ m # n
  /\ register[n][m].known
  /\ Tick(n, t)
  /\ register' = [register EXCEPT ![n][m] = SetMembership(@, TRUE, t)]
  /\ Record(n, m)
  /\ UNCHANGED <<syncVars, adding, intros, modeVars>>

\* What an introduction by n leaves in a register: nothing without an address,
\* unless n is a push-only node.
Introduced(row, url, pushOnly) ==
  IF url \/ pushOnly THEN SetPushOnly(UpsertPeer(row, url), pushOnly) ELSE row

\* POST /api/peers, first half: n introduces itself to m, which refuses with 410
\* if it removed n.  The answer may be lost, and then n gives up, its clock at t.
IntroduceSelf(n, m, t) ==
  /\ m \notin silent \cup {n}
  /\ adding[n] = {}
  /\ ~IsRemoved(register[m][n])
  /\ register' = [register EXCEPT
                    ![m][n] = Introduced(@, Publishes(n), n \in silent)]
  /\ \/ /\ adding' = [adding EXCEPT ![n] = {m}]
        /\ t \in ticks[n]
        /\ UNCHANGED ticks
     \/ /\ Tick(n, t)
        /\ UNCHANGED adding
  /\ UNCHANGED <<syncVars, intros, made, modeVars>>

\* POST /api/peers, second half: the removal is lifted, the address stored and
\* the newcomer and the established peers introduced to each other.
StorePeer(n, m, t) ==
  LET existing == ListPeers(register[n]) \ {m} IN
  /\ m \in adding[n]
  /\ Tick(n, t)
  /\ register' = [register EXCEPT
                    ![n][m] = UpsertPeer(SetMembership(@, FALSE, t), TRUE)]
  /\ Record(n, m)
  /\ intros' = intros \cup (existing \X {m}) \cup ({m} \X existing)
  /\ adding' = [adding EXCEPT ![n] = {}]
  /\ UNCHANGED <<syncVars, modeVars>>

\* POST /api/introduce at p about m, sent by the node that added one of them.
Introduce(p, m) ==
  /\ <<p, m>> \in intros
  /\ p \notin silent
  /\ intros' = intros \ {<<p, m>>}
  /\ register' = IF IsRemoved(register[p][m])
                   THEN register
                   ELSE [register EXCEPT ![p][m] = Introduced(@, TRUE, FALSE)]
  /\ UNCHANGED <<syncVars, adding, ticks, made, modeVars>>

LoseIntroduction(p, m) ==
  /\ <<p, m>> \in intros
  /\ intros' = intros \ {<<p, m>>}
  /\ UNCHANGED <<register, syncVars, adding, ticks, made, modeVars>>

-----------------------------------------------------------------------------
\* A sync round.

\* The peers are listed and the payload built: every decision n holds.
StartRound(n) ==
  /\ n \notin rounds
  /\ Cardinality(rounds) < MaxRounds
  /\ ListPeers(register[n]) # {}
  /\ rounds'  = rounds \cup {n}
  /\ push'    = [push EXCEPT ![n] =
                   [m \in Node |-> IF m \in ListPeers(register[n]) THEN "sent" ELSE "none"]]
  /\ payload' = [payload EXCEPT ![n] = Membership(register[n])]
  /\ UNCHANGED <<register, learned, operatorVars, modeVars>>

\* handleSync at m up to refuseRemoved.
CheckSync(n, m) ==
  /\ push[n][m] = "sent"
  /\ m \notin silent
  /\ push' = [push EXCEPT ![n][m] = IF IsRemoved(register[m][n]) THEN "gone" ELSE "checked"]
  /\ UNCHANGED <<register, rounds, payload, learned, operatorVars, modeVars>>

\* What handleSync makes of m's register: the decisions n carries about third
\* nodes, n's own row, a placeholder for each node its readings mention.
Stored(n, m, mentioned) ==
  [x \in Node |->
     LET row == register[m][x]
         d   == payload[n][x]
     IN IF x = m THEN row
        ELSE IF x = n
          THEN SetPushOnly(UpsertPeer(row, Publishes(n)), n \in silent)
          ELSE LET decided == IF d.at > 0 THEN SetMembership(row, d.removed, d.at) ELSE row
               IN IF x \in mentioned THEN EnsureServer(decided) ELSE decided]

\* The rest of handleSync, answered with m's peers; the answer may be lost.
StoreSync(n, m) ==
  /\ push[n][m] = "checked"
  /\ push' = [push EXCEPT ![n][m] = "none"]
  /\ \E mentioned \in SUBSET (Known(register[n]) \ Known(register[m])), answered \in BOOLEAN :
       /\ register' = [register EXCEPT ![m] = Stored(n, m, mentioned)]
       /\ learned'  = [learned EXCEPT ![n] =
                         IF answered THEN @ \cup (ListPeers(register'[m]) \ {n}) ELSE @]
  /\ UNCHANGED <<rounds, payload, operatorVars, modeVars>>

\* n reads a 410: m is forgotten, and nothing is announced about it.
ReadGone(n, m) ==
  /\ push[n][m] = "gone"
  /\ push' = [push EXCEPT ![n][m] = "none"]
  /\ register' = [register EXCEPT ![n][m] = ForgetPeer(@)]
  /\ UNCHANGED <<rounds, payload, learned, operatorVars, modeVars>>

\* The request, its handler or its answer is lost: m is down or unreachable, or
\* the call times out.  The check changes nothing, so that a request lost before
\* it is one lost after it, unless there is nobody to reach.
LosePush(n, m) ==
  /\ push[n][m] \in IF m \in silent THEN {"sent"} ELSE {"checked", "gone"}
  /\ push' = [push EXCEPT ![n][m] = "none"]
  /\ UNCHANGED <<register, rounds, payload, learned, operatorVars, modeVars>>

\* Every push has come back: learnPeers registers the peers the replies named.
FinishRound(n) ==
  /\ n \in rounds
  /\ \A m \in Node : push[n][m] = "none"
  /\ rounds'   = rounds \ {n}
  /\ register' = [register EXCEPT ![n] =
                    [m \in Node |-> IF m \in learned[n] \ {n}
                                      THEN AddPeerIfUnknown(register[n][m])
                                      ELSE register[n][m]]]
  /\ payload'  = [payload EXCEPT ![n] = NoPayload]
  /\ learned'  = [learned EXCEPT ![n] = {}]
  /\ UNCHANGED <<push, operatorVars, modeVars>>

-----------------------------------------------------------------------------
\* n stops and starts again with PushOnly changed.  Its round, the requests it was
\* handling and its unfinished dashboard operation are gone; the register is on
\* disk.  A restart that leaves PushOnly alone is a round and requests that are all
\* lost and an operator who gives up, which there are actions for.
Restart(n) ==
  /\ n \in Switching
  /\ switches < MaxSwitches
  /\ switches' = switches + 1
  /\ silent' = IF n \in silent THEN silent \ {n} ELSE silent \cup {n}
  /\ register' = [register EXCEPT ![n][n] = StartSelf(@, n, n \in silent')]
  /\ rounds'  = rounds \ {n}
  /\ push'    = [q \in Node |-> [m \in Node |->
                   IF n \in {q, m} THEN "none" ELSE push[q][m]]]
  /\ payload' = [payload EXCEPT ![n] = NoPayload]
  /\ learned' = [learned EXCEPT ![n] = {}]
  /\ adding'  = [adding EXCEPT ![n] = {}]
  /\ UNCHANGED <<intros, ticks, made>>

Operator(n) ==
  \E m \in Target, t \in Clock[n] :
    RemovePeer(n, m, t) \/ IntroduceSelf(n, m, t) \/ StorePeer(n, m, t)

Next == \/ \E n \in Node : Operator(n) \/ Restart(n) \/ StartRound(n) \/ FinishRound(n)
        \/ \E n, m \in Node : \/ Introduce(n, m) \/ LoseIntroduction(n, m)
                              \/ CheckSync(n, m) \/ StoreSync(n, m)
                              \/ ReadGone(n, m)  \/ LosePush(n, m)

Spec == Init /\ [][Next]_vars

-----------------------------------------------------------------------------
\* What the membership of the mesh is meant to be.

Stamp == UNION {Clock[n] : n \in Node}

Decided == INSTANCE Membership
             WITH held <- [n \in Node |-> [m \in Node |-> DecisionOf(register[n][m])]]

\* The registers, rounds and dashboard operations implement the abstract
\* register of decisions: whatever is delayed, lost, repeated or raced, a node's
\* decision about another changes only to one an operator made, and only to a
\* later one (store.SetMembership; api.applyRemovals).
ImplementsMembership == Decided!Spec

TypeOK ==
  /\ register \in [Node -> [Node -> Row]]
  /\ rounds   \subseteq Node
  /\ push     \in [Node -> [Node -> PushState]]
  /\ payload  \in [Node -> [Node -> Decision]]
  /\ learned  \in [Node -> SUBSET Node]
  /\ adding   \in [Node -> SUBSET Node]
  /\ intros   \subseteq Node \X Node
  /\ silent   \subseteq Node
  /\ switches \in 0 .. MaxSwitches
  /\ ticks    \in [Node -> SUBSET Nat]
  /\ made     \subseteq [target : Node, at : Nat, removed : BOOLEAN]

\* Decisions on the wire and in the registers are decisions an operator made;
\* a tombstone with no stamp is one the node's own database started with, and
\* never came from a neighbour (store.Membership publishes stamped rows only).
DecisionsWereMade ==
  \A n, m \in Node :
    /\ register[n][m].at > 0 => Announce(m, register[n][m]) \in made
    /\ payload[n][m].at > 0  => Announce(m, payload[n][m]) \in made
    /\ register[n][m].removed /\ register[n][m].at = 0 => <<n, m>> \in LegacyRemoval

\* Two dashboards never act on one node in the same millisecond
\* ("minutes or days apart, never milliseconds", internal/model/model.go:171).
DisjointClocks ==
  \A n, q \in Node : n # q => Clock[n] \cap Clock[q] = {}

\* As long as that is so, two nodes whose decisions about a third are equally
\* late hold the same decision: nobody is removed here and a member there for
\* good (store.SetMembership refuses an equally late decision).
Agreement ==
  DisjointClocks =>
    \A n, q, m \in Node :
      register[n][m].at = register[q][m].at /\ register[n][m].at > 0
        => register[n][m].removed = register[q][m].removed

\* A tombstone is lifted only by a readmission that some dashboard made later
\* than the removal: not by the removed node's own pushes, not by a neighbour's
\* peer list, an introduction or a stale payload (store.AddPeerIfUnknown,
\* store.upsertServer).
ReadmittedLater ==
  \A n, m \in Node :
    register[n][m].removed /\ ~register'[n][m].removed
      => \E d \in made' : d.target = m /\ ~d.removed /\ d.at > register[n][m].at

RemovalHolds == [][ReadmittedLater]_vars

\* A node listed as push-only is watched, not probed: no sync round pushes to it
\* while the row says so (store.SetPushOnly, store.AddPeerIfUnknown).  An
\* operator may store an address on a row whose node has just stopped being
\* push-only; that lasts until the node's own next push.
WatchedIsNotProbed ==
  \A n, m \in Node :
    register[n][m].pushOnly /\ register[n][m].addr /\ n # m => m \notin silent

-----------------------------------------------------------------------------
\* What the mesh comes to once operators leave it alone.

\* The push of n to m is handled and n gets the answer.
Answered(n, m) ==
  \/ StoreSync(n, m) /\ ListPeers(register'[m]) \ {n} \subseteq learned'[n]
  \/ ReadGone(n, m)

\* A push of n gets to its peer, or to nobody at all.
Delivered(n) ==
  \E m \in Node : CheckSync(n, m) \/ (m \in silent /\ LosePush(n, m))

\* Every node's ticker keeps starting rounds, every round ends, and a push that
\* is made over and over is answered over and over, whatever else is lost.
\* Operators owe nothing, and cross-introductions may all be lost.
Fairness ==
  /\ \A n \in Node : SF_vars(StartRound(n)) /\ WF_vars(FinishRound(n))
  /\ \A n \in Node : WF_vars(Delivered(n))
  /\ \A n, m \in Node : n # m => SF_vars(Answered(n, m))

FairSpec == Spec /\ Fairness

\* The latest decision made about m is d.
Latest(m, d) == /\ Announce(m, d) \in made
                /\ \A e \in made : e.target = m => e.at <= d.at

\* "It keeps reaching them as long as the mesh runs" (README.md:219): every node
\* that can be pushed to ends up holding the latest decision about every target.
DecisionsTravel ==
  <>[](\A n, m \in Node, d \in made :
         d.target = m /\ n \notin silent \cup {m} => register[n][m].at >= d.at)

\* "The node stops syncing with all of it" (README.md:225): a node whose removal
\* was the last word ends up pushing to nobody, and pushed to and watched by none
\* of the nodes that the decision reaches.  A push-only node is neither told nor
\* answers: the removed node may keep the address that one had before.
RemovedNodeIsLeftAlone ==
  <>[](\A m \in Node :
         (\E d \in made : d.removed /\ Latest(m, d)) =>
           /\ ListPeers(register[m]) \subseteq silent
           /\ \A n \in Node \ silent :
                m \notin ListPeers(register[n]) \cup ListPushOnly(register[n]))

\* "A node joined through one neighbour is pushing to all of them, and being
\* pushed to by all of them" (README.md:205): nodes that are nowhere removed end
\* up with each other's addresses, or watching the one that is push-only.  A third
\* that is push-only introduces nobody: two nodes that only it knows stay strangers.
MeshCloses ==
  <>[](\A n, m \in Node :
         (/\ n # m
          /\ n \notin silent
          /\ silent \subseteq {m}
          /\ \A q \in Node : ~register[q][n].removed /\ ~register[q][m].removed)
         => IF m \in silent THEN m \in ListPushOnly(register[n])
                            ELSE m \in ListPeers(register[n]))

-----------------------------------------------------------------------------
\* What the repository says of removal and the code does not keep to.

\* "Adding the node back, from any dashboard, lifts the removal" (README.md:233),
\* and "Remove a node from any one dashboard and it leaves the whole mesh"
\* (README.md:216): what the dashboard answers 200 to has been done there.
\* handleAddPeer and handleRemovePeer ignore that SetMembership refused.
DashboardDecisionHolds ==
  [][\A n, m \in Node : \A t \in Clock[n] :
       /\ RemovePeer(n, m, t) => register'[n][m].removed
       /\ StorePeer(n, m, t)  => ~register'[n][m].removed]_vars

\* "Removal also drops whatever made the node reachable or watched ...
\* Readmission deliberately restores neither" (internal/store/store.go:555): a
\* tombstone keeps neither an address nor the push-only flag to be restored.
\* A push that passed refuseRemoved before the removal still stores both after it.
TombstoneIsBare ==
  \A n, m \in Node :
    register[n][m].removed => ~register[n][m].addr /\ ~register[n][m].pushOnly

\* The decision reaches "the ones the removing node does not even push to"
\* (README.md:218).  Nobody pushes to a push-only node, and the answers to its own
\* pushes name peers, never decisions (api.replyWithPeers): what other dashboards
\* decided it is not told, and a removed peer it goes on pushing to and drawing.
DecisionsReachPushOnly ==
  <>[](\A n, m \in Node, d \in made :
         d.target = m /\ n \in silent \ {m} => register[n][m].at >= d.at)

\* Operators on all the dashboards keep trying to add nodes.
Readmitting ==
  \A n \in Node :
    WF_vars(\E m \in Target, t \in Clock[n] : IntroduceSelf(n, m, t) \/ StorePeer(n, m, t))

ReadmittingSpec == FairSpec /\ Readmitting

\* Removing a push-only peer works like removing any other "except that adding it
\* back has to be finished from its own dashboard" (README.md:273): so there it
\* can be, as long as its operator has time left to try in.  But its own
\* introduction is refused with 410 wherever it is removed, and nobody else can
\* introduce it.
PushOnlyComesBack ==
  \A n, m \in Node :
    n \in silent /\ register[m][n].removed
      ~> ~register[m][n].removed \/ ticks[n] = {}

=============================================================================
