----------------------------- MODULE Mesh_proofs -----------------------------
(***************************************************************************)
(* Proofs about Mesh, for every set of nodes, every choice of links, clocks *)
(* and targets and every number of rounds and restarts.                    *)
(***************************************************************************)
EXTENDS Mesh, TLAPS

-----------------------------------------------------------------------------
\* What the statements of the store do to one row.

\* Every statement leaves a row a row.
LEMMA RowTypes ==
  ASSUME NEW row \in Row, NEW url \in BOOLEAN, NEW flag \in BOOLEAN, NEW at \in Nat
  PROVE  /\ UpsertSelf(row, url) \in Row
         /\ UpsertPeer(row, url) \in Row
         /\ EnsureServer(row) \in Row
         /\ SetPushOnly(row, flag) \in Row
         /\ AddPeerIfUnknown(row) \in Row
         /\ SetMembership(row, flag, at) \in Row
         /\ ForgetPeer(row) \in Row
         /\ DecisionOf(row) \in Decision
         /\ NoRow \in Row
         /\ NoDecision \in Decision
  BY DEF Row, Decision, UpsertSelf, UpsertPeer, EnsureServer, SetPushOnly,
         AddPeerIfUnknown, SetMembership, ForgetPeer, DecisionOf, NoRow, NoDecision

\* Everything but SetMembership leaves the decision in a row alone.
LEMMA KeepsDecision ==
  ASSUME NEW row \in Row, NEW url \in BOOLEAN, NEW flag \in BOOLEAN
  PROVE  /\ DecisionOf(UpsertSelf(row, url)) = DecisionOf(row)
         /\ DecisionOf(UpsertPeer(row, url)) = DecisionOf(row)
         /\ DecisionOf(EnsureServer(row)) = DecisionOf(row)
         /\ DecisionOf(SetPushOnly(row, flag)) = DecisionOf(row)
         /\ DecisionOf(AddPeerIfUnknown(row)) = DecisionOf(row)
         /\ DecisionOf(ForgetPeer(row)) = DecisionOf(row)
  BY DEF Row, UpsertSelf, UpsertPeer, EnsureServer, SetPushOnly,
         AddPeerIfUnknown, ForgetPeer, DecisionOf

\* SetMembership leaves the decision alone or replaces it by a later one.
LEMMA SetMembershipDecision ==
  ASSUME NEW row \in Row, NEW flag \in BOOLEAN, NEW at \in Nat, at > 0,
         ~row.known => row.at = 0
  PROVE  \/ DecisionOf(SetMembership(row, flag, at)) = DecisionOf(row)
         \/ /\ DecisionOf(SetMembership(row, flag, at)) = [at |-> at, removed |-> flag]
            /\ at > row.at
  BY DEF Row, SetMembership, DecisionOf

-----------------------------------------------------------------------------
\* Rows stay rows, whatever is done to them.

LEMMA StartSelfType ==
  ASSUME NEW row \in Row, NEW n \in Node, NEW flag \in BOOLEAN
  PROVE  /\ StartSelf(row, n, flag) \in Row
         /\ DecisionOf(StartSelf(row, n, flag)) = DecisionOf(row)
<1> DEFINE url == n \in Published /\ ~flag
<1>1. /\ UpsertSelf(row, url) \in Row
      /\ DecisionOf(UpsertSelf(row, url)) = DecisionOf(row)
  BY RowTypes, KeepsDecision
<1>2. /\ SetPushOnly(UpsertSelf(row, url), flag) \in Row
      /\ DecisionOf(SetPushOnly(UpsertSelf(row, url), flag)) = DecisionOf(UpsertSelf(row, url))
  BY <1>1, RowTypes, KeepsDecision
<1> QED
  BY <1>1, <1>2 DEF StartSelf

LEMMA FirstRowType ==
  ASSUME NEW n \in Node, NEW m \in Node
  PROVE  FirstRow(n, m) \in Row
<1> DEFINE k == <<n, m>> \in Link \cup LegacyRemoval
           u == <<n, m>> \in Link
           r == <<n, m>> \in LegacyRemoval
<1>1. StartSelf(NoRow, n, n \in PushOnlyNode) \in Row
  <2>1. NoRow \in Row /\ (n \in PushOnlyNode) \in BOOLEAN
    BY DEF NoRow, Row
  <2> QED
    BY <2>1, StartSelfType
<1>2. [NoRow EXCEPT !.known = k, !.addr = u, !.removed = r] \in Row
  <2> k \in BOOLEAN /\ u \in BOOLEAN /\ r \in BOOLEAN
    OBVIOUS
  <2> HIDE DEF k, u, r
  <2> QED
    BY DEF NoRow, Row
<1> QED
  BY <1>1, <1>2 DEF FirstRow

LEMMA IntroducedType ==
  ASSUME NEW row \in Row, NEW url \in BOOLEAN, NEW flag \in BOOLEAN
  PROVE  /\ Introduced(row, url, flag) \in Row
         /\ DecisionOf(Introduced(row, url, flag)) = DecisionOf(row)
<1>1. /\ UpsertPeer(row, url) \in Row
      /\ DecisionOf(UpsertPeer(row, url)) = DecisionOf(row)
  BY RowTypes, KeepsDecision
<1>2. /\ SetPushOnly(UpsertPeer(row, url), flag) \in Row
      /\ DecisionOf(SetPushOnly(UpsertPeer(row, url), flag)) = DecisionOf(UpsertPeer(row, url))
  BY <1>1, RowTypes, KeepsDecision
<1> QED
  BY <1>1, <1>2 DEF Introduced

LEMMA PublishesType ==
  ASSUME NEW n \in Node
  PROVE  Publishes(n) \in BOOLEAN /\ (n \in silent) \in BOOLEAN
  BY DEF Publishes

LEMMA StoredType ==
  ASSUME TypeOK, NEW n \in Node, NEW m \in Node, NEW mentioned \in SUBSET Node
  PROVE  Stored(n, m, mentioned) \in [Node -> Row]
<1> SUFFICES ASSUME NEW x \in Node
             PROVE  Stored(n, m, mentioned)[x] \in Row
    BY DEF Stored
<1>1. /\ register[m][x] \in Row
      /\ payload[n][x].at \in Nat
      /\ payload[n][x].removed \in BOOLEAN
  BY DEF TypeOK, Decision
<1>2. SetMembership(register[m][x], payload[n][x].removed, payload[n][x].at) \in Row
  BY <1>1, RowTypes
<1>3. /\ EnsureServer(register[m][x]) \in Row
      /\ EnsureServer(SetMembership(register[m][x], payload[n][x].removed, payload[n][x].at)) \in Row
  BY <1>1, <1>2, RowTypes
<1>4. UpsertPeer(register[m][x], Publishes(n)) \in Row
  BY <1>1, RowTypes, PublishesType
<1>5. SetPushOnly(UpsertPeer(register[m][x], Publishes(n)), n \in silent) \in Row
  BY <1>4, RowTypes, PublishesType
<1> QED
  BY <1>1, <1>2, <1>3, <1>5 DEF Stored

LEMMA PayloadType ==
  ASSUME TypeOK, NEW n \in Node
  PROVE  Membership(register[n]) \in [Node -> Decision]
  BY DEF TypeOK, Membership, Row, Decision, DecisionOf, NoDecision

LEMMA NoPayloadType == NoPayload \in [Node -> Decision]
  BY DEF NoPayload, NoDecision, Decision

LEMMA RecordType ==
  ASSUME TypeOK, NEW n \in Node, NEW m \in Node, Record(n, m),
         register' \in [Node -> [Node -> Row]]
  PROVE  made' \subseteq [target : Node, at : Nat, removed : BOOLEAN]
<1>1. register'[n][m].at \in Nat /\ register'[n][m].removed \in BOOLEAN
  BY DEF Row
<1>2. Announce(m, register'[n][m]) \in [target : Node, at : Nat, removed : BOOLEAN]
  BY <1>1 DEF Announce
<1>3. made' \subseteq made \cup {Announce(m, register'[n][m])}
  BY DEF Record
<1> QED
  BY <1>2, <1>3 DEF TypeOK

-----------------------------------------------------------------------------
\* The type invariant.

LEMMA TypeInit ==
  ASSUME Init
  PROVE  TypeOK
<1>1. register \in [Node -> [Node -> Row]]
  BY FirstRowType DEF Init
<1>2. payload \in [Node -> [Node -> Decision]]
  BY NoPayloadType DEF Init
<1> QED
  BY <1>1, <1>2, MeshAssumption DEF Init, TypeOK, PushState

LEMMA TypeNext ==
  ASSUME TypeOK, [Next]_vars
  PROVE  TypeOK'
<1> USE DEF TypeOK, PushState
<1>1. ASSUME NEW n \in Node, NEW m \in Target, NEW t \in Clock[n], RemovePeer(n, m, t)
      PROVE  TypeOK'
  <2> USE <1>1 DEF RemovePeer, syncVars, modeVars
  <2>1. m \in Node /\ t \in Nat
    BY MeshAssumption
  <2>2. register' \in [Node -> [Node -> Row]]
    BY <2>1, RowTypes
  <2>3. made' \subseteq [target : Node, at : Nat, removed : BOOLEAN]
    BY <2>1, <2>2, RecordType
  <2>4. ticks' \in [Node -> SUBSET Nat]
    BY DEF Tick
  <2> QED
    BY <2>2, <2>3, <2>4
<1>2. ASSUME NEW n \in Node, NEW m \in Target, NEW t \in Clock[n], IntroduceSelf(n, m, t)
      PROVE  TypeOK'
  <2> USE <1>2 DEF IntroduceSelf, syncVars, modeVars
  <2>1. m \in Node
    BY MeshAssumption
  <2>2. register' \in [Node -> [Node -> Row]]
    <3>1. register[m][n] \in Row
      BY <2>1
    <3>2. Introduced(register[m][n], Publishes(n), n \in silent) \in Row
      BY <3>1, IntroducedType, PublishesType
    <3> QED
      BY <2>1, <3>2
  <2>3. ticks' \in [Node -> SUBSET Nat]
    BY DEF Tick
  <2>4. adding' \in [Node -> SUBSET Node]
    BY <2>1
  <2> QED
    BY <2>2, <2>3, <2>4
<1>3. ASSUME NEW n \in Node, NEW m \in Target, NEW t \in Clock[n], StorePeer(n, m, t)
      PROVE  TypeOK'
  <2> USE <1>3 DEF StorePeer, syncVars, modeVars
  <2>1. m \in Node /\ t \in Nat
    BY MeshAssumption
  <2>2. register' \in [Node -> [Node -> Row]]
    BY <2>1, RowTypes
  <2>3. made' \subseteq [target : Node, at : Nat, removed : BOOLEAN]
    BY <2>1, <2>2, RecordType
  <2>4. ticks' \in [Node -> SUBSET Nat]
    BY DEF Tick
  <2>5. intros' \subseteq Node \X Node
    BY <2>1 DEF ListPeers
  <2> QED
    BY <2>2, <2>3, <2>4, <2>5
<1>4. ASSUME NEW p \in Node, NEW m \in Node, Introduce(p, m)
      PROVE  TypeOK'
  <2> USE <1>4 DEF Introduce, syncVars, modeVars
  <2>1. register' \in [Node -> [Node -> Row]]
    BY IntroducedType
  <2> QED
    BY <2>1
<1>5. ASSUME NEW p \in Node, NEW m \in Node, LoseIntroduction(p, m)
      PROVE  TypeOK'
  BY <1>5 DEF LoseIntroduction, syncVars, modeVars
<1>6. ASSUME NEW n \in Node, StartRound(n)
      PROVE  TypeOK'
  <2> USE <1>6 DEF StartRound, operatorVars, modeVars
  <2>1. payload' \in [Node -> [Node -> Decision]]
    BY PayloadType
  <2> QED
    BY <2>1
<1>7. ASSUME NEW n \in Node, NEW m \in Node, CheckSync(n, m)
      PROVE  TypeOK'
  BY <1>7 DEF CheckSync, operatorVars, modeVars
<1>8. ASSUME NEW n \in Node, NEW m \in Node, StoreSync(n, m)
      PROVE  TypeOK'
  <2> USE <1>8 DEF StoreSync, operatorVars, modeVars
  <2>1. PICK mentioned \in SUBSET (Known(register[n]) \ Known(register[m])), answered \in BOOLEAN :
          /\ register' = [register EXCEPT ![m] = Stored(n, m, mentioned)]
          /\ learned'  = [learned EXCEPT ![n] =
                            IF answered THEN @ \cup (ListPeers(register'[m]) \ {n}) ELSE @]
    OBVIOUS
  <2>2. mentioned \in SUBSET Node
    BY DEF Known
  <2>3. register' \in [Node -> [Node -> Row]]
    BY <2>1, <2>2, StoredType
  <2>4. ListPeers(register'[m]) \subseteq Node
    BY <2>3 DEF ListPeers
  <2>5. learned' \in [Node -> SUBSET Node]
    BY <2>1, <2>4
  <2> QED
    BY <2>3, <2>5
<1>9. ASSUME NEW n \in Node, NEW m \in Node, ReadGone(n, m)
      PROVE  TypeOK'
  <2> USE <1>9 DEF ReadGone, operatorVars, modeVars
  <2>1. register' \in [Node -> [Node -> Row]]
    BY RowTypes
  <2> QED
    BY <2>1
<1>10. ASSUME NEW n \in Node, NEW m \in Node, LosePush(n, m)
       PROVE  TypeOK'
  BY <1>10 DEF LosePush, operatorVars, modeVars
<1>11. ASSUME NEW n \in Node, FinishRound(n)
       PROVE  TypeOK'
  <2> USE <1>11 DEF FinishRound, operatorVars, modeVars
  <2>1. register' \in [Node -> [Node -> Row]]
    BY RowTypes
  <2> QED
    BY <2>1, NoPayloadType
<1>12. ASSUME NEW n \in Node, Restart(n)
       PROVE  TypeOK'
  <2> USE <1>12 DEF Restart, modeVars
  <2>1. silent' \subseteq Node
    OBVIOUS
  <2>2. register' \in [Node -> [Node -> Row]]
    <3>1. register[n][n] \in Row /\ (n \in silent') \in BOOLEAN
      OBVIOUS
    <3>2. StartSelf(register[n][n], n, n \in silent') \in Row
      BY <3>1, StartSelfType
    <3> QED
      BY <3>2
  <2>3. switches' \in 0 .. MaxSwitches
    BY MeshAssumption
  <2> QED
    BY <2>1, <2>2, <2>3, NoPayloadType
<1>13. CASE UNCHANGED vars
  BY <1>13 DEF vars, syncVars, operatorVars, modeVars
<1> QED
  BY <1>1, <1>2, <1>3, <1>4, <1>5, <1>6, <1>7, <1>8, <1>9, <1>10, <1>11, <1>12, <1>13
  DEF Next, Operator

\* Every variable keeps the shape the code gives it, in every mesh.
THEOREM TypeCorrect == Spec => []TypeOK
  BY TypeInit, TypeNext, PTL DEF Spec

-----------------------------------------------------------------------------
\* The invariant behind the decisions.

\* A stamp in use was read from one node's clock, which has moved past it.
StampsAreSpent ==
  /\ \A n \in Node : ticks[n] \subseteq Clock[n]
  /\ \A d \in made : d.at > 0 /\ \E n \in Node : d.at \in Clock[n] \ ticks[n]

\* A row there is none of carries no decision; nobody adds itself.
RowsAndAdditions ==
  /\ \A n, m \in Node : ~register[n][m].known => register[n][m].at = 0
  /\ \A n \in Node : n \notin adding[n]

UniqueDecisions == DisjointClocks => Decided!UniqueStamps

DecisionInv == /\ TypeOK
               /\ DecisionsWereMade
               /\ RowsAndAdditions
               /\ StampsAreSpent
               /\ UniqueDecisions

\* A row may change without its decision changing, ...
Kept(row, new) == /\ DecisionOf(new) = DecisionOf(row)
                  /\ row.known => new.known

\* ... or take a later decision.
Later(row, new) == new.known /\ new.at > row.at

\* The three kinds of step: no decision changes, ...
Quiet ==
  /\ made' = made
  /\ \A n \in Node : ticks'[n] \subseteq ticks[n]
  /\ \A p, q \in Node : Kept(register[p][q], register'[p][q])

\* ... n's operator decides about m at t, ...
Chosen(n, m, t) ==
  /\ m # n
  /\ t \in ticks[n]
  /\ ticks' = [ticks EXCEPT ![n] = {u \in @ : u > t}]
  /\ Later(register[n][m], register'[n][m])
  /\ register'[n][m].at = t
  /\ \A p, q \in Node : <<p, q>> # <<n, m>> => Kept(register[p][q], register'[p][q])
  /\ made' = made \cup {Announce(m, register'[n][m])}

\* ... or n takes over decisions that were made before.
Adopted(n) ==
  /\ made' = made
  /\ ticks' = ticks
  /\ \A p, q \in Node :
       \/ Kept(register[p][q], register'[p][q])
       \/ /\ p = n
          /\ q # n
          /\ Later(register[p][q], register'[p][q])
          /\ Announce(q, register'[p][q]) \in made

LEMMA KeptRows ==
  ASSUME NEW row \in Row, NEW url \in BOOLEAN, NEW flag \in BOOLEAN
  PROVE  /\ Kept(row, row)
         /\ Kept(row, UpsertSelf(row, url))
         /\ Kept(row, UpsertPeer(row, url))
         /\ Kept(row, EnsureServer(row))
         /\ Kept(row, SetPushOnly(row, flag))
         /\ Kept(row, AddPeerIfUnknown(row))
         /\ Kept(row, ForgetPeer(row))
  BY KeepsDecision DEF Row, Kept, UpsertSelf, UpsertPeer, EnsureServer, SetPushOnly,
                       AddPeerIfUnknown, ForgetPeer

LEMMA KeptRowsTwice ==
  ASSUME NEW row \in Row, NEW url \in BOOLEAN, NEW flag \in BOOLEAN, NEW n \in Node
  PROVE  /\ Kept(row, Introduced(row, url, flag))
         /\ Kept(row, StartSelf(row, n, flag))
<1> DEFINE self == UpsertSelf(row, n \in Published /\ ~flag)
           peer == UpsertPeer(row, url)
<1>1. /\ self \in Row /\ peer \in Row
      /\ Kept(row, self) /\ Kept(row, peer) /\ Kept(row, row)
  BY RowTypes, KeptRows
<1>2. Kept(self, SetPushOnly(self, flag)) /\ Kept(peer, SetPushOnly(peer, flag))
  BY <1>1, KeptRows
<1>3. Kept(row, SetPushOnly(self, flag)) /\ Kept(row, SetPushOnly(peer, flag))
  BY <1>1, <1>2 DEF Kept
<1> QED
  BY <1>1, <1>3 DEF Introduced, StartSelf

LEMMA SetMembershipRow ==
  ASSUME NEW row \in Row, NEW flag \in BOOLEAN, NEW at \in Nat \ {0},
         ~row.known => row.at = 0
  PROVE  \/ SetMembership(row, flag, at) = row
         \/ /\ Later(row, SetMembership(row, flag, at))
            /\ DecisionOf(SetMembership(row, flag, at)) = [at |-> at, removed |-> flag]
  BY DEF Row, SetMembership, DecisionOf, Later

LEMMA StoredRows ==
  ASSUME DecisionInv, NEW n \in Node, NEW m \in Node, NEW mentioned \in SUBSET Node,
         NEW x \in Node
  PROVE  \/ Kept(register[m][x], Stored(n, m, mentioned)[x])
         \/ /\ x # m
            /\ Later(register[m][x], Stored(n, m, mentioned)[x])
            /\ Announce(x, Stored(n, m, mentioned)[x]) \in made
<1> DEFINE row     == register[m][x]
           d       == payload[n][x]
           decided == IF d.at > 0 THEN SetMembership(row, d.removed, d.at) ELSE row
           told    == IF x \in mentioned THEN EnsureServer(decided) ELSE decided
<1>1. /\ row \in Row
      /\ d.at \in Nat /\ d.removed \in BOOLEAN
      /\ ~row.known => row.at = 0
  BY DEF DecisionInv, TypeOK, Decision, RowsAndAdditions
<1>2. d.at > 0 => Announce(x, d) \in made
  BY DEF DecisionInv, DecisionsWereMade
<1>3. CASE x = m
  <2>1. Stored(n, m, mentioned)[x] = row
    BY <1>3 DEF Stored
  <2> QED
    BY <2>1 DEF Kept
<1>4. CASE x # m /\ x = n
  <2>1. Stored(n, m, mentioned)[x] = SetPushOnly(UpsertPeer(row, Publishes(n)), n \in silent)
    BY <1>4 DEF Stored
  <2>2. UpsertPeer(row, Publishes(n)) \in Row /\ Kept(row, UpsertPeer(row, Publishes(n)))
    BY <1>1, RowTypes, KeptRows, PublishesType
  <2>3. Kept(UpsertPeer(row, Publishes(n)), Stored(n, m, mentioned)[x])
    BY <2>1, <2>2, KeptRows, PublishesType
  <2> QED
    BY <2>2, <2>3 DEF Kept
<1>5. CASE x # m /\ x # n
  <2>1. Stored(n, m, mentioned)[x] = told
    BY <1>5 DEF Stored
  <2>2. decided \in Row
    BY <1>1, RowTypes
  <2>3. Kept(decided, told)
    BY <2>2, KeptRows
  <2>4. \/ decided = row
        \/ Later(row, decided) /\ DecisionOf(decided) = [at |-> d.at, removed |-> d.removed]
           /\ d.at > 0
    BY <1>1, SetMembershipRow
  <2>5. CASE decided = row
    BY <2>1, <2>3, <2>5
  <2>6. CASE /\ Later(row, decided) /\ d.at > 0
             /\ DecisionOf(decided) = [at |-> d.at, removed |-> d.removed]
    <3>1. Later(row, told) /\ told.at = d.at /\ told.removed = d.removed
      BY <2>3, <2>6 DEF Later, Kept, DecisionOf
    <3>2. Announce(x, told) = Announce(x, d)
      BY <3>1 DEF Announce
    <3> QED
      BY <1>2, <1>5, <2>1, <2>6, <3>1, <3>2
  <2> QED
    BY <2>4, <2>5, <2>6
<1> QED
  BY <1>3, <1>4, <1>5

\* Every step is of one of the three kinds.
LEMMA StepKinds ==
  ASSUME DecisionInv, [Next]_vars
  PROVE  \/ Quiet
         \/ \E n \in Node, m \in Target : \E t \in Clock[n] : Chosen(n, m, t)
         \/ \E n \in Node : Adopted(n)
<1> USE DEF DecisionInv, TypeOK
<1>1. ASSUME NEW n \in Node, NEW m \in Target, NEW t \in Clock[n], RemovePeer(n, m, t)
      PROVE  Quiet \/ Chosen(n, m, t)
  <2> DEFINE row == register[n][m]
             new == SetMembership(row, TRUE, t)
  <2>1. m \in Node /\ t \in Nat \ {0} /\ row \in Row /\ (~row.known => row.at = 0)
    BY MeshAssumption DEF RowsAndAdditions
  <2>2. new = row \/ (Later(row, new) /\ DecisionOf(new) = [at |-> t, removed |-> TRUE])
    BY <2>1, SetMembershipRow
  <2>3. /\ register' = [register EXCEPT ![n][m] = new]
        /\ register'[n][m] = new
        /\ \A p, q \in Node : <<p, q>> # <<n, m>> => register'[p][q] = register[p][q]
    BY <1>1, <2>1 DEF RemovePeer
  <2>4. \A p, q \in Node : register'[p][q] = register[p][q] => Kept(register[p][q], register'[p][q])
    BY DEF Kept
  <2>5. m # n /\ Tick(n, t) /\ Record(n, m)
    BY <1>1 DEF RemovePeer
  <2>6. CASE new = row
    <3> HIDE DEF new
    <3>1. row.at \in Nat
      BY <2>1 DEF Row
    <3>2. made' = made
      BY <2>3, <2>5, <2>6, <3>1 DEF Record
    <3>3. \A p, q \in Node : Kept(register[p][q], register'[p][q])
      BY <2>3, <2>4, <2>6
    <3> QED
      BY <2>5, <3>2, <3>3 DEF Quiet, Tick
  <2>7. CASE Later(row, new) /\ DecisionOf(new) = [at |-> t, removed |-> TRUE]
    <3>1. made' = made \cup {Announce(m, register'[n][m])}
      BY <2>3, <2>5, <2>7 DEF Record, Later
    <3>2. new.at = t
      BY <2>7 DEF DecisionOf
    <3> QED
      BY <2>3, <2>4, <2>5, <2>7, <3>1, <3>2 DEF Chosen, Tick
  <2> QED
    BY <2>2, <2>6, <2>7
<1>2. ASSUME NEW n \in Node, NEW m \in Target, NEW t \in Clock[n], IntroduceSelf(n, m, t)
      PROVE  Quiet
  <2> DEFINE new == Introduced(register[m][n], Publishes(n), n \in silent)
  <2>1. m \in Node /\ register[m][n] \in Row
    BY MeshAssumption
  <2>2. Kept(register[m][n], new)
    BY <2>1, KeptRowsTwice, PublishesType
  <2>3. /\ register' = [register EXCEPT ![m][n] = new]
        /\ made' = made
        /\ ticks' = ticks \/ Tick(n, t)
    BY <1>2 DEF IntroduceSelf
  <2>4. \A p, q \in Node : Kept(register[p][q], register'[p][q])
    BY <2>1, <2>2, <2>3 DEF Kept
  <2> QED
    BY <2>3, <2>4 DEF Quiet, Tick
<1>3. ASSUME NEW n \in Node, NEW m \in Target, NEW t \in Clock[n], StorePeer(n, m, t)
      PROVE  Quiet \/ Chosen(n, m, t)
  <2> DEFINE row == register[n][m]
             lifted == SetMembership(row, FALSE, t)
             new == UpsertPeer(lifted, TRUE)
  <2>1. /\ m \in Node /\ t \in Nat \ {0} /\ row \in Row /\ (~row.known => row.at = 0)
        /\ m # n
    <3>1. m \in Node /\ t \in Nat \ {0} /\ row \in Row /\ (~row.known => row.at = 0)
      BY MeshAssumption DEF RowsAndAdditions
    <3>2. m \in adding[n]
      BY <1>3 DEF StorePeer
    <3> QED
      BY <3>1, <3>2 DEF RowsAndAdditions
  <2>2. /\ lifted \in Row
        /\ Kept(lifted, new)
        /\ lifted = row \/ (Later(row, lifted) /\ DecisionOf(lifted) = [at |-> t, removed |-> FALSE])
    BY <2>1, SetMembershipRow, RowTypes, KeptRows
  <2>3. /\ register' = [register EXCEPT ![n][m] = new]
        /\ register'[n][m] = new
        /\ \A p, q \in Node : <<p, q>> # <<n, m>> => register'[p][q] = register[p][q]
    BY <1>3, <2>1 DEF StorePeer
  <2>4. \A p, q \in Node : register'[p][q] = register[p][q] => Kept(register[p][q], register'[p][q])
    BY DEF Kept
  <2>5. Tick(n, t) /\ Record(n, m)
    BY <1>3 DEF StorePeer
  <2>6. CASE lifted = row
    <3> HIDE DEF lifted, new
    <3>1. /\ Kept(row, new)
          /\ row.at \in Nat /\ new.at = row.at
      BY <2>1, <2>2, <2>6 DEF Kept, DecisionOf, Row
    <3>2. made' = made
      BY <2>3, <2>5, <3>1 DEF Record
    <3>3. \A p, q \in Node : Kept(register[p][q], register'[p][q])
      BY <2>3, <2>4, <3>1
    <3> QED
      BY <2>5, <3>2, <3>3 DEF Quiet, Tick
  <2>7. CASE Later(row, lifted) /\ DecisionOf(lifted) = [at |-> t, removed |-> FALSE]
    <3>1. Later(row, new) /\ new.at = t
      BY <2>2, <2>7 DEF Later, Kept, DecisionOf
    <3>2. made' = made \cup {Announce(m, register'[n][m])}
      BY <2>3, <2>5, <3>1 DEF Record, Later
    <3> QED
      BY <2>1, <2>3, <2>4, <2>5, <3>1, <3>2 DEF Chosen, Tick
  <2> QED
    BY <2>2, <2>6, <2>7
<1>4. ASSUME NEW p \in Node, NEW m \in Node, Introduce(p, m)
      PROVE  Quiet
  <2>1. register[p][m] \in Row /\ Kept(register[p][m], Introduced(register[p][m], TRUE, FALSE))
    BY KeptRowsTwice
  <2>2. \A x, y \in Node : Kept(register[x][y], register'[x][y])
    BY <1>4, <2>1 DEF Introduce, Kept
  <2> QED
    BY <1>4, <2>2 DEF Introduce, Quiet
<1>5. ASSUME NEW n \in Node, NEW m \in Node, StoreSync(n, m)
      PROVE  Adopted(m)
  <2>1. PICK mentioned \in SUBSET Known(register[n]) :
          register' = [register EXCEPT ![m] = Stored(n, m, mentioned)]
    BY <1>5 DEF StoreSync
  <2>2. mentioned \in SUBSET Node
    BY DEF Known
  <2>3. \A x \in Node : \/ Kept(register[m][x], register'[m][x])
                        \/ /\ x # m
                           /\ Later(register[m][x], register'[m][x])
                           /\ Announce(x, register'[m][x]) \in made
    BY <2>1, <2>2, StoredRows
  <2>4. \A p, q \in Node : p # m => Kept(register[p][q], register'[p][q])
    BY <2>1 DEF Kept
  <2> QED
    BY <1>5, <2>3, <2>4 DEF Adopted, StoreSync, operatorVars
<1>6. ASSUME NEW n \in Node, NEW m \in Node, ReadGone(n, m)
      PROVE  Quiet
  <2>1. register[n][m] \in Row /\ Kept(register[n][m], ForgetPeer(register[n][m]))
    BY KeptRows
  <2>2. \A p, q \in Node : Kept(register[p][q], register'[p][q])
    BY <1>6, <2>1 DEF ReadGone, Kept
  <2> QED
    BY <1>6, <2>2 DEF ReadGone, Quiet, operatorVars
<1>7. ASSUME NEW n \in Node, FinishRound(n)
      PROVE  Quiet
  <2>1. \A m \in Node : /\ register[n][m] \in Row
                        /\ Kept(register[n][m], AddPeerIfUnknown(register[n][m]))
    BY KeptRows
  <2>2. \A p, q \in Node : Kept(register[p][q], register'[p][q])
    BY <1>7, <2>1 DEF FinishRound, Kept
  <2> QED
    BY <1>7, <2>2 DEF FinishRound, Quiet, operatorVars
<1>8. ASSUME NEW n \in Node, Restart(n)
      PROVE  Quiet
  <2>1. /\ register[n][n] \in Row
        /\ Kept(register[n][n], StartSelf(register[n][n], n, n \in silent'))
    <3>1. (n \in silent') \in BOOLEAN /\ register[n][n] \in Row
      OBVIOUS
    <3>2. Kept(register[n][n], StartSelf(register[n][n], n, n \in silent'))
      BY <3>1, KeptRowsTwice
    <3> QED
      BY <3>1, <3>2
  <2>2. \A p, q \in Node : Kept(register[p][q], register'[p][q])
    BY <1>8, <2>1 DEF Restart, Kept
  <2> QED
    BY <1>8, <2>2 DEF Restart, Quiet
<1>9. ASSUME UNCHANGED <<register, ticks, made>>
      PROVE  Quiet
  BY <1>9 DEF Quiet, Kept
<1>10. ASSUME NEW n \in Node, NEW m \in Node,
              \/ LoseIntroduction(n, m) \/ StartRound(n) \/ CheckSync(n, m)
              \/ LosePush(n, m) \/ UNCHANGED vars
       PROVE  UNCHANGED <<register, ticks, made>>
  BY <1>10 DEF LoseIntroduction, StartRound, CheckSync, LosePush, vars, operatorVars
<1>11. CASE UNCHANGED vars
  BY <1>9, <1>11 DEF vars, operatorVars
<1>12. CASE Next
  BY <1>1, <1>2, <1>3, <1>4, <1>5, <1>6, <1>7, <1>8, <1>9, <1>10, <1>12 DEF Next, Operator
<1> QED
  BY <1>11, <1>12

-----------------------------------------------------------------------------
\* The invariant is inductive.

LEMMA DecisionInit ==
  ASSUME Init
  PROVE  DecisionInv
<1>1. \A n, m \in Node : /\ register[n][m].at = 0
                         /\ register[n][m].removed => <<n, m>> \in LegacyRemoval
  <2> SUFFICES ASSUME NEW n \in Node, NEW m \in Node
               PROVE  /\ FirstRow(n, m).at = 0
                      /\ FirstRow(n, m).removed => <<n, m>> \in LegacyRemoval
      BY DEF Init
  <2> QED
    BY DEF FirstRow, StartSelf, UpsertSelf, SetPushOnly, NoRow
<1>2. DecisionsWereMade
  <2>1. \A n, m \in Node : payload[n][m].at = 0
    BY DEF Init, NoPayload, NoDecision
  <2>2. ~(0 > 0)
    OBVIOUS
  <2>3. \A n, m \in Node : ~(register[n][m].at > 0) /\ ~(payload[n][m].at > 0)
    BY <1>1, <2>1, <2>2, Zenon
  <2> QED
    BY <1>1, <2>3, Zenon DEF DecisionsWereMade
<1>3. RowsAndAdditions
  <2>1. \A n \in Node : n \notin adding[n]
    BY DEF Init
  <2> QED
    BY <1>1, <2>1 DEF RowsAndAdditions
<1>4. StampsAreSpent
  BY DEF StampsAreSpent, Init
<1>5. UniqueDecisions
  BY DEF UniqueDecisions, Decided!UniqueStamps, Init
<1> QED
  BY <1>2, <1>3, <1>4, <1>5, TypeInit DEF DecisionInv

\* A round carries what the register of its node held.
LEMMA PayloadStep ==
  ASSUME DecisionInv, [Next]_vars, NEW n \in Node, NEW m \in Node
  PROVE  \/ payload'[n][m] = payload[n][m]
         \/ payload'[n][m] = NoDecision
         \/ payload'[n][m] = DecisionOf(register[n][m])
<1>1. payload \in [Node -> [Node -> Decision]] /\ register \in [Node -> [Node -> Row]]
  BY DEF DecisionInv, TypeOK
<1>2. ASSUME NEW p \in Node, StartRound(p)
      PROVE  payload'[n][m] \in {payload[n][m], NoDecision, DecisionOf(register[n][m])}
  BY <1>1, <1>2 DEF StartRound, Membership
<1>3. ASSUME NEW p \in Node, FinishRound(p) \/ Restart(p)
      PROVE  payload'[n][m] \in {payload[n][m], NoDecision}
  BY <1>1, <1>3 DEF FinishRound, Restart, NoPayload
<1>4. ASSUME NEW p \in Node, Operator(p)
      PROVE  payload' = payload
  BY <1>4 DEF Operator, RemovePeer, IntroduceSelf, StorePeer, syncVars
<1>5. ASSUME NEW p \in Node, NEW q \in Node,
             \/ Introduce(p, q) \/ LoseIntroduction(p, q)
             \/ CheckSync(p, q) \/ StoreSync(p, q)
             \/ ReadGone(p, q)  \/ LosePush(p, q)
      PROVE  payload' = payload
  BY <1>5 DEF Introduce, LoseIntroduction, CheckSync, StoreSync, ReadGone, LosePush, syncVars
<1>6. CASE UNCHANGED vars
  BY <1>6 DEF vars, syncVars
<1> QED
  BY <1>2, <1>3, <1>4, <1>5, <1>6 DEF Next

\* Nobody starts to add itself.
LEMMA AddingStep ==
  ASSUME DecisionInv, [Next]_vars, NEW n \in Node
  PROVE  n \notin adding'[n]
<1>1. adding \in [Node -> SUBSET Node] /\ n \notin adding[n]
  BY DEF DecisionInv, TypeOK, RowsAndAdditions
<1>2. ASSUME NEW p \in Node, NEW m \in Target, NEW t \in Clock[p],
             RemovePeer(p, m, t) \/ IntroduceSelf(p, m, t) \/ StorePeer(p, m, t)
      PROVE  n \notin adding'[n]
  <2>1. CASE RemovePeer(p, m, t)
    BY <1>1, <2>1 DEF RemovePeer
  <2>2. CASE IntroduceSelf(p, m, t)
    <3>1. m # p /\ (adding' = adding \/ adding' = [adding EXCEPT ![p] = {m}])
      BY <2>2 DEF IntroduceSelf
    <3> QED
      BY <1>1, <3>1
  <2>3. CASE StorePeer(p, m, t)
    <3>1. adding' = [adding EXCEPT ![p] = {}]
      BY <2>3 DEF StorePeer
    <3> QED
      BY <1>1, <3>1
  <2> QED
    BY <1>2, <2>1, <2>2, <2>3
<1>3. ASSUME NEW p \in Node, StartRound(p) \/ FinishRound(p) \/ Restart(p)
      PROVE  n \notin adding'[n]
  BY <1>1, <1>3 DEF StartRound, FinishRound, Restart, operatorVars
<1>4. ASSUME NEW p \in Node, NEW q \in Node,
             \/ Introduce(p, q) \/ LoseIntroduction(p, q)
             \/ CheckSync(p, q) \/ StoreSync(p, q)
             \/ ReadGone(p, q)  \/ LosePush(p, q)
      PROVE  adding' = adding
  BY <1>4 DEF Introduce, LoseIntroduction, CheckSync, StoreSync, ReadGone, LosePush,
              operatorVars
<1>5. CASE UNCHANGED vars
  BY <1>1, <1>5 DEF vars, operatorVars
<1> QED
  BY <1>1, <1>2, <1>3, <1>4, <1>5 DEF Next, Operator

\* Decisions made before stay made, and new ones are stamped with a reading
\* nobody has used.
LEMMA MadeStep ==
  ASSUME DecisionInv, [Next]_vars
  PROVE  made \subseteq made' /\ StampsAreSpent' /\ UniqueDecisions'
<1>1. ASSUME Quiet \/ \E n \in Node : Adopted(n)
      PROVE  made \subseteq made' /\ StampsAreSpent' /\ UniqueDecisions'
  BY <1>1 DEF Quiet, Adopted, DecisionInv, StampsAreSpent, UniqueDecisions,
              Decided!UniqueStamps, DisjointClocks
<1>2. ASSUME NEW n \in Node, NEW m \in Target, NEW t \in Clock[n], Chosen(n, m, t)
      PROVE  made \subseteq made' /\ StampsAreSpent' /\ UniqueDecisions'
  <2> DEFINE new == Announce(m, register'[n][m])
  <2>1. /\ made' = made \cup {new}
        /\ new.at = t /\ new.target = m
        /\ ticks' = [ticks EXCEPT ![n] = {u \in @ : u > t}]
        /\ t \in ticks[n] /\ t \in Nat \ {0}
    BY <1>2, MeshAssumption DEF Chosen, Announce
  <2>2. ticks \in [Node -> SUBSET Nat]
    BY DEF DecisionInv, TypeOK
  <2> HIDE DEF new
  <2>3. t \notin ticks'[n] /\ \A q \in Node : ticks'[q] \subseteq ticks[q]
    BY <2>1, <2>2
  <2>4. StampsAreSpent'
    BY <2>1, <2>3 DEF DecisionInv, StampsAreSpent
  <2>5. ASSUME DisjointClocks, NEW d \in made
        PROVE  d.at # t
    <3>1. PICK q \in Node : d.at \in Clock[q] \ ticks[q]
      BY DEF DecisionInv, StampsAreSpent
    <3> QED
      BY <2>1, <2>5, <3>1 DEF DisjointClocks
  <2>6. UniqueDecisions'
    BY <2>1, <2>5 DEF DecisionInv, UniqueDecisions, Decided!UniqueStamps, DisjointClocks
  <2> QED
    BY <2>1, <2>4, <2>6
<1> QED
  BY <1>1, <1>2, StepKinds

LEMMA DecisionsWereMadeStep ==
  ASSUME DecisionInv, [Next]_vars
  PROVE  DecisionsWereMade'
<1> SUFFICES ASSUME NEW n \in Node, NEW m \in Node
             PROVE  /\ register'[n][m].at > 0 => Announce(m, register'[n][m]) \in made'
                    /\ payload'[n][m].at > 0 => Announce(m, payload'[n][m]) \in made'
                    /\ register'[n][m].removed /\ register'[n][m].at = 0
                         => <<n, m>> \in LegacyRemoval
    BY DEF DecisionsWereMade
<1>1. /\ register[n][m].at > 0 => Announce(m, register[n][m]) \in made
      /\ payload[n][m].at > 0  => Announce(m, payload[n][m]) \in made
      /\ register[n][m].removed /\ register[n][m].at = 0 => <<n, m>> \in LegacyRemoval
      /\ made \subseteq made'
      /\ register[n][m].at \in Nat
  BY MadeStep DEF DecisionInv, DecisionsWereMade, TypeOK, Row
<1>2. payload'[n][m].at > 0 => Announce(m, payload'[n][m]) \in made'
  <2>1. CASE payload'[n][m] = payload[n][m]
    BY <1>1, <2>1
  <2>2. CASE payload'[n][m] = NoDecision
    BY <2>2 DEF NoDecision
  <2>3. CASE payload'[n][m] = DecisionOf(register[n][m])
    <3>1. /\ payload'[n][m].at = register[n][m].at
          /\ Announce(m, payload'[n][m]) = Announce(m, register[n][m])
      BY <2>3 DEF DecisionOf, Announce
    <3> QED
      BY <1>1, <3>1
  <2> QED
    BY <2>1, <2>2, <2>3, PayloadStep
<1>3. CASE Kept(register[n][m], register'[n][m])
  <2>1. /\ register'[n][m].at = register[n][m].at
        /\ register'[n][m].removed = register[n][m].removed
    BY <1>3 DEF Kept, DecisionOf
  <2>2. Announce(m, register'[n][m]) = Announce(m, register[n][m])
    BY <2>1 DEF Announce
  <2> QED
    BY <1>1, <1>2, <2>1, <2>2
<1>4. CASE Later(register[n][m], register'[n][m]) /\ Announce(m, register'[n][m]) \in made'
  <2>1. register'[n][m].at > 0
    <3>1. register'[n][m].at > register[n][m].at /\ register'[n][m].at \in Nat
      BY <1>4, TypeNext DEF Later, DecisionInv, TypeOK, Row
    <3> QED
      BY <1>1, <3>1
  <2> QED
    BY <1>4, <1>2, <2>1
<1>5. \/ Kept(register[n][m], register'[n][m])
      \/ Later(register[n][m], register'[n][m]) /\ Announce(m, register'[n][m]) \in made'
  BY StepKinds, <1>1 DEF Quiet, Chosen, Adopted
<1> QED
  BY <1>2, <1>3, <1>4, <1>5

LEMMA DecisionNext ==
  ASSUME DecisionInv, [Next]_vars
  PROVE  DecisionInv'
<1>1. RowsAndAdditions'
  <2> SUFFICES ASSUME NEW n \in Node, NEW m \in Node, ~register'[n][m].known
               PROVE  register'[n][m].at = 0
      BY AddingStep DEF RowsAndAdditions
  <2>1. Kept(register[n][m], register'[n][m]) \/ Later(register[n][m], register'[n][m])
    BY StepKinds DEF Quiet, Chosen, Adopted
  <2> QED
    BY <2>1 DEF Kept, Later, DecisionOf, DecisionInv, RowsAndAdditions
<1> QED
  BY <1>1, TypeNext, MadeStep, DecisionsWereMadeStep DEF DecisionInv

LEMMA DecisionInvariant == Spec => []DecisionInv
  BY DecisionInit, DecisionNext, PTL DEF Spec

-----------------------------------------------------------------------------
\* The results.

\* No node holds, and no round carries, a decision that no operator made: an
\* announcement is never invented or garbled on its way (store.Membership,
\* api.applyRemovals), and a bare tombstone never spreads.
THEOREM DecisionsAreMade == Spec => []DecisionsWereMade
  BY DecisionInvariant, PTL DEF DecisionInv

\* With dashboards that never act within one millisecond of each other, equally
\* late decisions about a node are the same decision on every node, whatever was
\* lost, raced or restarted (store.SetMembership).
THEOREM NodesAgree == Spec => []Agreement
<1>1. DecisionInv => Agreement
  <2> SUFFICES ASSUME DecisionInv, DisjointClocks,
                      NEW n \in Node, NEW q \in Node, NEW m \in Node,
                      register[n][m].at = register[q][m].at, register[n][m].at > 0
               PROVE  register[n][m].removed = register[q][m].removed
      BY DEF Agreement
  <2>1. Announce(m, register[n][m]) \in made /\ Announce(m, register[q][m]) \in made
    BY DEF DecisionInv, DecisionsWereMade
  <2>2. Announce(m, register[n][m]) = Announce(m, register[q][m])
    BY <2>1 DEF DecisionInv, UniqueDecisions, Decided!UniqueStamps, Announce
  <2> QED
    BY <2>2 DEF Announce
<1> QED
  BY <1>1, DecisionInvariant, PTL

\* A tombstone stands until a later readmission that some dashboard made: no push,
\* introduction, peer list or restart lifts it (store.SetMembership,
\* store.AddPeerIfUnknown, store.upsertServer).
THEOREM RemovalsStand == Spec => RemovalHolds
<1>1. ASSUME DecisionInv, [Next]_vars
      PROVE  ReadmittedLater
  <2> SUFFICES ASSUME NEW n \in Node, NEW m \in Node,
                      register[n][m].removed, ~register'[n][m].removed
               PROVE  \E d \in made' : /\ d.target = m
                                      /\ ~d.removed
                                      /\ d.at > register[n][m].at
      BY DEF ReadmittedLater
  <2>1. ~Kept(register[n][m], register'[n][m])
    BY DEF Kept, DecisionOf
  <2>2. Later(register[n][m], register'[n][m]) /\ Announce(m, register'[n][m]) \in made'
    BY <1>1, <2>1, StepKinds DEF Quiet, Chosen, Adopted
  <2>3. /\ Announce(m, register'[n][m]).target = m
        /\ ~Announce(m, register'[n][m]).removed
        /\ Announce(m, register'[n][m]).at > register[n][m].at
    BY <2>2 DEF Announce, Later
  <2> QED
    BY <2>2, <2>3
<1>2. DecisionInv /\ [Next]_vars => [ReadmittedLater]_vars
  BY <1>1
<1> QED
  BY <1>2, DecisionInvariant, PTL DEF Spec, RemovalHolds

-----------------------------------------------------------------------------
\* The mesh implements the abstract register of decisions.

heldNow == [n \in Node |-> [m \in Node |-> DecisionOf(register[n][m])]]

LEMMA HeldUnchanged ==
  ASSUME NEW p \in Node, NEW q \in Node, Kept(register[p][q], register'[p][q])
  PROVE  heldNow'[p][q] = heldNow[p][q]
  BY DEF heldNow, Kept

LEMMA QuietIsStutter ==
  ASSUME Quiet
  PROVE  heldNow' = heldNow /\ made' = made
  BY HeldUnchanged DEF Quiet, heldNow

LEMMA ChosenIsDecide ==
  ASSUME DecisionInv, NEW n \in Node, NEW m \in Target, NEW t \in Clock[n], Chosen(n, m, t)
  PROVE  Decided!Decide(n, m, DecisionOf(register'[n][m])) /\ t \in Stamp
<1> DEFINE d == DecisionOf(register'[n][m])
<1>1. m \in Node /\ m # n /\ t \in Stamp
  BY MeshAssumption DEF Chosen, Stamp
<1>2. d.at > heldNow[n][m].at
  BY <1>1 DEF Chosen, Later, heldNow, DecisionOf
<1>3. heldNow' = [heldNow EXCEPT ![n][m] = d]
  <2>1. heldNow'[n][m] = d
    BY <1>1 DEF heldNow
  <2>2. ASSUME NEW p \in Node, NEW q \in Node, <<p, q>> # <<n, m>>
        PROVE  heldNow'[p][q] = heldNow[p][q]
    BY <2>2, HeldUnchanged DEF Chosen
  <2>3. heldNow'[n] = [heldNow[n] EXCEPT ![m] = d]
    BY <1>1, <2>1, <2>2 DEF heldNow
  <2>4. ASSUME NEW p \in Node, p # n
        PROVE  heldNow'[p] = heldNow[p]
    <3>1. \A q \in Node : heldNow'[p][q] = heldNow[p][q]
      BY <2>2, <2>4
    <3> QED
      BY <3>1 DEF heldNow
  <2> QED
    BY <2>3, <2>4 DEF heldNow
<1>4. made' = made \cup {Decided!Announce(m, d)}
  BY DEF Chosen, Announce, Decided!Announce, DecisionOf
<1> QED
  BY <1>1, <1>2, <1>3, <1>4 DEF Decided!Decide, heldNow

LEMMA AdoptedIsAdopt ==
  ASSUME DecisionInv, NEW n \in Node, Adopted(n)
  PROVE  Decided!Adopt(n)
<1> DEFINE new == [m \in Node |-> DecisionOf(register'[n][m])]
<1>1. ASSUME NEW m \in Node
      PROVE  /\ new[m] \in Decided!Seen(n)
             /\ new[m] = heldNow[n][m] \/ Decided!MayAdopt(n, m, new[m])
  <2>1. CASE Kept(register[n][m], register'[n][m])
    BY <2>1, HeldUnchanged DEF heldNow, Decided!Seen
  <2>2. CASE /\ m # n
             /\ Later(register[n][m], register'[n][m])
             /\ Announce(m, register'[n][m]) \in made
    <3>1. /\ new[m].at > heldNow[n][m].at
          /\ Decided!Announce(m, new[m]) = Announce(m, register'[n][m])
      BY <2>2 DEF Later, heldNow, DecisionOf, Decided!Announce, Announce
    <3>2. Decided!MayAdopt(n, m, new[m])
      BY <2>2, <3>1 DEF Decided!MayAdopt, heldNow
    <3>3. new[m] = [at |-> Announce(m, register'[n][m]).at,
                    removed |-> Announce(m, register'[n][m]).removed]
      BY DEF Announce, DecisionOf
    <3>4. new[m] \in Decided!Seen(n)
      BY <2>2, <3>3 DEF Decided!Seen
    <3> QED
      BY <3>2, <3>4
  <2> QED
    BY <2>1, <2>2 DEF Adopted
<1>2. new \in [Node -> Decided!Seen(n)]
  BY <1>1
<1>3. heldNow' = [heldNow EXCEPT ![n] = new]
  <2>1. heldNow'[n] = new
    BY DEF heldNow
  <2>2. ASSUME NEW p \in Node, p # n, NEW q \in Node
        PROVE  heldNow'[p][q] = heldNow[p][q]
    BY <2>2, HeldUnchanged DEF Adopted
  <2> QED
    BY <2>1, <2>2 DEF heldNow
<1>4. made' = made
  BY DEF Adopted
<1> QED
  BY <1>1, <1>2, <1>3, <1>4 DEF Decided!Adopt, heldNow

\* Whatever a dashboard, a round, a handler or a restart does is, seen as
\* decisions, an operator deciding, a node adopting decisions that were made, or
\* nothing.
THEOREM MeshImplementsMembership == Spec => ImplementsMembership
<1>1. Init => Decided!Init
  <2> SUFFICES ASSUME Init
               PROVE  Decided!Init
      OBVIOUS
  <2>1. ASSUME NEW n \in Node, NEW m \in Node
        PROVE  DecisionOf(FirstRow(n, m)) = [at |-> 0, removed |-> <<n, m>> \in LegacyRemoval]
    <3>1. CASE n = m
      <4>1. FirstRow(n, m).at = 0 /\ FirstRow(n, m).removed = FALSE
        BY <3>1 DEF FirstRow, StartSelf, UpsertSelf, SetPushOnly, NoRow
      <4>2. (<<n, m>> \in LegacyRemoval) = FALSE
        BY <3>1, MeshAssumption
      <4> QED
        BY <4>1, <4>2 DEF DecisionOf
    <3>2. CASE n # m
      BY <3>2 DEF FirstRow, NoRow, DecisionOf
    <3> QED
      BY <3>1, <3>2
  <2>2. heldNow = [n \in Node |-> [m \in Node |->
                    [at |-> 0, removed |-> <<n, m>> \in LegacyRemoval]]]
    BY <2>1 DEF Init, heldNow
  <2> QED
    BY <2>2 DEF Init, Decided!Init, heldNow
<1>2. DecisionInv /\ [Next]_vars => [Decided!Next]_(Decided!vars)
  <2> SUFFICES ASSUME DecisionInv, [Next]_vars
               PROVE  [Decided!Next]_(Decided!vars)
      OBVIOUS
  <2>1. CASE Quiet
    BY <2>1, QuietIsStutter DEF heldNow, Decided!vars
  <2>2. ASSUME NEW n \in Node, NEW m \in Target, NEW t \in Clock[n], Chosen(n, m, t)
        PROVE  Decided!Next
    <3>1. /\ DecisionOf(register'[n][m]) = [at |-> t, removed |-> register'[n][m].removed]
          /\ register'[n][m].removed \in BOOLEAN
      <4>1. register' \in [Node -> [Node -> Row]] /\ m \in Node
        BY TypeNext, MeshAssumption DEF DecisionInv, TypeOK
      <4> QED
        BY <2>2, <4>1 DEF Chosen, DecisionOf, Row
    <3>2. Decided!Decide(n, m, [at |-> t, removed |-> register'[n][m].removed]) /\ t \in Stamp
      BY <2>2, <3>1, ChosenIsDecide
    <3> QED
      BY <3>1, <3>2 DEF Decided!Next
  <2>3. ASSUME NEW n \in Node, Adopted(n)
        PROVE  Decided!Next
    BY <2>3, AdoptedIsAdopt DEF Decided!Next
  <2> QED
    BY <2>1, <2>2, <2>3, StepKinds
<1> QED
  BY <1>1, <1>2, DecisionInvariant, PTL DEF Spec, ImplementsMembership, Decided!Spec

-----------------------------------------------------------------------------
\* Rows of push-only nodes.

\* A row has an address or says push-only, and not both.
Clean(row) == ~(row.pushOnly /\ row.addr)

\* A row that is clean stays so.
Tidy(row, new) == Clean(row) => Clean(new)

LEMMA TidyRows ==
  ASSUME NEW row \in Row, NEW url \in BOOLEAN, NEW flag \in BOOLEAN, NEW at \in Nat, NEW n \in Node
  PROVE  /\ Tidy(row, row)
         /\ Tidy(row, EnsureServer(row))
         /\ Tidy(row, AddPeerIfUnknown(row))
         /\ Tidy(row, ForgetPeer(row))
         /\ Tidy(row, SetMembership(row, flag, at))
         /\ Tidy(row, Introduced(row, url, flag))
         /\ Clean(SetPushOnly(UpsertPeer(row, url), flag))
         /\ Clean(StartSelf(row, n, flag))
<1>1. \A r \in Row : Clean(SetPushOnly(r, flag))
  BY DEF Row, Clean, SetPushOnly
<1>2. UpsertPeer(row, url) \in Row /\ UpsertSelf(row, n \in Published /\ ~flag) \in Row
  BY RowTypes
<1>3. Clean(SetPushOnly(UpsertPeer(row, url), flag)) /\ Clean(StartSelf(row, n, flag))
  BY <1>1, <1>2 DEF StartSelf
<1>4. Tidy(row, Introduced(row, url, flag))
  BY <1>3 DEF Tidy, Introduced
<1>5. /\ Tidy(row, row)
      /\ Tidy(row, EnsureServer(row))
      /\ Tidy(row, AddPeerIfUnknown(row))
      /\ Tidy(row, ForgetPeer(row))
      /\ Tidy(row, SetMembership(row, flag, at))
  BY DEF Row, Tidy, Clean, EnsureServer, AddPeerIfUnknown, ForgetPeer, SetPushOnly, SetMembership
<1> QED
  BY <1>3, <1>4, <1>5

LEMMA TidyStored ==
  ASSUME TypeOK, NEW n \in Node, NEW m \in Node, NEW mentioned \in SUBSET Node, NEW x \in Node
  PROVE  Tidy(register[m][x], Stored(n, m, mentioned)[x])
<1> DEFINE row     == register[m][x]
           d       == payload[n][x]
           decided == IF d.at > 0 THEN SetMembership(row, d.removed, d.at) ELSE row
           told    == IF x \in mentioned THEN EnsureServer(decided) ELSE decided
<1>1. row \in Row /\ d.at \in Nat /\ d.removed \in BOOLEAN
  BY DEF TypeOK, Decision
<1>2. CASE x = m
  <2>1. Stored(n, m, mentioned)[x] = row
    BY <1>2 DEF Stored
  <2> QED
    BY <2>1 DEF Tidy
<1>3. CASE x # m /\ x = n
  <2>1. Stored(n, m, mentioned)[x] = SetPushOnly(UpsertPeer(row, Publishes(n)), n \in silent)
    BY <1>3 DEF Stored
  <2> QED
    BY <1>1, <2>1, TidyRows, PublishesType DEF Tidy
<1>4. CASE x # m /\ x # n
  <2>1. Stored(n, m, mentioned)[x] = told
    BY <1>4 DEF Stored
  <2>2. decided \in Row /\ Tidy(row, decided)
    BY <1>1, RowTypes, TidyRows
  <2>3. Tidy(decided, told)
    BY <2>2, TidyRows
  <2> QED
    BY <2>1, <2>2, <2>3 DEF Tidy
<1> QED
  BY <1>2, <1>3, <1>4

\* Only an operator's StorePeer puts an address on a row that says push-only, and it
\* changes no other row.
LEMMA TidySteps ==
  ASSUME TypeOK, [Next]_vars
  PROVE  \/ \A p, q \in Node : Tidy(register[p][q], register'[p][q])
         \/ \E n \in Node, m \in Target : \E t \in Clock[n] :
               /\ StorePeer(n, m, t)
               /\ \A p, q \in Node : <<p, q>> # <<n, m>> => register'[p][q] = register[p][q]
<1> USE DEF TypeOK
<1> DEFINE AllTidy == \A p, q \in Node : Tidy(register[p][q], register'[p][q])
<1>0. \A p, q \in Node : register'[p][q] = register[p][q] => Tidy(register[p][q], register'[p][q])
  BY DEF Tidy
<1>1. ASSUME NEW n \in Node, NEW m \in Target, NEW t \in Clock[n], RemovePeer(n, m, t)
      PROVE  AllTidy
  <2>1. m \in Node /\ t \in Nat /\ register[n][m] \in Row
    BY MeshAssumption
  <2>2. Tidy(register[n][m], SetMembership(register[n][m], TRUE, t))
    BY <2>1, TidyRows
  <2> QED
    BY <1>0, <1>1, <2>1, <2>2 DEF RemovePeer
<1>2. ASSUME NEW n \in Node, NEW m \in Target, NEW t \in Clock[n], IntroduceSelf(n, m, t)
      PROVE  AllTidy
  <2>1. m \in Node /\ register[m][n] \in Row
    BY MeshAssumption
  <2>2. Tidy(register[m][n], Introduced(register[m][n], Publishes(n), n \in silent))
    BY <2>1, TidyRows, PublishesType
  <2> QED
    BY <1>0, <1>2, <2>1, <2>2 DEF IntroduceSelf
<1>3. ASSUME NEW n \in Node, NEW m \in Target, NEW t \in Clock[n], StorePeer(n, m, t)
      PROVE  \A p, q \in Node : <<p, q>> # <<n, m>> => register'[p][q] = register[p][q]
  BY <1>3, MeshAssumption DEF StorePeer
<1>4. ASSUME NEW p \in Node, NEW m \in Node, Introduce(p, m)
      PROVE  AllTidy
  <2>1. register[p][m] \in Row /\ Tidy(register[p][m], Introduced(register[p][m], TRUE, FALSE))
    BY TidyRows
  <2> QED
    BY <1>0, <1>4, <2>1 DEF Introduce
<1>5. ASSUME NEW n \in Node, NEW m \in Node, StoreSync(n, m)
      PROVE  AllTidy
  <2>1. PICK mentioned \in SUBSET Known(register[n]) :
          register' = [register EXCEPT ![m] = Stored(n, m, mentioned)]
    BY <1>5 DEF StoreSync
  <2>2. mentioned \in SUBSET Node
    BY DEF Known
  <2>3. \A x \in Node : Tidy(register[m][x], Stored(n, m, mentioned)[x])
    BY <2>2, TidyStored
  <2> QED
    BY <1>0, <2>1, <2>3
<1>6. ASSUME NEW n \in Node, NEW m \in Node, ReadGone(n, m)
      PROVE  AllTidy
  <2>1. register[n][m] \in Row /\ Tidy(register[n][m], ForgetPeer(register[n][m]))
    BY TidyRows
  <2> QED
    BY <1>0, <1>6, <2>1 DEF ReadGone
<1>7. ASSUME NEW n \in Node, FinishRound(n)
      PROVE  AllTidy
  <2>1. \A m \in Node : /\ register[n][m] \in Row
                        /\ Tidy(register[n][m], AddPeerIfUnknown(register[n][m]))
    BY TidyRows
  <2> QED
    BY <1>0, <1>7, <2>1 DEF FinishRound
<1>8. ASSUME NEW n \in Node, Restart(n)
      PROVE  AllTidy
  <2>1. register[n][n] \in Row /\ (n \in silent') \in BOOLEAN
    OBVIOUS
  <2>2. Tidy(register[n][n], StartSelf(register[n][n], n, n \in silent'))
    BY <2>1, TidyRows DEF Tidy
  <2> QED
    BY <1>0, <1>8, <2>1, <2>2 DEF Restart
<1>9. ASSUME UNCHANGED register
      PROVE  AllTidy
  BY <1>0, <1>9
<1>10. ASSUME NEW n \in Node, NEW m \in Node,
              \/ LoseIntroduction(n, m) \/ StartRound(n) \/ CheckSync(n, m)
              \/ LosePush(n, m) \/ UNCHANGED vars
       PROVE  UNCHANGED register
  BY <1>10 DEF LoseIntroduction, StartRound, CheckSync, LosePush, vars
<1>11. CASE UNCHANGED vars
  BY <1>9, <1>11 DEF vars
<1>12. CASE Next
  BY <1>1, <1>2, <1>3, <1>4, <1>5, <1>6, <1>7, <1>8, <1>9, <1>10, <1>12 DEF Next, Operator
<1> QED
  BY <1>11, <1>12

\* What is added is not push-only, as long as no node changes to or from that.
AddingReachable == \A n \in Node : adding[n] \cap silent = {}

ProbedRows == \A n, m \in Node : Clean(register[n][m]) \/ m \notin silent

LEMMA FirstRowsClean ==
  ASSUME Init
  PROVE  \A n, m \in Node : Clean(register[n][m])
<1> SUFFICES ASSUME NEW n \in Node, NEW m \in Node
             PROVE  Clean(FirstRow(n, m))
  BY DEF Init
<1>1. CASE n = m
  <2>1. NoRow \in Row /\ (n \in PushOnlyNode) \in BOOLEAN
    BY DEF NoRow, Row
  <2> QED
    BY <1>1, <2>1, TidyRows DEF FirstRow
<1>2. CASE n # m
  BY <1>2 DEF FirstRow, NoRow, Clean
<1> QED
  BY <1>1, <1>2

LEMMA SilentStays ==
  ASSUME Switching = {}, TypeOK, [Next]_vars
  PROVE  silent' = silent
<1>1. ASSUME NEW n \in Node, Restart(n)
      PROVE  silent' = silent
  BY <1>1 DEF Restart, modeVars
<1>2. ASSUME NEW n \in Node, Operator(n)
      PROVE  silent' = silent
  BY <1>2 DEF Operator, RemovePeer, IntroduceSelf, StorePeer, modeVars
<1>3. CASE UNCHANGED vars
  BY <1>3 DEF vars, modeVars
<1>4. CASE Next
  BY <1>1, <1>2, <1>4 DEF Next, StartRound, FinishRound, Introduce, LoseIntroduction, CheckSync,
                      StoreSync, ReadGone, LosePush, modeVars
<1> QED
  BY <1>3, <1>4

LEMMA AddingReachableStep ==
  ASSUME Switching = {}, TypeOK, AddingReachable, [Next]_vars
  PROVE  AddingReachable'
<1>1. silent' = silent
  BY SilentStays
<1>2. SUFFICES ASSUME NEW q \in Node
               PROVE  adding'[q] \cap silent = {}
  BY <1>1 DEF AddingReachable
<1>3. adding \in [Node -> SUBSET Node]
  BY DEF TypeOK
<1>4. ASSUME NEW n \in Node, NEW m \in Target, NEW t \in Clock[n], IntroduceSelf(n, m, t)
      PROVE  adding'[q] = adding[q] \/ adding'[q] \cap silent = {}
  BY <1>3, <1>4 DEF IntroduceSelf
<1>5. ASSUME NEW n \in Node, NEW m \in Target, NEW t \in Clock[n], StorePeer(n, m, t)
      PROVE  adding'[q] = adding[q] \/ adding'[q] \cap silent = {}
  BY <1>3, <1>5 DEF StorePeer
<1>6. ASSUME NEW n \in Node, NEW m \in Target, NEW t \in Clock[n], RemovePeer(n, m, t)
      PROVE  adding'[q] = adding[q]
  BY <1>6 DEF RemovePeer
<1>7. ASSUME NEW n \in Node, Restart(n)
      PROVE  adding'[q] = adding[q] \/ adding'[q] \cap silent = {}
  BY <1>3, <1>7 DEF Restart
<1>8. CASE UNCHANGED vars
  BY <1>8 DEF vars, operatorVars, AddingReachable
<1>9. CASE Next
  <2>1. adding'[q] = adding[q] \/ adding'[q] \cap silent = {}
    BY <1>4, <1>5, <1>6, <1>7, <1>9
    DEF Next, Operator, StartRound, FinishRound, Introduce, LoseIntroduction, CheckSync,
        StoreSync, ReadGone, LosePush, operatorVars
  <2> QED
    BY <2>1 DEF AddingReachable
<1> QED
  BY <1>8, <1>9

\* While no node changes to or from push-only: a row with an address is of a node that
\* is not push-only, or does not say push-only.
LEMMA ProbedRowsStep ==
  ASSUME Switching = {}, TypeOK, AddingReachable, ProbedRows, [Next]_vars
  PROVE  ProbedRows'
<1>1. silent' = silent
  BY SilentStays
<1>2. SUFFICES ASSUME NEW p \in Node, NEW q \in Node
               PROVE  Clean(register'[p][q]) \/ q \notin silent
  BY <1>1 DEF ProbedRows
<1>3. Clean(register[p][q]) \/ q \notin silent
  BY DEF ProbedRows
<1>4. ASSUME NEW n \in Node, NEW m \in Target, NEW t \in Clock[n], StorePeer(n, m, t)
      PROVE  m \notin silent
  BY <1>4 DEF StorePeer, AddingReachable
<1> QED
  BY <1>3, <1>4, TidySteps DEF Tidy

\* A node listed as push-only is not probed (WatchedIsNotProbed), in every mesh where
\* operators leave the nodes alone or where no node changes to or from push-only.
THEOREM PushOnlyNodesAreNotProbed ==
  ASSUME Target = {} \/ Switching = {}
  PROVE  Spec => []WatchedIsNotProbed
<1>1. CASE Target = {}
  <2> DEFINE AllClean == \A n, m \in Node : Clean(register[n][m])
  <2>1. Init => AllClean
    BY FirstRowsClean
  <2>2. TypeOK /\ AllClean /\ [Next]_vars => AllClean'
    BY <1>1, TidySteps DEF Tidy
  <2>3. AllClean => WatchedIsNotProbed
    BY DEF Clean, WatchedIsNotProbed
  <2> HIDE DEF AllClean
  <2> QED
    BY <2>1, <2>2, <2>3, TypeInit, TypeNext, PTL DEF Spec
<1>2. CASE Switching = {}
  <2>1. Init => ProbedRows /\ AddingReachable
    BY FirstRowsClean DEF Init, ProbedRows, AddingReachable
  <2>2. TypeOK /\ AddingReachable /\ [Next]_vars => AddingReachable'
    BY <1>2, AddingReachableStep
  <2>3. TypeOK /\ AddingReachable /\ ProbedRows /\ [Next]_vars => ProbedRows'
    BY <1>2, ProbedRowsStep
  <2>4. ProbedRows => WatchedIsNotProbed
    BY DEF ProbedRows, Clean, WatchedIsNotProbed
  <2> QED
    BY <2>1, <2>2, <2>3, <2>4, TypeInit, TypeNext, PTL DEF Spec
<1> QED
  BY <1>1, <1>2

-----------------------------------------------------------------------------
\* The abstract register of decisions by itself: what Membership promises, for the
\* nodes, targets and legacy removals of any mesh and the stamps of its clocks.
VARIABLE held

Register == INSTANCE Membership

LEMMA RegisterAssumption == Register!MembershipAssumption
  BY MeshAssumption DEF Register!MembershipAssumption, Stamp

LEMMA DecisionFields ==
  ASSUME NEW d \in Register!Decision
  PROVE  d.at \in {0} \cup Stamp /\ d.at \in Nat /\ d.removed \in BOOLEAN
<1>1. d.at \in {0} \cup Stamp
  BY DEF Register!Decision
<1>2. d.removed \in BOOLEAN
  BY DEF Register!Decision
<1>3. \A t \in {0} \cup Stamp : t \in Nat
  BY RegisterAssumption DEF Register!MembershipAssumption
<1> QED
  BY <1>1, <1>2, <1>3

\* Whatever a node takes in is a decision.
LEMMA RegisterSeenType ==
  ASSUME Register!TypeOK, NEW n \in Node
  PROVE  Register!Seen(n) \subseteq Register!Decision
<1> SUFFICES ASSUME NEW d \in Register!Seen(n) PROVE d \in Register!Decision
  OBVIOUS
<1>1. CASE d \in {held[n][m] : m \in Node}
  BY <1>1 DEF Register!TypeOK
<1>2. CASE d \in {[at |-> e.at, removed |-> e.removed] : e \in made}
  BY <1>2 DEF Register!TypeOK, Register!Announcement, Register!Decision
<1> QED
  BY <1>1, <1>2 DEF Register!Seen

\* Adopt replaces the column of one node.
LEMMA AdoptColumn ==
  ASSUME Register!TypeOK, NEW n \in Node, Register!Adopt(n)
  PROVE  /\ held' \in [Node -> [Node -> Register!Decision]]
         /\ made' = made
         /\ \A q, m \in Node : q # n => held'[q][m] = held[q][m]
         /\ \A m \in Node : held'[n][m] = held[n][m] \/ Register!MayAdopt(n, m, held'[n][m])
<1>1. PICK new \in [Node -> Register!Seen(n)] :
        /\ \A m \in Node : new[m] = held[n][m] \/ Register!MayAdopt(n, m, new[m])
        /\ held' = [held EXCEPT ![n] = new]
        /\ UNCHANGED made
  BY DEF Register!Adopt
<1>2. new \in [Node -> Register!Decision]
  BY RegisterSeenType
<1>3. held \in [Node -> [Node -> Register!Decision]]
  BY DEF Register!TypeOK
<1>4. held'[n] = new /\ \A q \in Node : q # n => held'[q] = held[q]
  BY <1>1, <1>3
<1> QED
  BY <1>1, <1>2, <1>3, <1>4

\* Decide replaces one entry by the decision.
LEMMA DecideEntry ==
  ASSUME Register!TypeOK, NEW n \in Node, NEW m \in Target, NEW d \in Register!Decision,
         d.at > 0, Register!Decide(n, m, d)
  PROVE  /\ held' \in [Node -> [Node -> Register!Decision]]
         /\ held'[n][m] = d
         /\ \A q, x \in Node : ~(q = n /\ x = m) => held'[q][x] = held[q][x]
         /\ made' = made \cup {Register!Announce(m, d)}
         /\ Register!Announce(m, d) \in Register!Announcement
         /\ d.at > held[n][m].at
<1>1. m \in Node /\ held \in [Node -> [Node -> Register!Decision]]
  BY RegisterAssumption DEF Register!MembershipAssumption, Register!TypeOK
<1>2. held' = [held EXCEPT ![n] = [held[n] EXCEPT ![m] = d]]
  BY DEF Register!Decide
<1>3. Register!Announce(m, d) \in Register!Announcement
  BY <1>1, DecisionFields DEF Register!Announce, Register!Announcement
<1> QED
  BY <1>1, <1>2, <1>3 DEF Register!Decide

\* The decisions operators make are decisions.
LEMMA MadeType ==
  ASSUME NEW t \in Stamp, NEW r \in BOOLEAN
  PROVE  [at |-> t, removed |-> r] \in Register!Decision /\ [at |-> t, removed |-> r].at > 0
  BY RegisterAssumption DEF Register!MembershipAssumption, Register!Decision

-----------------------------------------------------------------------------
LEMMA RegisterInitType == Register!Init => Register!TypeOK
<1> SUFFICES ASSUME Register!Init PROVE Register!TypeOK
  OBVIOUS
<1>1. \A n, m \in Node :
        [at |-> 0, removed |-> <<n, m>> \in LegacyRemoval] \in Register!Decision
  <2> TAKE n, m \in Node
  <2> (<<n, m>> \in LegacyRemoval) \in BOOLEAN
    OBVIOUS
  <2> QED
    BY DEF Register!Decision
<1>2. held \in [Node -> [Node -> Register!Decision]]
  BY <1>1 DEF Register!Init
<1> QED
  BY <1>2 DEF Register!Init, Register!TypeOK

LEMMA RegisterStepType ==
  Register!TypeOK /\ [Register!Next]_(Register!vars) => Register!TypeOK'
<1> SUFFICES ASSUME Register!TypeOK, [Register!Next]_(Register!vars) PROVE Register!TypeOK'
  OBVIOUS
<1>1. CASE \E n \in Node, m \in Target, t \in Stamp, r \in BOOLEAN :
             Register!Decide(n, m, [at |-> t, removed |-> r])
  <2>1. PICK n \in Node, m \in Target, t \in Stamp, r \in BOOLEAN :
          Register!Decide(n, m, [at |-> t, removed |-> r])
    BY <1>1
  <2> DEFINE d == [at |-> t, removed |-> r]
  <2>2. d \in Register!Decision /\ d.at > 0
    BY MadeType
  <2>3. Register!Decide(n, m, d)
    BY <2>1
  <2> HIDE DEF d
  <2>4. /\ held' \in [Node -> [Node -> Register!Decision]]
        /\ made' = made \cup {Register!Announce(m, d)}
        /\ Register!Announce(m, d) \in Register!Announcement
    BY <2>2, <2>3, DecideEntry
  <2> QED
    BY <2>4 DEF Register!TypeOK
<1>2. CASE \E n \in Node : Register!Adopt(n)
  BY <1>2, AdoptColumn DEF Register!TypeOK
<1>3. CASE UNCHANGED Register!vars
  BY <1>3 DEF Register!TypeOK, Register!vars
<1> QED
  BY <1>1, <1>2, <1>3 DEF Register!Next

\* The register stays a register: TypeOK of Membership.
THEOREM MembershipTypeCorrect ==
  Register!Spec => []Register!TypeOK
  BY RegisterInitType, RegisterStepType, PTL
     DEF Register!Spec

-----------------------------------------------------------------------------
LEMMA RegisterInitHeld == Register!Init => Register!HeldWasMade
  BY DEF Register!Init, Register!HeldWasMade

LEMMA RegisterStepHeld ==
  Register!TypeOK /\ Register!HeldWasMade /\ [Register!Next]_(Register!vars) => Register!HeldWasMade'
<1> SUFFICES ASSUME Register!TypeOK, Register!HeldWasMade, [Register!Next]_(Register!vars),
                    NEW q \in Node, NEW x \in Node, (held[q][x].at > 0)'
             PROVE  (Register!Announce(x, held[q][x]) \in made)'
  BY DEF Register!HeldWasMade
<1>1. CASE \E n \in Node, m \in Target, t \in Stamp, r \in BOOLEAN :
             Register!Decide(n, m, [at |-> t, removed |-> r])
  <2>1. PICK n \in Node, m \in Target, t \in Stamp, r \in BOOLEAN :
          Register!Decide(n, m, [at |-> t, removed |-> r])
    BY <1>1
  <2> DEFINE d == [at |-> t, removed |-> r]
  <2>2. d \in Register!Decision /\ d.at > 0
    BY MadeType
  <2>3. Register!Decide(n, m, d)
    BY <2>1
  <2> HIDE DEF d
  <2>4. /\ held'[n][m] = d
        /\ \A p, y \in Node : ~(p = n /\ y = m) => held'[p][y] = held[p][y]
        /\ made' = made \cup {Register!Announce(m, d)}
    BY <2>2, <2>3, DecideEntry
  <2>5. CASE q = n /\ x = m
    BY <2>4, <2>5 DEF Register!Announce
  <2>6. CASE ~(q = n /\ x = m)
    BY <2>4, <2>6 DEF Register!HeldWasMade, Register!Announce
  <2> QED
    BY <2>5, <2>6
<1>2. CASE \E n \in Node : Register!Adopt(n)
  <2>1. PICK n \in Node : Register!Adopt(n)
    BY <1>2
  <2>2. /\ made' = made
        /\ \A p, m \in Node : p # n => held'[p][m] = held[p][m]
        /\ \A m \in Node : held'[n][m] = held[n][m] \/ Register!MayAdopt(n, m, held'[n][m])
    BY <2>1, AdoptColumn
  <2>3. CASE held'[q][x] = held[q][x]
    BY <2>2, <2>3 DEF Register!HeldWasMade, Register!Announce
  <2>4. CASE q = n /\ Register!MayAdopt(n, x, held'[n][x])
    BY <2>2, <2>4 DEF Register!MayAdopt, Register!Announce
  <2> QED
    BY <2>2, <2>3, <2>4
<1>3. CASE UNCHANGED Register!vars
  BY <1>3 DEF Register!HeldWasMade, Register!vars, Register!Announce
<1> QED
  BY <1>1, <1>2, <1>3 DEF Register!Next

\* Nobody ever holds a decision that no operator made: HeldWasMade.
THEOREM HeldDecisionsWereMade ==
  Register!Spec => []Register!HeldWasMade
  BY RegisterInitType, RegisterStepType, RegisterInitHeld, RegisterStepHeld, PTL
     DEF Register!Spec

-----------------------------------------------------------------------------
\* Agreement needs no induction of its own: equally late decisions were both made,
\* and one of each stamp was.
LEMMA MadeAgrees == Register!TypeOK /\ Register!HeldWasMade => Register!Agreement
<1> SUFFICES ASSUME Register!TypeOK, Register!HeldWasMade, Register!UniqueStamps,
                    NEW n \in Node, NEW q \in Node, NEW m \in Node,
                    held[n][m].at = held[q][m].at, held[n][m].at > 0
             PROVE  held[n][m] = held[q][m]
  BY DEF Register!Agreement
<1> DEFINE d == held[n][m]
           e == held[q][m]
<1>1. d \in Register!Decision /\ e \in Register!Decision
  BY DEF Register!TypeOK
<1>2. Register!Announce(m, d) \in made /\ Register!Announce(m, e) \in made
  BY DEF Register!HeldWasMade
<1>3. Register!Announce(m, d) = Register!Announce(m, e)
  BY <1>2 DEF Register!UniqueStamps, Register!Announce
<1>4. d.removed = e.removed /\ d.at = e.at
  BY <1>3 DEF Register!Announce
<1> HIDE DEF d, e
<1>5. d = [at |-> d.at, removed |-> d.removed] /\ e = [at |-> e.at, removed |-> e.removed]
  BY <1>1 DEF Register!Decision
<1>6. d = e
  BY <1>4, <1>5
<1> QED
  BY <1>6 DEF d, e

\* Nodes that heard equally late decisions about a node hold the same one: Agreement.
THEOREM HoldersAgree ==
  Register!Spec => []Register!Agreement
  BY RegisterInitType, RegisterStepType, RegisterInitHeld, RegisterStepHeld, MadeAgrees, PTL
     DEF Register!Spec

-----------------------------------------------------------------------------
LEMMA RegisterStepLater ==
  Register!TypeOK /\ [Register!Next]_(Register!vars) =>
    [\A n, m \in Node : held'[n][m] = held[n][m] \/ held'[n][m].at > held[n][m].at]_(Register!vars)
<1> SUFFICES ASSUME Register!TypeOK, Register!Next, NEW q \in Node, NEW x \in Node
             PROVE  held'[q][x] = held[q][x] \/ held'[q][x].at > held[q][x].at
  OBVIOUS
<1>1. CASE \E n \in Node, m \in Target, t \in Stamp, r \in BOOLEAN :
             Register!Decide(n, m, [at |-> t, removed |-> r])
  <2>1. PICK n \in Node, m \in Target, t \in Stamp, r \in BOOLEAN :
          Register!Decide(n, m, [at |-> t, removed |-> r])
    BY <1>1
  <2> DEFINE d == [at |-> t, removed |-> r]
  <2>2. d \in Register!Decision /\ d.at > 0
    BY MadeType
  <2>3. Register!Decide(n, m, d)
    BY <2>1
  <2> HIDE DEF d
  <2>4. /\ held'[n][m] = d
        /\ \A p, y \in Node : ~(p = n /\ y = m) => held'[p][y] = held[p][y]
        /\ d.at > held[n][m].at
    BY <2>2, <2>3, DecideEntry
  <2> QED
    BY <2>4
<1>2. CASE \E n \in Node : Register!Adopt(n)
  BY <1>2, AdoptColumn DEF Register!MayAdopt
<1> QED
  BY <1>1, <1>2 DEF Register!Next

\* A held decision is only ever replaced by a later one: OnlyLater.
THEOREM DecisionsOnlyGetLater ==
  Register!Spec => Register!OnlyLater
  BY RegisterInitType, RegisterStepType, RegisterStepLater, PTL
     DEF Register!Spec, Register!OnlyLater

=============================================================================
