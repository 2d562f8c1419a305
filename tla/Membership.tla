----------------------------- MODULE Membership -----------------------------
(***************************************************************************)
(* What removal promises, with no register, message or round in it: an     *)
(* operator decides about a node on some dashboard, every node holds at    *)
(* most one decision about each other, and a held decision is replaced     *)
(* only by a later one that somebody made ("the latest decision about a    *)
(* node wins, wherever it was made", internal/model/model.go:170).         *)
(***************************************************************************)
EXTENDS Naturals

CONSTANTS Node,            \* the servers
          Target,          \* the nodes operators decide about
          LegacyRemoval,   \* <<n, m>>: n starts out with an unstamped removal of m
          Stamp            \* the milliseconds at which operators act

\* What the theorems below assume of the constants.
MembershipAssumption == /\ Target \subseteq Node
                        /\ Stamp \subseteq Nat \ {0}

VARIABLES made,    \* every decision that took effect on the node it was made on
          held     \* held[n][m]: the decision n holds about m; at = 0 if none

vars == <<made, held>>

Decision == [at : {0} \cup Stamp, removed : BOOLEAN]

Announcement == [target : Node, at : Stamp, removed : BOOLEAN]

Announce(m, d) == [target |-> m, at |-> d.at, removed |-> d.removed]

TypeOK == /\ made \subseteq Announcement
          /\ held \in [Node -> [Node -> Decision]]

\* An unstamped removal is left over from a database older than the stamps.
Init == /\ made = {}
        /\ held = [n \in Node |-> [m \in Node |->
                     [at |-> 0, removed |-> <<n, m>> \in LegacyRemoval]]]

\* An operator decides about m on n's dashboard.
Decide(n, m, d) ==
  /\ m # n
  /\ d.at > held[n][m].at
  /\ held' = [held EXCEPT ![n][m] = d]
  /\ made' = made \cup {Announce(m, d)}

\* d is a decision about m that n may take over from somebody else.
MayAdopt(n, m, d) == /\ m # n
                     /\ d.at > held[n][m].at
                     /\ Announce(m, d) \in made

\* The decisions that n holds or could be told about.
Seen(n) == {held[n][m] : m \in Node}
             \cup {[at |-> d.at, removed |-> d.removed] : d \in made}

\* n takes in some of the decisions that were made, all in one step.
Adopt(n) ==
  \E new \in [Node -> Seen(n)] :
    /\ \A m \in Node : new[m] = held[n][m] \/ MayAdopt(n, m, new[m])
    /\ held' = [held EXCEPT ![n] = new]
    /\ UNCHANGED made

Next == \/ \E n \in Node, m \in Target, t \in Stamp, r \in BOOLEAN :
              Decide(n, m, [at |-> t, removed |-> r])
        \/ \E n \in Node : Adopt(n)

Spec == Init /\ [][Next]_vars

-----------------------------------------------------------------------------
\* No two decisions about one node carry the same stamp.
UniqueStamps ==
  \A d, e \in made : d.target = e.target /\ d.at = e.at => d = e

\* Nobody holds a decision no operator made.
HeldWasMade ==
  \A n, m \in Node : held[n][m].at > 0 => Announce(m, held[n][m]) \in made

\* Nodes that hold equally late decisions about a node hold the same decision,
\* unless two dashboards decided about it within one millisecond.
Agreement ==
  UniqueStamps =>
    \A n, q, m \in Node :
      held[n][m].at = held[q][m].at /\ held[n][m].at > 0
        => held[n][m] = held[q][m]

\* A held decision is only ever replaced by a later one.
OnlyLater ==
  [][\A n, m \in Node : held'[n][m] = held[n][m] \/ held'[n][m].at > held[n][m].at]_vars

=============================================================================
