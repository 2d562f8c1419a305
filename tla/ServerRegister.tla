--------------------------- MODULE ServerRegister ---------------------------
(***************************************************************************)
(* One node's register of servers: the "Servers" table, as the statements  *)
(* of internal/store/store.go read and write it.  A register maps every    *)
(* node id to its row; a node this one has never heard of has NoRow.       *)
(*                                                                         *)
(* An address names exactly one node, so a row only says whether it holds  *)
(* one.  Names, locations, LastSeen and the alerting flag are left out.    *)
(***************************************************************************)
EXTENDS Naturals

Row == [known    : BOOLEAN,   \* is there a row at all
        isSelf   : BOOLEAN,   \* "IsSelf"
        addr     : BOOLEAN,   \* "Url" IS NOT NULL
        pushOnly : BOOLEAN,   \* "PushOnly"
        removed  : BOOLEAN,   \* "Removed", the tombstone
        at       : Nat]       \* "MemberAt", when that was decided; 0 if never

\* A membership decision as it travels: model.Removal without the id.
Decision == [at : Nat, removed : BOOLEAN]

NoRow == [known |-> FALSE, isSelf |-> FALSE, addr |-> FALSE,
          pushOnly |-> FALSE, removed |-> FALSE, at |-> 0]

\* IsSelf is only ever raised; a blank url leaves any stored one alone.
UpsertSelf(row, url) ==
  [row EXCEPT !.known = TRUE, !.isSelf = TRUE, !.addr = @ \/ url]

\* Mutant of UpsertPeer: the conflict clause clears the tombstone.
UpsertPeerReadmitting(row, url) ==
  [row EXCEPT !.known = TRUE, !.addr = @ \/ url, !.removed = FALSE]

\* The same statement for a peer: neither flag nor tombstone is touched.
UpsertPeer(row, url) == [row EXCEPT !.known = TRUE, !.addr = @ \/ url]

\* The placeholder row of an id seen in somebody's readings.
EnsureServer(row) == [row EXCEPT !.known = TRUE]

\* Mutant of SetPushOnly: the address goes, the flag is never recorded.
SetPushOnlyUnflagged(row, pushOnly) == [row EXCEPT !.addr = @ /\ ~pushOnly]

\* Mutant of SetPushOnly: the address is left in place.
SetPushOnlyKeepingAddress(row, pushOnly) == [row EXCEPT !.pushOnly = pushOnly]

SetPushOnly(row, pushOnly) ==
  [row EXCEPT !.pushOnly = pushOnly, !.addr = @ /\ ~pushOnly]

\* Only a row with no address is completed, and never a removed one.
AddPeerIfUnknown(row) ==
  IF row.isSelf \/ row.removed \/ row.pushOnly \/ row.addr
    THEN row
    ELSE [row EXCEPT !.known = TRUE, !.addr = TRUE]

\* Mutant of SetMembership: the last decision to arrive wins.
SetMembershipLastArrival(row, removed, at) ==
  [row EXCEPT !.known = TRUE, !.removed = removed, !.at = at,
              !.addr = @ /\ ~removed, !.pushOnly = @ /\ ~removed]

\* Refused when the row already carries a decision at least as late.
SetMembership(row, removed, at) ==
  IF row.known /\ (row.isSelf \/ row.at >= at)
    THEN row
    ELSE [row EXCEPT !.known    = TRUE,
                     !.removed  = removed,
                     !.at       = at,
                     !.addr     = @ /\ ~removed,
                     !.pushOnly = @ /\ ~removed]

\* Mutant of ForgetPeer: the peer is only unwatched.
UnwatchPeer(row) == SetPushOnly(row, FALSE)

ForgetPeer(row) == SetPushOnly([row EXCEPT !.addr = FALSE], FALSE)

IsRemoved(row) == row.removed

-----------------------------------------------------------------------------
\* Listings over a register.

ListPeers(register) ==
  {m \in DOMAIN register : /\ register[m].addr
                           /\ ~register[m].isSelf
                           /\ ~register[m].removed}

ListPushOnly(register) ==
  {m \in DOMAIN register : /\ register[m].pushOnly
                           /\ ~register[m].isSelf
                           /\ ~register[m].removed}

Known(register) == {m \in DOMAIN register : register[m].known}

DecisionOf(row) == [at |-> row.at, removed |-> row.removed]

NoDecision == [at |-> 0, removed |-> FALSE]

\* Mutant of Membership: removals are announced and readmissions are not.
Removals(register) ==
  [m \in DOMAIN register |->
     IF ~register[m].isSelf /\ register[m].at > 0 /\ register[m].removed
       THEN DecisionOf(register[m])
       ELSE NoDecision]

\* Every stamped decision a node holds; an unstamped tombstone, left by a
\* database older than the announcements, is not published.
Membership(register) ==
  [m \in DOMAIN register |->
     IF ~register[m].isSelf /\ register[m].at > 0
       THEN DecisionOf(register[m])
       ELSE NoDecision]

=============================================================================
