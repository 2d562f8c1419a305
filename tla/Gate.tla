--------------------------------- MODULE Gate ---------------------------------
(***************************************************************************)
(* The dashboard password of one node: the lockout of addresses that fail, *)
(* and the sessions a login earns (internal/auth/password.go; guarded,     *)
(* handleSession, handleLogin, handleLogout in internal/api/api.go).       *)
(***************************************************************************)
EXTENDS Integers, FiniteSets, Sequences

CONSTANTS Host,            \* the addresses requests come from
          Local,           \* those of them that are the host itself
          Browser,         \* those of them that use the dashboard, and keep a cookie
          Password,        \* the passwords that are configured or offered
          FreeAttempts, FirstLockout, MaxLockout, ForgetAfter, MaxTracked,
          SessionLifetime,
          MaxTime,         \* bound: the last instant
          MaxRestarts      \* bound: restarts of the node

ASSUME GateAssumption ==
  /\ Local \subseteq Host /\ Browser \subseteq Host
  /\ {FreeAttempts, FirstLockout, MaxLockout, ForgetAfter, SessionLifetime, MaxTime,
      MaxRestarts} \subseteq Nat
  /\ MaxTracked \in Nat \ {0}
  /\ FirstLockout > 0 /\ FirstLockout <= MaxLockout /\ MaxLockout < ForgetAfter

VARIABLES now,
          password,   \* the configured one
          strikes,    \* strikes[h], for the addresses in the table
          cookie,     \* the sessions h's browser holds, one at most
          wrong,      \* when h's wrong passwords were heard, one run (not in the code)
          earned,     \* the last login of h that was allowed (not in the code)
          restarts

vars == <<now, password, strikes, cookie, wrong, earned, restarts>>

Instant == 0..MaxTime

Strike == [failures : Nat \ {0}, last : Instant, until : Nat]
Cookie == [expires : Nat, key : Password]
Login  == [at : Instant, key : Password]

Init == /\ now = 0
        /\ password \in Password
        /\ strikes = [h \in {} |-> 0]
        /\ cookie = [h \in Browser |-> {}]
        /\ wrong = [h \in Host |-> <<>>]
        /\ earned = [h \in Browser |-> {}]
        /\ restarts = 0

Tick == /\ now < MaxTime
        /\ now' = now + 1
        /\ UNCHANGED <<password, strikes, cookie, wrong, earned, restarts>>

-----------------------------------------------------------------------------
\* The lockout.

Tracked == DOMAIN strikes

Forgotten(h) == now - strikes[h].last > ForgetAfter

Locked(h) == h \in Tracked /\ now < strikes[h].until

Smaller(i, j) == IF i < j THEN i ELSE j

\* A fault: every lockout is as long as the first.
SameWait(failures) == IF failures > FreeAttempts THEN FirstLockout ELSE 0

\* How long an address has to wait after so many failures.
Wait(failures) ==
  LET over == failures - FreeAttempts
  IN  IF over > 0 THEN Smaller(FirstLockout * 2 ^ Smaller(over - 1, 10), MaxLockout) ELSE 0

\* Faults: the table is emptied while it has room; it is not emptied at all.
DropEverybody == IF Cardinality(Tracked) < MaxTracked - 1 THEN Tracked ELSE {}
KeptAnyway    == IF Cardinality(Tracked) < MaxTracked
                 THEN Tracked
                 ELSE {h \in Tracked : ~(Forgotten(h) /\ now > strikes[h].until)}

\* The addresses prune leaves in the table.
Kept ==
  LET live == {h \in Tracked : ~(Forgotten(h) /\ now > strikes[h].until)}
  IN  IF Cardinality(Tracked) < MaxTracked THEN Tracked
      ELSE IF Cardinality(live) >= MaxTracked THEN {}
      ELSE live

Fresh(h) == h \notin Tracked \/ Forgotten(h)

\* A fault: the failure that begins a run is not counted.
FailuresBefore(h) == IF Fresh(h) THEN 0 ELSE strikes[h].failures + 1

Failures(h) == IF Fresh(h) THEN 1 ELSE strikes[h].failures + 1

\* The table once a wrong password of h is counted.
Count(h) ==
  LET others == IF Fresh(h) THEN Kept ELSE Tracked
      old    == IF Fresh(h) THEN 0 ELSE strikes[h].until
      until  == IF Failures(h) > FreeAttempts THEN now + Wait(Failures(h)) ELSE old
  IN  [k \in others \cup {h} |->
         IF k = h THEN [failures |-> Failures(h), last |-> now, until |-> until] ELSE strikes[k]]

\* Try, with a wrong password and with the right one.
Wrong(h, p) ==
  /\ p # password
  /\ ~Locked(h)
  /\ strikes' = Count(h)
  /\ wrong' = [k \in Host |->
                 IF k = h THEN (IF Fresh(h) THEN <<now>> ELSE Append(wrong[h], now))
                 ELSE IF k \in DOMAIN Count(h) THEN wrong[k] ELSE <<>>]

Right(h, p) ==
  /\ p = password
  /\ ~Locked(h)
  /\ strikes' = [k \in Tracked \ {h} |-> strikes[k]]
  /\ wrong' = [wrong EXCEPT ![h] = <<>>]

-----------------------------------------------------------------------------
\* The requests.

\* A fault: the expiry alone makes a session.
SessionUntilExpiry(c) == now < c.expires

\* validSession: the expiry, signed with the key of the password.
ValidSession(c) == now < c.expires /\ c.key = password

\* handleLogin: the right password earns a session.
SignIn(h, p) ==
  \/ /\ Wrong(h, p)
     /\ UNCHANGED <<now, password, cookie, earned, restarts>>
  \/ /\ Right(h, p)
     /\ cookie' = [cookie EXCEPT ![h] = {[expires |-> now + SessionLifetime, key |-> password]}]
     /\ earned' = [earned EXCEPT ![h] = {[at |-> now, key |-> password]}]
     /\ UNCHANGED <<now, password, restarts>>

\* handleLogout, or the browser drops the session.
SignOut(h) == /\ cookie[h] # {}
              /\ cookie' = [cookie EXCEPT ![h] = {}]
              /\ UNCHANGED <<now, password, strikes, wrong, earned, restarts>>

\* Check lets a request through without a password.
Passes(h) == \/ h \in Local
             \/ h \in Browser /\ \E c \in cookie[h] : ValidSession(c)

\* guarded and handleSession: a request with basic authentication, which Check hands to
\* Try unless it passes anyway.
Request(h, p) == /\ ~Passes(h)
                 /\ Wrong(h, p) \/ Right(h, p)
                 /\ UNCHANGED <<now, password, cookie, earned, restarts>>

\* NewGate, when the node starts with the password it had, or another.
Restart(p) == /\ restarts < MaxRestarts
              /\ restarts' = restarts + 1
              /\ password' = p
              /\ strikes' = [h \in {} |-> 0]
              /\ wrong' = [h \in Host |-> <<>>]
              /\ UNCHANGED <<now, cookie, earned>>

Next == \/ Tick
        \/ \E h \in Browser : SignOut(h) \/ \E p \in Password : SignIn(h, p)
        \/ \E h \in Host, p \in Password : Request(h, p)
        \/ \E p \in Password : Restart(p)

Spec == Init /\ [][Next]_vars

-----------------------------------------------------------------------------
TypeOK == /\ now \in Instant
          /\ password \in Password
          /\ Tracked \subseteq Host
          /\ strikes \in [Tracked -> Strike]
          /\ cookie \in [Browser -> SUBSET Cookie]
          /\ wrong \in [Host -> Seq(Instant)]
          /\ earned \in [Browser -> SUBSET Login]
          /\ restarts \in 0..MaxRestarts

\* "maxTracked bounds the table of addresses": though addresses are only dropped when
\* another one fails, and only the forgotten ones at first.
TableIsBounded == Cardinality(Tracked) <= MaxTracked

\* "Each further failure from the same address doubles how long it has to wait, up to a
\* ceiling": between two wrong passwords that are heard of an address, after the free
\* ones, lies the wait the first of them earned, and no lockout outlasts the ceiling.
WaitsGrow ==
  /\ \A h \in Host : \A i \in (FreeAttempts + 1)..(Len(wrong[h]) - 1) :
       wrong[h][i+1] - wrong[h][i]
         >= Smaller(FirstLockout * 2 ^ (i - FreeAttempts - 1), MaxLockout)
  /\ \A h \in Tracked : strikes[h].until <= strikes[h].last + MaxLockout

\* "After five wrong passwords an address is locked out for a minute" (README.md).
LockedAfterFree ==
  \A h \in Tracked : Len(wrong[h]) >= FreeAttempts => strikes[h].until > strikes[h].last

\* "Losing the count on some guessers is better than holding memory for all of them"
\* (prune): an address that is locked out stays so, whoever else fails, unless the table
\* is full of addresses that are not forgotten, or the node restarts.
LockoutsHold ==
  [][\A h \in Host :
       (Locked(h) /\ ~(h \in DOMAIN strikes' /\ strikes'[h] = strikes[h]))
         => \/ restarts' # restarts
            \/ Cardinality({k \in Tracked : ~Forgotten(k)}) >= MaxTracked]_vars

\* "Changing the password signs everybody out", and thirty days do (sessionKey,
\* sessionLifetime): a session that is valid was earned with the password of now, not
\* long ago, though nothing of it is stored and the node restarts.
SessionsAreEarned ==
  \A h \in Browser : \A c \in cookie[h] :
    ValidSession(c) => \E e \in earned[h] : e.key = password /\ now - e.at < SessionLifetime
=============================================================================
