------------------------------ MODULE Gate_proofs ------------------------------
(***************************************************************************)
(* Proofs about Gate, for every set of addresses, every size of the table  *)
(* and every length of the lockouts.                                       *)
(***************************************************************************)
EXTENDS Gate, FiniteSetTheorems, TLAPS

LEMMA Constants == /\ FreeAttempts \in Nat /\ FirstLockout \in Nat /\ MaxLockout \in Nat
                   /\ ForgetAfter \in Nat /\ SessionLifetime \in Nat /\ MaxTime \in Nat
                   /\ MaxRestarts \in Nat /\ MaxTracked \in Nat /\ MaxTracked > 0
                   /\ FirstLockout > 0 /\ FirstLockout <= MaxLockout
                   /\ MaxLockout < ForgetAfter
                   /\ Local \subseteq Host /\ Browser \subseteq Host
  BY GateAssumption

-----------------------------------------------------------------------------
\* The waits, and the table once a failure is counted.

\* The powers a wait is made of.
LEMMA Powers == \A e \in 0..10 : 2 ^ e \in Nat
<1> TAKE e \in 0..10
<1>1. CASE e = 0  BY <1>1
<1>2. CASE e = 1  BY <1>2
<1>3. CASE e = 2  BY <1>3
<1>4. CASE e = 3  BY <1>4
<1>5. CASE e = 4  BY <1>5
<1>6. CASE e = 5  BY <1>6
<1>7. CASE e = 6  BY <1>7
<1>8. CASE e = 7  BY <1>8
<1>9. CASE e = 8  BY <1>9
<1>10. CASE e = 9  BY <1>10
<1>11. CASE e = 10  BY <1>11
<1> QED
  BY <1>1, <1>2, <1>3, <1>4, <1>5, <1>6, <1>7, <1>8, <1>9, <1>10, <1>11

\* No wait is longer than the ceiling.
LEMMA WaitIsBounded == \A f \in Nat : Wait(f) \in Nat /\ Wait(f) <= MaxLockout
<1> TAKE f \in Nat
<1>1. CASE f > FreeAttempts
  <2> DEFINE e == Smaller(f - FreeAttempts - 1, 10)
  <2>1. e \in 0..10
    BY <1>1, Constants DEF Smaller
  <2>2. 2 ^ e \in Nat
    BY <2>1, Powers
  <2>3. FirstLockout * 2 ^ e \in Nat
    BY <2>2, Constants
  <2>4. Wait(f) = Smaller(FirstLockout * 2 ^ e, MaxLockout)
    BY <1>1, Constants DEF Wait
  <2> HIDE DEF e
  <2> QED
    BY <2>3, <2>4, Constants DEF Smaller
<1>2. CASE ~(f > FreeAttempts)
  BY <1>2, Constants DEF Wait
<1> QED
  BY <1>1, <1>2

\* What prune leaves was there, and leaves room for one more.
LEMMA KeptHasRoom ==
  ASSUME IsFiniteSet(Tracked)
  PROVE  Kept \subseteq Tracked /\ Cardinality(Kept) < MaxTracked
<1>1. CASE Cardinality(Tracked) < MaxTracked
  BY <1>1 DEF Kept
<1>2. CASE ~(Cardinality(Tracked) < MaxTracked)
  <2> DEFINE live == {h \in Tracked : ~(Forgotten(h) /\ now > strikes[h].until)}
  <2>1. IsFiniteSet(live) /\ live \subseteq Tracked
    BY FS_Subset
  <2>2. CASE Cardinality(live) >= MaxTracked
    BY <1>2, <2>2, FS_EmptySet, Constants DEF Kept
  <2>3. CASE ~(Cardinality(live) >= MaxTracked)
    BY <1>2, <2>1, <2>3, FS_CardinalityType, Constants DEF Kept
  <2> QED
    BY <2>2, <2>3
<1> QED
  BY <1>1, <1>2

\* The addresses in the table, and what it says of them, after a failure of h.
Others(h) == IF Fresh(h) THEN Kept ELSE Tracked

LEMMA CountIs ==
  ASSUME NEW h
  PROVE  /\ DOMAIN Count(h) = Others(h) \cup {h}
         /\ Count(h)[h].failures = Failures(h)
         /\ Count(h)[h].last = now
         /\ Count(h)[h].until = IF Failures(h) > FreeAttempts THEN now + Wait(Failures(h))
                                ELSE IF Fresh(h) THEN 0 ELSE strikes[h].until
         /\ Count(h)[h] = [failures |-> Count(h)[h].failures, last |-> Count(h)[h].last,
                           until |-> Count(h)[h].until]
         /\ \A k \in Others(h) \ {h} : Count(h)[k] = strikes[k]
  BY DEF Count, Others

LEMMA OthersAreTracked == Kept \subseteq Tracked /\ \A h : Others(h) \subseteq Tracked
  BY DEF Others, Kept

-----------------------------------------------------------------------------
\* Types.

LEMMA TypeInit == Init => TypeOK
<1> SUFFICES ASSUME Init
             PROVE  TypeOK
  OBVIOUS
<1>1. Tracked = {}
  BY DEF Init, Tracked
<1>2. strikes \in [Tracked -> Strike]
  BY <1>1 DEF Init
<1> QED
  BY <1>1, <1>2, Constants DEF Init, TypeOK, Instant

LEMMA CountType ==
  ASSUME TypeOK, NEW h \in Host
  PROVE  /\ Count(h) \in [DOMAIN Count(h) -> Strike]
         /\ DOMAIN Count(h) \subseteq Host
<1>1. Others(h) \subseteq Tracked /\ Tracked \subseteq Host
  BY OthersAreTracked DEF TypeOK
<1>2. \A k \in Tracked : strikes[k] \in Strike
  BY DEF TypeOK
<1>3. Count(h)[h] \in Strike
  <2>1. Failures(h) \in Nat \ {0}
    BY <1>2 DEF Failures, Fresh, Strike
  <2>2. Wait(Failures(h)) \in Nat
    BY <2>1, WaitIsBounded
  <2>3. ~Fresh(h) => strikes[h].until \in Nat
    BY <1>2 DEF Fresh, Strike
  <2>4. now \in Nat /\ now \in Instant
    BY Constants DEF TypeOK, Instant
  <2>5. Count(h)[h].until \in Nat
    <3>1. Count(h)[h].until = IF Failures(h) > FreeAttempts THEN now + Wait(Failures(h))
                              ELSE IF Fresh(h) THEN 0 ELSE strikes[h].until
      BY CountIs
    <3> QED
      BY <2>2, <2>3, <2>4, <3>1
  <2>6. /\ Count(h)[h].failures = Failures(h)
        /\ Count(h)[h].last = now
        /\ Count(h)[h] = [failures |-> Count(h)[h].failures, last |-> Count(h)[h].last,
                          until |-> Count(h)[h].until]
    BY CountIs
  <2> QED
    BY <2>1, <2>4, <2>5, <2>6 DEF Strike
<1>4. \A k \in DOMAIN Count(h) : Count(h)[k] \in Strike
  BY <1>1, <1>2, <1>3, CountIs
<1>5. Count(h) = [k \in DOMAIN Count(h) |-> Count(h)[k]]
  BY DEF Count
<1>6. DOMAIN Count(h) \subseteq Host
  <2>1. DOMAIN Count(h) = Others(h) \cup {h}
    BY CountIs
  <2> QED
    BY <1>1, <2>1
<1> QED
  BY <1>4, <1>5, <1>6

LEMMA WrongType ==
  ASSUME TypeOK, NEW h \in Host, NEW p \in Password, Wrong(h, p)
  PROVE  /\ Tracked' \subseteq Host
         /\ strikes' \in [Tracked' -> Strike]
         /\ wrong' \in [Host -> Seq(Instant)]
<1>1. strikes' = Count(h)
  BY DEF Wrong
<1>2. wrong' \in [Host -> Seq(Instant)]
  BY DEF Wrong, TypeOK
<1> QED
  BY <1>1, <1>2, CountType DEF Tracked

LEMMA RightType ==
  ASSUME TypeOK, NEW h \in Host, NEW p \in Password, Right(h, p)
  PROVE  /\ Tracked' \subseteq Host
         /\ strikes' \in [Tracked' -> Strike]
         /\ wrong' \in [Host -> Seq(Instant)]
<1>1. Tracked' = Tracked \ {h}
  BY DEF Right, Tracked
<1>2. strikes' \in [Tracked \ {h} -> Strike]
  BY DEF Right, TypeOK
<1>3. wrong' \in [Host -> Seq(Instant)]
  BY DEF Right, TypeOK
<1> QED
  BY <1>1, <1>2, <1>3 DEF TypeOK

LEMMA TypeNext == TypeOK /\ [Next]_vars => TypeOK'
<1> SUFFICES ASSUME TypeOK, [Next]_vars
             PROVE  TypeOK'
  OBVIOUS
<1> USE Constants
<1>1. CASE Tick
  BY <1>1 DEF Tick, TypeOK, Tracked, Instant
<1>2. ASSUME NEW h \in Browser, SignOut(h)
      PROVE  TypeOK'
  BY <1>2 DEF SignOut, TypeOK, Tracked
<1>3. ASSUME NEW h \in Browser, NEW p \in Password, SignIn(h, p)
      PROVE  TypeOK'
  <2>1. CASE Wrong(h, p) /\ UNCHANGED <<now, password, cookie, earned, restarts>>
    BY <2>1, WrongType DEF TypeOK
  <2>2. CASE ~Wrong(h, p) /\ Right(h, p)
    <3>1. [expires |-> now + SessionLifetime, key |-> password] \in Cookie
      BY DEF TypeOK, Instant, Cookie
    <3>2. [at |-> now, key |-> password] \in Login
      BY DEF TypeOK, Login
    <3>3. UNCHANGED <<now, password, restarts>>
      BY <1>3, <2>2 DEF SignIn
    <3>4. cookie' \in [Browser -> SUBSET Cookie] /\ earned' \in [Browser -> SUBSET Login]
      BY <1>3, <2>2, <3>1, <3>2 DEF SignIn, TypeOK
    <3> QED
      BY <2>2, <3>3, <3>4, RightType DEF TypeOK
  <2>3. ~(Wrong(h, p) /\ Right(h, p))
    BY DEF Wrong, Right
  <2> QED
    BY <1>3, <2>1, <2>2, <2>3 DEF SignIn
<1>4. ASSUME NEW h \in Host, NEW p \in Password, Request(h, p)
      PROVE  TypeOK'
  BY <1>4, WrongType, RightType DEF Request, TypeOK
<1>5. ASSUME NEW p \in Password, Restart(p)
      PROVE  TypeOK'
  <2>1. Tracked' = {} /\ strikes' \in [Tracked' -> Strike]
    BY <1>5 DEF Restart, Tracked
  <2> QED
    BY <1>5, <2>1 DEF Restart, TypeOK
<1>6. CASE UNCHANGED vars
  BY <1>6 DEF vars, TypeOK, Tracked
<1> QED
  BY <1>1, <1>2, <1>3, <1>4, <1>5, <1>6 DEF Next

\* The table, the cookies and the logins keep their shape through every request, every
\* change of the password and every restart.
THEOREM GateTypeCorrect == Spec => []TypeOK
  BY TypeInit, TypeNext, PTL DEF Spec

-----------------------------------------------------------------------------
\* The inductive invariant.

\* The table is finite, and has its bound.
Bounded == IsFiniteSet(Tracked) /\ Cardinality(Tracked) <= MaxTracked

\* No lockout outlasts the ceiling.
Ceiling == \A h \in Tracked : strikes[h].until <= strikes[h].last + MaxLockout

\* The wrong passwords that were heard of an address in one run are those the table
\* counts, and it is locked for the wait the last of them earned.
Counted(h) ==
  /\ h \notin Tracked => wrong[h] = <<>>
  /\ h \in Tracked => /\ Len(wrong[h]) = strikes[h].failures
                      /\ wrong[h][Len(wrong[h])] = strikes[h].last
                      /\ strikes[h].failures > FreeAttempts
                           => strikes[h].until >= strikes[h].last + Wait(strikes[h].failures)

\* Between two of them lies the wait the first of the two earned.
Spaced(h) ==
  \A i \in (FreeAttempts + 1)..(Len(wrong[h]) - 1) : wrong[h][i+1] - wrong[h][i] >= Wait(i)

Runs == \A h \in Host : Counted(h) /\ Spaced(h)

\* Every session is the one its browser's last login was given.
Granted ==
  \A h \in Browser : \A c \in cookie[h] :
    \E e \in earned[h] : c.key = e.key /\ c.expires = e.at + SessionLifetime

Inv == TypeOK /\ Bounded /\ Ceiling /\ Runs /\ Granted

LEMMA InvInit == Init => Inv
<1> SUFFICES ASSUME Init
             PROVE  Inv
  OBVIOUS
<1>1. Tracked = {}
  BY DEF Init, Tracked
<1>2. Bounded
  BY <1>1, FS_EmptySet, Constants DEF Bounded
<1>3. Ceiling
  BY <1>1 DEF Ceiling
<1>4. \A h \in Host : wrong[h] = <<>>
  BY DEF Init
<1>5. Runs
  <2> SUFFICES ASSUME NEW h \in Host
               PROVE  Counted(h) /\ Spaced(h)
    BY DEF Runs
  <2>1. Counted(h)
    BY <1>1, <1>4 DEF Counted
  <2>2. Spaced(h)
    BY <1>4, Constants DEF Spaced
  <2> QED
    BY <2>1, <2>2
<1>6. Granted
  BY DEF Init, Granted
<1> QED
  BY <1>2, <1>3, <1>5, <1>6, TypeInit DEF Inv

\* A wrong password.
LEMMA WrongKeeps ==
  ASSUME Inv, NEW h \in Host, NEW p \in Password, Wrong(h, p)
  PROVE  Bounded' /\ Ceiling' /\ Runs'
<1> USE Constants DEF Inv
<1>1. strikes' = Count(h) /\ ~Locked(h)
  BY DEF Wrong
<1>2. Tracked' = Others(h) \cup {h}
  BY <1>1, CountIs DEF Tracked
<1>3. Others(h) \subseteq Tracked /\ Tracked \subseteq Host
  BY OthersAreTracked DEF TypeOK
<1>4. \A k \in Others(h) \ {h} : strikes'[k] = strikes[k]
  BY <1>1, CountIs
<1>5. /\ strikes'[h].failures = Failures(h)
      /\ strikes'[h].last = now
      /\ strikes'[h].until = IF Failures(h) > FreeAttempts THEN now + Wait(Failures(h))
                             ELSE IF Fresh(h) THEN 0 ELSE strikes[h].until
  BY <1>1, CountIs
<1>6. now \in Nat /\ now \in Instant
  BY DEF TypeOK, Instant
<1>7. \A k \in Tracked : /\ strikes[k].failures \in Nat \ {0}
                         /\ strikes[k].last \in 0..MaxTime
                         /\ strikes[k].until \in Nat
  BY DEF TypeOK, Strike, Instant
<1>8. Failures(h) \in Nat \ {0}
  BY <1>7 DEF Failures, Fresh
<1>9. Bounded'
  <2>1. CASE Fresh(h)
    <3>1. IsFiniteSet(Kept) /\ Cardinality(Kept) < MaxTracked
      BY KeptHasRoom, FS_Subset DEF Bounded
    <3>2. Tracked' = Kept \cup {h}
      BY <1>2, <2>1 DEF Others
    <3>3. IsFiniteSet(Tracked') /\ Cardinality(Tracked') <= Cardinality(Kept) + 1
      <4>1. /\ IsFiniteSet(Kept \cup {h})
            /\ Cardinality(Kept \cup {h}) = IF h \in Kept THEN Cardinality(Kept)
                                            ELSE Cardinality(Kept) + 1
        BY <3>1, FS_AddElement
      <4>2. Cardinality(Kept) \in Nat
        BY <3>1, FS_CardinalityType
      <4> QED
        BY <3>2, <4>1, <4>2
    <3> QED
      BY <3>1, <3>3, FS_CardinalityType DEF Bounded
  <2>2. CASE ~Fresh(h)
    BY <1>2, <2>2 DEF Others, Fresh, Bounded
  <2> QED
    BY <2>1, <2>2
<1>10. Ceiling'
  <2>1. strikes'[h].until <= now + MaxLockout
    <3>1. Wait(Failures(h)) \in Nat /\ Wait(Failures(h)) <= MaxLockout
      BY <1>8, WaitIsBounded
    <3>2. CASE Failures(h) > FreeAttempts
      BY <1>5, <1>6, <3>1, <3>2
    <3>3. CASE ~(Failures(h) > FreeAttempts) /\ Fresh(h)
      BY <1>5, <1>6, <3>3
    <3>4. CASE ~(Failures(h) > FreeAttempts) /\ ~Fresh(h)
      BY <1>1, <1>5, <1>6, <1>7, <3>4 DEF Fresh, Locked
    <3> QED
      BY <3>2, <3>3, <3>4
  <2>2. \A k \in Tracked' \ {h} : strikes'[k].until <= strikes'[k].last + MaxLockout
    BY <1>2, <1>3, <1>4 DEF Ceiling
  <2> QED
    BY <1>2, <1>5, <2>1, <2>2 DEF Ceiling
<1>11. ASSUME NEW k \in Host
       PROVE  Counted(k)' /\ Spaced(k)'
  <2>1. CASE k # h
    <3>1. wrong'[k] = IF k \in Tracked' THEN wrong[k] ELSE <<>>
      BY <1>1, <2>1 DEF Wrong, Tracked
    <3>2. CASE k \in Tracked'
      <4>1. k \in Others(h) \ {h} /\ k \in Tracked
        BY <1>2, <1>3, <2>1, <3>2
      <4>2. strikes'[k] = strikes[k] /\ wrong'[k] = wrong[k]
        BY <1>4, <3>1, <3>2, <4>1
      <4> QED
        BY <3>2, <4>1, <4>2 DEF Runs, Counted, Spaced
    <3>3. CASE k \notin Tracked'
      <4>1. wrong'[k] = <<>>
        BY <3>1, <3>3
      <4> QED
        BY <3>3, <4>1 DEF Counted, Spaced
    <3> QED
      BY <3>2, <3>3
  <2>2. CASE k = h /\ Fresh(h)
    <3>1. wrong'[h] = <<now>> /\ Failures(h) = 1
      BY <2>2 DEF Wrong, Failures
    <3>2. Len(wrong'[h]) = 1 /\ wrong'[h][1] = now
      BY <3>1
    <3>3. Counted(h)'
      BY <1>2, <1>5, <1>6, <1>8, <3>1, <3>2, WaitIsBounded DEF Counted
    <3>4. Spaced(h)'
      BY <3>2 DEF Spaced
    <3> QED
      BY <2>2, <3>3, <3>4
  <2>3. CASE k = h /\ ~Fresh(h)
    <3> DEFINE old == wrong[h]
               len == Len(wrong[h])
    <3>1. wrong'[h] = Append(old, now) /\ Failures(h) = len + 1 /\ h \in Tracked
      BY <2>3 DEF Wrong, Failures, Fresh, Runs, Counted
    <3>2. old \in Seq(Instant) /\ len = strikes[h].failures /\ old[len] = strikes[h].last
      BY <3>1 DEF TypeOK, Runs, Counted
    <3>3. /\ len \in Nat \ {0}
          /\ Len(wrong'[h]) = len + 1
          /\ wrong'[h][len + 1] = now
          /\ \A i \in 1..len : wrong'[h][i] = old[i]
      BY <1>6, <1>7, <3>1, <3>2
    <3>4. Counted(h)'
      <4>1. h \in Tracked' /\ Len(wrong'[h]) = strikes'[h].failures
        BY <1>2, <1>5, <3>1, <3>3
      <4>2. wrong'[h][Len(wrong'[h])] = strikes'[h].last
        BY <1>5, <3>3
      <4>3. strikes'[h].failures > FreeAttempts
              => strikes'[h].until >= strikes'[h].last + Wait(strikes'[h].failures)
        <5>1. Wait(Failures(h)) \in Nat
          BY <1>8, WaitIsBounded
        <5> QED
          BY <1>5, <1>6, <1>8, <5>1
      <4> QED
        BY <4>1, <4>2, <4>3 DEF Counted
    <3>5. ASSUME len > FreeAttempts
          PROVE  now - old[len] >= Wait(len)
      <4>1. strikes[h].until >= strikes[h].last + Wait(len) /\ now >= strikes[h].until
        BY <1>1, <1>6, <1>7, <3>1, <3>2, <3>5 DEF Runs, Counted, Locked
      <4>2. Wait(len) \in Nat
        BY <3>3, WaitIsBounded
      <4> QED
        BY <1>6, <1>7, <3>1, <3>2, <4>1, <4>2
    <3>6. Spaced(h)'
      <4> SUFFICES ASSUME NEW i \in (FreeAttempts + 1)..len
                   PROVE  wrong'[h][i+1] - wrong'[h][i] >= Wait(i)
        BY <3>3 DEF Spaced
      <4>1. CASE i = len
        BY <3>3, <3>5, <4>1
      <4>2. CASE i # len
        <5>1. i \in 1..len /\ i + 1 \in 1..len /\ i \in (FreeAttempts + 1)..(len - 1)
          BY <3>3, <4>2
        <5> QED
          BY <3>3, <5>1 DEF Runs, Spaced
      <4> QED
        BY <4>1, <4>2
    <3> QED
      BY <2>3, <3>4, <3>6
  <2> QED
    BY <2>1, <2>2, <2>3
<1> QED
  BY <1>9, <1>10, <1>11 DEF Runs

\* The right one.
LEMMA RightKeeps ==
  ASSUME Inv, NEW h \in Host, NEW p \in Password, Right(h, p)
  PROVE  Bounded' /\ Ceiling' /\ Runs'
<1> USE DEF Inv
<1>1. /\ Tracked' = Tracked \ {h}
      /\ \A k \in Tracked' : strikes'[k] = strikes[k]
  BY DEF Right, Tracked
<1>2. Bounded'
  <2>1. /\ IsFiniteSet(Tracked \ {h})
        /\ Cardinality(Tracked \ {h}) = IF h \in Tracked THEN Cardinality(Tracked) - 1
                                        ELSE Cardinality(Tracked)
    BY FS_RemoveElement DEF Bounded
  <2>2. Cardinality(Tracked) \in Nat
    BY FS_CardinalityType DEF Bounded
  <2> QED
    BY <1>1, <2>1, <2>2, Constants DEF Bounded
<1>3. Ceiling'
  BY <1>1 DEF Ceiling
<1>4. wrong'[h] = <<>> /\ \A k \in Host \ {h} : wrong'[k] = wrong[k]
  BY DEF Right, TypeOK
<1>5. Counted(h)' /\ Spaced(h)'
  BY <1>1, <1>4, Constants DEF Counted, Spaced
<1>6. \A k \in Host \ {h} : Counted(k)' /\ Spaced(k)'
  BY <1>1, <1>4 DEF Runs, Counted, Spaced
<1> QED
  BY <1>2, <1>3, <1>5, <1>6 DEF Runs

LEMMA InvNext == Inv /\ [Next]_vars => Inv'
<1> SUFFICES ASSUME Inv, [Next]_vars
             PROVE  Inv'
  OBVIOUS
<1>1. TypeOK'
  BY TypeNext DEF Inv
<1>2. ASSUME UNCHANGED <<strikes, wrong>>
      PROVE  Bounded' /\ Ceiling' /\ Runs'
  BY <1>2 DEF Inv, Bounded, Ceiling, Runs, Counted, Spaced, Tracked
<1>3. ASSUME UNCHANGED <<cookie, earned>>
      PROVE  Granted'
  BY <1>3 DEF Inv, Granted
<1>4. CASE Tick
  BY <1>1, <1>2, <1>3, <1>4 DEF Tick, Inv
<1>5. ASSUME NEW h \in Browser, SignOut(h)
      PROVE  Inv'
  <2>1. Granted'
    BY <1>5 DEF SignOut, Inv, TypeOK, Granted
  <2> QED
    BY <1>1, <1>2, <1>5, <2>1 DEF SignOut, Inv
<1>6. ASSUME NEW h \in Browser, NEW p \in Password, SignIn(h, p)
      PROVE  Inv'
  <2>1. Wrong(h, p) \/ Right(h, p)
    BY <1>6 DEF SignIn
  <2>2. Bounded' /\ Ceiling' /\ Runs'
    BY <2>1, WrongKeeps, RightKeeps, Constants
  <2>3. Granted'
    <3>1. CASE UNCHANGED <<cookie, earned>>
      BY <1>3, <3>1
    <3>2. CASE ~UNCHANGED <<cookie, earned>>
      <4>1. /\ cookie' = [cookie EXCEPT ![h] = {[expires |-> now + SessionLifetime,
                                                 key |-> password]}]
            /\ earned' = [earned EXCEPT ![h] = {[at |-> now, key |-> password]}]
        BY <1>6, <3>2 DEF SignIn
      <4>2. /\ cookie'[h] = {[expires |-> now + SessionLifetime, key |-> password]}
            /\ earned'[h] = {[at |-> now, key |-> password]}
        BY <4>1 DEF Inv, TypeOK
      <4>3. \A k \in Browser \ {h} : cookie'[k] = cookie[k] /\ earned'[k] = earned[k]
        BY <4>1 DEF Inv, TypeOK
      <4>4. \A c \in cookie'[h] : \E e \in earned'[h] :
              c.key = e.key /\ c.expires = e.at + SessionLifetime
        BY <4>2
      <4> QED
        BY <4>3, <4>4 DEF Inv, Granted
    <3> QED
      BY <3>1, <3>2
  <2> QED
    BY <1>1, <2>2, <2>3 DEF Inv
<1>7. ASSUME NEW h \in Host, NEW p \in Password, Request(h, p)
      PROVE  Inv'
  BY <1>1, <1>3, <1>7, WrongKeeps, RightKeeps DEF Request, Inv
<1>8. ASSUME NEW p \in Password, Restart(p)
      PROVE  Inv'
  <2>1. Tracked' = {} /\ \A h \in Host : wrong'[h] = <<>>
    BY <1>8 DEF Restart, Tracked
  <2>2. Bounded'
    BY <2>1, FS_EmptySet, Constants DEF Bounded
  <2>3. Ceiling' /\ Runs'
    BY <2>1, Constants DEF Ceiling, Runs, Counted, Spaced
  <2> QED
    BY <1>1, <1>3, <1>8, <2>2, <2>3 DEF Restart, Inv
<1>9. CASE UNCHANGED vars
  BY <1>1, <1>2, <1>3, <1>9 DEF vars, Inv
<1> QED
  BY <1>4, <1>5, <1>6, <1>7, <1>8, <1>9 DEF Next

\* The inductive invariant holds, through changed passwords and restarts.
THEOREM GateInvariant == Spec => []Inv
  BY InvInit, InvNext, PTL DEF Spec

-----------------------------------------------------------------------------
\* The properties.

\* "maxTracked bounds the table of addresses", however many fail and in whatever order
\* (prune).
THEOREM TableStaysBounded == Spec => []TableIsBounded
<1>1. Inv => TableIsBounded
  BY DEF Inv, Bounded, TableIsBounded
<1> QED
  BY <1>1, GateInvariant, PTL

\* A session that is valid was earned with the password of now, within its lifetime
\* (validSession, sessionKey).
THEOREM SessionsComeFromLogins == Spec => []SessionsAreEarned
<1>1. Inv => SessionsAreEarned
  <2> SUFFICES ASSUME Inv, NEW h \in Browser, NEW c \in cookie[h], ValidSession(c)
               PROVE  \E e \in earned[h] : e.key = password /\ now - e.at < SessionLifetime
    BY DEF SessionsAreEarned
  <2>1. PICK e \in earned[h] : c.key = e.key /\ c.expires = e.at + SessionLifetime
    BY DEF Inv, Granted
  <2>2. now \in Nat /\ e.at \in Nat
    BY Constants DEF Inv, TypeOK, Instant, Login
  <2>3. e.key = password /\ now - e.at < SessionLifetime
    BY <2>1, <2>2, Constants DEF ValidSession
  <2> QED
    BY <2>3
<1> QED
  BY <1>1, GateInvariant, PTL

\* Where ten doublings reach the ceiling, as they do from a minute to an hour
\* (firstLockout, maxLockout), the cut of the exponent in Try loses nothing.
LEMMA WaitIsEarned ==
  ASSUME MaxLockout <= FirstLockout * 1024, NEW f \in Nat, f > FreeAttempts
  PROVE  Wait(f) >= Smaller(FirstLockout * 2 ^ (f - FreeAttempts - 1), MaxLockout)
<1> DEFINE e == f - FreeAttempts - 1
<1>1. e \in Nat
  BY Constants
<1>2. Wait(f) = Smaller(FirstLockout * 2 ^ Smaller(e, 10), MaxLockout)
  BY Constants DEF Wait
<1>3. CASE e < 10
  <2>1. 2 ^ e \in Nat
    <3>1. e \in 0..10
      BY <1>1, <1>3, Constants
    <3> HIDE DEF e
    <3> QED
      BY <3>1, Powers
  <2>2. FirstLockout * 2 ^ e \in Nat
    BY <2>1, Constants
  <2>3. Smaller(e, 10) = e
    BY <1>3 DEF Smaller
  <2> HIDE DEF e
  <2>4. Wait(f) = Smaller(FirstLockout * 2 ^ e, MaxLockout)
    BY <1>2, <2>3
  <2>5. Smaller(FirstLockout * 2 ^ e, MaxLockout) \in Nat
    BY <2>2, Constants DEF Smaller
  <2>6. Wait(f) >= Smaller(FirstLockout * 2 ^ e, MaxLockout)
    BY <2>4, <2>5
  <2> QED
    BY <2>6 DEF e
<1>4. CASE ~(e < 10)
  <2>1. Smaller(e, 10) = 10
    BY <1>1, <1>4 DEF Smaller
  <2>2. 2 ^ 10 = 1024
    OBVIOUS
  <2> HIDE DEF e
  <2>3. Wait(f) = Smaller(FirstLockout * 1024, MaxLockout)
    <3>1. Wait(f) = Smaller(FirstLockout * 2 ^ 10, MaxLockout)
      BY <1>2, <2>1, Zenon
    <3> QED
      BY <2>2, <3>1
  <2>4. Wait(f) = MaxLockout
    BY <2>3, Constants DEF Smaller
  <2>5. 2 ^ e \in Int
    BY <1>1
  <2>6. FirstLockout * 2 ^ e \in Int
    BY <2>5, Constants
  <2>7. Wait(f) >= Smaller(FirstLockout * 2 ^ e, MaxLockout)
    BY <2>4, <2>6, Constants DEF Smaller
  <2> QED
    BY <2>7 DEF e
<1> QED
  BY <1>3, <1>4

\* Each further failure doubles how long an address has to wait, up to the ceiling that no
\* lockout outlasts (Try), whatever else happened to the table meanwhile.
THEOREM LockoutsGrow ==
  ASSUME MaxLockout <= FirstLockout * 1024
  PROVE  Spec => []WaitsGrow
<1>1. Inv => WaitsGrow
  <2> SUFFICES ASSUME Inv
               PROVE  WaitsGrow
    OBVIOUS
  <2>1. ASSUME NEW h \in Host, NEW i \in (FreeAttempts + 1)..(Len(wrong[h]) - 1)
        PROVE  wrong[h][i+1] - wrong[h][i]
                 >= Smaller(FirstLockout * 2 ^ (i - FreeAttempts - 1), MaxLockout)
    <3>1. wrong[h] \in Seq(Instant) /\ Len(wrong[h]) \in Nat
      BY DEF Inv, TypeOK
    <3>2. i \in Nat /\ i > FreeAttempts /\ i \in 1..Len(wrong[h]) /\ i + 1 \in 1..Len(wrong[h])
      BY <3>1, Constants
    <3>3. wrong[h][i+1] - wrong[h][i] \in Int
      BY <3>1, <3>2, Constants DEF Instant
    <3>4. wrong[h][i+1] - wrong[h][i] >= Wait(i)
      BY DEF Inv, Runs, Spaced
    <3> DEFINE w == Smaller(FirstLockout * 2 ^ (i - FreeAttempts - 1), MaxLockout)
    <3>5. Wait(i) \in Nat /\ Wait(i) >= w
      BY <3>2, WaitIsBounded, WaitIsEarned
    <3>6. w \in Int
      <4>1. 2 ^ (i - FreeAttempts - 1) \in Int
        BY <3>2, Constants
      <4>2. FirstLockout * 2 ^ (i - FreeAttempts - 1) \in Int
        BY <4>1, Constants
      <4> QED
        BY <4>2, Constants DEF Smaller
    <3> QED
      BY <3>3, <3>4, <3>5, <3>6
  <2>2. \A h \in Tracked : strikes[h].until <= strikes[h].last + MaxLockout
    BY DEF Inv, Ceiling
  <2> QED
    BY <2>1, <2>2 DEF WaitsGrow
<1> QED
  BY <1>1, GateInvariant, PTL

\* Since no lockout outlasts the ceiling, prune forgets nobody who is locked out.
LEMMA StepHolds ==
  ASSUME Inv, [Next]_vars, NEW h \in Host, Locked(h),
         ~(h \in DOMAIN strikes' /\ strikes'[h] = strikes[h])
  PROVE  restarts' # restarts \/ Cardinality({k \in Tracked : ~Forgotten(k)}) >= MaxTracked
<1> USE Constants
<1>1. CASE UNCHANGED strikes
  BY <1>1 DEF Locked, Tracked
<1>2. ASSUME NEW k \in Host, NEW p \in Password, Right(k, p)
      PROVE  FALSE
  <2>1. k # h
    BY <1>2 DEF Right
  <2> QED
    BY <1>2, <2>1 DEF Right, Locked, Tracked
<1>3. ASSUME NEW k \in Host, NEW p \in Password, Wrong(k, p)
      PROVE  Cardinality({j \in Tracked : ~Forgotten(j)}) >= MaxTracked
  <2>1. k # h /\ strikes' = Count(k) /\ h \in Tracked
    BY <1>3 DEF Wrong, Locked
  <2>2. h \notin Others(k)
    <3> SUFFICES ASSUME h \in Others(k)
                 PROVE  FALSE
      OBVIOUS
    <3>1. h \in DOMAIN Count(k) /\ Count(k)[h] = strikes[h]
      BY <2>1 DEF Count, Others
    <3> QED
      BY <2>1, <3>1
  <2> DEFINE live == {j \in Tracked : ~(Forgotten(j) /\ now > strikes[j].until)}
  <2>3. h \notin Kept
    BY <2>1, <2>2 DEF Others
  <2>4. h \in live
    <3>1. strikes[h].until \in Nat /\ now \in Nat
      BY <2>1 DEF Inv, TypeOK, Strike, Instant
    <3> QED
      BY <2>1, <3>1 DEF Locked
  <2>5. Cardinality(live) >= MaxTracked
    BY <2>1, <2>3, <2>4 DEF Kept
  <2>6. live = {j \in Tracked : ~Forgotten(j)}
    <3> SUFFICES ASSUME NEW j \in Tracked, Forgotten(j)
                 PROVE  now > strikes[j].until
      OBVIOUS
    <3>1. strikes[j].until \in Nat /\ strikes[j].last \in Nat /\ now \in Nat
      BY DEF Inv, TypeOK, Strike, Instant
    <3>2. strikes[j].until <= strikes[j].last + MaxLockout
      BY DEF Inv, Ceiling
    <3> QED
      BY <3>1, <3>2 DEF Forgotten
  <2> QED
    BY <2>5, <2>6
<1>4. \/ UNCHANGED strikes
      \/ \E k \in Host, p \in Password : Wrong(k, p) \/ Right(k, p)
      \/ restarts' # restarts
  <2>1. CASE Tick
    BY <2>1 DEF Tick
  <2>2. ASSUME NEW k \in Browser, SignOut(k)
        PROVE  UNCHANGED strikes
    BY <2>2 DEF SignOut
  <2>3. ASSUME NEW k \in Browser, NEW p \in Password, SignIn(k, p)
        PROVE  k \in Host /\ (Wrong(k, p) \/ Right(k, p))
    BY <2>3 DEF SignIn
  <2>4. ASSUME NEW k \in Host, NEW p \in Password, Request(k, p)
        PROVE  Wrong(k, p) \/ Right(k, p)
    BY <2>4 DEF Request
  <2>5. ASSUME NEW p \in Password, Restart(p)
        PROVE  restarts' # restarts
    BY <2>5 DEF Restart, Inv, TypeOK
  <2>6. CASE UNCHANGED vars
    BY <2>6 DEF vars
  <2> QED
    BY <2>1, <2>2, <2>3, <2>4, <2>5, <2>6 DEF Next
<1> QED
  BY <1>1, <1>2, <1>3, <1>4

\* An address that is locked out stays so, whoever else fails, unless the table is full of
\* addresses that are not forgotten, or the node restarts (prune).
THEOREM LockoutsAreKept == Spec => LockoutsHold
<1>1. Inv /\ [Next]_vars =>
        [\A h \in Host :
           (Locked(h) /\ ~(h \in DOMAIN strikes' /\ strikes'[h] = strikes[h]))
             => \/ restarts' # restarts
                \/ Cardinality({k \in Tracked : ~Forgotten(k)}) >= MaxTracked]_vars
  BY StepHolds
<1> QED
  BY <1>1, GateInvariant, PTL DEF Spec, LockoutsHold

=============================================================================
