---------------------------- MODULE Volumes_proofs ----------------------------
(***************************************************************************)
(* Proofs about Volumes, for every set of drives and writers and every     *)
(* number of sweeps and restarts.                                          *)
(***************************************************************************)
EXTENDS Volumes, TLAPS

\* A writer that missed the cache is asking about some drive.
AskingAboutDrives == \A w \in Writer : job[w].step = "missed" => job[w].drive \in Drive

\* Numbers in use were handed out before.
Numbered == \A v \in InUse : v.id < next

NumberInv == TypeOK /\ AskingAboutDrives /\ Numbered /\ NumberMeansOneDrive

\* An answer that has not entered the cache yet is a row, or a sweep has come
\* between.
AnswersFollowSweep ==
  \A w \in Writer : job[w].step = "answered" =>
     \A v \in job[w].about : /\ v.drive = job[w].drive
                             /\ v \in table \/ clearing \/ v.drive \in overtaken

CacheInv == TypeOK /\ AskingAboutDrives /\ AnswersFollowSweep /\ CacheFollowsSweep

-----------------------------------------------------------------------------
\* The type invariant.

LEMMA JobTypes ==
  /\ Idle \in Job
  /\ \A j \in Job, D \in SUBSET Drive : [Idle EXCEPT !.left = D, !.step = "asking"] \in Job
  /\ \A j \in Job, d \in Drive : [j EXCEPT !.step = "missed", !.drive = d] \in Job
  BY DEF Idle, Job

LEMMA ResolvedType ==
  ASSUME TypeOK, NEW w \in Writer, NEW v \in Volume
  PROVE  /\ Resolved(w, v) \in Job
         /\ Resolved(w, v).got = job[w].got \cup {v}
         /\ Resolved(w, v).about = {}
         /\ Resolved(w, v).step = "asking"
<1>1. job[w] \in Job
  BY DEF TypeOK
<1>2. v.drive \in Drive
  BY DEF Volume
<1> QED
  BY <1>1, <1>2 DEF Resolved, Job

LEMMA LookupJob ==
  ASSUME TypeOK, NEW w \in Writer, NEW d \in Drive, Lookup(w, d)
  PROVE  \/ /\ cache[d] # NoId
            /\ [id |-> cache[d], drive |-> d] \in Volume
            /\ job' = [job EXCEPT ![w] = Resolved(w, [id |-> cache[d], drive |-> d])]
         \/ job' = [job EXCEPT ![w] = [job[w] EXCEPT !.step = "missed", !.drive = d]]
<1>1. cache[d] # NoId => [id |-> cache[d], drive |-> d] \in Volume
  BY DEF TypeOK, Volume
<1> QED
  BY <1>1 DEF Lookup

LEMMA RegisterJob ==
  ASSUME TypeOK, AskingAboutDrives, NEW w \in Writer, Register(w)
  PROVE  LET d     == job[w].drive
             fresh == [id |-> next, drive |-> d]
         IN  /\ d \in Drive
             /\ \/ /\ RowsOf(d) = {}
                   /\ fresh \in Volume
                   /\ table' = table \cup {fresh}
                   /\ next' = next + 1
                   /\ next <= MaxId
                   /\ job' = [job EXCEPT ![w] = [job[w] EXCEPT !.step = "answered", !.about = {fresh}]]
                \/ /\ RowsOf(d) # {}
                   /\ table' = table
                   /\ next' = next
                   /\ job' = [job EXCEPT ![w] = [job[w] EXCEPT !.step = "answered", !.about = RowsOf(d)]]
<1> DEFINE d     == job[w].drive
           fresh == [id |-> next, drive |-> d]
<1>1. d \in Drive
  BY DEF AskingAboutDrives, Register
<1>2. job \in [Writer -> Job] /\ next \in 1..(MaxId + 1)
  BY DEF TypeOK
<1>3. CASE RowsOf(d) = {}
  <2>1. next <= MaxId
    BY <1>3 DEF Register
  <2>2. fresh \in Volume
    BY <1>1, <1>2, <2>1, VolumesAssumption DEF Volume, Id
  <2> QED
    BY <1>1, <1>2, <1>3, <2>1, <2>2 DEF Register, NewId
<1>4. CASE RowsOf(d) # {}
  BY <1>1, <1>2, <1>4 DEF Register
<1> QED
  BY <1>3, <1>4

LEMMA TypeInit == Init => TypeOK /\ AskingAboutDrives
<1> SUFFICES ASSUME Init PROVE TypeOK /\ AskingAboutDrives
  OBVIOUS
<1>1. Idle \in Job /\ Idle.step = "idle"
  BY JobTypes DEF Idle
<1>2. job = [w \in Writer |-> Idle]
  BY DEF Init
<1>3. job \in [Writer -> Job] /\ AskingAboutDrives
  <2> HIDE DEF Idle
  <2> QED
    BY <1>1, <1>2 DEF AskingAboutDrives
<1>4. next \in 1..(MaxId + 1) /\ restarts \in 0..MaxRestarts
  BY VolumesAssumption DEF Init
<1>5. /\ table \subseteq Volume /\ readings \subseteq Volume /\ overtaken \subseteq Drive
      /\ clearing \in BOOLEAN /\ cache \in [Drive -> Id \cup {NoId}]
  BY DEF Init
<1> QED
  BY <1>3, <1>4, <1>5 DEF TypeOK

LEMMA TypeNext ==
  ASSUME TypeOK, AskingAboutDrives, [Next]_vars
  PROVE  TypeOK' /\ AskingAboutDrives'
<1> USE DEF TypeOK, AskingAboutDrives
<1>1. ASSUME NEW w \in Writer, NEW D \in SUBSET Drive \ {{}}, Begin(w, D)
      PROVE  TypeOK' /\ AskingAboutDrives'
  <2>1. [Idle EXCEPT !.left = D, !.step = "asking"] \in Job
    BY JobTypes DEF Idle, Job
  <2>2. [Idle EXCEPT !.left = D, !.step = "asking"].step = "asking"
    BY DEF Idle
  <2> HIDE DEF Idle
  <2> QED
    BY <1>1, <2>1, <2>2 DEF Begin
<1>2. ASSUME NEW w \in Writer, NEW d \in Drive, Lookup(w, d)
      PROVE  TypeOK' /\ AskingAboutDrives'
  <2>1. [job[w] EXCEPT !.step = "missed", !.drive = d] \in Job
    BY JobTypes
  <2>2. [job[w] EXCEPT !.step = "missed", !.drive = d].drive = d
    BY DEF Job
  <2>3. UNCHANGED <<table, next, cache, readings, clearing, overtaken, restarts>>
    BY <1>2 DEF Lookup
  <2>4. PICK j \in Job : /\ j.step = "missed" => j.drive \in Drive
                         /\ job' = [job EXCEPT ![w] = j]
    <3> DEFINE v == [id |-> cache[d], drive |-> d]
    <3>1. CASE v \in Volume /\ job' = [job EXCEPT ![w] = Resolved(w, v)]
      <4>1. Resolved(w, v) \in Job /\ Resolved(w, v).step = "asking"
        BY <3>1, ResolvedType
      <4> QED
        BY <3>1, <4>1
    <3>2. CASE job' = [job EXCEPT ![w] = [job[w] EXCEPT !.step = "missed", !.drive = d]]
      BY <2>1, <2>2, <3>2
    <3> QED
      BY <1>2, <3>1, <3>2, LookupJob
  <2> QED
    BY <2>3, <2>4
<1>3. ASSUME NEW w \in Writer, Register(w)
      PROVE  TypeOK' /\ AskingAboutDrives'
  <2> DEFINE d == job[w].drive
             fresh == [id |-> next, drive |-> d]
             new(a) == [job[w] EXCEPT !.step = "answered", !.about = a]
  <2>1. \A a \in SUBSET Volume : new(a) \in Job /\ new(a).step = "answered"
    BY DEF Job
  <2>2. RowsOf(d) \subseteq Volume
    BY DEF RowsOf
  <2>3. CASE /\ fresh \in Volume
             /\ table' = table \cup {fresh}
             /\ next' = next + 1
             /\ next <= MaxId
             /\ job' = [job EXCEPT ![w] = new({fresh})]
    <3>1. next' \in 1..(MaxId + 1)
      BY <2>3, VolumesAssumption
    <3>2. new({fresh}) \in Job /\ new({fresh}).step = "answered"
      BY <2>1, <2>3
    <3> HIDE DEF new, fresh
    <3> QED
      BY <1>3, <2>3, <3>1, <3>2 DEF Register
  <2>4. CASE /\ table' = table
             /\ next' = next
             /\ job' = [job EXCEPT ![w] = new(RowsOf(d))]
    <3>2. new(RowsOf(d)) \in Job /\ new(RowsOf(d)).step = "answered"
      BY <2>1, <2>2
    <3> HIDE DEF new
    <3> QED
      BY <1>3, <2>4, <3>2 DEF Register
  <2> QED
    BY <1>3, <2>3, <2>4, RegisterJob
<1>4. ASSUME NEW w \in Writer, Remember(w)
      PROVE  TypeOK' /\ AskingAboutDrives'
  <2>1. PICK v \in job[w].about : /\ cache' = [cache EXCEPT ![v.drive] = v.id]
                                  /\ job' = [job EXCEPT ![w] = Resolved(w, v)]
    BY <1>4 DEF Remember
  <2>2. v \in Volume
    BY DEF Job
  <2>3. v.drive \in Drive /\ v.id \in Id
    BY <2>2 DEF Volume
  <2>4. Resolved(w, v) \in Job /\ Resolved(w, v).step = "asking"
    BY <2>2, ResolvedType
  <2> QED
    BY <1>4, <2>1, <2>3, <2>4 DEF Remember
<1>5. ASSUME NEW w \in Writer, Write(w) \/ GiveUp(w)
      PROVE  TypeOK' /\ AskingAboutDrives'
  <2>1. job[w].got \subseteq Volume
    BY DEF Job
  <2>2. Idle \in Job /\ Idle.step = "idle"
    BY JobTypes DEF Idle
  <2> HIDE DEF Idle
  <2> QED
    BY <1>5, <2>1, <2>2 DEF Write, GiveUp
<1>6. ASSUME NEW v \in readings, Forget(v)
      PROVE  TypeOK' /\ AskingAboutDrives'
  BY <1>6 DEF Forget
<1>7. CASE DropVolumes
  BY <1>7 DEF DropVolumes, Unused
<1>8. CASE ClearCache
  BY <1>8 DEF ClearCache
<1>9. CASE Restart
  <2>1. Idle \in Job /\ Idle.step = "idle"
    BY JobTypes DEF Idle
  <2>2. restarts' \in 0..MaxRestarts
    BY <1>9, VolumesAssumption DEF Restart
  <2> HIDE DEF Idle
  <2> QED
    BY <1>9, <2>1, <2>2 DEF Restart
<1>10. CASE UNCHANGED vars
  BY <1>10 DEF vars
<1> QED
  BY <1>1, <1>2, <1>3, <1>4, <1>5, <1>6, <1>7, <1>8, <1>9, <1>10 DEF Next, Store

\* The numbers, the cache and the reports keep their shape: TypeOK of Volumes.
THEOREM VolumesTypeCorrect == Spec => []TypeOK
  BY TypeInit, TypeNext, PTL DEF Spec
-----------------------------------------------------------------------------
\* A number means one drive.

LEMMA InUseTyped == TypeOK => InUse \subseteq Volume /\ \A v \in InUse : v.id \in Nat
  BY DEF InUse, TypeOK, Job, Volume, Id

\* A step that brings no number into use changes nothing.
LEMMA NothingNew ==
  ASSUME NumberInv, InUse' \subseteq InUse, next' = next
  PROVE  Numbered' /\ NumberMeansOneDrive'
  BY DEF NumberInv, Numbered, NumberMeansOneDrive

\* One that brings a number into use brings a new one.
LEMMA OneNew ==
  ASSUME NumberInv, NEW v \in Volume, v.id = next, next' = next + 1, InUse' \subseteq InUse \cup {v}
  PROVE  Numbered' /\ NumberMeansOneDrive'
<1>1. next \in Nat
  BY VolumesAssumption DEF NumberInv, TypeOK
<1>2. \A u \in InUse : u.id \in Nat /\ u.id < next /\ u.id # v.id
  BY <1>1, InUseTyped DEF NumberInv, Numbered
<1>3. Numbered'
  BY <1>1, <1>2 DEF Numbered
<1>4. NumberMeansOneDrive'
  BY <1>2 DEF NumberInv, NumberMeansOneDrive
<1> QED
  BY <1>3, <1>4

LEMMA NumbersNext ==
  ASSUME NumberInv, [Next]_vars
  PROVE  Numbered' /\ NumberMeansOneDrive'
<1>0. TypeOK /\ AskingAboutDrives /\ job \in [Writer -> Job]
  BY DEF NumberInv, TypeOK
<1>1. ASSUME NEW w \in Writer, NEW D \in SUBSET Drive, Begin(w, D)
      PROVE  Numbered' /\ NumberMeansOneDrive'
  <2>1. [Idle EXCEPT !.left = D, !.step = "asking"].got = {}
    BY DEF Idle
  <2>2. [Idle EXCEPT !.left = D, !.step = "asking"].about = {}
    BY DEF Idle
  <2>3. InUse' \subseteq InUse
    <3> HIDE DEF Idle
    <3> QED
      BY <1>0, <1>1, <2>1, <2>2 DEF Begin, InUse
  <2> QED
    BY <1>1, <2>3, NothingNew DEF Begin
<1>2. ASSUME NEW w \in Writer, NEW d \in Drive, Lookup(w, d)
      PROVE  Numbered' /\ NumberMeansOneDrive'
  <2> DEFINE v == [id |-> cache[d], drive |-> d]
             missed == [job[w] EXCEPT !.step = "missed", !.drive = d]
  <2>1. CASE v \in Volume /\ job' = [job EXCEPT ![w] = Resolved(w, v)]
    <3>1. v \in InUse
      BY <2>1 DEF InUse
    <3>2. Resolved(w, v).got = job[w].got \cup {v} /\ Resolved(w, v).about = {}
      BY <1>0, <2>1, ResolvedType
    <3>3. InUse' \subseteq InUse
      <4> HIDE DEF v
      <4> QED
        BY <1>0, <1>2, <2>1, <3>1, <3>2 DEF Lookup, InUse
    <3> QED
      BY <1>2, <3>3, NothingNew DEF Lookup
  <2>2. CASE job' = [job EXCEPT ![w] = missed]
    <3>1. missed.got = job[w].got /\ missed.about = job[w].about
      BY <1>0 DEF Job
    <3>2. InUse' \subseteq InUse
      <4> HIDE DEF missed
      <4> QED
        BY <1>0, <1>2, <2>2, <3>1 DEF Lookup, InUse
    <3> QED
      BY <1>2, <3>2, NothingNew DEF Lookup
  <2> QED
    BY <1>0, <1>2, <2>1, <2>2, LookupJob
<1>3. ASSUME NEW w \in Writer, Register(w)
      PROVE  Numbered' /\ NumberMeansOneDrive'
  <2> DEFINE d == job[w].drive
             fresh == [id |-> next, drive |-> d]
             new(a) == [job[w] EXCEPT !.step = "answered", !.about = a]
  <2>1. \A a \in SUBSET Volume : new(a).got = job[w].got /\ new(a).about = a
    BY <1>0 DEF Job
  <2>2. UNCHANGED <<cache, readings, clearing, overtaken, restarts>>
    BY <1>3 DEF Register
  <2>3. CASE /\ fresh \in Volume
             /\ table' = table \cup {fresh}
             /\ next' = next + 1
             /\ job' = [job EXCEPT ![w] = new({fresh})]
    <3>1. PICK j : j.got = job[w].got /\ j.about = {fresh} /\ job' = [job EXCEPT ![w] = j]
      BY <2>1, <2>3
    <3>2. fresh.id = next
      OBVIOUS
    <3>3. InUse' \subseteq InUse \cup {fresh}
      <4> HIDE DEF new, fresh
      <4>1. \A u \in Writer : \/ job'[u] = job[u]
                              \/ job'[u].got = job[u].got /\ job'[u].about = {fresh}
        BY <1>0, <3>1
      <4>2. ASSUME NEW v \in InUse' PROVE v \in InUse \cup {fresh}
        <5>1. CASE v \in table' \cup readings' \cup {u \in Volume : cache'[u.drive] = u.id}
          BY <2>2, <2>3, <5>1 DEF InUse
        <5>2. CASE \E u \in Writer : v \in job'[u].got \cup job'[u].about
          <6>1. PICK u \in Writer : v \in job'[u].got \cup job'[u].about
            BY <5>2
          <6>2. CASE job'[u] = job[u]
            BY <6>1, <6>2 DEF InUse
          <6>3. CASE job'[u].got = job[u].got /\ job'[u].about = {fresh}
            BY <6>1, <6>3 DEF InUse
          <6> QED
            BY <4>1, <6>2, <6>3
        <5> QED
          BY <4>2, <5>1, <5>2 DEF InUse
      <4> QED
        BY <4>2
    <3> HIDE DEF fresh
    <3> QED
      BY <2>3, <3>2, <3>3, OneNew
  <2>4. CASE /\ table' = table
             /\ next' = next
             /\ job' = [job EXCEPT ![w] = new(RowsOf(d))]
    <3>1. RowsOf(d) \subseteq table /\ RowsOf(d) \in SUBSET Volume
      BY <1>0 DEF RowsOf, TypeOK
    <3>2. new(RowsOf(d)).got = job[w].got /\ new(RowsOf(d)).about = RowsOf(d)
      BY <2>1, <3>1
    <3>3. InUse' \subseteq InUse
      <4> HIDE DEF new
      <4> QED
        BY <1>0, <2>2, <2>4, <3>1, <3>2 DEF InUse
    <3> QED
      BY <2>4, <3>3, NothingNew
  <2> QED
    BY <1>0, <1>3, <2>3, <2>4, RegisterJob
<1>4. ASSUME NEW w \in Writer, Remember(w)
      PROVE  Numbered' /\ NumberMeansOneDrive'
  <2>1. PICK v \in job[w].about : /\ cache' = [cache EXCEPT ![v.drive] = v.id]
                                  /\ job' = [job EXCEPT ![w] = Resolved(w, v)]
    BY <1>4 DEF Remember
  <2>2. v \in Volume /\ v \in InUse
    BY <1>0 DEF Job, InUse
  <2>3. Resolved(w, v).got = job[w].got \cup {v} /\ Resolved(w, v).about = {}
    BY <1>0, <2>2, ResolvedType
  <2>4. \A u \in Volume : cache'[u.drive] = u.id => u = v \/ cache[u.drive] = u.id
    BY <1>0, <2>1, <2>2 DEF TypeOK, Volume
  <2>5. UNCHANGED <<table, next, readings>>
    BY <1>4 DEF Remember
  <2>6. InUse' \subseteq InUse
    BY <1>0, <2>1, <2>2, <2>3, <2>4, <2>5 DEF InUse
  <2> QED
    BY <2>5, <2>6, NothingNew
<1>5. ASSUME NEW w \in Writer, Write(w) \/ GiveUp(w)
      PROVE  Numbered' /\ NumberMeansOneDrive'
  <2>1. Idle.got = {} /\ Idle.about = {}
    BY DEF Idle
  <2>2. InUse' \subseteq InUse
    <3> HIDE DEF Idle
    <3> QED
      BY <1>0, <1>5, <2>1 DEF Write, GiveUp, InUse
  <2> QED
    BY <1>5, <2>2, NothingNew DEF Write, GiveUp
<1>6. ASSUME NEW v \in readings, Forget(v)
      PROVE  Numbered' /\ NumberMeansOneDrive'
  <2>1. InUse' \subseteq InUse
    BY <1>6 DEF Forget, InUse
  <2> QED
    BY <1>6, <2>1, NothingNew DEF Forget
<1>7. CASE DropVolumes
  <2>1. InUse' \subseteq InUse
    BY <1>7 DEF DropVolumes, InUse
  <2> QED
    BY <1>7, <2>1, NothingNew DEF DropVolumes
<1>8. CASE ClearCache \/ Restart
  <2>1. Idle.got = {} /\ Idle.about = {}
    BY DEF Idle
  <2>2. \A v \in Volume : cache'[v.drive] # v.id
    BY <1>8 DEF ClearCache, Restart, Volume, Id, NoId
  <2>3. \A w \in Writer : job'[w] = Idle \/ job'[w] = job[w]
    BY <1>8 DEF ClearCache, Restart
  <2>4. UNCHANGED <<table, readings, next>>
    BY <1>8 DEF ClearCache, Restart
  <2>5. InUse' \subseteq InUse
    <3> HIDE DEF Idle
    <3> QED
      BY <2>1, <2>2, <2>3, <2>4 DEF InUse
  <2> QED
    BY <2>4, <2>5, NothingNew
<1>9. CASE UNCHANGED vars
  <2>1. InUse' = InUse
    BY <1>9 DEF vars, InUse
  <2> QED
    BY <1>9, <2>1, NothingNew DEF vars
<1> QED
  BY <1>1, <1>2, <1>3, <1>4, <1>5, <1>6, <1>7, <1>8, <1>9 DEF Next, Store

LEMMA NumbersInit == Init => Numbered /\ NumberMeansOneDrive
<1> SUFFICES ASSUME Init PROVE InUse = {}
  BY DEF Numbered, NumberMeansOneDrive
<1>1. Idle.got = {} /\ Idle.about = {}
  BY DEF Idle
<1>2. \A v \in Volume : cache[v.drive] # v.id
  BY DEF Init, Volume, Id, NoId
<1>3. \A w \in Writer : job[w].got = {} /\ job[w].about = {}
  BY <1>1 DEF Init
<1> QED
  BY <1>2, <1>3 DEF Init, InUse

\* However often drives are dropped and come back while readings, reports and
\* the cache still hold their old numbers, no number comes to mean another
\* drive: NumberMeansOneDrive of Volumes.
THEOREM NumbersAreUnique == Spec => []NumberMeansOneDrive
<1>1. Init => NumberInv
  BY TypeInit, NumbersInit DEF NumberInv
<1>2. NumberInv /\ [Next]_vars => NumberInv'
  BY TypeNext, NumbersNext DEF NumberInv
<1>3. NumberInv => NumberMeansOneDrive
  BY DEF NumberInv
<1> QED
  BY <1>1, <1>2, <1>3, PTL DEF Spec
-----------------------------------------------------------------------------
\* The cache follows the sweep.

\* Rows stay, and so does the rest of what an answer is excused by.
LEMMA AnswersStay ==
  ASSUME AnswersFollowSweep,
         table \subseteq table', clearing => clearing', overtaken \subseteq overtaken',
         \A w \in Writer : job'[w] = job[w] \/ job'[w].step # "answered"
  PROVE  AnswersFollowSweep'
  BY DEF AnswersFollowSweep

LEMMA CacheStays ==
  ASSUME CacheFollowsSweep,
         table \subseteq table', clearing => clearing', overtaken \subseteq overtaken',
         cache' = cache
  PROVE  CacheFollowsSweep'
  BY DEF CacheFollowsSweep

LEMMA CacheNext ==
  ASSUME CacheInv, [Next]_vars
  PROVE  AnswersFollowSweep' /\ CacheFollowsSweep'
<1>0. TypeOK /\ AskingAboutDrives /\ AnswersFollowSweep /\ CacheFollowsSweep
      /\ job \in [Writer -> Job] /\ cache \in [Drive -> Id \cup {NoId}]
  BY DEF CacheInv, TypeOK
<1>1. ASSUME NEW w \in Writer, NEW D \in SUBSET Drive, Begin(w, D)
      PROVE  AnswersFollowSweep' /\ CacheFollowsSweep'
  <2>1. [Idle EXCEPT !.left = D, !.step = "asking"].step # "answered"
    BY DEF Idle
  <2>2. \A u \in Writer : job'[u] = job[u] \/ job'[u].step # "answered"
    <3> HIDE DEF Idle
    <3> QED
      BY <1>0, <1>1, <2>1 DEF Begin
  <2> QED
    BY <1>0, <1>1, <2>2, AnswersStay, CacheStays DEF Begin
<1>2. ASSUME NEW w \in Writer, NEW d \in Drive, Lookup(w, d)
      PROVE  AnswersFollowSweep' /\ CacheFollowsSweep'
  <2> DEFINE v == [id |-> cache[d], drive |-> d]
             missed == [job[w] EXCEPT !.step = "missed", !.drive = d]
  <2>1. missed.step # "answered"
    BY <1>0 DEF Job
  <2>2. v \in Volume => Resolved(w, v).step # "answered"
    BY <1>0, ResolvedType
  <2>3. \A u \in Writer : job'[u] = job[u] \/ job'[u].step # "answered"
    <3>1. \/ job' = [job EXCEPT ![w] = missed]
          \/ v \in Volume /\ job' = [job EXCEPT ![w] = Resolved(w, v)]
      BY <1>0, <1>2, LookupJob
    <3> HIDE DEF missed, v
    <3> QED
      BY <1>0, <2>1, <2>2, <3>1
  <2> QED
    BY <1>0, <1>2, <2>3, AnswersStay, CacheStays DEF Lookup
<1>3. ASSUME NEW w \in Writer, Register(w)
      PROVE  AnswersFollowSweep' /\ CacheFollowsSweep'
  <2> DEFINE d == job[w].drive
  <2>1. table \subseteq table' /\ UNCHANGED <<cache, clearing, overtaken>>
    BY <1>3 DEF Register
  <2>2. \A u \in Writer \ {w} : job'[u] = job[u]
    BY <1>0, <1>3 DEF Register
  <2>3. /\ job'[w].drive = d
        /\ \A v \in job'[w].about : v.drive = d /\ v \in table'
    <3> DEFINE fresh == [id |-> next, drive |-> d]
               new(a) == [job[w] EXCEPT !.step = "answered", !.about = a]
    <3>1. \A a \in SUBSET Volume : new(a).drive = d /\ new(a).about = a
      BY <1>0 DEF Job
    <3>2. CASE /\ fresh \in Volume
               /\ table' = table \cup {fresh}
               /\ job' = [job EXCEPT ![w] = new({fresh})]
      <4>1. job'[w] = new({fresh})
        BY <1>0, <3>2
      <4>2. new({fresh}).drive = d /\ new({fresh}).about = {fresh}
        BY <3>1, <3>2
      <4>3. fresh.drive = d
        OBVIOUS
      <4> HIDE DEF new, fresh
      <4> QED
        BY <3>2, <4>1, <4>2, <4>3
    <3>3. CASE table' = table /\ job' = [job EXCEPT ![w] = new(RowsOf(d))]
      <4>1. job'[w] = new(RowsOf(d))
        BY <1>0, <3>3
      <4>2. RowsOf(d) \in SUBSET Volume /\ \A v \in RowsOf(d) : v.drive = d /\ v \in table
        BY <1>0 DEF RowsOf, TypeOK
      <4> QED
        BY <3>1, <3>3, <4>1, <4>2
    <3> QED
      BY <1>0, <1>3, <3>2, <3>3, RegisterJob
  <2>4. AnswersFollowSweep'
    BY <1>0, <2>1, <2>2, <2>3 DEF AnswersFollowSweep
  <2> QED
    BY <1>0, <2>1, <2>4, CacheStays
<1>4. ASSUME NEW w \in Writer, Remember(w)
      PROVE  AnswersFollowSweep' /\ CacheFollowsSweep'
  <2>1. PICK v \in job[w].about : /\ cache' = [cache EXCEPT ![v.drive] = v.id]
                                  /\ job' = [job EXCEPT ![w] = Resolved(w, v)]
    BY <1>4 DEF Remember
  <2>2. v \in Volume
    BY <1>0 DEF Job
  <2>3. \A u \in Writer : job'[u] = job[u] \/ job'[u].step # "answered"
    BY <1>0, <2>1, <2>2, ResolvedType
  <2>4. UNCHANGED <<table, clearing, overtaken>>
    BY <1>4 DEF Remember
  <2>5. v \in table \/ clearing \/ v.drive \in overtaken
    BY <1>0, <1>4 DEF AnswersFollowSweep, Remember
  <2>6. v = [id |-> v.id, drive |-> v.drive] /\ v.drive \in Drive
    BY <2>2 DEF Volume
  <2>7. \A d \in Drive : cache'[d] = IF d = v.drive THEN v.id ELSE cache[d]
    BY <1>0, <2>1
  <2>8. CacheFollowsSweep'
    BY <1>0, <2>4, <2>5, <2>6, <2>7 DEF CacheFollowsSweep
  <2> QED
    BY <1>0, <2>3, <2>4, <2>8, AnswersStay
<1>5. ASSUME NEW w \in Writer, Write(w) \/ GiveUp(w)
      PROVE  AnswersFollowSweep' /\ CacheFollowsSweep'
  <2>1. Idle.step # "answered"
    BY DEF Idle
  <2>2. \A u \in Writer : job'[u] = job[u] \/ job'[u].step # "answered"
    <3> HIDE DEF Idle
    <3> QED
      BY <1>0, <1>5, <2>1 DEF Write, GiveUp
  <2> QED
    BY <1>0, <1>5, <2>2, AnswersStay, CacheStays DEF Write, GiveUp
<1>6. ASSUME NEW v \in readings, Forget(v)
      PROVE  AnswersFollowSweep' /\ CacheFollowsSweep'
  BY <1>0, <1>6, AnswersStay, CacheStays DEF Forget
<1>7. CASE DropVolumes
  BY <1>0, <1>7 DEF DropVolumes, AnswersFollowSweep, CacheFollowsSweep
<1>8. CASE ClearCache
  <2>1. \A w \in Writer : job[w].step = "answered" /\ job[w].drive \in Drive
                             => job[w].drive \in overtaken'
    BY <1>8 DEF ClearCache
  <2>2. \A w \in Writer : \A v \in job[w].about : v.drive \in Drive
    BY <1>0 DEF Job, Volume
  <2> QED
    BY <1>0, <1>8, <2>1, <2>2 DEF ClearCache, AnswersFollowSweep, CacheFollowsSweep
<1>9. CASE Restart
  <2>1. \A w \in Writer : job'[w].step # "answered"
    BY <1>9 DEF Restart, Idle
  <2>2. \A d \in Drive : cache'[d] = NoId
    BY <1>9 DEF Restart
  <2> QED
    BY <2>1, <2>2 DEF AnswersFollowSweep, CacheFollowsSweep
<1>10. CASE UNCHANGED vars
  BY <1>0, <1>10, AnswersStay, CacheStays DEF vars
<1> QED
  BY <1>1, <1>2, <1>3, <1>4, <1>5, <1>6, <1>7, <1>8, <1>9, <1>10 DEF Next, Store

LEMMA CacheInit == Init => AnswersFollowSweep /\ CacheFollowsSweep
  BY DEF Init, Idle, AnswersFollowSweep, CacheFollowsSweep

\* A dropped row is remembered only until the sweep that dropped it is over, or
\* for a drive that was being registered across one: CacheFollowsSweep of
\* Volumes.
THEOREM CacheIsSwept == Spec => []CacheFollowsSweep
<1>1. Init => CacheInv
  BY TypeInit, CacheInit DEF CacheInv
<1>2. CacheInv /\ [Next]_vars => CacheInv'
  BY TypeNext, CacheNext DEF CacheInv
<1>3. CacheInv => CacheFollowsSweep
  BY DEF CacheInv
<1> QED
  BY <1>1, <1>2, <1>3, PTL DEF Spec
=============================================================================
