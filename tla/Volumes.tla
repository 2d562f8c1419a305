------------------------------- MODULE Volumes -------------------------------
(***************************************************************************)
(* The numbers drives are known by in the series store, and the cache of   *)
(* them (internal/store/series.go): VolumeID and the writers that ask it - *)
(* the metric ticker and the handlers of peers' pushes - against           *)
(* DropVolumes, which the rollup runs on its first pass after a start and  *)
(* once a day from then on.                                                *)
(*                                                                         *)
(* A drive is a name on a server, and a reading is a row of Samples or of  *)
(* Rollups.  Beside its number each reading has here the drive it was      *)
(* taken from, which the code does not keep.                               *)
(***************************************************************************)
EXTENDS Naturals

CONSTANTS Drive,        \* names of drives, each on its server
          Writer,       \* goroutines that store readings
          MaxId,        \* bound: numbers handed out
          MaxRestarts   \* bound: restarts of the process

ASSUME VolumesAssumption == MaxId \in Nat /\ MaxRestarts \in Nat

Id     == 1..MaxId
NoId   == 0
Volume == [id : Id, drive : Drive]      \* a row of Volumes, or what a reading says

VARIABLES table,      \* the rows of Volumes
          next,       \* the next number: AUTOINCREMENT remembers the ones deleted
          cache,      \* volumeIDs; NoId where there is no entry
          job,        \* job[w]: the report w is storing
          readings,   \* the volumes that stored readings are about
          clearing,   \* DropVolumes is between its DELETE and the cache
          overtaken,  \* drives registered across a sweep since the last start
          restarts

vars == <<table, next, cache, job, readings, clearing, overtaken, restarts>>

\* A report names drives still to be resolved, holds the numbers of the others,
\* and is at one point of VolumeID for the drive it is asking about.
Job == [left : SUBSET Drive, got : SUBSET Volume,
        step : {"idle", "asking", "missed", "answered"}, about : SUBSET Volume,
        drive : Drive \cup {"none"}]

Idle == [left |-> {}, got |-> {}, step |-> "idle", about |-> {}, drive |-> "none"]

Init == /\ table = {}
        /\ next = 1
        /\ cache = [d \in Drive |-> NoId]
        /\ job = [w \in Writer |-> Idle]
        /\ readings = {}
        /\ clearing = FALSE
        /\ overtaken = {}
        /\ restarts = 0

-----------------------------------------------------------------------------
\* A report about the drives in D is to be stored.
Begin(w, D) == /\ job[w].step = "idle"
               /\ job' = [job EXCEPT ![w] = [Idle EXCEPT !.left = D, !.step = "asking"]]
               /\ UNCHANGED <<table, next, cache, readings, clearing, overtaken, restarts>>

Resolved(w, v) == [job[w] EXCEPT !.left = @ \ {v.drive}, !.got = @ \cup {v},
                                 !.step = "asking", !.about = {}, !.drive = "none"]

\* The lookup under the read lock.
Lookup(w, d) ==
  /\ job[w].step = "asking"
  /\ d \in job[w].left
  /\ job' = [job EXCEPT ![w] = IF cache[d] # NoId
                               THEN Resolved(w, [id |-> cache[d], drive |-> d])
                               ELSE [@ EXCEPT !.step = "missed", !.drive = d]]
  /\ UNCHANGED <<table, next, cache, readings, clearing, overtaken, restarts>>

RowsOf(d) == {v \in table : v.drive = d}

\* A fault: the number after the largest one present, as without AUTOINCREMENT.
NextPresent == IF table = {} THEN 1
               ELSE 1 + CHOOSE n \in Id : /\ \E v \in table : v.id = n
                                         /\ \A v \in table : v.id <= n

\* The number AUTOINCREMENT gives.
NewId == next

\* INSERT ... ON CONFLICT ... RETURNING "Id".
Register(w) ==
  /\ job[w].step = "missed"
  /\ LET d     == job[w].drive
         fresh == [id |-> NewId, drive |-> d]
     IN  /\ RowsOf(d) = {} => next <= MaxId
         /\ table' = IF RowsOf(d) = {} THEN table \cup {fresh} ELSE table
         /\ next' = IF RowsOf(d) = {} THEN next + 1 ELSE next
         /\ job' = [job EXCEPT ![w].step = "answered",
                               ![w].about = IF RowsOf(d) = {} THEN {fresh} ELSE RowsOf(d)]
  /\ UNCHANGED <<cache, readings, clearing, overtaken, restarts>>

\* The answer enters the cache, under the write lock.
Remember(w) ==
  /\ job[w].step = "answered"
  /\ \E v \in job[w].about : /\ cache' = [cache EXCEPT ![v.drive] = v.id]
                             /\ job' = [job EXCEPT ![w] = Resolved(w, v)]
  /\ UNCHANGED <<table, next, readings, clearing, overtaken, restarts>>

\* InsertSamples or UpsertRollups, one transaction.
Write(w) ==
  /\ job[w].step = "asking"
  /\ job[w].left = {}
  /\ readings' = readings \cup job[w].got
  /\ job' = [job EXCEPT ![w] = Idle]
  /\ UNCHANGED <<table, next, cache, clearing, overtaken, restarts>>

\* A statement fails, and the rest of the report is given up.
GiveUp(w) == /\ job[w].step # "idle"
             /\ job' = [job EXCEPT ![w] = Idle]
             /\ UNCHANGED <<table, next, cache, readings, clearing, overtaken, restarts>>

\* The last reading about a volume is pruned.
Forget(v) == /\ v \in readings
             /\ readings' = readings \ {v}
             /\ UNCHANGED <<table, next, cache, job, clearing, overtaken, restarts>>

Unused == {v \in table : \A r \in readings : r.id # v.id}

\* A fault: the cache is left alone.
DropVolumesOnly == /\ ~clearing
                   /\ Unused # {}
                   /\ table' = table \ Unused
                   /\ UNCHANGED <<next, cache, job, readings, clearing, overtaken, restarts>>

DropVolumes == /\ ~clearing
               /\ Unused # {}
               /\ table' = table \ Unused
               /\ clearing' = TRUE
               /\ UNCHANGED <<next, cache, job, readings, overtaken, restarts>>

ClearCache == /\ clearing
              /\ cache' = [d \in Drive |-> NoId]
              /\ clearing' = FALSE
              /\ overtaken' = overtaken \cup {d \in Drive : \E w \in Writer :
                                  job[w].step = "answered" /\ job[w].drive = d}
              /\ UNCHANGED <<table, next, job, readings, restarts>>

Restart == /\ restarts < MaxRestarts
           /\ cache' = [d \in Drive |-> NoId]
           /\ job' = [w \in Writer |-> Idle]
           /\ clearing' = FALSE
           /\ overtaken' = {}
           /\ restarts' = restarts + 1
           /\ UNCHANGED <<table, next, readings>>

Store(w) == \/ \E d \in Drive : Lookup(w, d)
            \/ Register(w)
            \/ Remember(w)
            \/ Write(w)

Next == \/ \E w \in Writer, D \in SUBSET Drive \ {{}} : Begin(w, D)
        \/ \E w \in Writer : Store(w) \/ GiveUp(w)
        \/ \E v \in readings : Forget(v)
        \/ DropVolumes
        \/ ClearCache
        \/ Restart

Spec == Init /\ [][Next]_vars

-----------------------------------------------------------------------------
TypeOK == /\ table \subseteq Volume
          /\ next \in 1..(MaxId + 1)
          /\ cache \in [Drive -> Id \cup {NoId}]
          /\ job \in [Writer -> Job]
          /\ readings \subseteq Volume
          /\ clearing \in BOOLEAN
          /\ overtaken \subseteq Drive
          /\ restarts \in 0..MaxRestarts

\* Every number in use: in a row, a reading, the cache or a report.
InUse == table \cup readings
           \cup {v \in Volume : cache[v.drive] = v.id}
           \cup UNION {job[w].got \cup job[w].about : w \in Writer}

\* A number never comes to mean another drive, however often drives are dropped
\* and come back while readings and reports with their old numbers are about:
\* "ids are handed out and never reused" (VolumeID).
NumberMeansOneDrive == \A v, u \in InUse : v.id = u.id => v.drive = u.drive

\* The cache holds the number of a dropped row only until DropVolumes comes to
\* it, or for a drive that was being registered across the sweep.
CacheFollowsSweep ==
  \A d \in Drive : (cache[d] # NoId /\ [id |-> cache[d], drive |-> d] \notin table)
                      => clearing \/ d \in overtaken

\* What VolumeID relies on to cache at all, "the answer never changes", and
\* DropVolumes to be harmless, it forgets "drives nothing holds a reading about
\* any more": the number in a stored reading leads to its drive's name.
ReadingsAreNamed == readings \subseteq table

=============================================================================
