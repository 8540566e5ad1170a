--------------------------- MODULE BoltStoreProofs ---------------------------
(***************************************************************************)
(* Proofs about BoltStore, for any finite or infinite sets of ids,         *)
(* schedules and times: the indexes and the count always match the         *)
(* records, pruning never fails, and the store implements RunLog.          *)
(***************************************************************************)
EXTENDS BoltStore, FiniteSetTheorems, TLAPS

(* Logs as sets of functions: what membership gives and what it takes. *)

LEMMA LogMembers ==
  ASSUME NEW log \in Logs(RunIds)
  PROVE  /\ DOMAIN log \subseteq RunIds
         /\ IsFiniteSet(DOMAIN log)
         /\ log \in [DOMAIN log -> Run]
         /\ \A id \in DOMAIN log : log[id] \in Run
  BY DEF Logs

LEMMA LogIntro ==
  ASSUME NEW S, S \subseteq RunIds, IsFiniteSet(S), NEW log \in [S -> Run]
  PROVE  log \in Logs(RunIds)
  BY DEF Logs

(* Writing a record. *)
LEMMA PutLog ==
  ASSUME NEW log \in Logs(RunIds), NEW id \in RunIds, NEW run \in Run
  PROVE  /\ Put(log, id, run) \in Logs(RunIds)
         /\ DOMAIN Put(log, id, run) = DOMAIN log \cup {id}
         /\ \A i \in DOMAIN log \cup {id} :
              Put(log, id, run)[i] = IF i = id THEN run ELSE log[i]
<1>1. /\ DOMAIN log \subseteq RunIds
      /\ IsFiniteSet(DOMAIN log)
      /\ \A i \in DOMAIN log : log[i] \in Run
  BY LogMembers
<1>2. IsFiniteSet(DOMAIN log \cup {id})
  BY <1>1, FS_AddElement
<1>3. /\ DOMAIN Put(log, id, run) = DOMAIN log \cup {id}
      /\ \A i \in DOMAIN log \cup {id} :
           Put(log, id, run)[i] = IF i = id THEN run ELSE log[i]
  BY DEF Put
<1>4. Put(log, id, run) \in [DOMAIN log \cup {id} -> Run]
  BY <1>1 DEF Put
<1> QED
  BY <1>1, <1>2, <1>3, <1>4, LogIntro

(* Deleting records. *)
LEMMA WithoutLog ==
  ASSUME NEW log \in Logs(RunIds), NEW ids
  PROVE  /\ Without(log, ids) \in Logs(RunIds)
         /\ DOMAIN Without(log, ids) = DOMAIN log \ ids
         /\ \A i \in DOMAIN log \ ids : Without(log, ids)[i] = log[i]
<1>1. /\ DOMAIN log \subseteq RunIds
      /\ IsFiniteSet(DOMAIN log)
      /\ \A i \in DOMAIN log : log[i] \in Run
  BY LogMembers
<1>2. IsFiniteSet(DOMAIN log \ ids)
  BY <1>1, FS_Subset
<1>3. /\ DOMAIN Without(log, ids) = DOMAIN log \ ids
      /\ \A i \in DOMAIN log \ ids : Without(log, ids)[i] = log[i]
  BY DEF Without
<1>4. Without(log, ids) \in [DOMAIN log \ ids -> Run]
  BY <1>1 DEF Without
<1> QED
  BY <1>1, <1>2, <1>3, <1>4, LogIntro

LEMMA EmptyLogLog == EmptyLog \in Logs(RunIds) /\ DOMAIN EmptyLog = {}
<1>1. DOMAIN EmptyLog = {} /\ EmptyLog \in [{} -> Run]
  BY DEF EmptyLog
<1> QED
  BY <1>1, LogIntro, FS_EmptySet

(* The completed records of a log are finitely many. *)
LEMMA CompletedFinite ==
  ASSUME NEW log \in Logs(RunIds)
  PROVE  /\ Completed(log) \subseteq DOMAIN log
         /\ IsFiniteSet(Completed(log))
         /\ Cardinality(Completed(log)) \in Nat
<1>1. Completed(log) \subseteq DOMAIN log
  BY DEF Completed
<1> QED
  BY <1>1, LogMembers, FS_Subset, FS_CardinalityType

(* How a write and a deletion change the completed records. *)
LEMMA CompletedPut ==
  ASSUME NEW log \in Logs(RunIds), NEW id \in RunIds, NEW run \in Run
  PROVE  Completed(Put(log, id, run)) =
           IF run.status # Running THEN Completed(log) \cup {id}
                                   ELSE Completed(log) \ {id}
<1> DEFINE new == Put(log, id, run)
<1>1. /\ DOMAIN new = DOMAIN log \cup {id}
      /\ \A i \in DOMAIN log \cup {id} :
           new[i] = IF i = id THEN run ELSE log[i]
  BY PutLog, ZenonT(60)
<1> HIDE DEF new
<1>2. run.status # Running => Completed(new) = Completed(log) \cup {id}
  BY <1>1 DEF Completed
<1>3. run.status = Running => Completed(new) = Completed(log) \ {id}
  BY <1>1 DEF Completed
<1> QED
  BY <1>2, <1>3 DEF new

LEMMA CompletedWithout ==
  ASSUME NEW log \in Logs(RunIds), NEW ids
  PROVE  Completed(Without(log, ids)) = Completed(log) \ ids
  BY WithoutLog DEF Completed

(* In an exact index a key and its id determine each other. *)
LEMMA KeysAndIds ==
  ASSUME NEW log \in Logs(RunIds), NEW K, K \subseteq StartedAtIndex(log)
  PROVE  /\ \A k \in K : k.id \in DOMAIN log /\ k = StartedAtKey(k.id, log[k.id])
         /\ IsFiniteSet(K)
         /\ Cardinality(K) \in Nat
         /\ Cardinality({k.id : k \in K}) = Cardinality(K)
<1> DEFINE I == {k.id : k \in K}
           f == [i \in I |-> StartedAtKey(i, log[i])]
<1>1. \A k \in K : k.id \in DOMAIN log /\ k = StartedAtKey(k.id, log[k.id])
  BY DEF StartedAtIndex, StartedAtKey
<1>2. IsFiniteSet(I)
  BY <1>1, LogMembers, FS_Subset
<1>3. f \in Bijection(I, K)
  <2>1. f \in [I -> K]
    BY <1>1
  <2>2. \A i, j \in I : f[i] = f[j] => i = j
    BY DEF StartedAtKey
  <2>3. \A k \in K : \E i \in I : f[i] = k
    BY <1>1
  <2> QED
    BY <2>1, <2>2, <2>3 DEF Bijection, Injection, Surjection, IsInjective
<1>4. IsFiniteSet(K) /\ Cardinality(K) = Cardinality(I)
  BY <1>2, <1>3, FS_Bijection DEF ExistsBijection
<1> QED
  BY <1>1, <1>4, FS_CardinalityType

------------------------------------------------------------------------------

\* The four parts of an open file agree.
Synced ==
    /\ runs \in Logs(RunIds)
    /\ byStartedAt = StartedAtIndex(runs)
    /\ runningBySchedule = RunningIndex(runs)
    /\ completedCount = Cardinality(Completed(runs))

IInv == TypeOK /\ IndexesExact

LEMMA IndexTypes ==
  ASSUME NEW log \in Logs(RunIds)
  PROVE  /\ StartedAtIndex(log) \subseteq [startedAt : Times, id : RunIds]
         /\ RunningIndex(log) \subseteq [schedule : ScheduleNames, id : RunIds]
  BY LogMembers DEF StartedAtIndex, RunningIndex, StartedAtKey, RunningKey, Run

LEMMA OpenIsSynced ==
  IInv /\ opened => Synced /\ buckets = IndexBuckets
  BY DEF IInv, TypeOK, IndexesExact, Synced, IndexBuckets

LEMMA SyncedIsExact ==
  ASSUME Synced, buckets \subseteq IndexBuckets, opened \in BOOLEAN,
         opened => buckets = IndexBuckets,
         reply.op \in {"none", "save", "clear", "prune", "error", "list", "has"}
  PROVE  IInv
<1>1. /\ byStartedAt \subseteq [startedAt : Times, id : RunIds]
      /\ runningBySchedule \subseteq [schedule : ScheduleNames, id : RunIds]
      /\ completedCount \in Nat
  BY IndexTypes, CompletedFinite DEF Synced
<1> QED
  BY <1>1 DEF IInv, TypeOK, IndexesExact, Synced

(* Bringing the indexes up to date with a write gives the indexes of the    *)
(* new log.                                                                *)
LEMMA IndexesPut ==
  ASSUME runs \in Logs(RunIds), NEW id \in RunIds, NEW run \in Run
  PROVE  /\ StartedAtIndex(Put(runs, id, run)) =
              (StartedAtIndex(runs) \ OldStartedAtKeys(id))
                \cup {StartedAtKey(id, run)}
         /\ RunningIndex(Put(runs, id, run)) =
              (RunningIndex(runs) \ OldRunningKeys(id))
                \cup (IF run.status = Running THEN {RunningKey(id, run)} ELSE {})
<1> DEFINE new == Put(runs, id, run)
<1>1. /\ DOMAIN new = DOMAIN runs \cup {id}
      /\ new[id] = run
      /\ \A i \in DOMAIN runs \ {id} : new[i] = runs[i]
  BY PutLog
<1> HIDE DEF new
<1>2. StartedAtIndex(new) = (StartedAtIndex(runs) \ OldStartedAtKeys(id))
                              \cup {StartedAtKey(id, run)}
  <2>1. ASSUME NEW k \in StartedAtIndex(new)
        PROVE  k \in (StartedAtIndex(runs) \ OldStartedAtKeys(id))
                        \cup {StartedAtKey(id, run)}
    BY <1>1 DEF StartedAtIndex, OldStartedAtKeys, StartedAtKey
  <2>2. ASSUME NEW k \in StartedAtIndex(runs) \ OldStartedAtKeys(id)
        PROVE  k \in StartedAtIndex(new)
    <3>1. PICK i \in DOMAIN runs : k = StartedAtKey(i, runs[i])
      BY DEF StartedAtIndex
    <3>2. i # id
      BY <3>1 DEF OldStartedAtKeys
    <3> QED
      BY <1>1, <3>1, <3>2 DEF StartedAtIndex
  <2>3. StartedAtKey(id, run) \in StartedAtIndex(new)
    BY <1>1 DEF StartedAtIndex
  <2> QED
    BY <2>1, <2>2, <2>3
<1>3. RunningIndex(new) =
        (RunningIndex(runs) \ OldRunningKeys(id))
          \cup (IF run.status = Running THEN {RunningKey(id, run)} ELSE {})
  <2>1. ASSUME NEW k \in RunningIndex(new)
        PROVE  k \in (RunningIndex(runs) \ OldRunningKeys(id))
                 \cup (IF run.status = Running THEN {RunningKey(id, run)} ELSE {})
    <3>1. PICK i \in DOMAIN new : new[i].status = Running /\ k = RunningKey(i, new[i])
      BY DEF RunningIndex
    <3>2. CASE i = id
      BY <1>1, <3>1, <3>2
    <3>3. CASE i # id
      <4>1. k \in RunningIndex(runs)
        BY <1>1, <3>1, <3>3 DEF RunningIndex
      <4>2. k \notin OldRunningKeys(id)
        BY <3>1, <3>3 DEF OldRunningKeys, RunningKey
      <4> QED
        BY <4>1, <4>2
    <3> QED
      BY <3>2, <3>3
  <2>2. ASSUME NEW k \in RunningIndex(runs) \ OldRunningKeys(id)
        PROVE  k \in RunningIndex(new)
    <3>1. PICK i \in DOMAIN runs : runs[i].status = Running /\ k = RunningKey(i, runs[i])
      BY DEF RunningIndex
    <3>2. i # id
      BY <3>1 DEF OldRunningKeys
    <3> QED
      BY <1>1, <3>1, <3>2 DEF RunningIndex
  <2>3. run.status = Running => RunningKey(id, run) \in RunningIndex(new)
    BY <1>1 DEF RunningIndex
  <2> QED
    BY <2>1, <2>2, <2>3
<1> QED
  BY <1>2, <1>3 DEF new

(* So does the count. *)
LEMMA CountPut ==
  ASSUME runs \in Logs(RunIds), NEW id \in RunIds, NEW run \in Run
  PROVE  Bump(Cardinality(Completed(runs)), CompletedDelta(id, run)) =
           Cardinality(Completed(Put(runs, id, run)))
<1> DEFINE C == Completed(runs)
<1>1. IsFiniteSet(C) /\ Cardinality(C) \in Nat
  BY CompletedFinite
<1>2. /\ Cardinality(C \cup {id}) = IF id \in C THEN Cardinality(C)
                                               ELSE Cardinality(C) + 1
      /\ Cardinality(C \ {id}) = IF id \in C THEN Cardinality(C) - 1
                                             ELSE Cardinality(C)
      /\ Cardinality(C \ {id}) \in Nat
  BY <1>1, FS_AddElement, FS_RemoveElement, FS_CardinalityType
<1>3. Completed(Put(runs, id, run)) =
        IF run.status # Running THEN C \cup {id} ELSE C \ {id}
  BY CompletedPut
<1> HIDE DEF C
<1>4. CASE run.status # Running
  BY <1>1, <1>2, <1>3, <1>4 DEF Bump, CompletedDelta, C
<1>5. CASE run.status = Running
  BY <1>1, <1>2, <1>3, <1>5 DEF Bump, CompletedDelta, C
<1> QED
  BY <1>4, <1>5

------------------------------------------------------------------------------

Ids(K) == {k.id : k \in K}

(* The keys pruning looks at are those of the completed records.           *)
LEMMA FinishedAreCompleted ==
  ASSUME Synced
  PROVE  /\ FinishedKeys \subseteq StartedAtIndex(runs)
         /\ Ids(FinishedKeys) = Completed(runs)
         /\ \A i \in Completed(runs) : StartedAtKey(i, runs[i]) \in FinishedKeys
<1>1. FinishedKeys \subseteq StartedAtIndex(runs)
  BY DEF FinishedKeys, Synced
<1>2. \A i \in Completed(runs) : /\ StartedAtKey(i, runs[i]) \in FinishedKeys
                                 /\ StartedAtKey(i, runs[i]).id = i
  BY CompletedFinite DEF FinishedKeys, Synced, StartedAtIndex, StartedAtKey
<1> QED
  BY <1>1, <1>2 DEF Ids, FinishedKeys

(* No walk of an exact index fails. *)
LEMMA WalkSucceeds ==
  ASSUME Synced, NEW cutoff, NEW n, NEW over, over \subseteq FinishedKeys
  PROVE  ~WalkFails(cutoff, over, n)
<1>1. \A k \in byStartedAt :
        k.id \in DOMAIN runs /\ k = StartedAtKey(k.id, runs[k.id])
  BY KeysAndIds DEF Synced
<1>2. AgedKeys(cutoff) \cup over \subseteq byStartedAt
  BY DEF AgedKeys, FinishedKeys
<1>3. \A j, k \in AgedKeys(cutoff) \cup over : j.id = k.id => j = k
  BY <1>1, <1>2
<1> QED
  BY <1>1, <1>3 DEF WalkFails

(* Deleting the records of some finished keys: the index loses these keys, *)
(* the index of running records nothing, and keys are as many as records.  *)
LEMMA DeleteKeys ==
  ASSUME Synced, NEW V, V \subseteq FinishedKeys
  PROVE  /\ Without(runs, Ids(V)) \in Logs(RunIds)
         /\ StartedAtIndex(Without(runs, Ids(V))) = byStartedAt \ V
         /\ RunningIndex(Without(runs, Ids(V))) = runningBySchedule
         /\ Ids(V) \subseteq Completed(runs)
         /\ Completed(Without(runs, Ids(V))) = Completed(runs) \ Ids(V)
         /\ IsFiniteSet(V)
         /\ Cardinality(V) \in Nat
         /\ Cardinality(Ids(V)) = Cardinality(V)
         /\ Cardinality(Completed(runs) \ Ids(V)) =
              Cardinality(Completed(runs)) - Cardinality(V)
<1> DEFINE I == Ids(V)
           new == Without(runs, I)
<1>1. V \subseteq StartedAtIndex(runs)
  BY FinishedAreCompleted
<1>2. /\ \A k \in V : k.id \in DOMAIN runs /\ k = StartedAtKey(k.id, runs[k.id])
      /\ IsFiniteSet(V)
      /\ Cardinality(V) \in Nat
      /\ Cardinality(I) = Cardinality(V)
  BY <1>1, KeysAndIds DEF Synced, Ids
<1>3. I \subseteq Completed(runs)
  BY DEF Ids, FinishedKeys
<1>4. /\ new \in Logs(RunIds)
      /\ DOMAIN new = DOMAIN runs \ I
      /\ \A i \in DOMAIN runs \ I : new[i] = runs[i]
      /\ Completed(new) = Completed(runs) \ I
  BY WithoutLog, CompletedWithout DEF Synced
<1>5. \A i \in DOMAIN runs : i \in I <=> StartedAtKey(i, runs[i]) \in V
  BY <1>2 DEF Ids, StartedAtKey
<1> HIDE DEF new, I
<1>6. StartedAtIndex(new) = byStartedAt \ V
  BY <1>4, <1>5 DEF StartedAtIndex, Synced
<1>7. RunningIndex(new) = runningBySchedule
  BY <1>3, <1>4 DEF RunningIndex, Completed, Synced
<1>8. Cardinality(Completed(runs) \ I) =
        Cardinality(Completed(runs)) - Cardinality(V)
  <2>1. Completed(runs) \cap I = I
    BY <1>3
  <2>2. IsFiniteSet(Completed(runs))
    BY CompletedFinite DEF Synced
  <2>3. IsFiniteSet(I)
    BY <1>3, <2>2, FS_Subset
  <2>4. Cardinality(Completed(runs) \ I) =
          Cardinality(Completed(runs)) - Cardinality(Completed(runs) \cap I)
    BY <2>2, <2>3, FS_Difference
  <2> QED
    BY <1>2, <2>1, <2>4
<1> QED
  BY <1>2, <1>3, <1>4, <1>6, <1>7, <1>8 DEF new, I

(* The counting of PruneRuns. *)
LEMMA PruneCounts ==
  ASSUME Synced, NEW aged, NEW over, aged \subseteq FinishedKeys,
         over \subseteq FinishedKeys \ aged
  PROVE  /\ Cardinality(aged \cup over) \in Nat
         /\ Cardinality(over) \in Nat
         /\ Cardinality(FinishedKeys \ aged) \in Nat
         /\ Bump(completedCount, -Cardinality(aged)) =
              Cardinality(FinishedKeys \ aged)
         /\ Cardinality(FinishedKeys \ aged) =
              Cardinality(Completed(runs) \ Ids(aged))
         /\ Bump(Cardinality(FinishedKeys \ aged), -Cardinality(over)) =
              Cardinality(Completed(runs) \ Ids(aged \cup over))
<1> DEFINE F == FinishedKeys
           V == aged \cup over
<1>1. /\ IsFiniteSet(F) /\ Cardinality(F) \in Nat
      /\ Cardinality(Completed(runs)) = Cardinality(F)
  BY FinishedAreCompleted, DeleteKeys
<1>2. /\ IsFiniteSet(aged) /\ Cardinality(aged) \in Nat
      /\ Cardinality(Completed(runs) \ Ids(aged)) =
           Cardinality(Completed(runs)) - Cardinality(aged)
  BY DeleteKeys
<1>3. IsFiniteSet(over) /\ Cardinality(over) \in Nat
  BY DeleteKeys
<1>4. /\ IsFiniteSet(V) /\ Cardinality(V) \in Nat
      /\ Cardinality(Completed(runs) \ Ids(V)) =
           Cardinality(Completed(runs)) - Cardinality(V)
      /\ V \subseteq FinishedKeys
  BY DeleteKeys
<1>5. Cardinality(V) = Cardinality(aged) + Cardinality(over)
  <2>1. aged \cap over = {}
    OBVIOUS
  <2> QED
    BY <1>2, <1>3, <2>1, FS_Union, FS_EmptySet
<1>6. /\ Cardinality(F \ aged) = Cardinality(F) - Cardinality(aged)
      /\ Cardinality(F \ aged) \in Nat
  <2>1. F \cap aged = aged
    OBVIOUS
  <2>2. IsFiniteSet(F \ aged)
    BY <1>1, FS_Subset
  <2> QED
    <3>1. Cardinality(F \ aged) = Cardinality(F) - Cardinality(F \cap aged)
      BY <1>1, FS_Difference
    <3> QED
      BY <2>1, <2>2, <3>1, FS_CardinalityType
<1>7. Cardinality(Completed(runs) \ Ids(V)) \in Nat
  <2>1. IsFiniteSet(Completed(runs) \ Ids(V))
    BY CompletedFinite, FS_Subset DEF Synced
  <2> QED
    BY <2>1, FS_CardinalityType
<1>8. completedCount = Cardinality(F)
  BY <1>1 DEF Synced
<1> HIDE DEF F, V
<1>9. /\ Bump(completedCount, -Cardinality(aged)) = Cardinality(F \ aged)
      /\ Bump(Cardinality(F \ aged), -Cardinality(over)) =
           Cardinality(Completed(runs) \ Ids(V))
  BY <1>1, <1>2, <1>3, <1>4, <1>5, <1>6, <1>7, <1>8 DEF Bump
<1> QED
  BY <1>1, <1>2, <1>3, <1>4, <1>6, <1>9 DEF F, V

------------------------------------------------------------------------------

(* The steps of an open file keep its four parts in agreement, and none     *)
(* replies with an error.                                                  *)

LEMMA WriteRunSynced ==
  ASSUME Synced, NEW id \in RunIds, NEW run \in Run, WriteRun(id, run)
  PROVE  Synced'
  BY PutLog, IndexesPut, CountPut DEF WriteRun, Synced

LEMMA ClearRunsSynced ==
  ASSUME ClearRuns
  PROVE  Synced'
<1>1. /\ StartedAtIndex(EmptyLog) = {}
      /\ RunningIndex(EmptyLog) = {}
      /\ Completed(EmptyLog) = {}
  BY EmptyLogLog DEF StartedAtIndex, RunningIndex, Completed
<1> QED
  BY <1>1, EmptyLogLog, FS_EmptySet DEF ClearRuns, Synced

(* What a pruning of an open file comes to. *)
LEMMA PruneRunsStep ==
  ASSUME Synced, NEW cutoff, NEW max, PruneRuns(cutoff, max)
  PROVE  \E over \in SUBSET (FinishedKeys \ AgedKeys(cutoff)) :
           LET V == AgedKeys(cutoff) \cup over
               left == FinishedKeys \ AgedKeys(cutoff)
           IN  /\ IsFirst(over, Excess(Cardinality(left), max), left)
               /\ runs' = Without(runs, Ids(V))
               /\ byStartedAt' = byStartedAt \ V
               /\ runningBySchedule' = runningBySchedule
               /\ completedCount' = Cardinality(Completed(runs) \ Ids(V))
               /\ reply' = [op |-> "prune", deleted |-> Cardinality(V),
                            kept |-> completedCount']
<1> DEFINE aged == AgedKeys(cutoff)
           left == FinishedKeys \ aged
           count == Bump(completedCount, -Cardinality(aged))
<1>1. aged \subseteq FinishedKeys
  BY DEF AgedKeys
<1>2. PICK over \in SUBSET left :
        /\ IsFirst(over, Excess(count, max), left)
        /\ IF WalkFails(cutoff, over, Excess(count, max))
           THEN TRUE
           ELSE /\ runs' = Without(runs, {k.id : k \in aged \cup over})
                /\ byStartedAt' = byStartedAt \ (aged \cup over)
                /\ completedCount' = Bump(count, -Cardinality(over))
                /\ reply' = [op |-> "prune",
                             deleted |-> Cardinality(aged \cup over),
                             kept |-> completedCount']
                /\ UNCHANGED runningBySchedule
  BY DEF PruneRuns
<1>3. ~WalkFails(cutoff, over, Excess(count, max))
  BY WalkSucceeds
<1>4. /\ count = Cardinality(left)
      /\ Bump(count, -Cardinality(over)) =
           Cardinality(Completed(runs) \ Ids(aged \cup over))
  <2>1. over \subseteq FinishedKeys \ aged
    OBVIOUS
  <2>2. /\ count = Cardinality(left)
        /\ Bump(Cardinality(left), -Cardinality(over)) =
             Cardinality(Completed(runs) \ Ids(aged \cup over))
    <3> HIDE DEF aged
    <3> QED
      BY <1>1, <2>1, PruneCounts
  <2> QED
    BY <2>2
<1> QED
  BY <1>2, <1>3, <1>4 DEF Ids

LEMMA PruneRunsSynced ==
  ASSUME Synced, NEW cutoff, NEW max, PruneRuns(cutoff, max)
  PROVE  Synced' /\ reply'.op = "prune"
<1>1. PICK over \in SUBSET (FinishedKeys \ AgedKeys(cutoff)) :
        LET V == AgedKeys(cutoff) \cup over
            left == FinishedKeys \ AgedKeys(cutoff)
        IN  /\ IsFirst(over, Excess(Cardinality(left), max), left)
            /\ runs' = Without(runs, Ids(V))
            /\ byStartedAt' = byStartedAt \ V
            /\ runningBySchedule' = runningBySchedule
            /\ completedCount' = Cardinality(Completed(runs) \ Ids(V))
            /\ reply' = [op |-> "prune", deleted |-> Cardinality(V),
                         kept |-> completedCount']
  BY PruneRunsStep
<1> DEFINE V == AgedKeys(cutoff) \cup over
<1>2. V \subseteq FinishedKeys
  BY DEF AgedKeys
<1>3. /\ Without(runs, Ids(V)) \in Logs(RunIds)
      /\ StartedAtIndex(Without(runs, Ids(V))) = byStartedAt \ V
      /\ RunningIndex(Without(runs, Ids(V))) = runningBySchedule
      /\ Completed(Without(runs, Ids(V))) = Completed(runs) \ Ids(V)
  BY <1>2, DeleteKeys
<1> QED
  BY <1>1, <1>3 DEF Synced

LEMMA OpenBoltStoreInv == IInv /\ OpenBoltStore => IInv'
<1> SUFFICES ASSUME IInv, OpenBoltStore PROVE IInv'
  OBVIOUS
<1>1. runs' = runs /\ reply' = reply /\ opened' = TRUE /\ buckets' = IndexBuckets
  BY DEF OpenBoltStore
<1>2. runs \in Logs(RunIds)
  BY DEF IInv, TypeOK
<1>3. Synced'
  <2>1. CASE buckets = IndexBuckets
    BY <1>1, <1>2, <2>1 DEF OpenBoltStore, IInv, IndexesExact, IndexBuckets, Synced
  <2>2. CASE buckets # IndexBuckets
    BY <1>1, <1>2, <2>2 DEF OpenBoltStore, RebuildRunIndexes, Synced
  <2> QED
    BY <2>1, <2>2
<1>4. reply'.op \in {"none", "save", "clear", "prune", "error", "list", "has"}
  BY <1>1 DEF IInv, TypeOK
<1>5. /\ byStartedAt' \subseteq [startedAt : Times, id : RunIds]
      /\ runningBySchedule' \subseteq [schedule : ScheduleNames, id : RunIds]
      /\ completedCount' \in Nat
  BY <1>1, <1>2, <1>3, IndexTypes, CompletedFinite DEF Synced
<1> QED
  BY <1>1, <1>2, <1>3, <1>4, <1>5 DEF IInv, TypeOK, IndexesExact, Synced

(* Steps of an open file that keep it open. *)
LEMMA SyncedStep ==
  ASSUME IInv, opened, Synced', buckets' = buckets, opened' = opened,
         reply'.op \in {"none", "save", "clear", "prune", "error", "list", "has"}
  PROVE  IInv'
<1>1. /\ byStartedAt' \subseteq [startedAt : Times, id : RunIds]
      /\ runningBySchedule' \subseteq [schedule : ScheduleNames, id : RunIds]
      /\ completedCount' \in Nat
  BY IndexTypes, CompletedFinite DEF Synced
<1> QED
  BY <1>1 DEF IInv, TypeOK, IndexesExact, Synced

LEMMA ReadSynced ==
  ASSUME Synced,
         UNCHANGED <<runs, byStartedAt, runningBySchedule, completedCount>>
  PROVE  Synced'
  BY DEF Synced

LEMMA InitInv == Init => IInv
<1> SUFFICES ASSUME Init PROVE IInv
  OBVIOUS
<1>1. /\ runs \in Logs(RunIds)
      /\ Cardinality(Completed(runs)) \in Nat
  BY CompletedFinite DEF Init
<1>2. /\ StartedAtIndex(runs) \subseteq [startedAt : Times, id : RunIds]
      /\ RunningIndex(runs) \subseteq [schedule : ScheduleNames, id : RunIds]
  BY <1>1, IndexTypes
<1> QED
  BY <1>1, <1>2 DEF Init, IInv, TypeOK, IndexesExact, NoReply

LEMMA NextInv == IInv /\ [Next]_vars => IInv' /\ (PruneNeverFails => PruneNeverFails')
<1> SUFFICES ASSUME IInv, [Next]_vars
             PROVE  IInv' /\ (PruneNeverFails => PruneNeverFails')
  OBVIOUS
<1> USE DEF PruneNeverFails
<1>0. opened => Synced
  BY OpenIsSynced
<1>1. CASE OpenBoltStore
  BY <1>1, OpenBoltStoreInv DEF OpenBoltStore
<1>2. CASE Close
  BY <1>2 DEF Close, IInv, TypeOK, IndexesExact
<1>3. ASSUME NEW id \in RunIds, NEW run \in Run, WriteRun(id, run)
      PROVE  IInv' /\ PruneNeverFails'
  <2>1. opened /\ buckets' = buckets /\ opened' = opened /\ reply'.op = "save"
    BY <1>3 DEF WriteRun
  <2>2. Synced'
    BY <1>0, <1>3, <2>1, WriteRunSynced
  <2> QED
    BY <2>1, <2>2, SyncedStep
<1>4. CASE ClearRuns
  <2>1. opened /\ buckets' = buckets /\ opened' = opened /\ reply'.op = "clear"
    BY <1>4 DEF ClearRuns
  <2>2. Synced'
    BY <1>4, ClearRunsSynced
  <2> QED
    BY <2>1, <2>2, SyncedStep
<1>5. ASSUME NEW cutoff \in Cutoffs, NEW max \in RecordLimits,
             PruneRuns(cutoff, max)
      PROVE  IInv' /\ PruneNeverFails'
  <2>1. opened /\ buckets' = buckets /\ opened' = opened
    BY <1>5 DEF PruneRuns
  <2>2. Synced' /\ reply'.op = "prune"
    BY <1>0, <1>5, <2>1, PruneRunsSynced
  <2> QED
    BY <2>1, <2>2, SyncedStep
<1>6. ASSUME NEW limit \in PageLimits, ListRuns(limit)
      PROVE  IInv' /\ PruneNeverFails'
  <2>1. /\ opened /\ buckets' = buckets /\ opened' = opened /\ reply'.op = "list"
        /\ UNCHANGED <<runs, byStartedAt, runningBySchedule, completedCount>>
    BY <1>6 DEF ListRuns
  <2> QED
    BY <1>0, <2>1, ReadSynced, SyncedStep
<1>7. ASSUME NEW name \in ScheduleNames, HasRunningRun(name)
      PROVE  IInv' /\ PruneNeverFails'
  <2>1. /\ opened /\ buckets' = buckets /\ opened' = opened /\ reply'.op = "has"
        /\ UNCHANGED <<runs, byStartedAt, runningBySchedule, completedCount>>
    BY <1>7 DEF HasRunningRun
  <2> QED
    BY <1>0, <2>1, ReadSynced, SyncedStep
<1>8. CASE UNCHANGED vars
  BY <1>8 DEF vars, IInv, TypeOK, IndexesExact
<1> QED
  BY <1>1, <1>2, <1>3, <1>4, <1>5, <1>6, <1>7, <1>8 DEF Next

\* In every reachable state of the bbolt file the index buckets and the count
\* that exist are exactly those the records determine, and all is well-typed.
THEOREM StoreInvariant == Spec => [](TypeOK /\ IndexesExact)
<1>1. Init => IInv
  BY InitInv
<1>2. IInv /\ [Next]_vars => IInv'
  BY NextInv
<1>3. IInv => TypeOK /\ IndexesExact
  BY DEF IInv
<1> QED
  BY <1>1, <1>2, <1>3, PTL DEF Spec

\* Every bucket holds what its keys say: TypeOK of BoltStore.
THEOREM StoreTypes == Spec => []TypeOK
<1>1. TypeOK /\ IndexesExact => TypeOK
  OBVIOUS
<1> QED
  BY <1>1, StoreInvariant, PTL

\* PruneRuns never meets an index key whose record is gone.
THEOREM PruningNeverFails == Spec => []PruneNeverFails
<1>1. Init => IInv /\ PruneNeverFails
  BY InitInv DEF Init, NoReply, PruneNeverFails
<1>2. (IInv /\ PruneNeverFails) /\ [Next]_vars => (IInv /\ PruneNeverFails)'
  BY NextInv
<1> QED
  BY <1>1, <1>2, PTL DEF Spec

------------------------------------------------------------------------------

(* The refinement.  The operators RunLog shares with this module are the    *)
(* same ones.                                                              *)

LEMMA SameCardinality ==
  ASSUME NEW S
  PROVE  Log!Cardinality(S) = Cardinality(S)
  BY DEF Log!Cardinality, Cardinality

LEMMA SameFiniteness ==
  ASSUME NEW S
  PROVE  Log!IsFiniteSet(S) <=> IsFiniteSet(S)
  BY DEF Log!IsFiniteSet, IsFiniteSet

LEMMA SameOperators ==
  /\ Log!Run = Run
  /\ Log!Logs(RunIds) = Logs(RunIds)
  /\ Log!EmptyLog = EmptyLog
  /\ \A log, id, run : Log!Put(log, id, run) = Put(log, id, run)
  /\ \A log, ids : Log!Without(log, ids) = Without(log, ids)
  /\ \A log : Log!Completed(log) = Completed(log)
  /\ \A log, name : Log!RunningOf(log, name) = RunningOf(log, name)
  /\ \A n, max : Log!Excess(n, max) = Excess(n, max)
<1>1. Log!Running = Running
  BY DEF Log!Running, Running
<1>2. Log!Run = Run
  BY <1>1 DEF Log!Run, Run
<1>3. Log!Logs(RunIds) = Logs(RunIds)
  <2>1. {T \in SUBSET RunIds : Log!IsFiniteSet(T)} =
          {T \in SUBSET RunIds : IsFiniteSet(T)}
    BY SameFiniteness
  <2> QED
    BY <1>2, <2>1 DEF Log!Logs, Logs
<1>4. Log!EmptyLog = EmptyLog
  BY <1>1 DEF Log!EmptyLog, EmptyLog
<1>5. /\ \A log, id, run : Log!Put(log, id, run) = Put(log, id, run)
      /\ \A log, ids : Log!Without(log, ids) = Without(log, ids)
  BY DEF Log!Put, Put, Log!Without, Without
<1>6. \A log : Log!Completed(log) = Completed(log)
  BY <1>1 DEF Log!Completed, Completed
<1>7. \A log, name : Log!RunningOf(log, name) = RunningOf(log, name)
  BY <1>1 DEF Log!RunningOf, RunningOf
<1>8. \A n, max : Log!Excess(n, max) = Excess(n, max)
  BY DEF Log!Excess, Excess
<1> QED
  BY <1>2, <1>3, <1>4, <1>5, <1>6, <1>7, <1>8

LEMMA SameVictims ==
  ASSUME NEW log, NEW cutoff, NEW max
  PROVE  Log!PruneVictims(log, cutoff, max) = PruneVictims(log, cutoff, max)
<1> DEFINE aged == {id \in Completed(log) : log[id].startedAt < cutoff}
           kept == Completed(log) \ aged
<1>1. Log!Completed(log) = Completed(log)
  BY SameOperators
<1>2. \A ids : Log!Cardinality(ids) = Cardinality(ids)
  BY SameCardinality
<1>3. Log!Excess(Cardinality(kept), max) = Excess(Cardinality(kept), max)
  BY SameOperators
<1> QED
  BY <1>1, <1>2, <1>3 DEF Log!PruneVictims, PruneVictims

(* Ids and start times of the keys of an exact index. *)
LEMMA KeyFacts ==
  ASSUME Synced
  PROVE  /\ \A k \in byStartedAt : /\ k.id \in DOMAIN runs
                                  /\ k.startedAt = runs[k.id].startedAt
                                  /\ k.startedAt \in Nat
         /\ \A j, k \in byStartedAt : j.id = k.id => j = k
         /\ \A i \in DOMAIN runs : \E k \in byStartedAt : k.id = i
<1>1. \A k \in byStartedAt :
        k.id \in DOMAIN runs /\ k = StartedAtKey(k.id, runs[k.id])
  BY KeysAndIds DEF Synced
<1>2. \A i \in DOMAIN runs : runs[i].startedAt \in Nat
  BY LogMembers, BoltStoreAssumption DEF Synced, Run
<1>3. \A k \in byStartedAt : /\ k.startedAt = runs[k.id].startedAt
                             /\ k.startedAt \in Nat
  BY <1>1, <1>2 DEF StartedAtKey
<1>4. \A j, k \in byStartedAt : j.id = k.id => j = k
  BY <1>1
<1>5. \A i \in DOMAIN runs : \E k \in byStartedAt : k.id = i
  <2> SUFFICES ASSUME NEW i \in DOMAIN runs
               PROVE  \E k \in byStartedAt : k.id = i
    OBVIOUS
  <2>1. StartedAtKey(i, runs[i]) \in byStartedAt
    BY DEF Synced, StartedAtIndex
  <2>2. StartedAtKey(i, runs[i]).id = i
    BY DEF StartedAtKey
  <2> QED
    BY <2>1, <2>2
<1> QED
  BY <1>1, <1>3, <1>4, <1>5

LEMMA PruneRunsRefines ==
  ASSUME Synced, NEW cutoff \in Nat, NEW max \in Nat, PruneRuns(cutoff, max)
  PROVE  Log!PruneRuns(cutoff, max)
<1>1. PICK over \in SUBSET (FinishedKeys \ AgedKeys(cutoff)) :
        LET V == AgedKeys(cutoff) \cup over
            left == FinishedKeys \ AgedKeys(cutoff)
        IN  /\ IsFirst(over, Excess(Cardinality(left), max), left)
            /\ runs' = Without(runs, Ids(V))
            /\ byStartedAt' = byStartedAt \ V
            /\ runningBySchedule' = runningBySchedule
            /\ completedCount' = Cardinality(Completed(runs) \ Ids(V))
            /\ reply' = [op |-> "prune", deleted |-> Cardinality(V),
                         kept |-> completedCount']
  BY PruneRunsStep
<1> DEFINE aged == AgedKeys(cutoff)
           left == FinishedKeys \ aged
           n == Excess(Cardinality(left), max)
           V == aged \cup over
           agedIds == {id \in Completed(runs) : runs[id].startedAt < cutoff}
           kept == Completed(runs) \ agedIds
<1>2. /\ \A k \in byStartedAt : /\ k.id \in DOMAIN runs
                               /\ k.startedAt = runs[k.id].startedAt
                               /\ k.startedAt \in Nat
      /\ \A j, k \in byStartedAt : j.id = k.id => j = k
  BY KeyFacts
<1>3. aged \subseteq FinishedKeys /\ FinishedKeys \subseteq byStartedAt
  BY DEF AgedKeys, FinishedKeys
<1>4. Ids(FinishedKeys) = Completed(runs)
  BY FinishedAreCompleted
<1>5. Ids(aged) = agedIds
  BY <1>2, <1>3, <1>4 DEF Ids, AgedKeys
<1>6. kept = Ids(left)
  BY <1>2, <1>3, <1>4, <1>5 DEF Ids
<1>7. Ids(V) = agedIds \cup Ids(over)
  BY <1>5 DEF Ids
<1>8. Ids(over) \in SUBSET kept
  BY <1>6 DEF Ids
<1>9. /\ Cardinality(Ids(over)) = Cardinality(over)
      /\ Cardinality(Ids(V)) = Cardinality(V)
      /\ Cardinality(kept) = Cardinality(left)
      /\ Cardinality(left) \in Nat
  <2>1. /\ over \subseteq FinishedKeys /\ V \subseteq FinishedKeys
        /\ left \subseteq FinishedKeys
    BY <1>3
  <2> HIDE DEF V, left
  <2> QED
    BY <2>1, <1>6, DeleteKeys
<1>10. IsFirst(over, n, left)
  BY <1>1
<1>11. Cardinality(Ids(over)) = Excess(Cardinality(kept), max)
  <2>1. n <= Cardinality(left) /\ n \in Nat
    BY <1>9 DEF Excess
  <2>2. Cardinality(over) = n
    BY <1>9, <1>10, <2>1 DEF IsFirst
  <2> QED
    BY <1>9, <2>2
<1>12. \A v \in Ids(over), k \in kept \ Ids(over) :
         runs[v].startedAt <= runs[k].startedAt
  <2> SUFFICES ASSUME NEW i \in Ids(over), NEW j \in kept \ Ids(over)
               PROVE  runs[i].startedAt <= runs[j].startedAt
    OBVIOUS
  <2>1. PICK v \in over : v.id = i
    BY DEF Ids
  <2>2. PICK k \in left : k.id = j
    BY <1>6 DEF Ids
  <2>3. k \notin over
    BY <2>2 DEF Ids
  <2>4. KeyLess(v, k)
    BY <1>10, <2>3 DEF IsFirst
  <2>5. v \in byStartedAt /\ k \in byStartedAt
    BY <1>3
  <2>6. v.startedAt <= k.startedAt
    BY <1>2, <2>4, <2>5 DEF KeyLess
  <2> QED
    BY <1>2, <2>1, <2>2, <2>5, <2>6
<1>13. Ids(V) \in Log!PruneVictims(runs, cutoff, max)
  <2>1. Ids(V) \in PruneVictims(runs, cutoff, max)
    <3> HIDE DEF V
    <3> QED
      BY <1>7, <1>8, <1>11, <1>12 DEF PruneVictims
  <2>2. Log!PruneVictims(runs, cutoff, max) = PruneVictims(runs, cutoff, max)
    BY SameVictims
  <2> QED
    BY <2>1, <2>2
<1>14. /\ runs' = Log!Without(runs, Ids(V))
       /\ reply' = [op |-> "prune", deleted |-> Log!Cardinality(Ids(V)),
                    kept |-> Log!Cardinality(Log!Completed(runs) \ Ids(V))]
  <2>1. \A S : Log!Cardinality(S) = Cardinality(S)
    BY SameCardinality
  <2>2. Log!Without(runs, Ids(V)) = Without(runs, Ids(V))
    BY SameOperators
  <2>3. Log!Completed(runs) = Completed(runs)
    BY SameOperators
  <2>4. /\ runs' = Without(runs, Ids(V))
        /\ reply' = [op |-> "prune", deleted |-> Cardinality(V),
                     kept |-> Cardinality(Completed(runs) \ Ids(V))]
    BY <1>1
  <2> HIDE DEF V
  <2> QED
    BY <1>9, <2>1, <2>2, <2>3, <2>4
<1> HIDE DEF V
<1> QED
  BY <1>13, <1>14 DEF Log!PruneRuns

LEMMA ListRunsRefines ==
  ASSUME Synced, NEW limit \in Nat, ListRuns(limit)
  PROVE  Log!ListRuns(limit)
<1>1. /\ \A k \in byStartedAt : /\ k.id \in DOMAIN runs
                               /\ k.startedAt = runs[k.id].startedAt
                               /\ k.startedAt \in Nat
      /\ \A j, k \in byStartedAt : j.id = k.id => j = k
      /\ \A i \in DOMAIN runs : \E k \in byStartedAt : k.id = i
  BY KeyFacts
<1>2. {k \in byStartedAt : k.id \in DOMAIN runs} = byStartedAt
  BY <1>1
<1>3. PICK page \in SUBSET byStartedAt :
        /\ \/ page = byStartedAt /\ (limit = 0 \/ Cardinality(byStartedAt) <= limit)
           \/ limit > 0 /\ Cardinality(page) = limit
        /\ \A p \in page, q \in byStartedAt \ page : KeyLess(q, p)
        /\ reply' = [op |-> "list", ids |-> {k.id : k \in page}]
  BY <1>2 DEF ListRuns
<1>4. Ids(byStartedAt) = DOMAIN runs
  <2>1. Ids(byStartedAt) \subseteq DOMAIN runs
    BY <1>1 DEF Ids
  <2>2. \A i \in DOMAIN runs : i \in Ids(byStartedAt)
    BY <1>1 DEF Ids
  <2> QED
    BY <2>1, <2>2
<1>5. /\ Cardinality(Ids(page)) = Cardinality(page)
      /\ Cardinality(DOMAIN runs) = Cardinality(byStartedAt)
  <2>1. /\ page \subseteq StartedAtIndex(runs)
        /\ byStartedAt \subseteq StartedAtIndex(runs)
    BY DEF Synced
  <2>2. runs \in Logs(RunIds)
    BY DEF Synced
  <2> QED
    BY <1>4, <2>1, <2>2, KeysAndIds DEF Ids
<1>6. Ids(page) \subseteq DOMAIN runs
  BY <1>4 DEF Ids
<1>7. \A p \in Ids(page), q \in DOMAIN runs \ Ids(page) :
        runs[q].startedAt <= runs[p].startedAt
  <2> SUFFICES ASSUME NEW i \in Ids(page), NEW j \in DOMAIN runs \ Ids(page)
               PROVE  runs[j].startedAt <= runs[i].startedAt
    OBVIOUS
  <2>1. PICK p \in page : p.id = i
    BY DEF Ids
  <2>2. PICK q \in byStartedAt : q.id = j
    BY <1>1
  <2>3. q \notin page
    BY <2>2 DEF Ids
  <2>4. KeyLess(q, p)
    BY <1>3, <2>3
  <2>5. q.startedAt <= p.startedAt
    BY <1>1, <2>4 DEF KeyLess
  <2> QED
    BY <1>1, <2>1, <2>2, <2>5
<1>8. Log!IsPage(Ids(page), limit)
  <2>1. /\ Log!Cardinality(Ids(page)) = Cardinality(page)
        /\ Log!Cardinality(DOMAIN runs) = Cardinality(byStartedAt)
        /\ Log!Cardinality(Ids(page)) = Cardinality(Ids(page))
    BY <1>5, SameCardinality
  <2>2. CASE page = byStartedAt /\ (limit = 0 \/ Cardinality(byStartedAt) <= limit)
    <3>1. Ids(page) = DOMAIN runs
      BY <1>4, <2>2
    <3> QED
      BY <1>6, <1>7, <2>1, <2>2, <3>1 DEF Log!IsPage
  <2>3. CASE limit > 0 /\ Cardinality(page) = limit
    <3>1. limit # 0
      BY <2>3
    <3>2. Log!Cardinality(Ids(page)) = limit
      BY <2>1, <2>3
    <3> QED
      BY <1>6, <1>7, <3>1, <3>2 DEF Log!IsPage
  <2> QED
    BY <1>3, <2>2, <2>3
<1> QED
  BY <1>3, <1>6, <1>8 DEF Log!ListRuns, ListRuns, Ids

LEMMA HasRunningRunRefines ==
  ASSUME Synced, NEW name, HasRunningRun(name)
  PROVE  Log!HasRunningRun(name)
<1>1. (\E k \in runningBySchedule : k.schedule = name) <=> RunningOf(runs, name) # {}
  <2>1. ASSUME NEW k \in runningBySchedule, k.schedule = name
        PROVE  RunningOf(runs, name) # {}
    BY <2>1 DEF Synced, RunningIndex, RunningKey, RunningOf
  <2>2. ASSUME NEW i \in RunningOf(runs, name)
        PROVE  \E k \in runningBySchedule : k.schedule = name
    <3>1. RunningKey(i, runs[i]) \in runningBySchedule
      BY DEF Synced, RunningIndex, RunningOf
    <3>2. RunningKey(i, runs[i]).schedule = name
      BY DEF RunningKey, RunningOf
    <3> QED
      BY <3>1, <3>2
  <2> QED
    BY <2>1, <2>2
<1> QED
  BY <1>1, SameOperators DEF HasRunningRun, Log!HasRunningRun

LEMMA StepRefines == IInv /\ [Next]_vars => [Log!Next]_(Log!vars)
<1> SUFFICES ASSUME IInv, [Next]_vars PROVE [Log!Next]_(Log!vars)
  OBVIOUS
<1>0. opened => Synced
  BY OpenIsSynced
<1>1. CASE OpenBoltStore \/ Close \/ UNCHANGED vars
  BY <1>1 DEF OpenBoltStore, Close, vars, Log!vars
<1>2. ASSUME NEW id \in RunIds, NEW run \in Run, WriteRun(id, run)
      PROVE  Log!Next
  <2>1. Log!SaveRun(id, run) /\ run \in Log!Run
    BY <1>2, SameOperators DEF WriteRun, Log!SaveRun
  <2> QED
    BY <2>1 DEF Log!Next
<1>3. CASE ClearRuns
  <2>1. Log!ClearRuns
    BY <1>3, SameOperators DEF ClearRuns, Log!ClearRuns
  <2> QED
    BY <2>1 DEF Log!Next
<1>4. ASSUME NEW cutoff \in Cutoffs, NEW max \in RecordLimits,
             PruneRuns(cutoff, max)
      PROVE  Log!Next
  <2>1. Log!PruneRuns(cutoff, max)
    BY <1>0, <1>4, BoltStoreAssumption, PruneRunsRefines DEF PruneRuns
  <2> QED
    BY <2>1 DEF Log!Next
<1>5. ASSUME NEW limit \in PageLimits, ListRuns(limit)
      PROVE  Log!Next
  <2>1. Log!ListRuns(limit)
    BY <1>0, <1>5, BoltStoreAssumption, ListRunsRefines DEF ListRuns
  <2> QED
    BY <2>1 DEF Log!Next
<1>6. ASSUME NEW name \in ScheduleNames, HasRunningRun(name)
      PROVE  Log!Next
  <2>1. Log!HasRunningRun(name)
    BY <1>0, <1>6, HasRunningRunRefines DEF HasRunningRun
  <2> QED
    BY <2>1 DEF Log!Next
<1> QED
  BY <1>1, <1>2, <1>3, <1>4, <1>5, <1>6 DEF Next

\* The bbolt store, its indexes hidden, answers every sequence of operations
\* with crashes and reopenings as one map of records would.
THEOREM StoreImplementsRunLog == Spec => ImplementsRunLog
<1>1. Init => Log!Init
  BY SameOperators DEF Init, Log!Init, NoReply, Log!NoReply
<1>2. Init => IInv
  BY InitInv
<1>3. IInv /\ [Next]_vars => IInv'
  BY NextInv
<1>4. IInv /\ [Next]_vars => [Log!Next]_(Log!vars)
  BY StepRefines
<1> QED
  BY <1>1, <1>2, <1>3, <1>4, PTL DEF Spec, ImplementsRunLog, Log!Spec

\* No step but the clearing of the log deletes a running record.
THEOREM RunningRecordsKept == Spec => RunningDroppedOnlyByClear
<1> DEFINE Kept == \A id \in DOMAIN runs :
                     runs[id].status = Running /\ id \notin DOMAIN runs'
                       => reply'.op = "clear"
<1>1. Init => IInv
  BY InitInv
<1>2. IInv /\ [Next]_vars => IInv'
  BY NextInv
<1>3. IInv /\ [Next]_vars => [Kept]_vars
  <2> SUFFICES ASSUME IInv, Next PROVE Kept
    OBVIOUS
  <2>0. opened => Synced
    BY OpenIsSynced
  <2>1. CASE OpenBoltStore \/ Close
    BY <2>1 DEF OpenBoltStore, Close
  <2>2. ASSUME NEW id \in RunIds, NEW run \in Run, WriteRun(id, run)
        PROVE  Kept
    BY <2>2 DEF WriteRun, Put
  <2>3. CASE ClearRuns
    BY <2>3 DEF ClearRuns
  <2>4. ASSUME NEW cutoff \in Cutoffs, NEW max \in RecordLimits,
               PruneRuns(cutoff, max)
        PROVE  Kept
    <3>1. Synced
      BY <2>0, <2>4 DEF PruneRuns
    <3>2. PICK over \in SUBSET (FinishedKeys \ AgedKeys(cutoff)) :
            LET V == AgedKeys(cutoff) \cup over
                left == FinishedKeys \ AgedKeys(cutoff)
            IN  /\ IsFirst(over, Excess(Cardinality(left), max), left)
                /\ runs' = Without(runs, Ids(V))
                /\ byStartedAt' = byStartedAt \ V
                /\ runningBySchedule' = runningBySchedule
                /\ completedCount' = Cardinality(Completed(runs) \ Ids(V))
                /\ reply' = [op |-> "prune", deleted |-> Cardinality(V),
                             kept |-> completedCount']
      BY <2>4, <3>1, PruneRunsStep
    <3>3. Ids(AgedKeys(cutoff) \cup over) \subseteq Completed(runs)
      BY DEF Ids, AgedKeys, FinishedKeys
    <3> QED
      BY <3>2, <3>3 DEF Without, Completed
  <2>5. ASSUME NEW limit \in PageLimits, ListRuns(limit)
        PROVE  Kept
    BY <2>5 DEF ListRuns
  <2>6. ASSUME NEW name \in ScheduleNames, HasRunningRun(name)
        PROVE  Kept
    BY <2>6 DEF HasRunningRun
  <2> QED
    BY <2>1, <2>2, <2>3, <2>4, <2>5, <2>6 DEF Next
<1> QED
  BY <1>1, <1>2, <1>3, PTL DEF Spec, RunningDroppedOnlyByClear
==============================================================================
