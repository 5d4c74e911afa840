------------------------ MODULE IngestSchedulerProofs -------------------------
(***************************************************************************)
(* What the guards of ingestion still ensure when passes fail, hang, are   *)
(* given up on and come back: proofs for any number of passes and faults.  *)
(*                                                                         *)
(* The invariant is the conjunction of the type invariant with the three   *)
(* properties; it is inductive as it stands.  Only the kinds of the passes *)
(* matter to the three: Guarded and Watchers below are the sets they       *)
(* count, and each action leaves them, adds a pass or takes one out.       *)
(***************************************************************************)
EXTENDS IngestScheduler, FiniteSetTheorems, TLAPS

Watchers == {r \in Slots : pass[r].kind = "watch"}

IInv == TypeOK /\ StackBound /\ WatcherFlagHonest /\ FlagHasOwner

-------------------------------------------------------------------------------
(* The smaller of two integers in a range lies in it. *)
LEMMA LeastInRange ==
    ASSUME NEW a \in Nat, NEW b \in Nat
    PROVE  Least(a, b) \in 0..b /\ (Least(a, b) = a \/ Least(a, b) = b)
BY DEF Least

(* A pass that has just begun is a pass. *)
LEMMA NewIsPass ==
    ASSUME NEW k \in Kinds
    PROVE  New(k) \in Pass /\ New(k).kind = k /\ NoPass \in Pass /\ NoPass.kind = "none"
<1>1. 0 \in 0..Hang
  BY TimeAssumption
<1>2. NoPass \in Pass /\ NoPass.kind = "none"
  BY <1>1 DEF NoPass, Pass, Kinds
<1>3. New(k) \in Pass /\ New(k).kind = k
  BY <1>2 DEF New, Pass
<1> QED
  BY <1>2, <1>3

(* The sets of passes are finite, and no larger than the set of slots. *)
LEMMA SetsAreFinite ==
    /\ IsFiniteSet(Guarded) /\ Cardinality(Guarded) \in Nat
    /\ IsFiniteSet(Watchers) /\ Cardinality(Watchers) \in Nat
    /\ Cardinality(Slots) \in Nat /\ Cardinality(Slots) >= 1
    /\ Cardinality(Guarded) <= Cardinality(Slots)
<1>1. IsFiniteSet(Slots) /\ Slots # {}
  BY SlotsAssumption
<1>2. Guarded \subseteq Slots /\ Watchers \subseteq Slots
  BY DEF Guarded, Watchers
<1>3. Cardinality(Slots) \in Nat /\ Cardinality(Slots) # 0
  BY <1>1, FS_CardinalityType, FS_EmptySet
<1> QED
  BY <1>1, <1>2, <1>3, FS_Subset, FS_CardinalityType

-------------------------------------------------------------------------------
(* The type invariant *)

LEMMA TypeInit == Init => TypeOK
<1> SUFFICES ASSUME Init PROVE TypeOK
  OBVIOUS
<1>1. pass \in [Slots -> Pass]
  BY NewIsPass DEF Init, Kinds
<1>2. Cardinality(Slots) \in Nat
  BY SetsAreFinite
<1>3. idle \in 0..MaxIdle
  BY TimeAssumption DEF Init, MaxIdle
<1>4. /\ written \in 0..MaxWrites /\ ingested \in 0..written
      /\ hangs \in 0..MaxHangs /\ troubles \in 0..MaxTroubles
      /\ abandoned \in 0..Cardinality(Slots)
  BY <1>2, BoundAssumption DEF Init
<1>5. /\ started \in BOOLEAN /\ inFlight \in BOOLEAN /\ due \in BOOLEAN
      /\ ingesting \in BOOLEAN /\ armed \in BOOLEAN
      /\ running \in Slots \cup {NoPid, BadPid}
  BY DEF Init
<1> QED
  BY <1>1, <1>3, <1>4, <1>5 DEF TypeOK

(* What the end of a pass leaves behind is typed. *)
LEMMA EndsTyped ==
    ASSUME TypeOK, NEW r \in Slots, Ends(r)
    PROVE  /\ started' \in BOOLEAN /\ inFlight' \in BOOLEAN /\ due' \in BOOLEAN
           /\ ingesting' \in BOOLEAN /\ armed' \in BOOLEAN
           /\ idle' \in 0..MaxIdle
           /\ running' \in Slots \cup {NoPid, BadPid}
           /\ pass' \in [Slots -> Pass]
           /\ UNCHANGED <<written, ingested, abandoned>>
<1>1. NoPass \in Pass
  BY NewIsPass DEF Kinds
<1>2. pass' \in [Slots -> Pass]
  BY <1>1 DEF TypeOK, Ends
<1>3. started' \in BOOLEAN /\ inFlight' \in BOOLEAN /\ idle' \in 0..MaxIdle
  <2>1. 0 \in 0..MaxIdle
    BY TimeAssumption DEF MaxIdle
  <2>2. CASE r \in Guarded
    BY <2>1, <2>2 DEF Ends, Lowered
  <2>3. CASE r \notin Guarded
    BY <2>3 DEF Ends, TypeOK
  <2> QED
    BY <2>2, <2>3
<1>4. /\ due' \in BOOLEAN /\ armed' \in BOOLEAN /\ ingesting' \in BOOLEAN
      /\ running' \in Slots \cup {NoPid, BadPid}
      /\ UNCHANGED <<written, ingested, abandoned>>
  BY DEF TypeOK, Ends, data
<1> QED
  BY <1>2, <1>3, <1>4

LEMMA TypeStep == TypeOK /\ [Next]_vars => TypeOK'
<1> SUFFICES ASSUME TypeOK, [Next]_vars PROVE TypeOK'
  OBVIOUS
<1> USE BoundAssumption, TimeAssumption DEF TypeOK, MaxIdle
<1>0. /\ Cardinality(Slots) \in Nat
      /\ \A k \in Kinds : New(k) \in Pass
      /\ NoPass \in Pass
  BY SetsAreFinite, NewIsPass DEF Kinds
<1>1. CASE HarnessWrites
  BY <1>1 DEF HarnessWrites, worker, faults
<1>2. CASE WatchEvent
  BY <1>2 DEF WatchEvent, data, faults
<1>3. CASE Tick
  <2>1. idle' \in 0..MaxIdle
    BY <1>3, LeastInRange DEF Tick
  <2>2. pass' \in [Slots -> Pass]
    <3> SUFFICES ASSUME NEW r \in Slots PROVE [pass[r] EXCEPT !.age = Least(@ + 1, Hang)] \in Pass
      BY <1>3, <1>0 DEF Tick
    <3>1. pass[r] \in Pass /\ pass[r].age + 1 \in Nat
      BY DEF Pass
    <3>2. Least(pass[r].age + 1, Hang) \in 0..Hang
      BY <3>1, LeastInRange
    <3> QED
      BY <3>1, <3>2 DEF Pass
  <2> QED
    BY <1>3, <2>1, <2>2 DEF Tick, data, faults
<1>4. CASE WatchdogContent
  BY <1>4 DEF WatchdogContent, data, faults
<1>5. CASE PostIngestFails
  BY <1>5 DEF PostIngestFails, FailedPid, worker, data
<1>6. CASE WebRestarts
  BY <1>6 DEF WebRestarts, worker, data
<1>7. ASSUME NEW r \in Slots, PeriodicTimer(r) PROVE TypeOK'
  BY <1>0, <1>7 DEF PeriodicTimer, Kinds, data, faults
<1>8. ASSUME NEW r \in Slots, DebounceFires(r) PROVE TypeOK'
  BY <1>0, <1>8 DEF DebounceFires, Kinds, data, faults
<1>9. ASSUME NEW r \in Slots, WatchdogRestarts(r) PROVE TypeOK'
  <2>1. pass' \in [Slots -> Pass]
    <3> SUFFICES ASSUME NEW s \in Slots PROVE [pass[s] EXCEPT !.left = TRUE] \in Pass
      BY <1>0, <1>9 DEF WatchdogRestarts, Kinds
    <3> QED
      BY DEF Pass
  <2>2. abandoned' \in 0..Cardinality(Slots)
    <3>1. abandoned + 1 \in Nat
      BY <1>0
    <3>2. Least(abandoned + 1, Cardinality(Slots)) \in 0..Cardinality(Slots)
      BY <1>0, <3>1, LeastInRange
    <3> QED
      BY <1>9, <3>2 DEF WatchdogRestarts
  <2> QED
    BY <1>9, <2>1, <2>2 DEF WatchdogRestarts, data, faults
<1>10. ASSUME NEW r \in Slots, WorkerRestarts(r) PROVE TypeOK'
  <2>1. pass' \in [Slots -> Pass]
    BY <1>0, <1>10 DEF WorkerRestarts, Kinds
  <2>2. abandoned' \in 0..Cardinality(Slots) /\ idle' \in 0..MaxIdle
    BY <1>0, <1>10 DEF WorkerRestarts
  <2>3. troubles' \in 0..MaxTroubles
    BY <1>10 DEF WorkerRestarts
  <2> QED
    BY <1>10, <2>1, <2>2, <2>3 DEF WorkerRestarts, data
<1>11. ASSUME NEW r \in Slots, Reads(r) PROVE TypeOK'
  <2>1. pass' \in [Slots -> Pass]
    BY <1>11 DEF Reads, Pass
  <2> QED
    BY <1>11, <2>1 DEF Reads, worker, faults
<1>12. ASSUME NEW r \in Slots, Finishes(r) PROVE TypeOK'
  BY <1>12, EndsTyped DEF Finishes, faults
<1>13. ASSUME NEW r \in Slots, Fails(r) PROVE TypeOK'
  BY <1>13, EndsTyped DEF Fails
<1>14. ASSUME NEW r \in Slots, Hangs(r) PROVE TypeOK'
  <2>1. pass' \in [Slots -> Pass]
    BY <1>14 DEF Hangs, Pass
  <2> QED
    BY <1>14, <2>1 DEF Hangs, worker, data
<1>15. ASSUME NEW r \in Slots, Wakes(r) PROVE TypeOK'
  <2>1. pass' \in [Slots -> Pass]
    BY <1>15 DEF Wakes, Pass
  <2> QED
    BY <1>15, <2>1 DEF Wakes, worker, data, faults
<1>16. ASSUME NEW r \in Slots, PostIngest(r) PROVE TypeOK'
  BY <1>0, <1>16 DEF PostIngest, Kinds, worker, data, faults
<1>17. CASE UNCHANGED vars
  BY <1>17 DEF vars, worker, data, faults
<1> QED
  BY <1>1, <1>2, <1>3, <1>4, <1>5, <1>6, <1>7, <1>8, <1>9, <1>10, <1>11, <1>12, <1>13, <1>14,
     <1>15, <1>16, <1>17 DEF Next

(* Flags, timers, pids, passes and counters keep their types, for any      *)
(* number of passes, faults and ticks.                                     *)
THEOREM SchedulerTypeCorrect == Spec => []TypeOK
<1> QED
  BY TypeInit, TypeStep, PTL DEF Spec

-------------------------------------------------------------------------------
(* How the two sets of passes change *)

(* Where no pass begins or ends, nothing that the properties count changes. *)
LEMMA KindsKept ==
    ASSUME \A s \in Slots : pass'[s].kind = pass[s].kind
    PROVE  Guarded' = Guarded /\ Watchers' = Watchers
BY DEF Guarded, Watchers

(* A pass that begins in a free slot joins the set of its kind only. *)
LEMMA PassBegins ==
    ASSUME TypeOK, NEW r \in Free, NEW k \in Kinds, pass' = [pass EXCEPT ![r] = New(k)]
    PROVE  /\ r \notin Guarded /\ r \notin Watchers
           /\ Guarded' = IF k \in {"startup", "single"} THEN Guarded \cup {r} ELSE Guarded
           /\ Watchers' = IF k = "watch" THEN Watchers \cup {r} ELSE Watchers
<1>1. r \in Slots /\ pass[r].kind = "none"
  BY DEF Free, Live
<1>2. \A s \in Slots : pass'[s].kind = IF s = r THEN k ELSE pass[s].kind
  BY <1>1, NewIsPass DEF TypeOK
<1> QED
  BY <1>1, <1>2 DEF Guarded, Watchers

(* A pass that ends leaves the sets. *)
LEMMA PassEnds ==
    ASSUME TypeOK, NEW r \in Slots, pass' = [pass EXCEPT ![r] = NoPass]
    PROVE  Guarded' = Guarded \ {r} /\ Watchers' = Watchers \ {r}
<1>1. \A s \in Slots : pass'[s].kind = IF s = r THEN "none" ELSE pass[s].kind
  BY NewIsPass DEF TypeOK, Kinds
<1> QED
  BY <1>1 DEF Guarded, Watchers

(* The watcher's property in terms of its set, before and after a step. *)
LEMMA WatcherFlagInTermsOfSet ==
    /\ WatcherFlagHonest <=> Cardinality(Watchers) <= 1 /\ (ingesting <=> Watchers # {})
    /\ WatcherFlagHonest' <=> Cardinality(Watchers') <= 1 /\ (ingesting' <=> Watchers' # {})
BY DEF WatcherFlagHonest, Watchers

-------------------------------------------------------------------------------
(* The invariant *)

LEMMA InvInit == Init => IInv
<1> SUFFICES ASSUME Init PROVE IInv
  OBVIOUS
<1>1. PICK r \in Slots : pass = [s \in Slots |-> IF s = r THEN New("startup") ELSE NoPass]
  BY DEF Init
<1>2. \A s \in Slots : pass[s].kind = IF s = r THEN "startup" ELSE "none"
  BY <1>1, NewIsPass DEF Kinds
<1>3. Guarded = {r} /\ Watchers = {}
  BY <1>2 DEF Guarded, Watchers
<1>4. Cardinality(Guarded) = 1 /\ Cardinality(Watchers) = 0
  BY <1>3, FS_Singleton, FS_EmptySet
<1> QED
  BY <1>3, <1>4, TypeInit, WatcherFlagInTermsOfSet
  DEF Init, IInv, StackBound, FlagHasOwner

(* The end of a pass keeps the three properties. *)
LEMMA EndKeeps ==
    ASSUME IInv, NEW r \in Live, Ends(r)
    PROVE  (StackBound /\ WatcherFlagHonest /\ FlagHasOwner)'
<1>1. r \in Slots /\ TypeOK
  BY DEF IInv, Live
<1>2. Guarded' = Guarded \ {r} /\ Watchers' = Watchers \ {r}
  BY <1>1, PassEnds DEF Ends
<1>3. StackBound'
  <2>1. CASE r \in Guarded
    <3>1. Cardinality(Guarded') = Cardinality(Guarded) - 1
      BY <1>2, <2>1, SetsAreFinite, FS_RemoveElement
    <3>2. ~inFlight' /\ abandoned' = abandoned
      BY <2>1 DEF Ends, Lowered
    <3> QED
      BY <3>1, <3>2, SetsAreFinite DEF IInv, TypeOK, StackBound
  <2>2. CASE r \notin Guarded
    <3>1. Guarded' = Guarded
      BY <1>2, <2>2
    <3> QED
      BY <2>2, <3>1 DEF IInv, StackBound, Ends
  <2> QED
    BY <2>1, <2>2
<1>4. WatcherFlagHonest'
  <2>1. Cardinality(Watchers) <= 1 /\ (ingesting <=> Watchers # {})
    BY WatcherFlagInTermsOfSet DEF IInv
  <2>2. CASE r \in Watchers
    <3>1. Cardinality(Watchers') = Cardinality(Watchers) - 1
      BY <1>2, <2>2, SetsAreFinite, FS_RemoveElement
    <3>2. IsFiniteSet(Watchers') /\ Cardinality(Watchers') <= 0
      BY <1>2, <2>1, <3>1, SetsAreFinite, FS_RemoveElement
    <3>3. Cardinality(Watchers') = 0 /\ Watchers' = {}
      BY <3>2, FS_EmptySet, FS_CardinalityType
    <3>4. ~ingesting'
      BY <2>2 DEF Ends, Watchers
    <3> QED
      BY <3>3, <3>4, WatcherFlagInTermsOfSet
  <2>3. CASE r \notin Watchers
    <3>1. Watchers' = Watchers /\ ingesting' = ingesting
      BY <1>1, <1>2, <2>3 DEF Ends, Watchers, TypeOK
    <3> QED
      BY <2>1, <3>1, WatcherFlagInTermsOfSet
  <2> QED
    BY <2>2, <2>3
<1>5. FlagHasOwner'
  BY <1>2 DEF IInv, FlagHasOwner, Ends, Lowered
<1> QED
  BY <1>3, <1>4, <1>5

(* A step that neither begins nor ends a pass, and leaves the flags. *)
LEMMA QuietStepKeeps ==
    ASSUME IInv, \A s \in Slots : pass'[s].kind = pass[s].kind,
           UNCHANGED <<inFlight, ingesting, abandoned>>
    PROVE  (StackBound /\ WatcherFlagHonest /\ FlagHasOwner)'
<1>1. Guarded' = Guarded /\ Watchers' = Watchers
  BY KindsKept
<1> QED
  BY <1>1, WatcherFlagInTermsOfSet DEF IInv, StackBound, FlagHasOwner

(* Every step of the worker, of a pass and of the web server keeps them. *)
LEMMA GuardsStep ==
    ASSUME IInv, [Next]_vars
    PROVE  (StackBound /\ WatcherFlagHonest /\ FlagHasOwner)'
<1>0. TypeOK /\ WatcherFlagHonest /\ StackBound /\ FlagHasOwner
  BY DEF IInv
<1>1. CASE HarnessWrites
  BY <1>1, QuietStepKeeps DEF HarnessWrites, worker
<1>2. CASE WatchEvent
  BY <1>2, QuietStepKeeps DEF WatchEvent
<1>3. CASE Tick
  <2>1. \A s \in Slots : pass'[s].kind = pass[s].kind
    <3> SUFFICES ASSUME NEW s \in Slots PROVE pass'[s].kind = pass[s].kind
      OBVIOUS
    <3>1. CASE s \in Live
      BY <1>0, <1>3, <3>1 DEF Tick, TypeOK, Pass
    <3>2. CASE s \notin Live
      BY <1>3, <3>2 DEF Tick, Live, NoPass
    <3> QED
      BY <3>1, <3>2
  <2> QED
    BY <1>3, <2>1, QuietStepKeeps DEF Tick
<1>4. CASE WatchdogContent
  BY <1>4, QuietStepKeeps DEF WatchdogContent
<1>5. CASE PostIngestFails
  BY <1>5, QuietStepKeeps DEF PostIngestFails, worker
<1>6. CASE WebRestarts
  BY <1>6, QuietStepKeeps DEF WebRestarts, worker
<1>7. ASSUME NEW r \in Slots, PeriodicTimer(r)
      PROVE (StackBound /\ WatcherFlagHonest /\ FlagHasOwner)'
  <2>1. r \notin Guarded /\ Guarded' = Guarded \cup {r} /\ Watchers' = Watchers
    BY <1>0, <1>7, PassBegins DEF PeriodicTimer, Kinds
  <2>2. Cardinality(Guarded') = Cardinality(Guarded) + 1
    BY <2>1, SetsAreFinite, FS_AddElement
  <2>3. ~inFlight /\ inFlight' /\ abandoned' = abandoned /\ ingesting' = ingesting
    BY <1>7 DEF PeriodicTimer, MayRun
  <2>4. StackBound'
    BY <1>0, <2>2, <2>3, SetsAreFinite DEF StackBound, TypeOK
  <2> QED
    BY <1>0, <2>1, <2>3, <2>4, WatcherFlagInTermsOfSet DEF FlagHasOwner
<1>8. ASSUME NEW r \in Slots, DebounceFires(r)
      PROVE (StackBound /\ WatcherFlagHonest /\ FlagHasOwner)'
  <2>1. CASE ingesting
    BY <1>8, <2>1, QuietStepKeeps DEF DebounceFires, WatchBusy
  <2>2. CASE ~ingesting
    <3>1. r \notin Watchers /\ Guarded' = Guarded /\ Watchers' = Watchers \cup {r}
      BY <1>0, <1>8, <2>2, PassBegins DEF DebounceFires, WatchBusy, Kinds
    <3>2. Watchers' = {r}
      BY <1>0, <2>2, <3>1, WatcherFlagInTermsOfSet
    <3>3. Cardinality(Watchers') = 1 /\ ingesting'
      BY <1>8, <2>2, <3>2, FS_Singleton DEF DebounceFires, WatchBusy
    <3>4. inFlight' = inFlight /\ abandoned' = abandoned
      BY <1>8 DEF DebounceFires
    <3> QED
      BY <1>0, <3>1, <3>2, <3>3, <3>4, WatcherFlagInTermsOfSet DEF StackBound, FlagHasOwner
  <2> QED
    BY <2>1, <2>2
<1>9. ASSUME NEW r \in Slots, WatchdogRestarts(r)
      PROVE (StackBound /\ WatcherFlagHonest /\ FlagHasOwner)'
  <2>1. r \in Free /\ pass[r].kind = "none"
    BY <1>9 DEF WatchdogRestarts, Free, Live
  <2>2. \A s \in Slots : pass'[s].kind = IF s = r THEN "single" ELSE pass[s].kind
    BY <1>0, <1>9, NewIsPass DEF WatchdogRestarts, TypeOK, Pass, Kinds
  <2>3. r \notin Guarded /\ Guarded' = Guarded \cup {r} /\ Watchers' = Watchers
    BY <2>1, <2>2 DEF Guarded, Watchers
  <2>4. /\ Cardinality(Guarded') = Cardinality(Guarded) + 1
        /\ Cardinality(Guarded') \in Nat /\ Cardinality(Guarded') <= Cardinality(Slots)
    <3>1. IsFiniteSet(Slots) /\ Guarded' \subseteq Slots
      BY SlotsAssumption DEF Guarded
    <3> QED
      BY <2>3, <3>1, SetsAreFinite, FS_AddElement, FS_Subset, FS_CardinalityType
  <2>5. inFlight' /\ ingesting' = ingesting
    BY <1>9 DEF WatchdogRestarts
  <2>6. StackBound'
    <3>1. CASE inFlight
      <4>1. abandoned' = abandoned + 1 \/ abandoned' = Cardinality(Slots)
        BY <1>9, <3>1 DEF WatchdogRestarts, Least
      <4> QED
        BY <1>0, <2>4, <2>5, <3>1, <4>1, SetsAreFinite DEF StackBound, TypeOK
    <3>2. CASE ~inFlight
      <4>1. abandoned' = abandoned
        BY <1>9, <3>2 DEF WatchdogRestarts
      <4> QED
        BY <1>0, <2>4, <2>5, <3>2, <4>1, SetsAreFinite DEF StackBound, TypeOK
    <3> QED
      BY <3>1, <3>2
  <2> QED
    BY <1>0, <2>3, <2>5, <2>6, WatcherFlagInTermsOfSet DEF FlagHasOwner
<1>10. ASSUME NEW r \in Slots, WorkerRestarts(r)
       PROVE (StackBound /\ WatcherFlagHonest /\ FlagHasOwner)'
  <2>1. \A s \in Slots : pass'[s].kind = IF s = r THEN "startup"
                          ELSE IF pass[s].kind = "spawned" THEN "spawned" ELSE "none"
    BY <1>10, NewIsPass DEF WorkerRestarts, Kinds
  <2>2. Guarded' = {r} /\ Watchers' = {}
    BY <2>1 DEF Guarded, Watchers
  <2>3. Cardinality(Guarded') = 1 /\ Cardinality(Watchers') = 0
    BY <2>2, FS_Singleton, FS_EmptySet
  <2>4. inFlight' /\ ~ingesting' /\ abandoned' = 0
    BY <1>10 DEF WorkerRestarts
  <2> QED
    BY <2>2, <2>3, <2>4, WatcherFlagInTermsOfSet DEF StackBound, FlagHasOwner
<1>11. ASSUME NEW r \in Slots, Reads(r)
       PROVE (StackBound /\ WatcherFlagHonest /\ FlagHasOwner)'
  <2>1. \A s \in Slots : pass'[s].kind = pass[s].kind
    BY <1>0, <1>11 DEF Reads, TypeOK, Pass
  <2> QED
    BY <1>11, <2>1, QuietStepKeeps DEF Reads, worker
<1>12. ASSUME NEW r \in Slots, Finishes(r)
       PROVE (StackBound /\ WatcherFlagHonest /\ FlagHasOwner)'
  BY <1>12, EndKeeps DEF Finishes
<1>13. ASSUME NEW r \in Slots, Fails(r)
       PROVE (StackBound /\ WatcherFlagHonest /\ FlagHasOwner)'
  BY <1>13, EndKeeps DEF Fails
<1>14. ASSUME NEW r \in Slots, Hangs(r)
       PROVE (StackBound /\ WatcherFlagHonest /\ FlagHasOwner)'
  <2>1. \A s \in Slots : pass'[s].kind = pass[s].kind
    BY <1>0, <1>14 DEF Hangs, TypeOK, Pass
  <2> QED
    BY <1>14, <2>1, QuietStepKeeps DEF Hangs, worker
<1>15. ASSUME NEW r \in Slots, Wakes(r)
       PROVE (StackBound /\ WatcherFlagHonest /\ FlagHasOwner)'
  <2>1. \A s \in Slots : pass'[s].kind = pass[s].kind
    BY <1>0, <1>15 DEF Wakes, TypeOK, Pass
  <2> QED
    BY <1>15, <2>1, QuietStepKeeps DEF Wakes, worker
<1>16. ASSUME NEW r \in Slots, PostIngest(r)
       PROVE (StackBound /\ WatcherFlagHonest /\ FlagHasOwner)'
  <2>1. Guarded' = Guarded /\ Watchers' = Watchers
    BY <1>0, <1>16, PassBegins DEF PostIngest, Kinds
  <2> QED
    BY <1>0, <1>16, <2>1, WatcherFlagInTermsOfSet DEF PostIngest, worker, StackBound, FlagHasOwner
<1>17. CASE UNCHANGED vars
  BY <1>17, QuietStepKeeps DEF vars, worker
<1> QED
  BY <1>1, <1>2, <1>3, <1>4, <1>5, <1>6, <1>7, <1>8, <1>9, <1>10, <1>11, <1>12, <1>13, <1>14,
     <1>15, <1>16, <1>17 DEF Next

(* The three properties and the types hold together in every state. *)
THEOREM SchedulerInvariance == Spec => []IInv
<1>1. IInv /\ [Next]_vars => IInv'
  BY TypeStep, GuardsStep DEF IInv
<1> QED
  BY <1>1, InvInit, PTL DEF Spec

(* Passes of runIngestOnce never pile up beyond the ones the watchdog gave *)
(* up on and the one that holds the flag, however many hang and come back. *)
THEOREM StackBounded == Spec => []StackBound
<1>1. IInv => StackBound
  BY DEF IInv
<1> QED
  BY <1>1, SchedulerInvariance, PTL

(* The flag of watcher.ts is up exactly while its one pass runs.           *)
THEOREM WatcherHonest == Spec => []WatcherFlagHonest
<1>1. IInv => WatcherFlagHonest
  BY DEF IInv
<1> QED
  BY <1>1, SchedulerInvariance, PTL

(* ingestInFlight is never up without a pass that will lower it.           *)
THEOREM FlagOwned == Spec => []FlagHasOwner
<1>1. IInv => FlagHasOwner
  BY DEF IInv
<1> QED
  BY <1>1, SchedulerInvariance, PTL
===============================================================================
