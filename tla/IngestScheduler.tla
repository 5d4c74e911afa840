---------------------------- MODULE IngestScheduler ----------------------------
(***************************************************************************)
(* Who starts ingestion, and when.  A pass (ingestAll) is started by       *)
(*                                                                         *)
(*   - the worker: once at start-up, then by a timer every minute and by   *)
(*     the watchdog, all through runIngestOnce and its flag ingestInFlight *)
(*     (apps/worker/src/main.ts);                                          *)
(*   - the worker's file watcher, behind a debounce timer and a flag of    *)
(*     its own, ingesting (packages/core/db/watcher.ts);                   *)
(*   - POST /api/ingest, as a detached process whose pid the web server    *)
(*     remembers (apps/web/src/app/api/ingest/route.ts, ingest-once.ts).   *)
(*                                                                         *)
(* A pass takes its time, may fail, and may hang.  What it ingests is one  *)
(* number: how much of what the harnesses wrote it has read.  Time runs in *)
(* ticks of the watchdog (WATCHDOG_TICK_MS, five minutes).                 *)
(***************************************************************************)
EXTENDS Integers, FiniteSets

CONSTANTS
    Slots,          \* bound: passes that exist at one time
    NoPid,          \* no pass is remembered (running = null)
    BadPid,         \* pid -1: the spawn failed
    Stall,          \* INGEST_STALL_MS in ticks
    Hang,           \* INGEST_HANG_MS in ticks
    StartupHangs,   \* may the start-up pass of the worker hang, too?
    MaxWrites,      \* bound: what the harnesses write
    MaxHangs,       \* bound: passes that hang
    MaxTroubles     \* bound: passes that fail, and restarts of the worker and the web server

MaxIdle == Hang + 1

ASSUME SlotsAssumption == IsFiniteSet(Slots) /\ Slots # {}
ASSUME PidAssumption   == NoPid \notin Slots /\ BadPid \notin Slots /\ NoPid # BadPid
ASSUME TimeAssumption  == Stall \in Nat /\ Hang \in Nat /\ Stall < Hang
ASSUME FlagAssumption  == StartupHangs \in BOOLEAN
ASSUME BoundAssumption ==
    MaxWrites \in Nat /\ MaxHangs \in Nat /\ MaxTroubles \in Nat

VARIABLES
    started,    \* main() is past its start-up pass: timers and watchers exist
    inFlight,   \* ingestInFlight of main.ts
    idle,       \* ticks since lastIngestAt
    due,        \* the watchdog's interval has elapsed
    ingesting,  \* the flag of watcher.ts
    armed,      \* its debounce timer is set
    running,    \* the pid /api/ingest remembers
    pass,       \* the passes under way
    written,    \* what the harnesses wrote
    ingested,   \* how much of it some pass has read
    abandoned,  \* history: passes the watchdog gave up on
    hangs, troubles     \* faults so far

worker == <<started, inFlight, idle, due, ingesting, armed>>
data   == <<written, ingested>>
faults == <<hangs, troubles>>
vars   == <<worker, running, pass, data, abandoned, faults>>

Kinds == {"none", "startup", "single", "watch", "spawned"}

\* A pass: who runs it, whether it has read the files yet, its age in ticks,
\* whether it hangs, and whether the watchdog has given up on it.
Pass == [kind : Kinds, read : BOOLEAN, age : 0..Hang, hung : BOOLEAN, left : BOOLEAN]

NoPass  == [kind |-> "none", read |-> FALSE, age |-> 0, hung |-> FALSE, left |-> FALSE]
New(k)  == [NoPass EXCEPT !.kind = k]

Live    == {r \in Slots : pass[r].kind # "none"}
\* Passes of runIngestOnce, which ingestInFlight guards.
Guarded == {r \in Slots : pass[r].kind \in {"startup", "single"}}
Free    == Slots \ Live

Least(a, b) == IF a <= b THEN a ELSE b

-------------------------------------------------------------------------------
Init ==
    /\ started = FALSE
    /\ inFlight = TRUE          \* await runIngestOnce('startup')
    /\ idle = 0
    /\ due = FALSE
    /\ ingesting = FALSE
    /\ armed = FALSE
    /\ running = NoPid
    /\ \E r \in Slots : pass = [s \in Slots |-> IF s = r THEN New("startup") ELSE NoPass]
    /\ written = 0
    /\ ingested = 0
    /\ abandoned = 0
    /\ hangs = 0
    /\ troubles = 0

HarnessWrites ==
    /\ written < MaxWrites
    /\ written' = written + 1
    /\ UNCHANGED <<worker, running, pass, ingested, abandoned, faults>>

-------------------------------------------------------------------------------
(* The worker *)

\* Mutant: the guard of runIngestOnce is gone.
MayRunAlways == TRUE

\* if (ingestInFlight) return
MayRun == ~inFlight

\* setInterval(() => runIngestOnce('periodic'), POLL_INTERVAL_MS)
PeriodicTimer(r) ==
    /\ started /\ MayRun
    /\ r \in Free
    /\ inFlight' = TRUE
    /\ pass' = [pass EXCEPT ![r] = New("single")]
    /\ UNCHANGED <<started, idle, due, ingesting, armed, running, data, abandoned, faults>>

\* fs.watch reports a change under a directory that existed when the watchers
\* were started (of any other, it reports nothing): the debounce timer is set.
WatchEvent ==
    /\ started
    /\ armed' = TRUE
    /\ UNCHANGED <<started, inFlight, idle, due, ingesting, running, pass, data, abandoned, faults>>

\* Mutant: the guard of onFileChange is gone.
WatchBusyNever == FALSE

\* if (ingesting) return
WatchBusy == ingesting

\* setTimeout(onFileChange, DEBOUNCE_MS): an event that finds a watcher's pass
\* under way is dropped.
DebounceFires(r) ==
    /\ armed
    /\ armed' = FALSE
    /\ IF WatchBusy
       THEN UNCHANGED <<ingesting, pass>>
       ELSE /\ r \in Free
            /\ ingesting' = TRUE
            /\ pass' = [pass EXCEPT ![r] = New("watch")]
    /\ UNCHANGED <<started, inFlight, idle, due, running, data, abandoned, faults>>

\* Five minutes pass; the interval of the watchdog exists once main() has
\* got past the start-up pass.
Tick ==
    /\ ~due
    /\ due' = started
    /\ idle' = Least(idle + 1, MaxIdle)
    /\ pass' = [r \in Slots |->
           IF r \in Live THEN [pass[r] EXCEPT !.age = Least(@ + 1, Hang)] ELSE NoPass]
    /\ UNCHANGED <<started, inFlight, ingesting, armed, running, data, abandoned, faults>>

\* Mutant: a run in flight is left alone for good.
LeaveAloneForGood == inFlight

\* if (ingestInFlight && idle < INGEST_HANG_MS) return
LeaveAlone == inFlight /\ idle < Hang

WatchdogContent ==
    /\ due
    /\ idle <= Stall \/ LeaveAlone
    /\ due' = FALSE
    /\ UNCHANGED <<started, inFlight, idle, ingesting, armed, running, pass, data, abandoned, faults>>

\* ingestInFlight = false; runIngestOnce('watchdog'): the pass that held the
\* flag, if there is one, goes on unguarded.
WatchdogRestarts(r) ==
    /\ due
    /\ idle > Stall /\ ~LeaveAlone
    /\ r \in Free
    /\ due' = FALSE
    /\ inFlight' = TRUE
    /\ pass' = [s \in Slots |->
           IF s = r THEN New("single")
           ELSE IF s \in Guarded THEN [pass[s] EXCEPT !.left = TRUE] ELSE pass[s]]
    /\ abandoned' = IF inFlight THEN Least(abandoned + 1, Cardinality(Slots)) ELSE abandoned
    /\ UNCHANGED <<started, idle, ingesting, armed, running, data, faults>>

\* The worker is killed, or tsx watch restarts it: its passes are gone.
WorkerRestarts(r) ==
    /\ troubles < MaxTroubles
    /\ troubles' = troubles + 1
    /\ r \in Slots /\ pass[r].kind # "spawned"
    /\ started' = FALSE
    /\ inFlight' = TRUE
    /\ idle' = 0
    /\ due' = FALSE
    /\ ingesting' = FALSE
    /\ armed' = FALSE
    /\ pass' = [s \in Slots |->
           IF s = r THEN New("startup") ELSE IF pass[s].kind = "spawned" THEN pass[s] ELSE NoPass]
    /\ abandoned' = 0
    /\ UNCHANGED <<running, data, hangs>>

-------------------------------------------------------------------------------
(* A pass *)

\* It reaches the files: what is written by now is read.
Reads(r) ==
    /\ r \in Live /\ ~pass[r].hung /\ ~pass[r].read
    /\ pass' = [pass EXCEPT ![r].read = TRUE]
    /\ ingested' = written
    /\ UNCHANGED <<worker, running, written, abandoned, faults>>

\* Mutant: only a run that did not fail lowers the flag.
LoweredIfRead(r) == IF pass[r].read THEN FALSE ELSE inFlight

\* finally { ingestInFlight = false }
Lowered(r) == FALSE

\* What its end does, in each of its `finally`s or exit handlers.
Ends(r) ==
    /\ pass' = [pass EXCEPT ![r] = NoPass]
    /\ IF r \in Guarded
       THEN inFlight' = Lowered(r) /\ idle' = 0 /\ started' = TRUE
       ELSE UNCHANGED <<inFlight, idle, started>>
    /\ ingesting' = (ingesting /\ pass[r].kind # "watch")
    /\ running' = IF running = r THEN NoPid ELSE running
    /\ UNCHANGED <<due, armed, data, abandoned>>

Finishes(r) ==
    /\ r \in Live /\ ~pass[r].hung /\ pass[r].read
    /\ Ends(r)
    /\ UNCHANGED faults

\* ingestAll throws: the same ends, with nothing read.
Fails(r) ==
    /\ r \in Live /\ ~pass[r].hung /\ ~pass[r].read
    /\ troubles < MaxTroubles
    /\ troubles' = troubles + 1
    /\ Ends(r)
    /\ UNCHANGED hangs

\* An await of the pass does not return, or not for a long time.
Hangs(r) ==
    /\ r \in Live /\ ~pass[r].hung
    /\ pass[r].kind = "startup" => StartupHangs
    /\ hangs < MaxHangs
    /\ hangs' = hangs + 1
    /\ pass' = [pass EXCEPT ![r].hung = TRUE]
    /\ UNCHANGED <<worker, running, data, abandoned, troubles>>

Wakes(r) ==
    /\ pass[r].hung
    /\ pass' = [pass EXCEPT ![r].hung = FALSE]
    /\ UNCHANGED <<worker, running, data, abandoned, faults>>

-------------------------------------------------------------------------------
(* The web server *)

\* running && alive(running.pid); process.kill(-1, 0) succeeds.
Busy == running = BadPid \/ running \in Live

\* POST /api/ingest spawns a pass.
PostIngest(r) ==
    /\ ~Busy
    /\ r \in Free
    /\ pass' = [pass EXCEPT ![r] = New("spawned")]
    /\ running' = r
    /\ UNCHANGED <<worker, data, abandoned, faults>>

\* Mutant: running.pid = child.pid
FailedPidUndefined == "undefined"

\* child.pid ?? -1
FailedPid == BadPid

\* The spawn fails: child.pid is undefined, and no exit event will follow.
PostIngestFails ==
    /\ ~Busy
    /\ troubles < MaxTroubles
    /\ troubles' = troubles + 1
    /\ running' = FailedPid
    /\ UNCHANGED <<worker, pass, data, abandoned, hangs>>

\* The web server restarts, or its module is reloaded; the pass is detached.
WebRestarts ==
    /\ troubles < MaxTroubles
    /\ troubles' = troubles + 1
    /\ running' = NoPid
    /\ UNCHANGED <<worker, pass, data, abandoned, hangs>>

Next ==
    \/ HarnessWrites
    \/ WatchEvent
    \/ Tick
    \/ WatchdogContent
    \/ PostIngestFails
    \/ WebRestarts
    \/ \E r \in Slots :
         \/ PeriodicTimer(r)
         \/ DebounceFires(r)
         \/ WatchdogRestarts(r)
         \/ WorkerRestarts(r)
         \/ Reads(r)
         \/ Finishes(r)
         \/ Fails(r)
         \/ Hangs(r)
         \/ Wakes(r)
         \/ PostIngest(r)

Spec == Init /\ [][Next]_vars

-------------------------------------------------------------------------------
TypeOK ==
    /\ started \in BOOLEAN /\ inFlight \in BOOLEAN /\ due \in BOOLEAN
    /\ ingesting \in BOOLEAN /\ armed \in BOOLEAN
    /\ idle \in 0..MaxIdle
    /\ running \in Slots \cup {NoPid, BadPid}
    /\ pass \in [Slots -> Pass]
    /\ written \in 0..MaxWrites /\ ingested \in 0..written
    /\ abandoned \in 0..Cardinality(Slots)
    /\ hangs \in 0..MaxHangs /\ troubles \in 0..MaxTroubles

\* The passes of runIngestOnce never pile up: there is one more of them than
\* the watchdog has given up on, and none more while the flag is down.
\* (An abandoned pass that comes back lowers the flag of its successor, so
\* this is all that the guard still ensures after a hang.)
StackBound == Cardinality(Guarded) <= abandoned + (IF inFlight THEN 1 ELSE 0)

\* The watcher has a pass of its own exactly while its flag is up, so it
\* never runs two and never sticks after a pass has ended.
WatcherFlagHonest ==
    /\ Cardinality({r \in Slots : pass[r].kind = "watch"}) <= 1
    /\ ingesting <=> \E r \in Slots : pass[r].kind = "watch"

\* The flag of runIngestOnce is never up without a pass that will lower it:
\* a start-up, a failure, a watchdog restart or a late finish leaves no flag
\* behind that would keep every later timer from starting a pass.
FlagHasOwner == inFlight => Guarded # {}

\* Whatever a harness writes is eventually ingested, though watch events are
\* dropped, passes fail, and a pass hangs once the worker is up.
EventuallyIngested ==
    \A n \in 1..MaxWrites : (written >= n) ~> (ingested >= n)

-------------------------------------------------------------------------------
(* What the comments promise and the code does not keep *)

\* main.ts: "single-flight guard for ingest ... without a guard a slow run
\* would stack".  A pass the watchdog gave up on lowers, when it ends after
\* all, the flag of the pass that replaced it.
SingleFlight == Cardinality({r \in Guarded : ~pass[r].left}) <= 1

\* main.ts: "A run that is legitimately still in flight is left alone until
\* INGEST_HANG_MS".  The watchdog measures the time since a pass last ended,
\* so the pass it starts is itself given up on at the next tick.
YoungRunsLeftAlone ==
    [][\A r \in Slots : ~pass[r].left /\ pass'[r].left => pass[r].age >= Hang]_vars

\* main.ts: "if the ingest loop silently wedges ... we want it to self-heal,
\* not wait for a human".  The watchdog is installed after the start-up pass
\* has ended, so nobody watches that pass.
SelfHeals == inFlight ~> (~inFlight \/ \E r \in Guarded : ~pass[r].hung)

\* api/ingest/route.ts: "One pass at a time: a second request while one is
\* running is told so rather than starting another".  The pass is detached
\* and outlives the variable that remembers it.
OneOnDemandPass == Cardinality({r \in Slots : pass[r].kind = "spawned"}) <= 1

\* The same comment: a request is told that a pass is running when one is.
\* After a spawn that failed the pid is -1, which is always alive.
BusyMeansRunning == Busy => \E r \in Slots : pass[r].kind = "spawned"

-------------------------------------------------------------------------------
(* Fairness: timers fire, and a pass that does not hang goes on.             *)

Fairness ==
    /\ WF_vars(Tick)
    /\ WF_vars(WatchdogContent)
    /\ WF_vars(\E r \in Slots : WatchdogRestarts(r))
    /\ WF_vars(\E r \in Slots : PeriodicTimer(r))
    /\ \A r \in Slots : WF_vars(Reads(r)) /\ WF_vars(Finishes(r))

FairSpec == Spec /\ Fairness
===============================================================================
