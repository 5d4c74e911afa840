# Verification of unfirehose

This directory holds TLA+ models of the unfirehose dashboard (`src/`), the TLC
configurations that check them on small instances, and the theorems TLAPS
proves about them for every instance. `PROJECT.json` lists components, runs,
hazards, theorems and, definition by definition, the source lines each one
models.

To repeat the checks: `tlc -config RouterFaults.cfg MCRouter` for a run,
`tlapm RouterProofs.tla` for the proofs of a module.

## The system

unfirehose reads what coding agents ("harnesses") write to disk, keeps it in
one SQLite database and shows it in a web dashboard. Three kinds of process
take part:

- the **worker** (`apps/worker/src`), a long-lived process that ingests every
  minute, watches the files for changes, polls vendor status pages, samples
  the mesh and syncs prices;
- the **web application** (`apps/web/src`), whose routes read the database and
  change todos, alerts, projects, sessions and deployments, and can spawn an
  ingestion process of their own;
- the **router** (`packages/router/src`), which runs on another machine and
  forwards new lines of its session files over HTTP.

Worker, web server and spawned processes share the database (WAL mode, foreign
keys on) and three kinds of file: the session files, which only the harnesses
write, `triage.jsonl`, which the web server appends to, and the store of tool
results and attachments, one file per content. Within a process everything runs
on one event loop, so code between two awaits is atomic; between processes only
an SQLite transaction is.

## Components

| component | state | operations | hard part | correct when | module |
|---|---|---|---|---|---|
| Ingest: tail-follow | `ingest_offsets`, `messages`, `usage_minutes`, `rate_limit_events`, session status | visit of one file: stat, stream, transactions of 500 lines, offset write | several passes on one file, death between transactions, half-written lines | no line skipped, none counted twice, lines applied in order, a session closes once | `IngestTail` |
| Ingest: scheduling | `ingestInFlight`, `lastIngestAt`, `ingesting`, debounce timers, the pid `/api/ingest` remembers | start-up, periodic timer, watchdog, watcher, POST | a pass that hangs and comes back, failure and restart, two independent guards | no flag sticks, what is written is ingested | `IngestScheduler` |
| Router daemon | cursors in memory and on disk, pending lines, the batch in flight | scan, flush, retries, exit, restart | flush is re-entrant across its await; kills between a send and the save, and in a save; files written before the watch | every byte behind a cursor is accounted for, order, duplicates only after faults | `Router` |
| Live feed | cursor per file, watchers of directories | scan, read, give up, heartbeat | the browser leaves, or a read stalls, at any await | nothing behind a cursor that was not sent | `LiveStream` |
| Project list | rows of `projects`, directories | building the list | which row counts with which | every row's activity is counted once, under a project that is listed | `ProjectList` |
| Todos and triage | `todos`, `todo_events`, session status, `triage.jsonl` and its cache | transcript entries, the routes, rebuild of the database | worker and board change the same rows; the file outlives the database | numbers name their task, decisions survive, the trail matches the table | `Todos` |
| Projects | `projects`, `project_aliases` and all rows with a `project_id` | resolve a directory, book, merge | a merge while a pass holds the id it deletes | one project per repository and prefix, totals kept | `Projects`, `UsageAccounts` |
| Agent deployments | `agent_deployments`, tmux windows, timers | launch, finish, cull (four ways) | launches and culls decide on what they read before awaits | no agent without a row, no living agent recorded as ended | `Deployments` |
| Price ledger | `model_price_ledger`, `pricing_sync_runs`, each server's copy | sync from five triggers, look-ups | a fetch awaited before the booking; two syncs over each other | one price at every instant, a past that stands, a register that adds up | `PriceLedger` |
| Status pages | `status_polls`, `status_polls_hourly` | poll, hourly fold | an hour folded in two parts | no recent poll is deleted, nothing goes unfolded; the worst light of an hour, which fails | `StatusPolls` |
| Mesh rollup | `mesh_snapshots`, `mesh_snapshots_15m` | sample, fold a bucket | backlog and smoothing over neighbours | every sample is in one tier | `MeshRollup` |
| Rate-limit scan | a block cursor, `rate_limit_events` | scan a batch, scan from scratch, back-fill | order of the scan and of the harness's own record | a refusal counted once, none missed | `RefusalScan` |
| Alerts | `alerts`, `alert_thresholds` | check, acknowledge, clear, calibrate | a check reads before it inserts, thresholds move meanwhile | alerts agree with the rules, no two for one window | `Alerts` |
| Tool results and attachments | `tool_results`, `todo_attachments`, the files | archive a spill, upload, detach | look, write and row of one mix with another's | a file that a row holds is there | `BlobStore` |

The other parts (pages, parsers, sensors, price tables, caches of query
results, schema, scripts) have no protocol of their own; `PROJECT.json` lists
each with the reason it is left out.

How they interact: the scheduler decides when passes exist, and `IngestTail`
takes any number of passes at any time, so it does not depend on what the
scheduler's guards achieve. `IngestTail` shows that a file's lines take effect
in order; `Todos` starts from there and replays one entry after another. A pass
books usage on the project row it resolved, which is `Projects`; it stores what
the harness reports of refusals, which `RefusalScan` takes as its records; it
ends with the check of `Alerts`; and it copies spills into the store of
`BlobStore`. A todo that is done ends its agent (`Deployments`, for which a todo
is only open or done). `Router` shares no state with the rest.

## Modules

Each module models one component; the `MC...` modules give constants and put
components beside each other for a run, and the `...Proofs` modules hold
theorems. Operators marked `Mutant:` are plausible bugs: `PROJECT.json` names,
for every property of a passing run, one that makes TLC find it violated.

### IngestTail

Translates the loop of `ingestAll` over Claude Code sessions, the one of
`ingestSubagentsForSession` and `ingestJsonlSource` (`packages/core/db/ingest.ts`).
`Harness[f]` says which loop reads a file; the three differ in what a line may
do (`IsThrottle`, `IsEnd`, `NamesParent`, `Books`).

A position is counted in half lines: `2*i` is the end of line `i`, an odd
position its middle. That is all the detail of bytes the properties need: is a
write, a stat or an offset in the middle of a line or not.

| code | here |
|---|---|
| harness appends | `HarnessWrites` |
| `await stat(filePath)` | `Stat` |
| `SELECT byte_offset`, `if (fstat.size <= startByte) continue` | `ReadOffset`, `NothingNew` |
| `batchInsert` when 500 lines are read | `CommitFull` |
| end of the read stream | `ReachEof` |
| the last `batchInsert` | `CommitTail` |
| `UPDATE sessions SET delegated_from` | `LinkDelegation` |
| upsert of `ingest_offsets` | `SaveOffset` |
| an exception, the death of the process | `Abort` |

`Commit` is one transaction: `INSERT OR IGNORE` on `message_uuid` (`Inserted`),
the usage booking (`Books`), the throttle insert and the `session_end` update
(`ClosedBy`). A message of kind `broken` keeps its row but books nothing, since
its content blocks throw after the insert. `cut` is a history variable: lines
in whose middle an offset was stored.

### Router and LineChannel

`router.ts`, `scanner.ts`, `sender.ts`, `config.ts` of `packages/router/src`.
A scan reads one file per step (`ScanFile`), because harnesses may append
between two reads, but no other step of the daemon is enabled in between: scan
is synchronous. `flush` is `StartFlush` up to its await and `AfterSend` with
`EndFlush` after it, including the flush it calls itself when a full batch
waits. `post` says where the request is, so that an answer can be lost after
the endpoint stored the batch. `start` scans before it watches (`Start`, `ScanFile`,
`Watch`), and a path whose watch fails is only logged: `watching` says whose
changes are noticed, `changed` that one waits to be reported. `ExitWith` is every
end of the process. `dropped` and `faults` are history variables.

The cursors are saved by a plain `writeFileSync`, at three places: after a send,
at a signal and in `stop()` at a 401. At each of them it may throw, with the file
as it was or truncated (`SaveFails`), and a kill may land in it (`Killed`);
`loadCursors` reads a truncated file as `{}` (`Blank`). What follows differs: after
a send the batch is put back, a signal ends the process all the same, and at a 401
`stop()` has closed the watchers and the interval when it throws inside the `try` of
`flush`, so the batch is put back in a process that nothing wakes (`retired`): it
sends on while a full batch waits, and then ends without saving (`Drained`). A loss
of power, which may undo a save that had returned, is not modelled.

`LineChannel` is what the daemon promises the endpoint: pieces of a file are handed
over or, in their turn, given up on, in the order they were written, and a piece
comes up again only once for each thing that went wrong. The mapping (`Channel ==
INSTANCE LineChannel WITH ...`) takes `received` for what was handed over and
`dropped` for what was given up on; the property is `ChannelKept`. A file that was
truncated is outside the promise, since its cursor stays where the old lines put it.

### IngestScheduler

`main.ts` (the ingestion timers), `watcher.ts`, `api/ingest/route.ts` and
`ingest-once.ts`. A pass is a record in a slot: who started it, its age,
whether it has read the files, whether it hangs. `inFlight` and `ingesting` are
the two guards of the worker, `running` the pid of the web server. `Ends` is
what a pass does in its `finally` or exit handler; note that it lowers the
flag whoever holds it. Time is counted in ticks of the watchdog; `Stall` and
`Hang` are its two limits in ticks (10 and 30 minutes of 5 in the code, 1 and 2
in the runs, which keeps their order and the state small).

### LiveStream

One connection of `api/live/route.ts`. A scan stats the recently written files
(`StartScan`) and reads them one after another (`OpenFile`, `ReadToEnd`), each
behind an await of its own; a read that takes three seconds is given up
(`GiveUp`). The browser may leave at any of these awaits (`Leave`), which only
the heartbeat notices (`Heartbeat`). Positions are half lines as in `IngestTail`.

### ProjectList

`projects-list.ts`, `project-classify.ts`, `project-rollup.ts`. Ingestion adds
rows and directories (`AddRow`, `AddDirectory`); `BuildList` is the whole
computation: rows of one repository join, workspaces and clones in scratch
space go with the project their path names, containers are dropped, what is
left over goes by name. Names and paths are sequences of segments, because the
rules compare prefixes. Both folds are one operator, `FoldInto`: entry after entry
takes its turn (`Turn`), with a parent that is known before the pass begins.

### Todos

`extractTodosFromEntry` and `upsertTodo`, the routes under `todos`, `triage`,
`sessions/close`, `inject` and `nudge`, `triage.ts`, `session-close.ts`, for one
project. `ReadEntry` applies one transcript entry with everything it does to
todos. A request is one step for its transaction; what it has still to append to
the triage file is a batch in `owed` until `RecordTriage`, so that the worker may
read or the web server die in between. No other request comes between the two,
but for DELETE, which awaits an import there (`awaits`). A post takes the source
the client names, so it may be a session's own (`own`). `cache` is the worker's copy of the file, up
to five seconds old. The transcripts, and what users may post or inject, are
constants (`Transcripts`, `Posts`, `Injections`), so that a run says which
conversations it covers; `MaxEvents` bounds the requests that have no other
bound. `logged`, `patched` and `touched` are history fields of a row.

### Projects and UsageAccounts

`getOrCreateProject` is up to five statements, each committed by itself, so a
resolution is a program counter (`Lookup`, then the steps of `Proceed`) that
keeps ids in memory; `mergeProjects` is one transaction, reached by a request
(`AskMerge`) or by the sweep at the end of a pass. `Book` writes minutes on an
id held in memory, which a merge may have deleted meanwhile: foreign keys turn
that into an error, which ends the visit or, where it is caught for the one line,
leaves the pass to go on with the id it has. `Lose` is the death of a process between two statements.
What git says of a directory may change between two looks (`GitSays`).

`UsageAccounts` is what the table promises: accounts opened once, deposits, and
accounts absorbed whole by another. `Projects` implements it with the mapping
at the end of the module (`Accounts == INSTANCE UsageAccounts WITH ...`); the
property is `AccountsKept`.

### Deployments

`api/boot`, `api/boot/mega`, `api/boot/finished`, the culls of
`packages/core/db/ingest.ts` and of `api/todos`. A request is a caller with a
program counter that stops at each question to tmux; what tmux answered is kept
in the caller and used later. Sessions are named after the last part of a path
(`Stem`), so two projects may share one; windows are named after the prompt and
the time of day, so a name comes again after `DaySeconds`. `kills` are the
timers of `tmuxKillWindow`, each owned by a process, which `OnceExits` and
`ServerDies` lose. tmux may fail at anything it is asked, and the code swallows what
a kill answers: a kill that failed, or that met several windows of the name, of which
tmux picks none, is `missed` and its window stays (`KillWindow`); so does the window
of a launch that could not be undone (`MegaUndo`, `unrecorded`). What is taken for
granted is that a target is meant by its full name: tmux takes a name it does not
know for the start of another, and the launch of a single agent passes such names.
The awaits of that launch are one step, `Boot`.

### PriceLedger

`pricing-sync.ts` and the look-ups of `pricing.ts`. A sync opens an entry of the
register and awaits a feed (`Started`, `Continued`); `Answer` is the feed's
arrival, `Book` the transaction that compares it with the standing rows of the
oracle, after which the next oracle's entry is opened in the same step. Five
triggers start one: `Kickoff`, `Daily`, `Unpriced`, `Asked`, `EnsureHydrated`,
and nothing keeps two apart. `Resolve` and `PriceAt` are the look-ups that bill
an instant; each server answers from its own copy (`book`). `Book` reads the clock
and the standing rows at once. In the code the clock is read one statement before
the snapshot is taken, with no await between, so another process's booking can fit
in there and start a row in the second after the one that was read, which the
first booking would then end before it started. That is left out: it takes two
processes and a tick of the clock between two adjacent statements.

### StatusPolls, MeshRollup, RefusalScan, Alerts, BlobStore

`StatusPolls`: `PollAll` and the hourly `Rollup`, whose cutoff falls inside an
hour: such an hour is folded in two parts, the second row replaces the first, and
the worst light is that of the second part (`WorstLight`, the run `StatusLights`).
What holds is that recent polls stay (`RecentPollsKept`, checked in `Tables`) and that
a row is the fold of the polls that went last (`LastFoldStands`, only proved). `MeshRollup`: `Snapshot` and `RollupDrain`, which folds at most
`MaxPerCall` buckets, smoothed over their neighbours. `RefusalScan`: the scans
of both processes (`Begin`, `Select`, `Commit`), the scan from scratch in
statements of its own (`Wipe`, `ZeroCursor`), records from ingestion and from
the back-fill. `Alerts`: a check is `BeginCheck`, then `Weigh` and `Insert` per
rule, between which requests acknowledge, clear and recalibrate. `BlobStore`:
a spill is stat'ed, read, written to a file named by its hash and recorded
(`StatSpill` to `RecordSpill`); an upload writes the same store; detaching
counts the holders in one step and unlinks the file in another.

## Runs

| run | module | constants | question |
|---|---|---|---|
| SessionFiles | MCSessionFiles | *ingest*: 1 native file of 3 lines, 2 passes, transactions of 2 lines, torn writes, 1 abort; *shared*: a session and its subagent's transcript, whole lines, shared uuids, the same passes and abort; *feed*: 1 file of 4 lines, 1 stall; *list*: up to 3 of 10 rows, 2 directories | do offset, order and closing survive interleaving and death; is a message that occurs twice booked once; does the feed send what it passes; is every row counted once? |
| IngestTorn (violation) | MCIngestTail | 1 file of 1 line, 1 pass, torn writes | is no line lost? |
| RouterFaults | MCRouter | 2 files of 2 lines, 2 epochs for one of them (truncation), batches of 2, 2 attempts, 1 fault: a save that fails or is cut short, a kill, a lost reply | where is every byte, in which order and how often does it arrive? |
| RouterLive | MCRouter | 1 file of 2 lines, torn writes, a watch that may fail, the same faults, fairness | is every byte the daemon knows of delivered or given up on? |
| RouterDrops (violation) | MCRouter | 1 file, 1 line, 1 attempt | does a running daemon keep what it could not send? |
| SchedPasses | MCIngestScheduler | 2 slots, `Stall` 1, `Hang` 2, 1 hang, 1 failure or restart, 1 write, fairness | do the guards keep their meaning, and is what is written ingested? |
| Tables | MCTables | *prices*: 1 oracle, 2 models, 2 prices, 2 syncs, 3 entries, 1 shift of the feed; *status*: hours of 2, 4 instants; *mesh*: 2 hosts, buckets of 2, 3 samples; *refusals*: 2 sessions, 1 each of rescan, death, re-read, back-fill; *usage*: 1 rule, 2 checkers, 2 each of minutes, alerts, requests; *blobs*: 1 spill of 2 bytes, 2 archivers, 2 attachments, 1 death | do the tables beside the log say what their sources said? |
| StatusLights (violation) | StatusPolls | 1 target, hours of 2, 4 instants | does the row of an hour tell its worst light? |
| Board | MCBoard | *todos*: 4 pairs of transcripts, 2 requests, 1 death, 1 rebuild, of these 3 beside one transcript and 2 beside two (`Sparing`); *agents*: 2 callers, 2 repositories of one stem, 2 agents, 1 todo, 2 calls, 1 window from outside, 1 fault; *projects*: 2 resolvers, 2 names, 3 ids, 3 lookups, 2 bookings, 1 request, 1 loss | do todos, agents and projects stay what users and transcripts made of them? |
| TodosReopened (violation) | MCTodos | 1 transcript, 1 request | does a closed todo stay closed? |
| AgentsCulled (violation) | MCDeployments | 1 caller, 1 agent, no faults | is the window of a culled agent killed? |
| Passes | MCPasses | *files*: 1 file of 2 lines, 2 passes, torn writes, 1 abort; *projects*: 2 resolvers, 3 ids, 3 lookups, 1 request, 1 loss; fairness | is every finished line ingested; do the rows of a repository end as one? |

**Components in one run.** `MCSessionFiles`, `MCTables`, `MCBoard` and
`MCPasses` hold a variable `focus`, chosen at the start: its component moves,
the others stay in their initial state. The components of one run share no
variable, so no interleaving between them is lost, and the states are the sum
of theirs instead of the product. A property of one component is not weakened
by it: in the behaviours of its focus it is checked as it stands. Properties of
two parts that are checked together have one name: `OneEventEach` (nothing
missed, counted once), `AlertsMatchRules` (no spam, open against current
rules), `RollupsFaithful` (`RecentPollsKept` of the status pages and
`TiersAgree` of the mesh), `ActivityIsKept` (each row counted once, what counts
is listed), `BooksBalance` (`RegisterAccounts`, `DelistedMeansAbsent`),
`BytesAccounted` (the cursor in memory, the one on disk).

**Why the bounds are enough to be interesting.** Two passes are what it takes
to interleave a stat, a read, a transaction and an offset write; three lines
give a full transaction, a partial one and a duplicate behind both. One abort
lets a pass die at each of its steps. In the router a batch of two with two
files makes a batch that mixes files and one that is only partly behind a
cursor; two attempts separate "retry" from "give up". One hang and one trouble
let a pass be abandoned and come back. Two syncs and three register entries let
one sync run over another and a third follow both; a clock of 2 lets two
bookings share an instant or not, so rows of no duration occur. Three samples
in buckets of two leave one bucket for the backlog. Two repositories of one stem
make two projects fight for one tmux session, and three ids let a row be merged
away and its directory be resolved anew. What the bounds cannot show (any number
of files, passes, syncs, rows, faults) is what the proofs are for.

**Deadlock** is checked except in `Board`, `Passes` and `AgentsCulled`:
transcripts end, requests, ids and agents are bounded, and those models come to
a stop when all are used up.

**Mutants.** Every property of a passing run has one in `PROJECT.json`: an
operator defined next to the one it replaces, marked `Mutant:` in the module,
with which TLC finds the property violated.

### Fairness

- `IngestTail`: weak fairness for each step of a visit (an await that does not
  fail returns), strong fairness for `Stat` of each file by each pass. A pass
  visits every file it lists and the worker starts one every minute, so a pass
  gets to each file again and again; it is strong because the pass is busy with
  other files in between.
- `Projects`: weak fairness for `Proceed` of each process: statements of a
  process that lives follow one another, and a pass ends with its sweep. Nothing
  is assumed of requests, and a directory need never be resolved again.
- `Router`: the daemon is restarted (it runs as a service), `start` runs to its
  end, a change that `fs.watch` noticed is reported, the interval fires, a backoff
  ends, and so does a request, by its 30 s timeout if nothing else. All are weak
  but the last three, which come up in each turn of the event loop and lose it to
  scans in between. Nothing is assumed of a change that no watch noticed: what is
  written between the first scan and the watch, or under a path whose watch failed,
  is sent after a later change or a restart, or never. `EventuallySettled`
  therefore speaks of what the daemon has read, is told of, or will find when it
  comes up; `EverythingSettles` drops that condition, and TLC refutes it.
- `IngestScheduler`: ticks, the periodic timer and the watchdog happen, and a
  pass that does not hang goes on. Nothing is assumed of watch events, requests
  or of a hung pass ever waking. `StartupHangs = FALSE` in `SchedPasses`: the
  timers are installed after the start-up pass, so nothing helps if it hangs.

## Proofs

Eight modules hold theorems; `PROJECT.json` lists those a reader should know
of. They hold for every value of the constants that satisfies the named
assumptions at the head of the component's module, and these only say what the
code gives: finite sets of models, requests, spills, hosts, targets and slots, positive bounds
and batch sizes, ids that are not the mark for "none", names of rows that are
unique (`projects.name`). One assumption is about
another program: `AnswerAssumption` (`Todos`) says that a harness answers its
TaskCreates in the order it made them, under numbers the session has not used,
which is what the comment at `packages/core/db/ingest.ts:1015` relies on; behind
a TodoWrite or a torn line it lets anything follow. The proof modules assume
nothing else.
None of the properties is inductive alone. Each module defines the invariant
that is, a conjunction of named parts, proves that the initial states have it
and that every action keeps it, and derives the properties. TLC checked each of
these invariants on small instances before it was proved.

| module | proved | inductive invariant |
|---|---|---|
| `SessionFilesProofs` | `IngestTail`: `TypeOK`, `OffsetCoversHandled`, `AppliedInOrder`, `UsageBookedOnce`, `ClosedAtFirstEnd`; with one pass an offset never retreats | `IInv` |
| | `LiveStream`: types, `NothingSkipped` | `FeedInv` |
| | `ProjectList`: types, `ActivityIsKept` (`EachCountedOnce`, `ReposAreListed`) | `ListInv` |
| | `MCSessionFiles`: `FilesTypeOK` | those of the feed and the list |
| `IngestSchedulerProofs` | `TypeOK`, `StackBound`, `WatcherFlagHonest`, `FlagHasOwner` | the four together |
| `RouterProofs` | `TypeOK`, `BytesAccounted`, `DuplicatesAreFaults`, `SavedNeverRetreats`, the refinement `ChannelKept` | `IInv` |
| `ProjectsProofs` | types, `OneHome`, the refinement `AccountsKept` | `ProjectsInv` |
| | `MCBoard`: `BoardTypeOK` | those of todos, deployments and projects |
| `TodosProofs` | types, `TrailFollows`, `DecisionsOutliveDatabase`, `SnapshotsNeverReopen` | `TodosInv` |
| | `NumberNamesItsTask`, `MirrorsTranscript` | `TodosInv`, `NumbersInv` |
| `TablesProofs` | `BlobStore`: `PayloadsKept` | `BlobInv` |
| | `Alerts`: `AlertsMatchRules` | `AlertInv` |
| | `RefusalScan`: `OneEventEach` | `ScanInv` |
| | `StatusPolls`: `RecentPollsKept`, `LastFoldStands` | `StatusInv` |
| | `MeshRollup`: `TiersAgree` (`OneTier`, `ColdInOrder`, `SmoothedWithinReadings`) | `MeshInv` |
| | `MCTables`: `TypeOK`, `RollupsFaithful` | all of these, beside each other |
| `DeploymentsProofs` | types, `NoStrays`, `SparesLiving` | `DeployInv` |
| `PriceLedgerProofs` | types, `Timeline`, `BooksBalance`, `PastStands`, `StaleBeatsZero` | `PriceInv` |

**IngestTail.** `IInv` adds what a visit knows: it started at a stored offset,
everything before a stored offset is settled, so everything before its read
position is (`VisitInv`); settled lines stay settled, whatever other passes do;
a row or a closing implies that all earlier lines are settled (`OrderInv`); a
uuid in a row is in the index, and there is one row for it (`RowInv`). The size
stat'ed before the read is at most the end of the stream, so the offset that
`SaveOffset` stores is covered.

**LiveStream.** `NothingSkipped` is about a line behind a cursor: it was sent,
was there when the connection first saw the file, or has the cursor of some scan
in its middle. `CursorInv` says which cursors can be in the middle of a line, and
`ReadInv` that a read that is under way began at the cursor and that the size
found before it is there to read: the cursor moves to that size, never to where
the read ended, so what is sent covers it.

**ProjectList.** A list is `Sound` when every row is counted once, the rows of a
repository are counted together, and every entry that is a project by name stands.
The list by identity is sound, and a fold keeps it so, as `Turn` does (`TurnKeeps`): what an
entry is counted with is a project by name, never scratch, and such an entry stays
its whole pass through. Hence what is in an entry never follows one that is gone. That
both kinds of parent are of this sort is `PathParents` and `NameParents`; they rest
on `FirstBestIn` (the first among the best of a sequence is there, and is one of
those asked for) and on `CanonicalRow` (the rows of a repository have one name, that of
one of them). The pass is a recursion over the entries: `TurnsExist` shows that there
is such a function, and `FoldKeeps` that what it gives is sound, both from a least
number of turns for which they fail.

**IngestScheduler.** The argument counts passes: each action leaves the set of
guarded passes and the set of the watcher's passes alone, adds one pass in a
free slot (`PassBegins`) or takes one out (`PassEnds`).

**Router.** The proofs look at one sequence, `Queue`: the batch that is being
sent, then what waits. A scan extends it, a finished send takes off its front,
an exit empties it, every other step leaves it alone, among them the two that
move lines between batch and pending. `QueueInv` says that the pieces of a file
follow one another in it, `CursorInv` that they lie behind the cursor and on one
side of the saved one (so a restart reads all of a piece again or none, also when
the saved ones were lost),
`OrderInv` that what comes before a queued piece is settled or further ahead,
`DealtInOrder` that what comes before a settled piece is settled, and `CopyInv` that
a piece which can still be sent without a new fault was dealt with at most `faults`
times: stored, or given up on once. A retired process ends without a new fault and
leaves what it held to be read again: `RetiredInv` says that the save which made it
retire counts for those pieces. In the refinement the endpoint's storing a batch
hands it over (no piece of it is at its bound, so each count grows by one), the end of a
send or of the process gives up, and every other step stutters or is a fault.

**Projects.** A resolution is five statements, so the invariant says what holds
between them. `MemoryInv`: a process may remember an id whose row is gone, but
none that was never given. `HeirInv` and `LoserInv`: a merged row's heir stands,
and its name has gone over to another row. `HomeInv`: what a directory was
resolved to stands, through its heirs, on the row it finds today, and a process
in the middle of resolving it, if alone, has not been overtaken. The refinement
maps every step: `Insert` opens an account, `Book` deposits, `Merge` absorbs one
account in another or stutters when the loser is gone, and all others stutter.

**Todos.** Transcripts of any length and content. The worker decides on a copy
of the triage file; the argument is that the copy is never older than the
database (`CacheInv`), because a rebuilt database starts with a new worker.

The numbers of a task list need more. `NumbersInv` says there is a map from the
TaskCreates of a session to the rows they made, in the order of their ids
(`Follows`): a row without a number belongs to a TaskCreate that no result has
answered yet, a row with one to the TaskCreate of its answer, and no other row
of the session waits or has a number that only this session uses. So the rows
that wait are the TaskCreates that wait, the next result answers the oldest of
them, and it takes that row, by its subject or by its age. A TaskUpdate then
finds no other row (`OneTask`), so the row follows what was told of it. Rebuilding
the database empties the map, and reading the transcript again restores it.

The first form of `NumberNamesItsTask` asked less of the session, and the proof
did not go through: TLC then found, on three TaskCreates of texts B, A and B, two
edits of waiting todos after which the result for A finds no todo of that
subject and takes the oldest one, which is B's. `spare` therefore takes in a
session one of whose waiting todos was edited. The code does misnumber there, as it does
where a TaskCreate was skipped.

**BlobStore.** `SizeInv`: what a pass read of a spill is not more than the spill
had. `HolderInv` and `OwnerInv`: the file of a row is there unless the web server
removed it between another process's look and its row, and a file that is not
whole has a writer, or had one that died.

**Alerts.** A check looks for alerts of the window and inserts one later. `LookInv`:
what it saw of a rule lies before the window and stays there, because the clock
only runs on; so an alert of the window has an id beyond `seen`, and that is
what `blind` records. `PassInv`: a check in the middle of its rules has read the
thresholds.

**RefusalScan.** `NothingMissed`, `RecordWins` and `FiledOnce` need two more facts.
A batch lies between the cursor and the end of the blocks (`ScanTypes`), so a
commit moves the cursor over what it has counted, unless a scan from scratch came
between (`raced`). A record's events carry its session or
none, and a record that has some without having been ingested was filed from
disk (`FiledInv`).

**StatusPolls.** `PollInv`: the polls that were deleted are older than the retention
and older than all that are kept. What a rollup folds of an hour is
what is deleted of it from some instant on; the proof takes the least such
instant, and what went before it is older, so the row is the fold of what went last
(`LastFoldStands`). That it were the fold of all is `WorstLight`, which is refuted.

**MeshRollup.** `Tiered` says of any two tiers that each bucket is whole in the one
or has a row of all of it in the other, and that rows end before the retention and
before what is hot. One bucket folded keeps it (`RolledKeeps`). A drain folds up
to `MaxPerCall` of them, which `After` defines by recursion on their number:
`AfterEquation` shows that there is such a function, and `AfterKeeps` that every
outcome of it is tiered, both from a least number for which they fail. The
averages (`Averaged`) need sums over sets. A sum is defined by recursion too:
`SumsExist` shows that there is one for each subset of a finite set,
`SumsBetween` that it lies between the least and the greatest reading times
their number, both from a counterexample of least cardinality. A weighted mean
of means that lie between readings lies between them (`PlusKeeps`), whichever
of the five is missing; the row before, which is one of them, only looked at
readings that are older still.

**The tables beside each other.** `Spec` of `MCTables` implies the specification
of each of its components (`TablesApart`), so what is proved of a component holds
of the specification the run checks: `TypeOK` and `RollupsFaithful` are stated of
that one. `FilesApart` and `BoardApart` do the same for `MCSessionFiles` and `MCBoard`.

**Deployments.** `NoStrays` compares numbers, so `CountInv` counts for each
name: there are at most as many windows as unfinished rows, kills (under way or
`missed`) and loose windows of that name. Completing a row moves one from the first
kind to the second, recording a launch from the third to the first; a kill that fails
stays in its kind (`KillMissed`), one that works takes a window with it
(`WindowKilled`). `SparesLiving` needs
`AgentInv` (one number is one agent, so its window and its row agree on the
session) and `JudgeInv` (a request about to mark rows knows the session of each
of its rows that still has a window, because rows are read before tmux is
asked, and an agent does not come back).

**PriceLedger.** `Orderly` says a history is a chain: its rows are numbered,
each ends before the next one starts, the one that stands is the last and its
number is how many there are. That no instant is uncovered (`NoGap`) is a part of
its own, since two bookings in one second leave a row of no duration, which
covers nothing. A booking maps each row to what becomes of it and adds a row for
each model whose standing price the feed does not confirm; the register's entry
counts exactly those, because each sync under way has an entry of its own that
has not ended well (`Underway`). The past stands because rows only ever start or
end now. A server's copy is an older ledger in which whatever had a price still
had one (`Copies`), so no later load takes it away.

### What is only model-checked

- Liveness (`EventuallyHandled`, `EventuallySettled`, `EventuallyIngested`,
  `EventuallyOneRow`): fairness and ENABLED are out of the prover's reach. The
  five violations are runs by nature.
- What a recursive definition computes for every input needs induction over data,
  which the prover lacks. Where a recursion is over numbers or over finite sets,
  as in `MeshRollup` and `ProjectList`, the least number or size for which a claim
  fails does instead, so every invariant the runs check is also proved.

## Where the code and its documents part

Five findings have a run; each quotes the sentence it refutes in
`PROJECT.json`:

- `IngestTorn`: a line half written at the end of the file is lost for good.
- `RouterDrops`: `sendBatch` returns after its last attempt instead of
  throwing, so the branch that puts lines back is not taken for an undelivered
  batch; only a save of the cursors that throws takes it.
- `TodosReopened`: TaskUpdate opens a todo that was closed by hand.
- `StatusLights`: the row of an hour that is folded in two parts is that of the
  second part, though it is said to hold the worst light.
- `AgentsCulled`: a pass asked for from the web exits before the five-second
  timer that would kill the window of the agent whose row it completed.

The modules state more promises under "What comments promise and the code does
not keep". TLC refutes each on instances of the size above; no configuration
is kept for them:

| module | promises refuted |
|---|---|
| `IngestTail` | `RefusalCountedOnce`, `DelegatedNeverBooked` |
| `Router` | `NeverResent`, `SavedMeansReceived`, `TruncationResetsCursor`, `EventsArriveWhole`, `EverythingSettles` |
| `IngestScheduler` | `SingleFlight`, `YoungRunsLeftAlone`, `SelfHeals`, `OneOnDemandPass`, `BusyMeansRunning` |
| `LiveStream` | `ShownWhole`, `ShownOnce`, `ShownInOrder`, `WatchersReleased` |
| `ProjectList` | `OnlyStraysDropped`, `ContainersAbsorbNobody` |
| `Todos` | `UpdateStaysInSession` |
| `Deployments` | `FailedAreDead`, `OneAgentEach`, `UndoesItsOwn` |
| `PriceLedger` | `BilledAsOfItsDay` |
| `BlobStore` | `ResultsAreHeld`, `SweptIsWhole`, `BytesNeverChange` |

Some hazards of `PROJECT.json` have no property, because the code does go wrong
there: the delegation marker forgotten between visits, a refusal read again and
filed again, a truncated file below its cursor, a start-up pass that hangs before
the watchdog exists, a web server that forgets its detached pass, two sessions that
number their tasks alike, and a torn file in the store of payloads. The promises
above that they break are `DelegatedNeverBooked`, `RefusalCountedOnce`,
`TruncationResetsCursor`, `SelfHeals`, `OneOnDemandPass` with `BusyMeansRunning`,
`UpdateStaysInSession` and `SweptIsWhole`. Other properties name a case that they
exempt, since the code goes wrong in it: a text scanned before its record (`late` in
`RefusalScan`), a file removed between a pass's look and its row (`crossed` in
`BlobStore`), a status set by PATCH (`patched` in `Todos`), a directory that two
processes resolve at once (`contested` in `Projects`), a kill that was lost or failed
(`missed` in `Deployments`).

## Not modelled

Most of the repository's lines are React pages, parsers of harness formats and
sensors, which keep no state that outlives a call: pages and components,
read-only routes, git, tree and unsandbox pages, the browser extension, block
and session readers, PII sanitising, mesh probes, terminal streams, the schema
package, scripts and documents. The arithmetic of prices and the precomputed
payloads are functions of tables modelled here. Opening and migrating the
database happens before any process of these models starts.

In the modelled components: providence extraction and name back-fills of a visit
(they write tables nothing else here reads), wording and layout, the router's
configuration file and its `--status` listing, which change no state. SQLite
itself is trusted to make transactions atomic and durable and to let them wait
for each other. git, the file system and tmux may fail; they are trusted to do what
they are asked when they say they did, and tmux to find windows by their full names
(see Deployments). A write of the router's cursor file may be cut short, a write of
a payload, too; an append to the triage file is whole or did not happen.

## Plan

The fourteen components above have their runs, and every invariant and action
property of these is proved. What would come next is parsers: the block and
session readers, whose output the log here takes as given.
