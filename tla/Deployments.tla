-------------------------------- MODULE Deployments --------------------------------
(* Agents: they live in tmux windows, or on another machine, and have a row *)
(* in agent_deployments.  Rows are written and closed by the requests of    *)
(* api/boot, api/boot/mega, api/boot/finished and api/todos, and by passes  *)
(* that find an agent's end mark (cullUneofDeployments).                    *)
(*                                                                          *)
(* tmux is another process: every question to it is an await, and what it   *)
(* answered is old when it is used.  The statements between two awaits of   *)
(* the web server are one step.  Killing a window is a timer of the process *)
(* that closed the row; the timers of one that ends never fire, and a kill  *)
(* that fails or takes too long is not tried again.  tmux is asked for a    *)
(* session by the whole of its name: that -t also takes the beginning of    *)
(* one is left out.                                                         *)
EXTENDS Integers, Sequences, FiniteSets

CONSTANTS
    Callers,        \* requests of the web server under way at once
    Repos,          \* projects
    Stem,           \* Stem[q]: the last part of q's path, after which sessions are named
    Tasks,          \* todos; TaskRepo[t] is the project t begins in
    TaskRepo,
    Prompts,        \* what windows are named after
    MaxAgents,      \* bound: agents started
    DaySeconds,     \* seconds after which the time of day, HHMMSS, comes again
    MaxOutside,     \* bound: end marks found, projects merged, todos moved by other routes
    MaxCalls,       \* bound: requests
    MaxFaults       \* bound: tmux calls that fail, processes that die

ASSUME DeployConstantsOK ==
    /\ IsFiniteSet(Callers)
    /\ TaskRepo \in [Tasks -> Repos]
    /\ DaySeconds \in Nat \ {0}
    /\ {MaxAgents, MaxOutside, MaxCalls, MaxFaults} \subseteq Nat

VARIABLES
    deployments,    \* the rows, in order of their ids
    tmux,           \* the windows
    elsewhere,      \* agents on another host, in screen or in unsandbox
    tasks,          \* status of every todo
    taskRepo,       \* and its project
    registered,     \* the projects that have a row
    caller,         \* what each request is doing and remembers
    uneof,          \* projects of which a pass, by process, has seen the end mark
    kills,          \* timers that will kill a window
    missed,         \* history: timers that never fired, or whose kill failed
    unrecorded,     \* history: windows that never got a row, and are nobody's any more
    agents, clockSecond, outside, calls, deployFaults

windows    == <<tmux, elsewhere>>
work       == <<tasks, taskRepo, registered>>
timers     == <<kills, missed>>
extent     == <<agents, clockSecond>>
budget     == <<outside, calls, deployFaults>>
deployVars == <<deployments, windows, work, caller, uneof, timers, unrecorded, extent, budget>>

\* The worker lives on; a pass asked for from the web is a process that exits
\* when it is done (ingest-once.ts).
Ingesters == {"worker", "once"}

Mega(q, s) == <<"mega", Stem[q], s>>    \* mega-<stem>-<HHMMSS>
Shared(q)  == <<"boot", Stem[q]>>       \* one session per stem

OfWindow(a, q, session, window) == [agent |-> a, repo |-> q, session |-> session, window |-> window]
Deployment(w, ts) == [agent |-> w.agent, repo |-> w.repo, session |-> w.session, window |-> w.window, tasks |-> ts, status |-> "running"]

NoCall == [at |-> "idle", targets |-> {}, given |-> [q \in Repos |-> {}], rows |-> {}, live |-> {}, blind |-> FALSE,
           busy |-> {}, second |-> 0, made |-> OfWindow(0, "", <<>>, "")]

TaskStatuses == {"open", "completed", "obsolete", "deleted"}   \* "open": pending, in progress

DeployIds == 1..Len(deployments)
Running   == {i \in DeployIds : deployments[i].status = "running"}
OpenTasks(q) == {t \in Tasks : tasks[t] = "open" /\ taskRepo[t] = q}

Ended(S, status) == [i \in DeployIds |-> IF i \in S THEN [deployments[i] EXCEPT !.status = status] ELSE deployments[i]]

At(r, stage)  == caller[r].at = stage
Now(r, stage) == caller' = [caller EXCEPT ![r].at = stage]
Done(r)      == caller' = [caller EXCEPT ![r] = NoCall]

Starts(r, state) ==
    /\ At(r, "idle") /\ calls < MaxCalls
    /\ calls' = calls + 1
    /\ caller' = [caller EXCEPT ![r] = state]
    /\ UNCHANGED <<deployments, windows, work, uneof, timers, unrecorded, extent, outside, deployFaults>>

\* tmux list-sessions, which counts as "none" when it fails or takes too long.
Lists(r, stage) ==
    /\ \/ /\ caller' = [caller EXCEPT ![r].at = stage, ![r].live = {w.session : w \in tmux}]
          /\ UNCHANGED deployFaults
       \/ /\ deployFaults < MaxFaults
          /\ caller' = [caller EXCEPT ![r].at = stage, ![r].live = {}, ![r].blind = TRUE]
          /\ deployFaults' = deployFaults + 1
    /\ UNCHANGED <<deployments, windows, work, uneof, timers, unrecorded, extent, outside, calls>>

------------------------------------------------------------------------------
(* api/boot/mega POST: an agent for each project with open todos.           *)

MegaRead(r) ==
    LET wanted == {q \in registered : OpenTasks(q) # {}} IN
    /\ wanted # {}
    /\ Starts(r, [NoCall EXCEPT !.at = "list", !.targets = wanted, !.given = [q \in Repos |-> OpenTasks(q)]])

MegaList(r) == At(r, "list") /\ Lists(r, "pick")

\* Rows are read after the windows they are compared with.
MegaPick(r) ==
    LET stale == {i \in Running : deployments[i].session \notin caller[r].live} IN
    /\ At(r, "pick")
    /\ deployments' = Ended(stale, "failed")
    /\ caller' = [caller EXCEPT ![r].at = "launch", ![r].second = clockSecond,
                                  ![r].busy = {deployments[i].repo : i \in Running \ stale}]
    /\ UNCHANGED <<windows, work, uneof, timers, unrecorded, extent, budget>>

\* The next project: it has an agent, its path is not a directory, or tmux
\* is asked for a new session, which fails when that name is taken.
MegaLaunch(r) ==
    /\ At(r, "launch")
    /\ \/ caller[r].targets = {} /\ Done(r) /\ UNCHANGED <<tmux, agents>>
       \/ \E q \in caller[r].targets :
            LET made == OfWindow(agents + 1, q, Mega(q, caller[r].second), "")
                on(stage) == caller' = [caller EXCEPT ![r].at = stage, ![r].targets = @ \ {q}, ![r].made = made]
            IN  \/ on("launch") /\ UNCHANGED <<tmux, agents>>
                \/ /\ q \notin caller[r].busy
                   /\ \E w \in tmux : w.session = made.session
                   /\ on("undo") /\ UNCHANGED <<tmux, agents>>
                \/ /\ q \notin caller[r].busy /\ agents < MaxAgents
                   /\ \A w \in tmux : w.session # made.session
                   /\ on("record") /\ tmux' = tmux \cup {made} /\ agents' = agents + 1
    /\ UNCHANGED <<deployments, elsewhere, work, uneof, timers, unrecorded, clockSecond, budget>>

\* The row, unless the command could not be typed or the project has been
\* merged away, which its foreign key reports.
MegaRecord(r) ==
    LET made == caller[r].made q == made.repo IN
    /\ At(r, "record")
    /\ \/ /\ q \in registered
          /\ deployments' = Append(deployments, Deployment(made, caller[r].given[q]))
          /\ Now(r, "launch") /\ UNCHANGED deployFaults
       \/ q \notin registered /\ Now(r, "undo") /\ UNCHANGED <<deployments, deployFaults>>
       \/ /\ deployFaults < MaxFaults
          /\ deployFaults' = deployFaults + 1
          /\ Now(r, "undo") /\ UNCHANGED deployments
    /\ UNCHANGED <<windows, work, uneof, timers, unrecorded, extent, outside, calls>>

\* Mutant: the half-made session is left behind.
LeftMade(r) == tmux

\* kill-session by name, whoever made the session.
WithoutMade(r) == {w \in tmux : w.session # caller[r].made.session}

\* A kill that fails is ignored, and the session left.
MegaUndo(r) ==
    /\ At(r, "undo") /\ Now(r, "launch")
    /\ \/ tmux' = WithoutMade(r) /\ UNCHANGED <<unrecorded, deployFaults>>
       \/ /\ deployFaults < MaxFaults
          /\ deployFaults' = deployFaults + 1
          /\ unrecorded' = unrecorded \cup {caller[r].made} /\ UNCHANGED tmux
    /\ UNCHANGED <<deployments, elsewhere, work, uneof, timers, extent, outside, calls>>

------------------------------------------------------------------------------
(* api/boot POST: one agent, in a window of the project's session or away   *)
(* from this tmux, then a row if the project is found.                      *)

Boot(r) ==
    /\ At(r, "idle") /\ calls < MaxCalls /\ agents < MaxAgents
    /\ \E q \in Repos, p \in Prompts, here \in BOOLEAN :
        LET made == OfWindow(agents + 1, q, Shared(q), p) IN
        /\ caller'   = [caller EXCEPT ![r].at = "register", ![r].made = made]
        /\ tmux'      = IF here THEN tmux \cup {made} ELSE tmux
        /\ elsewhere' = IF here THEN elsewhere ELSE elsewhere \cup {made.agent}
    /\ agents' = agents + 1 /\ calls' = calls + 1
    /\ UNCHANGED <<deployments, work, uneof, timers, unrecorded, clockSecond, outside, deployFaults>>

\* A window whose command could not be typed stays without a row, as does
\* one of an unknown project.
BootRegister(r) ==
    LET made == caller[r].made q == made.repo IN
    /\ At(r, "register") /\ Done(r)
    /\ \/ /\ q \in registered
          /\ \E ts \in {{}, OpenTasks(q)} : deployments' = Append(deployments, Deployment(made, ts))
          /\ UNCHANGED <<unrecorded, deployFaults>>
       \/ q \notin registered /\ unrecorded' = unrecorded \cup {made} /\ UNCHANGED <<deployments, deployFaults>>
       \/ /\ deployFaults < MaxFaults
          /\ deployFaults' = deployFaults + 1
          /\ unrecorded' = unrecorded \cup {made} /\ UNCHANGED deployments
    /\ UNCHANGED <<windows, work, uneof, timers, extent, outside, calls>>

------------------------------------------------------------------------------
(* Closing rows.                                                            *)

KillTimers(by, S) == {[by |-> by, id |-> i, session |-> deployments[i].session, window |-> deployments[i].window] : i \in S}

\* api/boot/mega GET: the rows, then the windows, then what is missing.
StatusRead(r) == Starts(r, [NoCall EXCEPT !.at = "statusList", !.rows = Running])

StatusList(r) == At(r, "statusList") /\ Lists(r, "statusMark")

\* Mutant: the rows are read after the windows, as POST does.
RowsNow(r) == Running

RowsRead(r) == caller[r].rows

Absent(r, i) == deployments[i].session \notin caller[r].live

\* ... AND status = 'running'
StatusMark(r) ==
    /\ At(r, "statusMark")
    /\ deployments' = Ended({i \in RowsRead(r) : Absent(r, i)} \cap Running, "failed")
    /\ Done(r)
    /\ UNCHANGED <<windows, work, uneof, timers, unrecorded, extent, budget>>

\* api/boot/mega DELETE: as GET, and agents whose todos are all completed are
\* asked to leave; the updates do not look at the status again.
CullRead(r) == Starts(r, [NoCall EXCEPT !.at = "cullList", !.rows = Running])

CullList(r) == At(r, "cullList") /\ Lists(r, "cull")

CullNext(r) ==
    /\ At(r, "cull")
    /\ \/ caller[r].rows = {} /\ Done(r) /\ UNCHANGED deployments
       \/ \E i \in caller[r].rows :
            LET on(stage) == caller' = [caller EXCEPT ![r].at = stage, ![r].rows = @ \ {i}, ![r].busy = {i}]
                done      == \A t \in deployments[i].tasks : tasks[t] = "completed"
            IN  \/ Absent(r, i) /\ deployments' = Ended({i}, "failed") /\ on("cull")
                \/ ~Absent(r, i) /\ ~done /\ on("cull") /\ UNCHANGED deployments
                \/ ~Absent(r, i) /\ done /\ on("leave") /\ UNCHANGED deployments
    /\ UNCHANGED <<windows, work, uneof, timers, unrecorded, extent, budget>>

\* After the await of send-keys '/exit'.
CullMark(r) ==
    /\ At(r, "leave")
    /\ deployments' = Ended(caller[r].busy, "culled")
    /\ Now(r, "cull")
    /\ UNCHANGED <<windows, work, uneof, timers, unrecorded, extent, budget>>

\* /exit is typed, the row is completed, and in five seconds the window dies.
Completes(by, S) ==
    /\ deployments' = Ended(S, "completed")
    /\ kills' = kills \cup KillTimers(by, S)

\* api/boot/finished: by window, by session, by project or by todo.
Finished ==
    /\ calls < MaxCalls /\ calls' = calls + 1
    /\ \/ \E i \in Running : Completes("web", {j \in Running : deployments[j].session = deployments[i].session
                                                       /\ deployments[j].window = deployments[i].window})
       \/ \E i \in Running : Completes("web", {j \in Running : deployments[j].session = deployments[i].session})
       \/ \E q \in registered : Completes("web", {j \in Running : deployments[j].repo = q})
       \/ \E t \in Tasks : Completes("web", {j \in Running : t \in deployments[j].tasks})
    /\ UNCHANGED <<windows, work, caller, uneof, missed, unrecorded, extent, outside, deployFaults>>

\* An obsolete todo still counts as work to do.
Over(status) == status \in {"completed", "deleted"}

\* api/todos PATCH completed, with cullFinishedDeployments.
Complete(t) ==
    LET after == [tasks EXCEPT ![t] = "completed"]
        whole == \A u \in Tasks : taskRepo[u] = taskRepo[t] => Over(after[u])
        over  == {i \in Running : \/ t \in deployments[i].tasks /\ \A u \in deployments[i].tasks : Over(after[u])
                                  \/ whole /\ deployments[i].repo = taskRepo[t]}
    IN  /\ calls < MaxCalls /\ calls' = calls + 1
        /\ tasks' = after
        /\ Completes("web", over)
        /\ UNCHANGED <<windows, taskRepo, registered, caller, uneof, missed, unrecorded, extent, outside, deployFaults>>

\* Every other route to a status culls nothing.
MoveTask(t, status) ==
    /\ outside < MaxOutside /\ status # tasks[t]
    /\ tasks' = [tasks EXCEPT ![t] = status] /\ outside' = outside + 1
    /\ UNCHANGED <<deployments, windows, taskRepo, registered, caller, uneof, timers, unrecorded, extent, calls, deployFaults>>

\* A pass finds UNEOF in a session of q, and at its end completes the rows of
\* the projects it has noted.
Signal(by, q) ==
    /\ outside < MaxOutside /\ q \in registered
    /\ uneof' = [uneof EXCEPT ![by] = @ \cup {q}] /\ outside' = outside + 1
    /\ UNCHANGED <<deployments, windows, work, caller, timers, unrecorded, extent, calls, deployFaults>>

CullUneof(by) ==
    /\ uneof[by] # {}
    /\ Completes(by, {i \in Running : deployments[i].repo \in uneof[by]})
    /\ uneof' = [uneof EXCEPT ![by] = {}]
    /\ UNCHANGED <<windows, work, caller, missed, unrecorded, extent, budget>>

------------------------------------------------------------------------------
(* tmux and the processes.                                                  *)

Called(k) == {w \in tmux : w.session = k.session /\ w.window = k.window}

\* kill-window -t: of several windows of one name tmux can find none, and
\* whatever it answers is swallowed.
KillWindow(k) ==
    /\ kills' = kills \ {k}
    /\ \/ /\ Cardinality(Called(k)) <= 1
          /\ tmux' = tmux \ Called(k) /\ UNCHANGED <<missed, deployFaults>>
       \/ /\ Cardinality(Called(k)) > 1
          /\ missed' = missed \cup {k} /\ UNCHANGED <<tmux, deployFaults>>
       \/ /\ deployFaults < MaxFaults
          /\ deployFaults' = deployFaults + 1
          /\ missed' = missed \cup {k} /\ UNCHANGED tmux
    /\ UNCHANGED <<deployments, elsewhere, work, caller, uneof, unrecorded, extent, outside, calls>>

\* An agent leaves by itself, or its operator closes the window.
Leaves(a) ==
    /\ \/ \E w \in tmux : w.agent = a /\ tmux' = tmux \ {w} /\ UNCHANGED elsewhere
       \/ a \in elsewhere /\ elsewhere' = elsewhere \ {a} /\ UNCHANGED tmux
    /\ UNCHANGED <<deployments, work, caller, uneof, timers, unrecorded, extent, budget>>

\* mergeProjects re-points todos and deployments.
Unite(l, w) ==
    /\ outside < MaxOutside /\ {l, w} \subseteq registered /\ l # w
    /\ outside' = outside + 1
    /\ registered' = registered \ {l}
    /\ taskRepo' = [t \in Tasks |-> IF taskRepo[t] = l THEN w ELSE taskRepo[t]]
    /\ deployments' = [i \in DeployIds |-> IF deployments[i].repo = l THEN [deployments[i] EXCEPT !.repo = w] ELSE deployments[i]]
    /\ UNCHANGED <<windows, tasks, caller, uneof, timers, unrecorded, extent, calls, deployFaults>>

Drops(by) ==
    /\ kills'  = {k \in kills : k.by # by}
    /\ missed' = missed \cup {k \in kills : k.by = by}

\* process.exit at the end of a pass asked for from the web.
OnceExits ==
    /\ uneof["once"] = {} /\ \E k \in kills : k.by = "once"
    /\ Drops("once")
    /\ UNCHANGED <<deployments, windows, work, caller, uneof, unrecorded, extent, budget>>

PassDies(by) ==
    /\ deployFaults < MaxFaults /\ deployFaults' = deployFaults + 1
    /\ Drops(by) /\ uneof' = [uneof EXCEPT ![by] = {}]
    /\ UNCHANGED <<deployments, windows, work, caller, unrecorded, extent, outside, calls>>

\* A launch that was under way leaves its window without a row.
ServerDies ==
    /\ deployFaults < MaxFaults /\ deployFaults' = deployFaults + 1
    /\ Drops("web")
    /\ unrecorded' = unrecorded \cup {caller[r].made : r \in {r \in Callers : caller[r].at \in {"record", "register", "undo"}}}
    /\ caller' = [r \in Callers |-> NoCall]
    /\ UNCHANGED <<deployments, windows, work, uneof, extent, outside, calls>>

NextSecond ==
    /\ clockSecond' = (clockSecond + 1) % DaySeconds
    /\ UNCHANGED <<deployments, windows, work, caller, uneof, timers, unrecorded, agents, budget>>

------------------------------------------------------------------------------
DeployInit ==
    /\ deployments = <<>> /\ tmux = {} /\ elsewhere = {} /\ unrecorded = {}
    /\ tasks = [t \in Tasks |-> "open"] /\ taskRepo = TaskRepo /\ registered = Repos
    /\ caller = [r \in Callers |-> NoCall]
    /\ uneof = [by \in Ingesters |-> {}] /\ kills = {} /\ missed = {}
    /\ agents = 0 /\ clockSecond = 0 /\ outside = 0 /\ calls = 0 /\ deployFaults = 0

DeployNext ==
    \/ \E r \in Callers :
        \/ MegaRead(r) \/ MegaList(r) \/ MegaPick(r) \/ MegaLaunch(r) \/ MegaRecord(r) \/ MegaUndo(r)
        \/ Boot(r) \/ BootRegister(r)
        \/ StatusRead(r) \/ StatusList(r) \/ StatusMark(r)
        \/ CullRead(r) \/ CullList(r) \/ CullNext(r) \/ CullMark(r)
    \/ Finished \/ OnceExits \/ ServerDies \/ NextSecond
    \/ \E t \in Tasks : Complete(t) \/ \E status \in TaskStatuses : MoveTask(t, status)
    \/ \E by \in Ingesters : CullUneof(by) \/ PassDies(by) \/ \E q \in Repos : Signal(by, q)
    \/ \E k \in kills : KillWindow(k)
    \/ \E a \in 1..agents : Leaves(a)
    \/ \E l, w \in Repos : Unite(l, w)

DeploySpec == DeployInit /\ [][DeployNext]_deployVars

------------------------------------------------------------------------------
(* Properties                                                               *)

DeployTypeOK ==
    /\ \A i \in DeployIds : /\ deployments[i].status \in {"running", "completed", "failed", "culled"}
                            /\ deployments[i].repo \in registered /\ deployments[i].tasks \subseteq Tasks
    /\ \A w \in tmux : w.agent \in 1..agents
    /\ elsewhere \subseteq 1..agents /\ elsewhere \cap {w.agent : w \in tmux} = {}
    /\ tasks \in [Tasks -> TaskStatuses] /\ taskRepo \in [Tasks -> registered]
    /\ \A k \in kills \cup missed : k.id \in DeployIds
    /\ uneof \in [Ingesters -> SUBSET Repos]

\* A window of tmux is not forgotten unless something failed: for each name
\* there are no more windows than rows that nobody has completed, kills on
\* their way, kills that were lost with their process, failed or met several
\* windows of the name, launches still to be recorded, and windows that never
\* got a row because the server died, the project is unknown or the undoing
\* of the launch failed.  In particular a launch that fails half way, and is
\* undone, leaves nothing, though names repeat within a second and projects
\* are merged between the window and its row.
Forgets(lostKills) == \A w \in tmux :
    LET Same(x) == x.session = w.session /\ x.window = w.window IN
    Cardinality({v \in tmux : Same(v)}) <=
        Cardinality({i \in DeployIds : Same(deployments[i]) /\ deployments[i].status # "completed"})
      + Cardinality({k \in kills \cup lostKills : Same(k)})
      + Cardinality({r \in Callers : At(r, "record") \/ At(r, "register") \/ At(r, "undo")} \cap {r \in Callers : Same(caller[r].made)})
      + Cardinality({v \in unrecorded : Same(v)})
NoStrays == Forgets(missed)

\* Asking for the state of agents, or culling them, never records as failed
\* one that is at work in a window, whatever is launched meanwhile: only a
\* launch does, which reads the rows after the windows, or a listing of tmux
\* that failed.
SparesLiving == [][\A i \in Running :
    (deployments'[i].status = "failed" /\ \E w \in tmux : w.agent = deployments[i].agent)
        => \E r \in Callers : caller'[r] # caller[r] /\ (At(r, "pick") \/ caller[r].blind)]_deployVars

------------------------------------------------------------------------------
(* What comments and tests promise and the code does not keep.              *)

\* ingest.ts on cullUneofDeployments: "Sends /exit to each deployment's tmux
\* window, then kills it."  A pass asked for from the web exits before.
CulledAreKilled == Forgets({k \in missed : k.by # "once"})

\* mega/route.ts: "mark dead sessions (tmux gone but DB still says running)".
\* Agents that are not in this tmux are marked, too.
FailedAreDead == [][\A i \in Running :
    deployments'[i].status = "failed" => deployments[i].agent \notin elsewhere]_deployVars

\* mega/route.test.ts: "Two agents in one repository commit over each other."
OneAgentEach == \A v, w \in tmux : v.repo = w.repo /\ v.session[1] = "mega" /\ w.session[1] = "mega" => v = w

\* mega/route.ts: "Clean up partial tmux session if it was created".  When
\* the name was taken, by a launch in the same second or by a project whose
\* path ends alike, it kills the session of the other agent.
UndoesItsOwn == [][\A r \in Callers : At(r, "undo") /\ ~At(r, "undo")' => \A w \in tmux \ tmux' : w.agent = caller[r].made.agent]_deployVars
==================================================================================
