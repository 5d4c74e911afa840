---------------------------- MODULE DeploymentsProofs ----------------------------
(***************************************************************************)
(* No window of tmux is forgotten and no living agent is recorded as       *)
(* failed, for every number of requests, projects, agents and faults.      *)
(***************************************************************************)
EXTENDS Deployments, FiniteSetTheorems, SequenceTheorems, TLAPS

SessionNames == {<<>>} \cup {Mega(q, s) : q \in Repos, s \in Nat} \cup {Shared(q) : q \in Repos}
WindowNames  == Prompts \cup {""}
RepoNames    == Repos \cup {""}
Window       == [agent : Nat, repo : RepoNames, session : SessionNames, window : WindowNames]
RowStatuses  == {"running", "completed", "failed", "culled"}
AgentRow     == [agent : Nat, repo : Repos, session : SessionNames, window : WindowNames,
                 tasks : SUBSET Tasks, status : RowStatuses]
Timer        == [by : {"web"} \cup Ingesters, id : Nat, session : SessionNames, window : WindowNames]
CallStages   == {"idle", "list", "pick", "launch", "record", "undo", "register",
                 "statusList", "statusMark", "cullList", "cull", "leave"}
Call         == [at : CallStages, targets : SUBSET Repos, given : [Repos -> SUBSET Tasks], rows : SUBSET Nat,
                 live : SUBSET SessionNames, blind : BOOLEAN, busy : SUBSET (Repos \cup Nat), second : Nat,
                 made : Window]

Making(r)  == caller[r].at \in {"record", "register", "undo"}
Judging(r) == caller[r].at \in {"statusMark", "cull", "leave"}

(* Types; counters and the clock have no bound here. *)
CallTypes == caller \in [Callers -> Call]
AgentRowTypes == deployments \in Seq(AgentRow)
RestTypes ==
    /\ tmux \subseteq Window /\ IsFiniteSet(tmux)
    /\ unrecorded \subseteq Window /\ IsFiniteSet(unrecorded)
    /\ kills \subseteq Timer /\ IsFiniteSet(kills)
    /\ missed \subseteq Timer /\ IsFiniteSet(missed)
    /\ tasks \in [Tasks -> TaskStatuses] /\ taskRepo \in [Tasks -> registered]
    /\ registered \subseteq Repos
    /\ uneof \in [Ingesters -> SUBSET Repos]
    /\ agents \in Nat /\ clockSecond \in Nat

(* A row belongs to a project that is there. *)
OwnedInv == \A i \in DeployIds : deployments[i].repo \in registered

(* Agents are numbered in the order in which they start, and one number is  *)
(* one agent: its window, its row and the request that made it agree on the *)
(* session.                                                                 *)
AgentInv ==
    /\ \A w \in tmux : w.agent \in 1..agents
    /\ elsewhere \subseteq 1..agents /\ \A w \in tmux : w.agent \notin elsewhere
    /\ \A i \in DeployIds :
         /\ deployments[i].agent \in 1..agents
         /\ \A w \in tmux : w.agent = deployments[i].agent => w.session = deployments[i].session
    /\ \A r \in Callers : caller[r].at \in {"record", "register"} =>
         /\ caller[r].made.agent \in 1..agents
         /\ \A w \in tmux : w.agent = caller[r].made.agent => w.session = caller[r].made.session

(* A request that is about to judge rows by the windows it has listed knows *)
(* the session of each of them that still has a window.                     *)
JudgeInv ==
    /\ \A r \in Callers : caller[r].rows \subseteq DeployIds
    /\ \A r \in Callers : (Judging(r) /\ ~caller[r].blind) =>
         \A i \in caller[r].rows : \A w \in tmux :
             w.agent = deployments[i].agent => w.session \in caller[r].live

(* Timers were set when their row was completed: the row does not run.      *)
TimerInv ==
    /\ \A k \in kills \cup missed :
         /\ k.id \in DeployIds
         /\ deployments[k.id].status # "running"

(* Windows that have no row yet, or never will; requests in the same second *)
(* may have tried for the very same window.                                 *)
Loose == {caller[r].made : r \in {r \in Callers : Making(r)}} \cup unrecorded

LooseInv == \A v \in Loose : v.agent \in 1..agents \/ v.session[1] = "mega"

(* The windows, rows, timers and loose windows that bear one name.          *)
OfName(S, s, n)  == {x \in S : x.session = s /\ x.window = n}
Unfinished(s, n) == {i \in DeployIds : /\ deployments[i].session = s /\ deployments[i].window = n
                                       /\ deployments[i].status # "completed"}

CountInv == \A s \in SessionNames, n \in WindowNames :
    Cardinality(OfName(tmux, s, n)) <=
        Cardinality(Unfinished(s, n)) + Cardinality(OfName(kills \cup missed, s, n)) + Cardinality(OfName(Loose, s, n))

DeployInv == CallTypes /\ AgentRowTypes /\ RestTypes /\ OwnedInv /\ AgentInv /\ JudgeInv /\ TimerInv /\ LooseInv /\ CountInv

-------------------------------------------------------------------------------
(* A name of a session begins with what it is for. *)
LEMMA SessionKinds ==
    ASSUME NEW q \in Repos, NEW s \in Nat
    PROVE  /\ Mega(q, s) \in SessionNames /\ Mega(q, s)[1] = "mega"
           /\ Shared(q) \in SessionNames /\ Shared(q)[1] # "mega"
BY DEF Mega, Shared, SessionNames

LEMMA LaunchedWindow ==
    ASSUME NEW a \in Nat, NEW q \in Repos, NEW s \in Nat, NEW n \in WindowNames
    PROVE  LET w == OfWindow(a + 1, q, Mega(q, s), n) IN
           w \in Window /\ w.agent = a + 1 /\ w.session[1] = "mega"
<1>1. Mega(q, s) \in SessionNames /\ Mega(q, s)[1] = "mega"
  BY SessionKinds
<1>2. q \in RepoNames
  BY DEF RepoNames
<1> QED
  BY <1>1, <1>2 DEF OfWindow, Window

LEMMA BootedWindow ==
    ASSUME NEW a \in Nat, NEW q \in Repos, NEW n \in WindowNames
    PROVE  LET w == OfWindow(a + 1, q, Shared(q), n) IN
           w \in Window /\ w.agent = a + 1 /\ w.session[1] # "mega"
<1>1. Shared(q) \in SessionNames /\ Shared(q)[1] # "mega"
  BY SessionKinds
<1>2. q \in RepoNames
  BY DEF RepoNames
<1> QED
  BY <1>1, <1>2 DEF OfWindow, Window

(* What a request remembers is of its type when it begins. *)
LEMMA FreshCall ==
    /\ NoCall \in Call
    /\ NoCall.at = "idle" /\ NoCall.rows = {}
<1>1. OfWindow(0, "", <<>>, "") \in Window
  BY DEF OfWindow, Window, RepoNames, SessionNames, WindowNames
<1>2. [q \in Repos |-> {}] \in [Repos -> SUBSET Tasks]
  OBVIOUS
<1> QED
  BY <1>1, <1>2 DEF NoCall, Call, CallStages

(* Only one request moves at a time. *)
LEMMA CallMoves ==
    ASSUME CallTypes, NEW r \in Callers, NEW c \in Call,
           caller' = [caller EXCEPT ![r] = c]
    PROVE  /\ CallTypes' /\ caller'[r] = c
           /\ \A p \in Callers : p # r => caller'[p] = caller[p]
BY DEF CallTypes

(* A request goes on to another stage, and remembers all it knew. *)
LEMMA StageMoves ==
    ASSUME CallTypes, NEW r \in Callers, NEW stage \in CallStages,
           Now(r, stage)
    PROVE  /\ CallTypes'
           /\ caller'[r].at = stage /\ caller'[r].rows = caller[r].rows /\ caller'[r].live = caller[r].live
           /\ caller'[r].blind = caller[r].blind /\ caller'[r].made = caller[r].made
           /\ \A p \in Callers : p # r => caller'[p] = caller[p]
<1> DEFINE c == [caller[r] EXCEPT !.at = stage]
<1>1. caller[r] \in Call
  BY DEF CallTypes
<1>2. /\ c \in Call
      /\ c.at = stage /\ c.rows = caller[r].rows /\ c.live = caller[r].live
      /\ c.blind = caller[r].blind /\ c.made = caller[r].made
  BY <1>1 DEF Call
<1>3. caller' = [caller EXCEPT ![r] = c]
  BY DEF Now
<1> HIDE DEF c
<1> QED
  BY <1>2, <1>3, CallMoves

(* Closing rows touches only their status. *)
LEMMA EndedRows ==
    ASSUME AgentRowTypes, NEW S, NEW st \in RowStatuses, deployments' = Ended(S, st)
    PROVE  /\ AgentRowTypes' /\ DeployIds' = DeployIds
           /\ \A i \in DeployIds : deployments'[i] = IF i \in S THEN [deployments[i] EXCEPT !.status = st] ELSE deployments[i]
           /\ \A i \in DeployIds :
                /\ deployments'[i].agent = deployments[i].agent /\ deployments'[i].repo = deployments[i].repo
                /\ deployments'[i].session = deployments[i].session /\ deployments'[i].window = deployments[i].window
                /\ deployments'[i].status = IF i \in S THEN st ELSE deployments[i].status
<1>1. Len(deployments) \in Nat /\ \A i \in DeployIds : deployments[i] \in AgentRow
  BY LenProperties, ElementOfSeq DEF AgentRowTypes, DeployIds
<1>2. \A i \in DeployIds :
         /\ [deployments[i] EXCEPT !.status = st] \in AgentRow
         /\ [deployments[i] EXCEPT !.status = st].agent = deployments[i].agent
         /\ [deployments[i] EXCEPT !.status = st].repo = deployments[i].repo
         /\ [deployments[i] EXCEPT !.status = st].session = deployments[i].session
         /\ [deployments[i] EXCEPT !.status = st].window = deployments[i].window
         /\ [deployments[i] EXCEPT !.status = st].status = st
  BY <1>1 DEF AgentRow
<1>3. \A i \in DeployIds : deployments'[i] = IF i \in S THEN [deployments[i] EXCEPT !.status = st] ELSE deployments[i]
  BY DEF Ended
<1>4. deployments' \in [1..Len(deployments) -> AgentRow]
  BY <1>1, <1>2 DEF Ended, DeployIds
<1>5. deployments' \in Seq(AgentRow) /\ Len(deployments') = Len(deployments)
  BY <1>1, <1>4
<1> QED
  BY <1>2, <1>3, <1>5 DEF AgentRowTypes, DeployIds

(* A new row comes after the others. *)
LEMMA AddedRow ==
    ASSUME AgentRowTypes, NEW w \in Window, w.repo \in Repos, NEW ts \in SUBSET Tasks,
           deployments' = Append(deployments, Deployment(w, ts))
    PROVE  LET id == Len(deployments) + 1 IN
           /\ AgentRowTypes' /\ DeployIds' = DeployIds \cup {id} /\ id \notin DeployIds
           /\ \A i \in DeployIds : deployments'[i] = deployments[i]
           /\ deployments'[id].agent = w.agent /\ deployments'[id].repo = w.repo
           /\ deployments'[id].session = w.session /\ deployments'[id].window = w.window
           /\ deployments'[id].status = "running"
<1>1. Len(deployments) \in Nat
  BY LenProperties DEF AgentRowTypes
<1>2. /\ Deployment(w, ts) \in AgentRow
      /\ Deployment(w, ts).agent = w.agent /\ Deployment(w, ts).repo = w.repo
      /\ Deployment(w, ts).session = w.session /\ Deployment(w, ts).window = w.window
      /\ Deployment(w, ts).status = "running"
  BY DEF Deployment, AgentRow, Window, RowStatuses
<1>3. /\ deployments' \in Seq(AgentRow) /\ Len(deployments') = Len(deployments) + 1
      /\ \A i \in DeployIds : deployments'[i] = deployments[i]
      /\ deployments'[Len(deployments) + 1] = Deployment(w, ts)
  BY <1>1, <1>2 DEF AgentRowTypes, DeployIds
<1> QED
  BY <1>1, <1>2, <1>3 DEF AgentRowTypes, DeployIds

-------------------------------------------------------------------------------
(* What most steps have in common. *)

(* Rows keep their agent and name, and none that was closed runs again. *)
RowsFixed ==
    /\ DeployIds' = DeployIds
    /\ \A i \in DeployIds :
         /\ deployments'[i].agent = deployments[i].agent
         /\ deployments'[i].session = deployments[i].session /\ deployments'[i].window = deployments[i].window
         /\ deployments'[i].status = "running" => deployments[i].status = "running"

(* No row is completed. *)
NoneCompleted == \A i \in DeployIds : deployments'[i].status = "completed" => deployments[i].status = "completed"

(* Agents only leave. *)
AgentsFixed == tmux' \subseteq tmux /\ elsewhere' \subseteq elsewhere /\ agents' = agents

(* A request has made nothing new. *)
MadeBefore(p) == caller'[p].at \in {"record", "register"} =>
                     caller[p].at \in {"record", "register"} /\ caller'[p].made = caller[p].made

(* A request judges no rows it did not judge before, by the same list. *)
JudgesBefore(p) ==
    /\ caller'[p].rows \subseteq caller[p].rows
    /\ (caller'[p].at \in {"statusMark", "cull", "leave"} /\ ~caller'[p].blind) =>
           Judging(p) /\ ~caller[p].blind /\ caller'[p].live = caller[p].live

LEMMA AgentsKeep ==
    ASSUME AgentInv, RowsFixed, AgentsFixed, \A p \in Callers : MadeBefore(p)
    PROVE  AgentInv'
BY DEF AgentInv, RowsFixed, AgentsFixed, MadeBefore

LEMMA JudgesKeep ==
    ASSUME JudgeInv, RowsFixed, tmux' \subseteq tmux, \A p \in Callers : JudgesBefore(p)
    PROVE  JudgeInv'
BY DEF JudgeInv, RowsFixed, JudgesBefore, Judging

LEMMA TimersKeep ==
    ASSUME TimerInv, RowsFixed, kills' \cup missed' \subseteq kills \cup missed
    PROVE  TimerInv'
BY DEF TimerInv, RowsFixed

(* Windows without a row are finitely many, for requests are. *)
LEMMA LooseTypes ==
    ASSUME CallTypes, RestTypes
    PROVE  Loose \subseteq Window /\ IsFiniteSet(Loose)
<1> DEFINE M == {r \in Callers : Making(r)}
           T == {caller[r].made : r \in M}
           f == [r \in M |-> caller[r].made]
<1>1. IsFiniteSet(M)
  BY DeployConstantsOK, FS_Subset DEF DeployConstantsOK
<1>2. f \in Surjection(M, T)
  BY DEF Surjection
<1>3. IsFiniteSet(T)
  BY <1>1, <1>2, FS_Surjection
<1>4. T \subseteq Window
  BY DEF CallTypes, Call
<1>5. Loose = T \cup unrecorded
  BY DEF Loose
<1> HIDE DEF T
<1> QED
  BY <1>3, <1>4, <1>5, FS_Union DEF RestTypes

(* What bears a name is a finite set of each kind. *)
Countable(s, n) ==
    /\ IsFiniteSet(OfName(tmux, s, n)) /\ IsFiniteSet(OfName(kills \cup missed, s, n))
    /\ IsFiniteSet(OfName(Loose, s, n)) /\ IsFiniteSet(Unfinished(s, n))

LEMMA CountTypes == CallTypes /\ AgentRowTypes /\ RestTypes => \A s \in SessionNames, n \in WindowNames : Countable(s, n)
<1> SUFFICES ASSUME CallTypes, AgentRowTypes, RestTypes, NEW s \in SessionNames, NEW n \in WindowNames
             PROVE  Countable(s, n)
  OBVIOUS
<1>1. IsFiniteSet(tmux) /\ IsFiniteSet(kills \cup missed) /\ IsFiniteSet(Loose)
  BY LooseTypes, FS_Union DEF RestTypes
<1>2. IsFiniteSet(DeployIds)
  <2>1. Len(deployments) \in Nat
    BY LenProperties DEF AgentRowTypes
  <2> QED
    BY <2>1, FS_Interval DEF DeployIds
<1>3. /\ OfName(tmux, s, n) \in SUBSET tmux /\ OfName(kills \cup missed, s, n) \in SUBSET (kills \cup missed)
      /\ OfName(Loose, s, n) \in SUBSET Loose /\ Unfinished(s, n) \in SUBSET DeployIds
  BY DEF OfName, Unfinished
<1> QED
  BY <1>1, <1>2, <1>3, FS_Subset DEF Countable

(* The same of the next state. *)
LEMMA CountTypesNext ==
    (CallTypes /\ AgentRowTypes /\ RestTypes => \A s \in SessionNames, n \in WindowNames : Countable(s, n))'
BY CountTypes, PTL

(* Fewer windows, or more of what accounts for them. *)
LEMMA CountsKeep ==
    ASSUME CallTypes, AgentRowTypes, RestTypes, CallTypes', AgentRowTypes', RestTypes', CountInv,
           tmux' \subseteq tmux, RowsFixed, NoneCompleted,
           kills \cup missed \subseteq kills' \cup missed', Loose \subseteq Loose'
    PROVE  CountInv'
<1> SUFFICES ASSUME NEW s \in SessionNames, NEW n \in WindowNames
             PROVE  Cardinality(OfName(tmux', s, n)) <=
                        Cardinality(Unfinished(s, n)') + Cardinality(OfName(kills' \cup missed', s, n))
                      + Cardinality(OfName(Loose', s, n))
  BY DEF CountInv
<1>1. Cardinality(OfName(tmux, s, n)) <=
        Cardinality(Unfinished(s, n)) + Cardinality(OfName(kills \cup missed, s, n)) + Cardinality(OfName(Loose, s, n))
  BY DEF CountInv
<1>2. /\ OfName(tmux', s, n) \in SUBSET OfName(tmux, s, n)
      /\ Unfinished(s, n) \in SUBSET Unfinished(s, n)'
      /\ OfName(kills \cup missed, s, n) \in SUBSET OfName(kills' \cup missed', s, n)
      /\ OfName(Loose, s, n) \in SUBSET OfName(Loose', s, n)
  BY DEF OfName, Unfinished, RowsFixed, NoneCompleted
<1>3. Countable(s, n) /\ Countable(s, n)'
  BY CountTypes, CountTypesNext
<1>4. /\ Cardinality(OfName(tmux', s, n)) <= Cardinality(OfName(tmux, s, n))
      /\ Cardinality(Unfinished(s, n)) <= Cardinality(Unfinished(s, n)')
      /\ Cardinality(OfName(kills \cup missed, s, n)) <= Cardinality(OfName(kills' \cup missed', s, n))
      /\ Cardinality(OfName(Loose, s, n)) <= Cardinality(OfName(Loose', s, n))
  BY <1>2, <1>3, FS_Subset DEF Countable
<1>5. /\ Cardinality(OfName(tmux, s, n)) \in Nat /\ Cardinality(OfName(tmux', s, n)) \in Nat
      /\ Cardinality(Unfinished(s, n)) \in Nat /\ Cardinality(Unfinished(s, n)') \in Nat
      /\ Cardinality(OfName(kills \cup missed, s, n)) \in Nat /\ Cardinality(OfName(kills' \cup missed', s, n)) \in Nat
      /\ Cardinality(OfName(Loose, s, n)) \in Nat /\ Cardinality(OfName(Loose', s, n)) \in Nat
  BY <1>3, FS_CardinalityType DEF Countable
<1> QED
  BY <1>1, <1>4, <1>5

(* Windows without a row are the same as before. *)
LooseBefore(p) ==
    /\ caller'[p].at \in {"record", "register", "undo"} <=> Making(p)
    /\ Making(p) => caller'[p].made = caller[p].made

LEMMA LooseStays ==
    ASSUME unrecorded' = unrecorded, \A p \in Callers : LooseBefore(p)
    PROVE  Loose' = Loose
<1>1. {caller'[r].made : r \in {r \in Callers : caller'[r].at \in {"record", "register", "undo"}}}
      = {caller[r].made : r \in {r \in Callers : Making(r)}}
  BY DEF LooseBefore
<1> QED
  BY <1>1 DEF Loose, Making

(* A step that launches nothing, records nothing and judges nothing new. *)
LEMMA QuietStep ==
    ASSUME DeployInv, CallTypes', AgentRowTypes', RestTypes',
           RowsFixed, NoneCompleted, AgentsFixed,
           kills' \cup missed' = kills \cup missed, unrecorded' = unrecorded,
           \A p \in Callers : MadeBefore(p) /\ JudgesBefore(p) /\ LooseBefore(p)
    PROVE  AgentInv' /\ JudgeInv' /\ TimerInv' /\ LooseInv' /\ CountInv'
<1>1. Loose' = Loose
  BY LooseStays
<1>2. AgentInv'
  BY AgentsKeep DEF DeployInv
<1>3. JudgeInv'
  BY JudgesKeep DEF DeployInv, AgentsFixed
<1>4. TimerInv'
  BY TimersKeep DEF DeployInv
<1>5. LooseInv'
  BY <1>1 DEF DeployInv, LooseInv, AgentsFixed
<1>6. CountInv'
  BY <1>1, CountsKeep DEF DeployInv, AgentsFixed
<1> QED
  BY <1>2, <1>3, <1>4, <1>5, <1>6

(* A request that begins has made nothing and judges nothing. *)
LEMMA CallBegins ==
    ASSUME CallTypes, NEW r \in Callers, NEW c \in Call, caller' = [caller EXCEPT ![r] = c],
           c.at \notin {"record", "register", "undo", "statusMark", "cull", "leave"},
           c.rows = {}, ~Making(r)
    PROVE  CallTypes' /\ \A p \in Callers : MadeBefore(p) /\ JudgesBefore(p) /\ LooseBefore(p)
<1>1. /\ CallTypes' /\ caller'[r] = c
      /\ \A p \in Callers : p # r => caller'[p] = caller[p]
  BY CallMoves
<1>2. MadeBefore(r) /\ JudgesBefore(r) /\ LooseBefore(r)
  BY <1>1 DEF MadeBefore, JudgesBefore, LooseBefore, Making
<1>3. \A p \in Callers : p # r => MadeBefore(p) /\ JudgesBefore(p) /\ LooseBefore(p)
  BY <1>1 DEF MadeBefore, JudgesBefore, LooseBefore, Making, Judging
<1> QED
  BY <1>1, <1>2, <1>3

(* A request that is done is as if it had not begun. *)
LEMMA CallEnds ==
    ASSUME CallTypes, NEW r \in Callers, Done(r)
    PROVE  /\ CallTypes' /\ caller'[r].at = "idle"
           /\ \A p \in Callers : p # r => caller'[p] = caller[p]
           /\ \A p \in Callers : MadeBefore(p) /\ JudgesBefore(p)
<1>1. /\ CallTypes' /\ caller'[r] = NoCall
      /\ \A p \in Callers : p # r => caller'[p] = caller[p]
  BY FreshCall, CallMoves DEF Done
<1>2. caller'[r].at = "idle" /\ MadeBefore(r) /\ JudgesBefore(r)
  BY <1>1, FreshCall DEF MadeBefore, JudgesBefore
<1>3. \A p \in Callers : p # r => MadeBefore(p) /\ JudgesBefore(p)
  BY <1>1 DEF MadeBefore, JudgesBefore, Judging
<1> QED
  BY <1>1, <1>2, <1>3

(* A request goes on to a stage where it judges nothing new. *)
LEMMA StageGoesOn ==
    ASSUME CallTypes, NEW r \in Callers, NEW stage \in CallStages, Now(r, stage),
           stage \in {"record", "register"} => caller[r].at \in {"record", "register"},
           stage \in {"statusMark", "cull", "leave"} => Judging(r)
    PROVE  CallTypes' /\ \A p \in Callers : MadeBefore(p) /\ JudgesBefore(p)
<1>1. MadeBefore(r) /\ JudgesBefore(r)
  BY StageMoves DEF MadeBefore, JudgesBefore
<1>2. \A p \in Callers : p # r => MadeBefore(p) /\ JudgesBefore(p)
  BY StageMoves DEF MadeBefore, JudgesBefore, Judging
<1> QED
  BY <1>1, <1>2, StageMoves

(* The windows that are listed are those of now; a listing that fails is    *)
(* remembered.                                                              *)
LEMMA ListMoves ==
    ASSUME CallTypes, RestTypes, NEW r \in Callers, NEW stage \in CallStages, Lists(r, stage)
    PROVE  /\ CallTypes'
           /\ caller'[r].at = stage /\ caller'[r].rows = caller[r].rows /\ caller'[r].made = caller[r].made
           /\ caller'[r].blind \/ (caller'[r].live = {w.session : w \in tmux} /\ caller'[r].blind = caller[r].blind)
           /\ \A p \in Callers : p # r => caller'[p] = caller[p]
<1>1. caller[r] \in Call /\ {w.session : w \in tmux} \in SUBSET SessionNames
  BY DEF CallTypes, RestTypes, Window
<1>2. CASE caller' = [caller EXCEPT ![r].at = stage, ![r].live = {w.session : w \in tmux}]
  <2> DEFINE c == [caller[r] EXCEPT !.at = stage, !.live = {w.session : w \in tmux}]
  <2>1. /\ c \in Call
        /\ c.at = stage /\ c.rows = caller[r].rows /\ c.made = caller[r].made
        /\ c.live = {w.session : w \in tmux} /\ c.blind = caller[r].blind
    BY <1>1 DEF Call
  <2>2. caller' = [caller EXCEPT ![r] = c]
    BY <1>2 DEF CallTypes
  <2> HIDE DEF c
  <2> QED
    BY <2>1, <2>2, CallMoves
<1>3. CASE caller' = [caller EXCEPT ![r].at = stage, ![r].live = {}, ![r].blind = TRUE]
  <2> DEFINE c == [caller[r] EXCEPT !.at = stage, !.live = {}, !.blind = TRUE]
  <2>1. /\ c \in Call
        /\ c.at = stage /\ c.rows = caller[r].rows /\ c.made = caller[r].made /\ c.blind
    BY <1>1 DEF Call
  <2>2. caller' = [caller EXCEPT ![r] = c]
    BY <1>3 DEF CallTypes
  <2> HIDE DEF c
  <2> QED
    BY <2>1, <2>2, CallMoves
<1> QED
  BY <1>2, <1>3 DEF Lists

-------------------------------------------------------------------------------
(* Requests that begin, list, go on or end. *)

(* Rows that nobody touches stay as they are. *)
LEMMA RowsSame ==
    ASSUME deployments' = deployments
    PROVE  RowsFixed /\ NoneCompleted /\ DeployIds' = DeployIds
BY DEF RowsFixed, NoneCompleted, DeployIds

(* Only what a request remembers changes, and what the budget counts. *)
LEMMA OnlyCaller ==
    ASSUME DeployInv, CallTypes', UNCHANGED <<deployments, windows, work, uneof, timers, unrecorded, extent>>,
           \A p \in Callers : MadeBefore(p) /\ JudgesBefore(p) /\ LooseBefore(p)
    PROVE  DeployInv'
<1>1. AgentRowTypes' /\ RestTypes' /\ OwnedInv'
  BY DEF DeployInv, windows, work, timers, extent, AgentRowTypes, RestTypes, OwnedInv, DeployIds
<1>2. /\ RowsFixed /\ NoneCompleted /\ AgentsFixed
      /\ kills' \cup missed' = kills \cup missed /\ unrecorded' = unrecorded
  BY RowsSame DEF AgentsFixed, windows, timers, extent
<1>3. AgentInv' /\ JudgeInv' /\ TimerInv' /\ LooseInv' /\ CountInv'
  BY <1>1, <1>2, QuietStep
<1> QED
  BY <1>1, <1>3 DEF DeployInv

LEMMA MegaReadKeeps ==
    ASSUME DeployInv, NEW r \in Callers, MegaRead(r)
    PROVE  DeployInv'
<1> DEFINE W == {q \in registered : OpenTasks(q) # {}}
           c == [NoCall EXCEPT !.at = "list", !.targets = W, !.given = [q \in Repos |-> OpenTasks(q)]]
<1>1. W \subseteq Repos /\ [q \in Repos |-> OpenTasks(q)] \in [Repos -> SUBSET Tasks]
  BY DEF OpenTasks, DeployInv, RestTypes
<1>2. c \in Call /\ c.at = "list" /\ c.rows = {}
  BY <1>1, FreshCall DEF Call, CallStages
<1>3. /\ caller' = [caller EXCEPT ![r] = c] /\ ~Making(r)
      /\ UNCHANGED <<deployments, windows, work, uneof, timers, unrecorded, extent>>
  BY DEF MegaRead, Starts, At, Making
<1> HIDE DEF c, W
<1>4. CallTypes' /\ \A p \in Callers : MadeBefore(p) /\ JudgesBefore(p) /\ LooseBefore(p)
  BY <1>2, <1>3, CallBegins DEF DeployInv
<1> QED
  BY <1>3, <1>4, OnlyCaller

LEMMA MegaListKeeps ==
    ASSUME DeployInv, NEW r \in Callers, MegaList(r)
    PROVE  DeployInv'
<1>1. "pick" \in CallStages /\ CallTypes /\ RestTypes
  BY DEF CallStages, DeployInv
<1>2. Lists(r, "pick") /\ caller[r].at = "list"
      /\ UNCHANGED <<deployments, windows, work, uneof, timers, unrecorded, extent>>
  BY DEF MegaList, At, Lists
<1>3. /\ CallTypes' /\ caller'[r].at = "pick" /\ caller'[r].rows = caller[r].rows
      /\ \A p \in Callers : p # r => caller'[p] = caller[p]
  BY <1>1, <1>2, ListMoves
<1>4. MadeBefore(r) /\ JudgesBefore(r) /\ LooseBefore(r)
  BY <1>2, <1>3 DEF MadeBefore, JudgesBefore, LooseBefore, Making
<1>5. \A p \in Callers : p # r => MadeBefore(p) /\ JudgesBefore(p) /\ LooseBefore(p)
  BY <1>3 DEF MadeBefore, JudgesBefore, LooseBefore, Making, Judging
<1> QED
  BY <1>2, <1>3, <1>4, <1>5, OnlyCaller

(* The rows of a request that asks for the state of agents, or culls, are   *)
(* those that run now.                                                      *)
LEMMA RowsReadKeep ==
    ASSUME DeployInv, NEW r \in Callers, NEW stage \in {"statusList", "cullList"},
           Starts(r, [NoCall EXCEPT !.at = stage, !.rows = Running])
    PROVE  DeployInv'
<1> DEFINE c == [NoCall EXCEPT !.at = stage, !.rows = Running]
<1>1. Running \subseteq DeployIds /\ DeployIds \subseteq Nat
  BY LenProperties DEF Running, DeployIds, DeployInv, AgentRowTypes
<1>2. c \in Call /\ c.at = stage /\ c.rows = Running
  BY <1>1, FreshCall DEF Call, CallStages
<1>3. /\ caller' = [caller EXCEPT ![r] = c] /\ ~Making(r)
      /\ UNCHANGED <<deployments, windows, work, uneof, timers, unrecorded, extent>>
  BY DEF Starts, At, Making
<1> HIDE DEF c
<1>4. /\ CallTypes' /\ caller'[r] = c
      /\ \A p \in Callers : p # r => caller'[p] = caller[p]
  BY <1>2, <1>3, CallMoves DEF DeployInv
<1>5. MadeBefore(r) /\ LooseBefore(r)
  BY <1>2, <1>3, <1>4 DEF MadeBefore, LooseBefore, Making
<1>6. \A p \in Callers : p # r => MadeBefore(p) /\ LooseBefore(p)
  BY <1>4 DEF MadeBefore, LooseBefore, Making
<1>7. AgentRowTypes' /\ RestTypes' /\ OwnedInv'
  BY <1>3 DEF DeployInv, windows, work, timers, extent, AgentRowTypes, RestTypes, OwnedInv, DeployIds
<1>8. RowsFixed /\ NoneCompleted /\ AgentsFixed /\ DeployIds' = DeployIds
  BY <1>3, RowsSame DEF AgentsFixed, windows, extent
<1>9. Loose' = Loose
  BY <1>3, <1>5, <1>6, LooseStays
<1>10. JudgeInv'
  BY <1>1, <1>2, <1>3, <1>4, <1>8 DEF JudgeInv, DeployInv, Judging, windows
<1>11. AgentInv' /\ TimerInv'
  BY <1>3, <1>5, <1>6, <1>8, AgentsKeep, TimersKeep DEF DeployInv, timers
<1>12. LooseInv'
  BY <1>3, <1>9 DEF LooseInv, DeployInv, extent
<1>13. CountInv'
  BY <1>3, <1>4, <1>7, <1>8, <1>9, CountsKeep DEF DeployInv, windows, timers
<1> QED
  BY <1>4, <1>7, <1>10, <1>11, <1>12, <1>13 DEF DeployInv

(* A request that has listed the windows judges by those of now. *)
LEMMA ListedKeep ==
    ASSUME DeployInv, NEW r \in Callers, NEW stage \in {"statusMark", "cull"}, Lists(r, stage),
           caller[r].at \in {"statusList", "cullList"}
    PROVE  DeployInv'
<1>1. stage \in CallStages /\ CallTypes /\ RestTypes
  BY DEF CallStages, DeployInv
<1>2. UNCHANGED <<deployments, windows, work, uneof, timers, unrecorded, extent>>
  BY DEF Lists
<1>3. /\ CallTypes' /\ caller'[r].at = stage /\ caller'[r].rows = caller[r].rows
      /\ caller'[r].blind \/ caller'[r].live = {w.session : w \in tmux}
      /\ \A p \in Callers : p # r => caller'[p] = caller[p]
  BY <1>1, ListMoves
<1>4. \A p \in Callers : MadeBefore(p) /\ LooseBefore(p)
  BY <1>3 DEF MadeBefore, LooseBefore, Making
<1>5. AgentRowTypes' /\ RestTypes' /\ OwnedInv'
  BY <1>2 DEF DeployInv, windows, work, timers, extent, AgentRowTypes, RestTypes, OwnedInv, DeployIds
<1>6. RowsFixed /\ NoneCompleted /\ AgentsFixed /\ DeployIds' = DeployIds
  BY <1>2, RowsSame DEF AgentsFixed, windows, extent
<1>7. Loose' = Loose
  BY <1>2, <1>4, LooseStays
<1>8. JudgeInv'
  <2>1. tmux' = tmux /\ deployments' = deployments
    BY <1>2 DEF windows
  <2>2. \A p \in Callers : caller'[p].rows \subseteq DeployIds'
    BY <1>3, <1>6 DEF JudgeInv, DeployInv
  <2>3. ASSUME NEW p \in Callers, Judging(p)', ~caller'[p].blind,
               NEW i \in caller'[p].rows, NEW w \in tmux, w.agent = deployments[i].agent
        PROVE  w.session \in caller'[p].live
    <3>1. CASE p = r
      BY <1>3, <2>3, <3>1
    <3>2. CASE p # r
      BY <1>3, <2>3, <3>2 DEF JudgeInv, DeployInv, Judging
    <3> QED
      BY <3>1, <3>2
  <2> QED
    BY <2>1, <2>2, <2>3 DEF JudgeInv
<1>9. AgentInv' /\ TimerInv'
  BY <1>2, <1>4, <1>6, AgentsKeep, TimersKeep DEF DeployInv, timers
<1>10. LooseInv'
  BY <1>2, <1>7 DEF LooseInv, DeployInv, extent
<1>11. CountInv'
  BY <1>2, <1>3, <1>5, <1>6, <1>7, CountsKeep DEF DeployInv, windows, timers
<1> QED
  BY <1>3, <1>5, <1>8, <1>9, <1>10, <1>11 DEF DeployInv

-------------------------------------------------------------------------------
(* Requests that close rows as failed or culled. *)

(* Rows may close, but none is completed and none changes its project. *)
RowsClose ==
    /\ AgentRowTypes' /\ RowsFixed /\ NoneCompleted
    /\ \A i \in DeployIds : deployments'[i].repo = deployments[i].repo

LEMMA ClosedRows ==
    ASSUME AgentRowTypes, NEW S, NEW st \in {"failed", "culled"}, deployments' = Ended(S, st)
    PROVE  RowsClose
<1>1. st \in RowStatuses
  BY DEF RowStatuses
<1> QED
  BY <1>1, EndedRows DEF RowsClose, RowsFixed, NoneCompleted

LEMMA OnlyClosing ==
    ASSUME DeployInv, CallTypes', UNCHANGED <<windows, work, uneof, timers, unrecorded, extent>>, RowsClose,
           \A p \in Callers : MadeBefore(p) /\ JudgesBefore(p) /\ LooseBefore(p)
    PROVE  DeployInv'
<1>1. RestTypes'
  BY DEF DeployInv, windows, work, timers, extent, RestTypes
<1>2. OwnedInv'
  BY DEF DeployInv, OwnedInv, RowsClose, RowsFixed, work
<1>3. AgentRowTypes' /\ RowsFixed /\ NoneCompleted /\ AgentsFixed
      /\ kills' \cup missed' = kills \cup missed /\ unrecorded' = unrecorded
  BY DEF RowsClose, AgentsFixed, windows, timers, extent
<1>4. AgentInv' /\ JudgeInv' /\ TimerInv' /\ LooseInv' /\ CountInv'
  BY <1>1, <1>3, QuietStep
<1> QED
  BY <1>1, <1>2, <1>3, <1>4 DEF DeployInv

LEMMA MegaPickKeeps ==
    ASSUME DeployInv, NEW r \in Callers, MegaPick(r)
    PROVE  DeployInv'
<1> DEFINE stale == {i \in Running : deployments[i].session \notin caller[r].live}
           B == {deployments[i].repo : i \in Running \ stale}
           c == [caller[r] EXCEPT !.at = "launch", !.second = clockSecond, !.busy = B]
<1>1. caller[r] \in Call /\ caller[r].at = "pick"
  BY DEF MegaPick, At, DeployInv, CallTypes
<1>2. B \in SUBSET (Repos \cup Nat)
  <2>1. \A i \in Running : deployments[i].repo \in Repos
    BY DEF DeployInv, RestTypes, OwnedInv, Running
  <2> QED
    BY <2>1
<1> HIDE DEF B
<1>3. c \in Call /\ c.at = "launch" /\ c.rows = caller[r].rows
  BY <1>1, <1>2 DEF Call, CallStages, DeployInv, RestTypes
<1>4. caller' = [caller EXCEPT ![r] = c]
  BY DEF MegaPick, B, DeployInv, CallTypes
<1>5. deployments' = Ended(stale, "failed") /\ UNCHANGED <<windows, work, uneof, timers, unrecorded, extent>>
  BY DEF MegaPick
<1> HIDE DEF c, stale
<1>6. /\ CallTypes' /\ caller'[r] = c
      /\ \A p \in Callers : p # r => caller'[p] = caller[p]
  BY <1>3, <1>4, CallMoves DEF DeployInv
<1>7. MadeBefore(r) /\ JudgesBefore(r) /\ LooseBefore(r)
  BY <1>1, <1>3, <1>6 DEF MadeBefore, JudgesBefore, LooseBefore, Making
<1>8. \A p \in Callers : p # r => MadeBefore(p) /\ JudgesBefore(p) /\ LooseBefore(p)
  BY <1>6 DEF MadeBefore, JudgesBefore, LooseBefore, Making, Judging
<1>9. RowsClose
  BY <1>5, ClosedRows DEF DeployInv
<1> QED
  BY <1>5, <1>6, <1>7, <1>8, <1>9, OnlyClosing

LEMMA StatusMarkKeeps ==
    ASSUME DeployInv, NEW r \in Callers, StatusMark(r)
    PROVE  DeployInv'
<1> DEFINE S == {i \in RowsRead(r) : Absent(r, i)} \cap Running
<1>1. /\ deployments' = Ended(S, "failed") /\ Done(r) /\ caller[r].at = "statusMark"
      /\ UNCHANGED <<windows, work, uneof, timers, unrecorded, extent>>
  BY DEF StatusMark, At
<1> HIDE DEF S
<1>2. /\ CallTypes' /\ caller'[r].at = "idle"
      /\ \A p \in Callers : p # r => caller'[p] = caller[p]
      /\ \A p \in Callers : MadeBefore(p) /\ JudgesBefore(p)
  BY <1>1, CallEnds DEF DeployInv
<1>3. \A p \in Callers : LooseBefore(p)
  BY <1>1, <1>2 DEF LooseBefore, Making
<1>4. RowsClose
  BY <1>1, ClosedRows DEF DeployInv
<1> QED
  BY <1>1, <1>2, <1>3, <1>4, OnlyClosing

(* Culling takes one row after the other. *)
LEMMA CullNextKeeps ==
    ASSUME DeployInv, NEW r \in Callers, CullNext(r)
    PROVE  DeployInv'
<1>1. /\ caller[r].at = "cull" /\ caller[r] \in Call
      /\ UNCHANGED <<windows, work, uneof, timers, unrecorded, extent>>
  BY DEF CullNext, At, DeployInv, CallTypes
<1>2. CASE Done(r) /\ UNCHANGED deployments
  <2>1. /\ CallTypes' /\ caller'[r].at = "idle"
        /\ \A p \in Callers : p # r => caller'[p] = caller[p]
        /\ \A p \in Callers : MadeBefore(p) /\ JudgesBefore(p)
    BY <1>2, CallEnds DEF DeployInv
  <2>2. \A p \in Callers : LooseBefore(p)
    BY <1>1, <2>1 DEF LooseBefore, Making
  <2> QED
    BY <1>1, <1>2, <2>1, <2>2, OnlyCaller
<1>3. ASSUME NEW i \in caller[r].rows, NEW stage \in {"cull", "leave"},
             deployments' = Ended({i}, "failed") \/ UNCHANGED deployments,
             caller' = [caller EXCEPT ![r].at = stage, ![r].rows = @ \ {i}, ![r].busy = {i}]
      PROVE  DeployInv'
  <2> DEFINE c == [caller[r] EXCEPT !.at = stage, !.rows = @ \ {i}, !.busy = {i}]
  <2>1. /\ c \in Call
        /\ c.at = stage /\ c.rows = caller[r].rows \ {i} /\ c.live = caller[r].live /\ c.blind = caller[r].blind
    BY <1>1, <1>3 DEF Call, CallStages
  <2>2. caller' = [caller EXCEPT ![r] = c]
    BY <1>3 DEF DeployInv, CallTypes
  <2> HIDE DEF c
  <2>3. /\ CallTypes' /\ caller'[r] = c
        /\ \A p \in Callers : p # r => caller'[p] = caller[p]
    BY <2>1, <2>2, CallMoves DEF DeployInv
  <2>4. MadeBefore(r) /\ JudgesBefore(r) /\ LooseBefore(r)
    BY <1>1, <2>1, <2>3 DEF MadeBefore, JudgesBefore, LooseBefore, Making, Judging
  <2>5. \A p \in Callers : p # r => MadeBefore(p) /\ JudgesBefore(p) /\ LooseBefore(p)
    BY <2>3 DEF MadeBefore, JudgesBefore, LooseBefore, Making, Judging
  <2>6. CASE deployments' = Ended({i}, "failed")
    <3>1. RowsClose
      BY <2>6, ClosedRows DEF DeployInv
    <3> QED
      BY <1>1, <2>3, <2>4, <2>5, <3>1, OnlyClosing
  <2>7. CASE UNCHANGED deployments
    BY <1>1, <2>3, <2>4, <2>5, <2>7, OnlyCaller
  <2> QED
    BY <1>3, <2>6, <2>7
<1>4. (Done(r) /\ UNCHANGED deployments)
      \/ \E i \in caller[r].rows, stage \in {"cull", "leave"} :
            /\ deployments' = Ended({i}, "failed") \/ UNCHANGED deployments
            /\ caller' = [caller EXCEPT ![r].at = stage, ![r].rows = @ \ {i}, ![r].busy = {i}]
  BY DEF CullNext
<1> QED
  BY <1>2, <1>3, <1>4

LEMMA CullMarkKeeps ==
    ASSUME DeployInv, NEW r \in Callers, CullMark(r)
    PROVE  DeployInv'
<1>1. /\ deployments' = Ended(caller[r].busy, "culled") /\ Now(r, "cull") /\ caller[r].at = "leave"
      /\ UNCHANGED <<windows, work, uneof, timers, unrecorded, extent>>
  BY DEF CullMark, At
<1>2. CallTypes /\ "cull" \in CallStages /\ Judging(r)
  BY <1>1 DEF CallStages, Judging, DeployInv
<1>3. CallTypes' /\ \A p \in Callers : MadeBefore(p) /\ JudgesBefore(p)
  BY <1>1, <1>2, StageGoesOn
<1>4. \A p \in Callers : LooseBefore(p)
  BY <1>1, <1>2, StageMoves DEF LooseBefore, Making
<1>5. RowsClose
  BY <1>1, ClosedRows DEF DeployInv
<1> QED
  BY <1>1, <1>3, <1>4, <1>5, OnlyClosing

-------------------------------------------------------------------------------
(* Requests that make windows, and record them. *)

(* Rows, windows and timers are as they were, but one request begins to     *)
(* give up a window it could not make.                                      *)
LEMMA GivesUp ==
    ASSUME DeployInv, NEW r \in Callers, CallTypes', caller'[r].at = "undo", caller'[r].rows = caller[r].rows,
           caller'[r].made.session[1] = "mega" \/ (Making(r) /\ caller'[r].made = caller[r].made),
           ~Making(r) \/ caller'[r].made = caller[r].made,
           \A p \in Callers : p # r => caller'[p] = caller[p],
           UNCHANGED <<deployments, windows, work, uneof, timers, unrecorded, extent>>
    PROVE  DeployInv'
<1>1. AgentRowTypes' /\ RestTypes' /\ OwnedInv'
  BY DEF DeployInv, windows, work, timers, extent, AgentRowTypes, RestTypes, OwnedInv, DeployIds
<1>2. RowsFixed /\ NoneCompleted /\ AgentsFixed /\ DeployIds' = DeployIds
  BY RowsSame DEF AgentsFixed, windows, extent
<1>3. MadeBefore(r) /\ JudgesBefore(r)
  BY DEF MadeBefore, JudgesBefore
<1>4. \A p \in Callers : p # r => MadeBefore(p) /\ JudgesBefore(p)
  BY DEF MadeBefore, JudgesBefore, Judging
<1>5. Loose \subseteq Loose' /\ \A v \in Loose' : v \in Loose \/ v = caller'[r].made
  BY DEF Loose, Making
<1>6. LooseInv'
  <2>1. \A v \in Loose : v.agent \in 1..agents' \/ v.session[1] = "mega"
    BY DEF LooseInv, DeployInv, extent
  <2>2. caller'[r].made \in Loose \/ caller'[r].made.session[1] = "mega"
    BY DEF Loose
  <2> QED
    BY <1>5, <2>1, <2>2 DEF LooseInv
<1>7. AgentInv' /\ JudgeInv' /\ TimerInv'
  BY <1>2, <1>3, <1>4, AgentsKeep, JudgesKeep, TimersKeep DEF DeployInv, timers, AgentsFixed
<1>8. CountInv'
  BY <1>1, <1>2, <1>5, CountsKeep DEF DeployInv, windows, timers
<1> QED
  BY <1>1, <1>6, <1>7, <1>8 DEF DeployInv

(* One window more, and one more without a row: it is new, for a launch     *)
(* finds no window of its session, and a boot's number and kind of session  *)
(* are nobody else's.                                                       *)
LEMMA OneMoreWindow ==
    ASSUME DeployInv, CallTypes', AgentRowTypes', RestTypes', NEW w \in Window,
           tmux' = tmux \cup {w}, w \in Loose', Loose \subseteq Loose',
           w \notin Loose \/ \A v \in tmux : v.session # w.session,
           UNCHANGED <<deployments, timers>>
    PROVE  CountInv'
<1> SUFFICES ASSUME NEW s \in SessionNames, NEW n \in WindowNames
             PROVE  Cardinality(OfName(tmux', s, n)) <=
                        Cardinality(Unfinished(s, n)') + Cardinality(OfName(kills' \cup missed', s, n))
                      + Cardinality(OfName(Loose', s, n))
  BY DEF CountInv
<1>1. Cardinality(OfName(tmux, s, n)) <=
        Cardinality(Unfinished(s, n)) + Cardinality(OfName(kills \cup missed, s, n)) + Cardinality(OfName(Loose, s, n))
  BY DEF CountInv, DeployInv
<1>2. Countable(s, n) /\ Countable(s, n)'
  BY CountTypes, CountTypesNext DEF DeployInv
<1>3. Unfinished(s, n)' = Unfinished(s, n) /\ OfName(kills' \cup missed', s, n) = OfName(kills \cup missed, s, n)
  BY DEF Unfinished, DeployIds, timers
<1>4. OfName(Loose, s, n) \subseteq OfName(Loose', s, n)
  BY DEF OfName
<1>5. /\ Cardinality(OfName(tmux, s, n)) \in Nat /\ Cardinality(OfName(tmux', s, n)) \in Nat
      /\ Cardinality(Unfinished(s, n)) \in Nat
      /\ Cardinality(OfName(kills \cup missed, s, n)) \in Nat
      /\ Cardinality(OfName(Loose, s, n)) \in Nat /\ Cardinality(OfName(Loose', s, n)) \in Nat
  BY <1>2, FS_CardinalityType DEF Countable
<1>6. Cardinality(OfName(Loose, s, n)) <= Cardinality(OfName(Loose', s, n))
  BY <1>2, <1>4, FS_Subset DEF Countable
<1>7. CASE w.session # s \/ w.window # n
  <2>1. OfName(tmux', s, n) = OfName(tmux, s, n)
    BY <1>7 DEF OfName
  <2> QED
    BY <1>1, <1>3, <1>5, <1>6, <2>1
<1>8. CASE w.session = s /\ w.window = n
  <2>1. OfName(tmux', s, n) = OfName(tmux, s, n) \cup {w} /\ w \in OfName(Loose', s, n)
    BY <1>8 DEF OfName
  <2>2. Cardinality(OfName(tmux', s, n)) <= Cardinality(OfName(tmux, s, n)) + 1
    <3> DEFINE T == OfName(tmux, s, n)
    <3>1. IsFiniteSet(T) /\ Cardinality(T) \in Nat /\ OfName(tmux', s, n) = T \cup {w}
      BY <1>2, <1>5, <2>1 DEF Countable
    <3> HIDE DEF T
    <3>2. Cardinality(T \cup {w}) = IF w \in T THEN Cardinality(T) ELSE Cardinality(T) + 1
      BY <3>1, FS_AddElement
    <3>3. Cardinality(OfName(tmux', s, n)) = Cardinality(T \cup {w})
      BY <3>1
    <3>4. Cardinality(T \cup {w}) <= Cardinality(T) + 1
      <4>1. CASE w \in T
        BY <3>1, <3>2, <4>1
      <4>2. CASE w \notin T
        BY <3>1, <3>2, <4>2
      <4> QED
        BY <4>1, <4>2
    <3> QED
      BY <3>3, <3>4 DEF T
  <2>3. CASE w \notin Loose
    <3>1. OfName(Loose, s, n) \cup {w} \in SUBSET OfName(Loose', s, n) /\ w \notin OfName(Loose, s, n)
      BY <1>4, <2>1, <2>3 DEF OfName
    <3>2. Cardinality(OfName(Loose, s, n) \cup {w}) = Cardinality(OfName(Loose, s, n)) + 1
      BY <1>2, <3>1, FS_AddElement DEF Countable
    <3>3. Cardinality(OfName(Loose, s, n) \cup {w}) <= Cardinality(OfName(Loose', s, n))
      BY <1>2, <3>1, FS_Subset DEF Countable
    <3> QED
      BY <1>1, <1>3, <1>5, <2>2, <3>2, <3>3
  <2>4. CASE \A v \in tmux : v.session # w.session
    <3>1. OfName(tmux, s, n) = {}
      BY <1>8, <2>4 DEF OfName
    <3>2. Cardinality(OfName(tmux, s, n)) = 0
      BY <3>1, FS_EmptySet
    <3>3. Cardinality(OfName(Loose', s, n)) # 0
      BY <1>2, <2>1, FS_EmptySet DEF Countable
    <3> QED
      BY <1>3, <1>5, <2>2, <3>2, <3>3
  <2> QED
    BY <2>3, <2>4
<1> QED
  BY <1>7, <1>8

(* One element more, or less, counts one. *)
LEMMA OneMore ==
    ASSUME NEW S, NEW x, IsFiniteSet(S)
    PROVE  /\ IsFiniteSet(S \cup {x}) /\ Cardinality(S) \in Nat /\ Cardinality(S \cup {x}) \in Nat
           /\ Cardinality(S \cup {x}) <= Cardinality(S) + 1
           /\ x \notin S => Cardinality(S \cup {x}) = Cardinality(S) + 1
<1>1. /\ IsFiniteSet(S \cup {x}) /\ Cardinality(S) \in Nat
      /\ Cardinality(S \cup {x}) = IF x \in S THEN Cardinality(S) ELSE Cardinality(S) + 1
  BY FS_AddElement, FS_CardinalityType
<1>2. CASE x \in S
  BY <1>1, <1>2
<1>3. CASE x \notin S
  BY <1>1, <1>3
<1> QED
  BY <1>2, <1>3

LEMMA OneLess ==
    ASSUME NEW S, NEW x, IsFiniteSet(S)
    PROVE  /\ IsFiniteSet(S \ {x}) /\ Cardinality(S) \in Nat /\ Cardinality(S \ {x}) \in Nat
           /\ Cardinality(S) <= Cardinality(S \ {x}) + 1
           /\ x \in S => Cardinality(S \ {x}) = Cardinality(S) - 1
<1>1. /\ IsFiniteSet(S \ {x}) /\ Cardinality(S) \in Nat /\ Cardinality(S \ {x}) \in Nat
      /\ Cardinality(S \ {x}) = IF x \in S THEN Cardinality(S) - 1 ELSE Cardinality(S)
  BY FS_RemoveElement, FS_CardinalityType
<1>2. CASE x \in S
  BY <1>1, <1>2
<1>3. CASE x \notin S
  BY <1>1, <1>3
<1> QED
  BY <1>2, <1>3

(* An agent starts, in a window or elsewhere, and has no row yet. *)
LEMMA AgentStarts ==
    ASSUME DeployInv, NEW r \in Callers, ~Making(r), NEW w \in Window, w.agent = agents + 1,
           CallTypes', caller'[r].at \in {"record", "register"}, caller'[r].made = w, caller'[r].rows \subseteq caller[r].rows,
           \A p \in Callers : p # r => caller'[p] = caller[p],
           \/ tmux' = tmux \cup {w} /\ elsewhere' = elsewhere /\ (w \notin Loose \/ \A v \in tmux : v.session # w.session)
           \/ tmux' = tmux /\ elsewhere' = elsewhere \cup {w.agent},
           agents' = agents + 1,
           UNCHANGED <<deployments, work, uneof, timers, unrecorded, clockSecond>>
    PROVE  DeployInv'
<1>1. agents \in Nat /\ agents' \in Nat /\ deployments' = deployments /\ DeployIds' = DeployIds
  BY DEF DeployInv, RestTypes, DeployIds
<1>2. AgentRowTypes' /\ OwnedInv'
  BY <1>1 DEF DeployInv, AgentRowTypes, OwnedInv, work
<1>3. RestTypes'
  <2>1. tmux' \subseteq Window /\ IsFiniteSet(tmux')
    <3>1. IsFiniteSet(tmux) /\ IsFiniteSet(tmux \cup {w})
      BY FS_AddElement DEF DeployInv, RestTypes
    <3>2. tmux' = tmux \/ tmux' = tmux \cup {w}
      OBVIOUS
    <3> QED
      BY <3>1, <3>2 DEF DeployInv, RestTypes
  <2> QED
    BY <1>1, <2>1 DEF DeployInv, RestTypes, work, timers
<1>4. \A v \in tmux' : v \in tmux \/ v = w
  OBVIOUS
<1>5. AgentInv'
  <2>1. \A v \in tmux' : v.agent \in 1..agents'
    BY <1>1, <1>4 DEF DeployInv, AgentInv
  <2>2. elsewhere' \subseteq 1..agents' /\ \A v \in tmux' : v.agent \notin elsewhere'
    <3>1. /\ elsewhere \subseteq 1..agents' /\ agents + 1 \in 1..agents' /\ agents + 1 \notin elsewhere
          /\ \A v \in tmux : v.agent # agents + 1 /\ v.agent \notin elsewhere
      BY <1>1 DEF DeployInv, AgentInv
    <3>2. CASE tmux' = tmux \cup {w} /\ elsewhere' = elsewhere
      BY <3>1, <3>2
    <3>3. CASE tmux' = tmux /\ elsewhere' = elsewhere \cup {w.agent}
      BY <3>1, <3>3
    <3> QED
      BY <3>2, <3>3
  <2>3. \A i \in DeployIds : /\ deployments[i].agent \in 1..agents'
                             /\ \A v \in tmux' : v.agent = deployments[i].agent => v.session = deployments[i].session
    BY <1>1, <1>4 DEF DeployInv, AgentInv
  <2>4. /\ w.agent \in 1..agents'
        /\ \A v \in tmux' : v.agent = w.agent => v.session = w.session
    BY <1>1, <1>4 DEF DeployInv, AgentInv
  <2>5. ASSUME NEW p \in Callers, p # r, caller[p].at \in {"record", "register"}
        PROVE  /\ caller[p].made.agent \in 1..agents'
               /\ \A v \in tmux' : v.agent = caller[p].made.agent => v.session = caller[p].made.session
    BY <1>1, <1>4, <2>5 DEF DeployInv, AgentInv
  <2> QED
    BY <1>1, <2>1, <2>2, <2>3, <2>4, <2>5 DEF AgentInv
<1>6. JudgeInv'
  <2>1. \A p \in Callers : caller'[p].rows \subseteq DeployIds
    BY DEF DeployInv, JudgeInv
  <2>2. ASSUME NEW p \in Callers, Judging(p)', ~caller'[p].blind, NEW i \in caller'[p].rows,
               NEW v \in tmux', v.agent = deployments[i].agent
        PROVE  v.session \in caller'[p].live
    <3>1. p # r
      BY <2>2 DEF Judging
    <3>2. i \in DeployIds /\ deployments[i].agent \in 1..agents
      BY <2>1 DEF DeployInv, AgentInv
    <3>3. v \in tmux
      BY <1>1, <1>4, <2>2, <3>2
    <3> QED
      BY <2>2, <3>1, <3>3 DEF DeployInv, JudgeInv, Judging
  <2> QED
    BY <1>1, <2>1, <2>2 DEF JudgeInv
<1>7. TimerInv'
  BY <1>1 DEF DeployInv, TimerInv, timers
<1>8. Loose \subseteq Loose' /\ w \in Loose' /\ \A v \in Loose' : v \in Loose \/ v = w
  BY DEF Loose, Making
<1>9. LooseInv'
  BY <1>1, <1>8 DEF DeployInv, LooseInv
<1>10. CountInv'
  <2>1. CASE tmux' = tmux
    BY <1>1, <1>2, <1>3, <1>8, <2>1, RowsSame, CountsKeep DEF DeployInv, timers
  <2>2. CASE tmux' = tmux \cup {w} /\ (w \notin Loose \/ \A v \in tmux : v.session # w.session)
    BY <1>2, <1>3, <1>8, <2>2, OneMoreWindow
  <2> QED
    BY <2>1, <2>2
<1> QED
  BY <1>2, <1>3, <1>5, <1>6, <1>7, <1>9, <1>10 DEF DeployInv

(* A window gets its row: there is one unfinished row more, and one window  *)
(* without a row less.                                                      *)
LEMMA RowAppears ==
    ASSUME DeployInv, NEW r \in Callers, caller[r].at \in {"record", "register"}, caller[r].made.repo \in registered,
           NEW ts \in SUBSET Tasks, deployments' = Append(deployments, Deployment(caller[r].made, ts)),
           CallTypes', caller'[r].at \in {"idle", "launch"}, caller'[r].rows \subseteq caller[r].rows,
           \A p \in Callers : p # r => caller'[p] = caller[p],
           UNCHANGED <<windows, work, uneof, timers, unrecorded, extent>>
    PROVE  DeployInv'
<1> DEFINE w == caller[r].made
           id == Len(deployments) + 1
<1>1. w \in Window /\ w.repo \in Repos /\ w.repo \in registered
  BY DEF DeployInv, CallTypes, Call, RestTypes
<1>2. deployments' = Append(deployments, Deployment(w, ts))
  OBVIOUS
<1> HIDE DEF w
<1>3. /\ AgentRowTypes' /\ DeployIds' = DeployIds \cup {id} /\ id \notin DeployIds
      /\ \A i \in DeployIds : deployments'[i] = deployments[i]
      /\ deployments'[id].agent = w.agent /\ deployments'[id].repo = w.repo
      /\ deployments'[id].session = w.session /\ deployments'[id].window = w.window
      /\ deployments'[id].status = "running"
  BY <1>1, <1>2, AddedRow DEF DeployInv
<1> HIDE DEF id
<1>4. RestTypes'
  BY DEF DeployInv, RestTypes, windows, work, timers, extent
<1>5. OwnedInv'
  BY <1>1, <1>3 DEF DeployInv, OwnedInv, work
<1>6. AgentInv'
  <2>1. w.agent \in 1..agents /\ \A v \in tmux : v.agent = w.agent => v.session = w.session
    BY DEF w, DeployInv, AgentInv
  <2>2. tmux' = tmux /\ elsewhere' = elsewhere /\ agents' = agents
    BY DEF windows, extent
  <2>3. ASSUME NEW i \in DeployIds'
        PROVE  /\ deployments'[i].agent \in 1..agents
               /\ \A v \in tmux : v.agent = deployments'[i].agent => v.session = deployments'[i].session
    <3>1. CASE i = id
      BY <1>3, <2>1, <3>1
    <3>2. CASE i \in DeployIds
      <4>1. deployments'[i] = deployments[i]
        BY <1>3, <3>2
      <4> QED
        BY <3>2, <4>1 DEF DeployInv, AgentInv
    <3> QED
      BY <1>3, <3>1, <3>2
  <2>4. ASSUME NEW p \in Callers, caller'[p].at \in {"record", "register"}
        PROVE  /\ caller'[p].made.agent \in 1..agents
               /\ \A v \in tmux : v.agent = caller'[p].made.agent => v.session = caller'[p].made.session
    <3>1. caller'[p] = caller[p]
      BY <2>4
    <3> QED
      BY <2>4, <3>1 DEF DeployInv, AgentInv
  <2>5. /\ \A v \in tmux : v.agent \in 1..agents
        /\ elsewhere \subseteq 1..agents /\ \A v \in tmux : v.agent \notin elsewhere
    BY DEF DeployInv, AgentInv
  <2> QED
    BY <2>2, <2>3, <2>4, <2>5 DEF AgentInv
<1>7. JudgeInv'
  <2>1. \A p \in Callers : caller'[p].rows \subseteq DeployIds
    BY DEF DeployInv, JudgeInv
  <2>2. ASSUME NEW p \in Callers, Judging(p)', ~caller'[p].blind, NEW i \in caller'[p].rows,
               NEW v \in tmux', v.agent = deployments'[i].agent
        PROVE  v.session \in caller'[p].live
    <3>1. p # r
      BY <2>2 DEF Judging
    <3>2. i \in DeployIds /\ deployments'[i] = deployments[i] /\ v \in tmux
      BY <1>3, <2>1 DEF windows
    <3> QED
      BY <2>2, <3>1, <3>2 DEF DeployInv, JudgeInv, Judging
  <2> QED
    BY <1>3, <2>1, <2>2 DEF JudgeInv
<1>8. TimerInv'
  BY <1>3 DEF DeployInv, TimerInv, timers
<1>9. Loose' \subseteq Loose /\ \A v \in Loose : v \in Loose' \/ v = w
  BY DEF Loose, Making, w
<1>10. LooseInv'
  BY <1>9 DEF DeployInv, LooseInv, extent
<1>11. CountInv'
  <2> SUFFICES ASSUME NEW s \in SessionNames, NEW n \in WindowNames
               PROVE  Cardinality(OfName(tmux', s, n)) <=
                          Cardinality(Unfinished(s, n)') + Cardinality(OfName(kills' \cup missed', s, n))
                        + Cardinality(OfName(Loose', s, n))
    BY DEF CountInv
  <2>1. Cardinality(OfName(tmux, s, n)) <=
          Cardinality(Unfinished(s, n)) + Cardinality(OfName(kills \cup missed, s, n)) + Cardinality(OfName(Loose, s, n))
    BY DEF CountInv, DeployInv
  <2>2. Countable(s, n) /\ Countable(s, n)'
    BY <1>3, <1>4, CountTypes, CountTypesNext DEF DeployInv
  <2>3. /\ Cardinality(OfName(tmux, s, n)) \in Nat
        /\ Cardinality(Unfinished(s, n)) \in Nat /\ Cardinality(Unfinished(s, n)') \in Nat
        /\ Cardinality(OfName(kills \cup missed, s, n)) \in Nat
        /\ Cardinality(OfName(Loose, s, n)) \in Nat /\ Cardinality(OfName(Loose', s, n)) \in Nat
    BY <2>2, FS_CardinalityType DEF Countable
  <2>4. OfName(tmux', s, n) = OfName(tmux, s, n) /\ OfName(kills' \cup missed', s, n) = OfName(kills \cup missed, s, n)
    BY DEF windows, timers
  <2>5. CASE w.session # s \/ w.window # n
    <3>1. Unfinished(s, n)' = Unfinished(s, n)
      BY <1>3, <2>5, ZenonT(60) DEF Unfinished
    <3>2. OfName(Loose', s, n) = OfName(Loose, s, n)
      BY <1>9, <2>5 DEF OfName
    <3> QED
      BY <2>1, <2>4, <3>1, <3>2
  <2>6. CASE w.session = s /\ w.window = n
    <3>1. Unfinished(s, n)' = Unfinished(s, n) \cup {id} /\ id \notin Unfinished(s, n)
      BY <1>3, <2>6, ZenonT(60) DEF Unfinished
    <3>2. Cardinality(Unfinished(s, n)') = Cardinality(Unfinished(s, n)) + 1
      BY <2>2, <3>1, OneMore DEF Countable
    <3>3. OfName(Loose, s, n) \ {w} \in SUBSET OfName(Loose', s, n)
      BY <1>9 DEF OfName
    <3>4. /\ Cardinality(OfName(Loose, s, n)) <= Cardinality(OfName(Loose, s, n) \ {w}) + 1
          /\ Cardinality(OfName(Loose, s, n) \ {w}) \in Nat
          /\ Cardinality(OfName(Loose, s, n) \ {w}) <= Cardinality(OfName(Loose', s, n))
      BY <2>2, <3>3, OneLess, FS_Subset DEF Countable
    <3>5. Cardinality(OfName(Loose, s, n)) <= Cardinality(OfName(Loose', s, n)) + 1
      BY <2>3, <3>4
    <3>6. Cardinality(OfName(tmux, s, n)) <=
              Cardinality(Unfinished(s, n)') + Cardinality(OfName(kills \cup missed, s, n))
            + Cardinality(OfName(Loose', s, n))
      BY <2>1, <2>3, <3>2, <3>5
    <3> QED
      BY <2>4, <3>6
  <2> QED
    BY <2>5, <2>6
<1> QED
  BY <1>3, <1>4, <1>5, <1>6, <1>7, <1>8, <1>10, <1>11 DEF DeployInv

(* A window is not going to get a row, or its maker has forgotten it: it    *)
(* was noted.                                                               *)
LEMMA LeftWithoutRow ==
    ASSUME DeployInv, CallTypes', RestTypes', Loose' = Loose,
           \A p \in Callers : MadeBefore(p) /\ JudgesBefore(p),
           kills' \cup missed' = kills \cup missed,
           UNCHANGED <<deployments, windows, work, extent>>
    PROVE  DeployInv'
<1>1. AgentRowTypes' /\ OwnedInv'
  BY DEF DeployInv, windows, work, AgentRowTypes, OwnedInv, DeployIds
<1>2. RowsFixed /\ NoneCompleted /\ AgentsFixed /\ DeployIds' = DeployIds
  BY RowsSame DEF AgentsFixed, windows, extent
<1>3. AgentInv' /\ JudgeInv' /\ TimerInv'
  BY <1>2, AgentsKeep, JudgesKeep, TimersKeep DEF DeployInv, AgentsFixed
<1>4. LooseInv'
  BY DEF LooseInv, DeployInv, extent
<1>5. CountInv'
  BY <1>1, <1>2, CountsKeep DEF DeployInv, windows
<1> QED
  BY <1>1, <1>3, <1>4, <1>5 DEF DeployInv

(* A launch: nothing more to do, a project passed over, a name that is      *)
(* taken, or a new session.                                                 *)
LEMMA MegaLaunchKeeps ==
    ASSUME DeployInv, NEW r \in Callers, MegaLaunch(r)
    PROVE  DeployInv'
<1>1. /\ caller[r] \in Call /\ caller[r].at = "launch" /\ agents \in Nat /\ CallTypes
      /\ UNCHANGED <<deployments, elsewhere, work, uneof, timers, unrecorded, clockSecond>>
  BY DEF MegaLaunch, At, DeployInv, CallTypes, RestTypes
<1>2. CASE Done(r) /\ UNCHANGED <<tmux, agents>>
  <2>1. /\ CallTypes' /\ caller'[r].at = "idle"
        /\ \A p \in Callers : p # r => caller'[p] = caller[p]
        /\ \A p \in Callers : MadeBefore(p) /\ JudgesBefore(p)
    BY <1>1, <1>2, CallEnds
  <2>2. \A p \in Callers : LooseBefore(p)
    BY <1>1, <2>1 DEF LooseBefore, Making
  <2> QED
    BY <1>1, <1>2, <2>1, <2>2, OnlyCaller DEF windows, extent
<1>3. ASSUME NEW q \in caller[r].targets, NEW stage \in {"launch", "undo", "record"},
             caller' = [caller EXCEPT ![r].at = stage, ![r].targets = @ \ {q},
                                      ![r].made = OfWindow(agents + 1, q, Mega(q, caller[r].second), "")],
             stage # "record" => UNCHANGED <<tmux, agents>>,
             stage = "record" => LET w == OfWindow(agents + 1, q, Mega(q, caller[r].second), "") IN
                                 /\ \A v \in tmux : v.session # w.session
                                 /\ tmux' = tmux \cup {w} /\ agents' = agents + 1
      PROVE  DeployInv'
  <2> DEFINE w == OfWindow(agents + 1, q, Mega(q, caller[r].second), "")
  <2>1. q \in Repos /\ caller[r].second \in Nat
    BY <1>1 DEF Call
  <2>2. w \in Window /\ w.agent = agents + 1 /\ w.session[1] = "mega"
    <3>1. PICK n \in WindowNames : n = ""
      BY DEF WindowNames
    <3>2. w = OfWindow(agents + 1, q, Mega(q, caller[r].second), n)
      BY <3>1
    <3> HIDE DEF w
    <3> QED
      BY <1>1, <2>1, <3>2, LaunchedWindow
  <2>3. caller' = [caller EXCEPT ![r].at = stage, ![r].targets = @ \ {q}, ![r].made = w]
        /\ (stage = "record" => (\A v \in tmux : v.session # w.session) /\ tmux' = tmux \cup {w} /\ agents' = agents + 1)
    BY <1>3
  <2> HIDE DEF w
  <2> DEFINE c == [caller[r] EXCEPT !.at = stage, !.targets = @ \ {q}, !.made = w]
  <2>4. /\ c \in Call /\ c.at = stage /\ c.made = w
        /\ c.rows = caller[r].rows /\ c.live = caller[r].live /\ c.blind = caller[r].blind
    BY <1>1, <1>3, <2>2 DEF Call, CallStages
  <2>5. caller' = [caller EXCEPT ![r] = c]
    BY <1>1, <2>3 DEF CallTypes
  <2> HIDE DEF c
  <2>6. /\ CallTypes' /\ caller'[r] = c
        /\ \A p \in Callers : p # r => caller'[p] = caller[p]
    BY <1>1, <2>4, <2>5, CallMoves
  <2>7. ~Making(r)
    BY <1>1 DEF Making
  <2>8. CASE stage = "launch"
    <3>1. \A p \in Callers : MadeBefore(p) /\ JudgesBefore(p) /\ LooseBefore(p)
      <4>1. MadeBefore(r) /\ JudgesBefore(r) /\ LooseBefore(r)
        BY <1>1, <2>4, <2>6, <2>8 DEF MadeBefore, JudgesBefore, LooseBefore, Making
      <4>2. \A p \in Callers : p # r => MadeBefore(p) /\ JudgesBefore(p) /\ LooseBefore(p)
        BY <2>6 DEF MadeBefore, JudgesBefore, LooseBefore, Making, Judging
      <4> QED
        BY <4>1, <4>2
    <3>2. UNCHANGED <<deployments, windows, work, uneof, timers, unrecorded, extent>>
      BY <1>1, <1>3, <2>8 DEF windows, extent
    <3> QED
      BY <2>6, <3>1, <3>2, OnlyCaller
  <2>9. CASE stage = "undo"
    <3>1. UNCHANGED <<deployments, windows, work, uneof, timers, unrecorded, extent>>
      BY <1>1, <1>3, <2>9 DEF windows, extent
    <3>2. caller'[r].at = "undo" /\ caller'[r].rows = caller[r].rows /\ caller'[r].made.session[1] = "mega"
      BY <2>2, <2>4, <2>6, <2>9
    <3> QED
      BY <2>6, <2>7, <3>1, <3>2, GivesUp
  <2>10. CASE stage = "record"
    <3>1. caller'[r].at \in {"record", "register"} /\ caller'[r].made = w /\ caller'[r].rows \subseteq caller[r].rows
      BY <2>4, <2>6, <2>10
    <3>2. /\ \A v \in tmux : v.session # w.session
          /\ tmux' = tmux \cup {w} /\ agents' = agents + 1 /\ elsewhere' = elsewhere
          /\ UNCHANGED <<deployments, work, uneof, timers, unrecorded, clockSecond>>
      BY <1>1, <2>3, <2>10
    <3> QED
      BY <2>2, <2>6, <2>7, <3>1, <3>2, AgentStarts
  <2> QED
    BY <1>3, <2>8, <2>9, <2>10
<1>4. \/ Done(r) /\ UNCHANGED <<tmux, agents>>
      \/ \E q \in caller[r].targets, stage \in {"launch", "undo", "record"} :
            LET w == OfWindow(agents + 1, q, Mega(q, caller[r].second), "") IN
            /\ caller' = [caller EXCEPT ![r].at = stage, ![r].targets = @ \ {q}, ![r].made = w]
            /\ stage # "record" => UNCHANGED <<tmux, agents>>
            /\ stage = "record" => /\ \A v \in tmux : v.session # w.session
                                   /\ tmux' = tmux \cup {w} /\ agents' = agents + 1
  BY DEF MegaLaunch
<1> QED
  BY <1>2, <1>3, <1>4

LEMMA MegaRecordKeeps ==
    ASSUME DeployInv, NEW r \in Callers, MegaRecord(r)
    PROVE  DeployInv'
<1>1. /\ caller[r] \in Call /\ caller[r].at = "record" /\ CallTypes
      /\ "launch" \in CallStages /\ "undo" \in CallStages
      /\ UNCHANGED <<windows, work, uneof, timers, unrecorded, extent>>
  BY DEF MegaRecord, At, DeployInv, CallTypes, CallStages
<1>2. CASE /\ caller[r].made.repo \in registered
           /\ deployments' = Append(deployments, Deployment(caller[r].made, caller[r].given[caller[r].made.repo]))
           /\ Now(r, "launch")
  <2>1. caller[r].given[caller[r].made.repo] \in SUBSET Tasks
    BY <1>1, <1>2 DEF Call, DeployInv, RestTypes
  <2>2. /\ CallTypes' /\ caller'[r].at = "launch" /\ caller'[r].rows = caller[r].rows
        /\ \A p \in Callers : p # r => caller'[p] = caller[p]
    BY <1>1, <1>2, StageMoves
  <2> QED
    BY <1>1, <1>2, <2>1, <2>2, RowAppears
<1>3. CASE Now(r, "undo") /\ UNCHANGED deployments
  <2>1. /\ CallTypes' /\ caller'[r].at = "undo" /\ caller'[r].rows = caller[r].rows /\ caller'[r].made = caller[r].made
        /\ \A p \in Callers : p # r => caller'[p] = caller[p]
    BY <1>1, <1>3, StageMoves
  <2>2. Making(r)
    BY <1>1 DEF Making
  <2> QED
    BY <1>1, <1>3, <2>1, <2>2, GivesUp
<1> QED
  BY <1>2, <1>3 DEF MegaRecord

(* Undoing kills every window of the session: none is left to account for.  *)
LEMMA MadeUndone ==
    ASSUME DeployInv, NEW r \in Callers, MegaUndo(r), tmux' = WithoutMade(r), unrecorded' = unrecorded
    PROVE  DeployInv'
<1> DEFINE w == caller[r].made
<1>1. /\ caller[r].at = "undo" /\ CallTypes /\ "launch" \in CallStages
      /\ tmux' = {v \in tmux : v.session # w.session} /\ Now(r, "launch")
      /\ elsewhere' = elsewhere /\ UNCHANGED <<deployments, work, uneof, timers, unrecorded, extent>>
  BY DEF MegaUndo, WithoutMade, At, DeployInv, CallStages
<1> HIDE DEF w
<1>2. /\ CallTypes' /\ caller'[r].at = "launch"
      /\ \A p \in Callers : p # r => caller'[p] = caller[p]
      /\ \A p \in Callers : MadeBefore(p) /\ JudgesBefore(p)
  BY <1>1, StageMoves, StageGoesOn
<1>3. AgentRowTypes' /\ OwnedInv' /\ RowsFixed /\ NoneCompleted /\ DeployIds' = DeployIds
  BY <1>1, RowsSame DEF DeployInv, AgentRowTypes, OwnedInv, work
<1>4. tmux' \in SUBSET tmux /\ AgentsFixed
  BY <1>1 DEF AgentsFixed, extent
<1>5. RestTypes'
  <2>1. tmux' \subseteq Window /\ IsFiniteSet(tmux')
    BY <1>4, FS_Subset DEF DeployInv, RestTypes
  <2> QED
    BY <1>1, <2>1 DEF DeployInv, RestTypes, work, timers, extent
<1>6. AgentInv' /\ JudgeInv' /\ TimerInv'
  BY <1>1, <1>2, <1>3, <1>4, AgentsKeep, JudgesKeep, TimersKeep DEF DeployInv, timers
<1>7. Loose' \subseteq Loose /\ \A v \in Loose : v \in Loose' \/ v = w
  BY <1>1, <1>2 DEF Loose, Making, w
<1>8. LooseInv'
  BY <1>1, <1>7 DEF DeployInv, LooseInv, extent
<1>9. CountInv'
  <2> SUFFICES ASSUME NEW s \in SessionNames, NEW n \in WindowNames
               PROVE  Cardinality(OfName(tmux', s, n)) <=
                          Cardinality(Unfinished(s, n)') + Cardinality(OfName(kills' \cup missed', s, n))
                        + Cardinality(OfName(Loose', s, n))
    BY DEF CountInv
  <2>1. Cardinality(OfName(tmux, s, n)) <=
          Cardinality(Unfinished(s, n)) + Cardinality(OfName(kills \cup missed, s, n)) + Cardinality(OfName(Loose, s, n))
    BY DEF CountInv, DeployInv
  <2>2. Countable(s, n)'
    BY <1>2, <1>3, <1>5, CountTypesNext
  <2>3. /\ Cardinality(Unfinished(s, n)') \in Nat
        /\ Cardinality(OfName(kills' \cup missed', s, n)) \in Nat
        /\ Cardinality(OfName(Loose', s, n)) \in Nat
    BY <2>2, FS_CardinalityType DEF Countable
  <2>4. CASE w.session = s
    <3>1. OfName(tmux', s, n) = {}
      BY <1>1, <2>4 DEF OfName
    <3>2. Cardinality(OfName(tmux', s, n)) = 0
      BY <3>1, FS_EmptySet
    <3> QED
      BY <2>3, <3>2
  <2>5. CASE w.session # s
    <3>1. OfName(tmux', s, n) = OfName(tmux, s, n)
      BY <1>1, <2>5 DEF OfName
    <3>2. Unfinished(s, n)' = Unfinished(s, n)
      BY <1>1, <1>3 DEF Unfinished
    <3>3. OfName(kills' \cup missed', s, n) = OfName(kills \cup missed, s, n)
      BY <1>1 DEF timers
    <3>4. OfName(Loose', s, n) = OfName(Loose, s, n)
      BY <1>7, <2>5 DEF OfName
    <3> QED
      BY <2>1, <3>1, <3>2, <3>3, <3>4
  <2> QED
    BY <2>4, <2>5
<1> QED
  BY <1>2, <1>3, <1>5, <1>6, <1>8, <1>9 DEF DeployInv

(* A session that could not be killed is noted. *)
LEMMA MadeLeft ==
    ASSUME DeployInv, NEW r \in Callers, MegaUndo(r), tmux' = tmux, unrecorded' = unrecorded \cup {caller[r].made}
    PROVE  DeployInv'
<1>1. /\ caller[r].at = "undo" /\ CallTypes /\ "launch" \in CallStages /\ Now(r, "launch")
      /\ UNCHANGED <<deployments, windows, work, uneof, timers, extent>>
  BY DEF MegaUndo, At, DeployInv, CallStages, windows
<1>2. /\ CallTypes' /\ caller'[r].at = "launch"
      /\ \A p \in Callers : p # r => caller'[p] = caller[p]
      /\ \A p \in Callers : MadeBefore(p) /\ JudgesBefore(p)
  BY <1>1, StageMoves, StageGoesOn
<1>3. Loose' = Loose
  BY <1>1, <1>2 DEF Loose, Making
<1>4. RestTypes'
  <2>1. caller[r].made \in Window
    BY <1>1 DEF CallTypes, Call
  <2>2. unrecorded' \subseteq Window /\ IsFiniteSet(unrecorded')
    BY <2>1, FS_AddElement DEF DeployInv, RestTypes
  <2> QED
    BY <1>1, <2>2 DEF DeployInv, RestTypes, windows, work, timers, extent
<1> QED
  BY <1>1, <1>2, <1>3, <1>4, LeftWithoutRow DEF timers

LEMMA MegaUndoKeeps ==
    ASSUME DeployInv, NEW r \in Callers, MegaUndo(r)
    PROVE  DeployInv'
BY MadeUndone, MadeLeft DEF MegaUndo

(* A boot's window is nobody's: its number is new, and launches that have   *)
(* tried for that number were for a session of their own kind.              *)
LEMMA BootKeeps ==
    ASSUME DeployInv, NEW r \in Callers, Boot(r)
    PROVE  DeployInv'
<1>1. PICK q \in Repos, p \in Prompts, here \in BOOLEAN :
        LET made == OfWindow(agents + 1, q, Shared(q), p) IN
        /\ caller' = [caller EXCEPT ![r].at = "register", ![r].made = made]
        /\ tmux' = IF here THEN tmux \cup {made} ELSE tmux
        /\ elsewhere' = IF here THEN elsewhere ELSE elsewhere \cup {made.agent}
  BY DEF Boot
<1>2. /\ caller[r].at = "idle" /\ caller[r] \in Call /\ CallTypes /\ agents \in Nat /\ agents' = agents + 1
      /\ UNCHANGED <<deployments, work, uneof, timers, unrecorded, clockSecond>>
  BY DEF Boot, At, DeployInv, CallTypes, RestTypes
<1> DEFINE w == OfWindow(agents + 1, q, Shared(q), p)
<1>3. w \in Window /\ w.agent = agents + 1 /\ w.session[1] # "mega"
  <2>1. p \in WindowNames
    BY DEF WindowNames
  <2> QED
    BY <1>2, <2>1, BootedWindow
<1>4. /\ caller' = [caller EXCEPT ![r].at = "register", ![r].made = w]
      /\ \/ tmux' = tmux \cup {w} /\ elsewhere' = elsewhere
         \/ tmux' = tmux /\ elsewhere' = elsewhere \cup {w.agent}
  BY <1>1
<1> HIDE DEF w
<1> DEFINE c == [caller[r] EXCEPT !.at = "register", !.made = w]
<1>5. c \in Call /\ c.at = "register" /\ c.made = w /\ c.rows = caller[r].rows
  BY <1>2, <1>3 DEF Call, CallStages
<1>6. caller' = [caller EXCEPT ![r] = c]
  BY <1>2, <1>4 DEF CallTypes
<1> HIDE DEF c
<1>7. /\ CallTypes' /\ caller'[r] = c
      /\ \A x \in Callers : x # r => caller'[x] = caller[x]
  BY <1>2, <1>5, <1>6, CallMoves
<1>8. w \notin Loose
  BY <1>2, <1>3 DEF DeployInv, LooseInv
<1>9. ~Making(r)
  BY <1>2 DEF Making
<1>10. caller'[r].at \in {"record", "register"} /\ caller'[r].made = w /\ caller'[r].rows \subseteq caller[r].rows
  BY <1>5, <1>7
<1> QED
  BY <1>2, <1>3, <1>4, <1>7, <1>8, <1>9, <1>10, AgentStarts

LEMMA BootRegisterKeeps ==
    ASSUME DeployInv, NEW r \in Callers, BootRegister(r)
    PROVE  DeployInv'
<1>1. /\ caller[r].at = "register" /\ caller[r] \in Call /\ CallTypes /\ Done(r)
      /\ UNCHANGED <<windows, work, uneof, timers, extent>>
  BY DEF BootRegister, At, DeployInv, CallTypes
<1>2. /\ CallTypes' /\ caller'[r].at = "idle"
      /\ \A p \in Callers : p # r => caller'[p] = caller[p]
      /\ \A p \in Callers : MadeBefore(p) /\ JudgesBefore(p)
  BY <1>1, CallEnds
<1>3. CASE /\ caller[r].made.repo \in registered /\ unrecorded' = unrecorded
           /\ \E ts \in {{}, OpenTasks(caller[r].made.repo)} : deployments' = Append(deployments, Deployment(caller[r].made, ts))
  <2>1. PICK ts \in SUBSET Tasks : deployments' = Append(deployments, Deployment(caller[r].made, ts))
    BY <1>3 DEF OpenTasks
  <2>2. caller'[r].rows \subseteq caller[r].rows
    BY <1>2 DEF JudgesBefore
  <2> QED
    BY <1>1, <1>2, <1>3, <2>1, <2>2, RowAppears
<1>4. CASE unrecorded' = unrecorded \cup {caller[r].made} /\ UNCHANGED deployments
  <2>1. Loose' = Loose
    BY <1>1, <1>2, <1>4 DEF Loose, Making
  <2>2. RestTypes'
    <3>1. unrecorded' \subseteq Window /\ IsFiniteSet(unrecorded')
      BY <1>1, <1>4, FS_AddElement DEF DeployInv, RestTypes, Call
    <3> QED
      BY <1>1, <3>1 DEF DeployInv, RestTypes, windows, work, timers, extent
  <2>3. kills' \cup missed' = kills \cup missed
    BY <1>1 DEF timers
  <2> QED
    BY <1>1, <1>2, <1>4, <2>1, <2>2, <2>3, LeftWithoutRow
<1> QED
  BY <1>3, <1>4 DEF BootRegister

-------------------------------------------------------------------------------
(* Completing rows, and the timers that kill their windows. *)

(* Two sets with nothing in common count together. *)
LEMMA CountsAdd ==
    ASSUME NEW S, NEW T, IsFiniteSet(S), IsFiniteSet(T), S \cap T = {}
    PROVE  Cardinality(S \cup T) = Cardinality(S) + Cardinality(T)
<1>1. /\ Cardinality(S \cup T) = Cardinality(S) + Cardinality(T) - Cardinality(S \cap T)
      /\ Cardinality(S) \in Nat /\ Cardinality(T) \in Nat
  BY FS_Union, FS_CardinalityType
<1>2. Cardinality(S \cap T) = 0
  BY FS_EmptySet
<1> QED
  BY <1>1, <1>2

(* One timer is set for each row, under its name. *)
LEMMA TimersSet ==
    ASSUME DeployInv, NEW by \in {"web"} \cup Ingesters, NEW S \in SUBSET Running, IsFiniteSet(S)
    PROVE  /\ KillTimers(by, S) \subseteq Timer /\ IsFiniteSet(KillTimers(by, S))
           /\ \A k \in KillTimers(by, S) : k.id \in S
           /\ \A s, n : LET same == {i \in S : deployments[i].session = s /\ deployments[i].window = n} IN
                /\ IsFiniteSet(OfName(KillTimers(by, S), s, n))
                /\ Cardinality(OfName(KillTimers(by, S), s, n)) = Cardinality(same)
<1> DEFINE t(i) == [by |-> by, id |-> i, session |-> deployments[i].session, window |-> deployments[i].window]
           K == KillTimers(by, S)
<1>1. K = {t(i) : i \in S}
  BY DEF KillTimers
<1>2. \A i \in S : t(i).id = i /\ t(i).session = deployments[i].session /\ t(i).window = deployments[i].window
  OBVIOUS
<1>3. \A i \in S : t(i) \in Timer
  <2>1. \A i \in S : i \in Nat /\ deployments[i] \in AgentRow
    BY LenProperties, ElementOfSeq DEF DeployInv, AgentRowTypes, Running, DeployIds
  <2> QED
    BY <2>1 DEF Timer, AgentRow
<1> HIDE DEF t, K
<1>4. IsFiniteSet(K)
  <2> DEFINE f == [i \in S |-> t(i)]
  <2>1. f \in Surjection(S, K)
    BY <1>1 DEF Surjection
  <2> QED
    BY <2>1, FS_Surjection
<1>5. ASSUME NEW s, NEW n
      PROVE  LET same == {i \in S : deployments[i].session = s /\ deployments[i].window = n} IN
             IsFiniteSet(OfName(K, s, n)) /\ Cardinality(OfName(K, s, n)) = Cardinality(same)
  <2> DEFINE same == {i \in S : deployments[i].session = s /\ deployments[i].window = n}
             T == OfName(K, s, n)
             f == [i \in same |-> t(i)]
  <2>1. T = {t(i) : i \in same}
    BY <1>1, <1>2 DEF OfName
  <2>2. IsFiniteSet(same) /\ \A i \in same : i \in S
    BY FS_Subset
  <2> HIDE DEF same, T
  <2>3. f \in [same -> T] /\ \A i \in same : f[i] = t(i)
    BY <2>1
  <2>4. f \in Injection(same, T)
    BY <1>2, <2>2, <2>3 DEF Injection, IsInjective
  <2>5. f \in Surjection(same, T)
    BY <2>1, <2>3 DEF Surjection
  <2>6. ExistsBijection(same, T)
    BY <2>4, <2>5 DEF ExistsBijection, Bijection
  <2>7. IsFiniteSet(T) /\ Cardinality(T) = Cardinality(same)
    BY <2>2, <2>6, FS_Bijection
  <2> QED
    BY <2>7 DEF same, T
<1>6. \A k \in K : k.id \in S
  BY <1>1, <1>2
<1>7. K \subseteq Timer
  BY <1>1, <1>3
<1> QED
  BY <1>4, <1>5, <1>6, <1>7 DEF K

LEMMA CompletesKeeps ==
    ASSUME DeployInv, NEW by \in {"web"} \cup Ingesters, NEW S \in SUBSET Running, Completes(by, S),
           tasks' \in [Tasks -> TaskStatuses], uneof' \in [Ingesters -> SUBSET Repos],
           UNCHANGED <<windows, taskRepo, registered, caller, missed, unrecorded, extent>>
    PROVE  DeployInv'
<1> DEFINE K == KillTimers(by, S)
<1>1. deployments' = Ended(S, "completed") /\ kills' = kills \cup K
  BY DEF Completes
<1>2. S \subseteq DeployIds /\ IsFiniteSet(S)
  <2>1. IsFiniteSet(DeployIds)
    <3>1. Len(deployments) \in Nat
      BY LenProperties DEF DeployInv, AgentRowTypes
    <3> QED
      BY <3>1, FS_Interval DEF DeployIds
  <2> QED
    BY <2>1, FS_Subset DEF Running
<1>3. /\ AgentRowTypes' /\ DeployIds' = DeployIds
      /\ \A i \in DeployIds :
           /\ deployments'[i].agent = deployments[i].agent /\ deployments'[i].repo = deployments[i].repo
           /\ deployments'[i].session = deployments[i].session /\ deployments'[i].window = deployments[i].window
           /\ deployments'[i].status = IF i \in S THEN "completed" ELSE deployments[i].status
  BY <1>1, EndedRows DEF DeployInv, RowStatuses
<1>4. /\ K \subseteq Timer /\ IsFiniteSet(K) /\ \A k \in K : k.id \in S
      /\ \A s, n : /\ IsFiniteSet(OfName(K, s, n))
                   /\ Cardinality(OfName(K, s, n)) = Cardinality({i \in S : deployments[i].session = s /\ deployments[i].window = n})
  BY <1>2, TimersSet
<1> HIDE DEF K
<1>5. CallTypes' /\ Loose' = Loose
  BY DEF DeployInv, CallTypes, Loose, Making
<1>6. RestTypes'
  <2>1. kills' \subseteq Timer /\ IsFiniteSet(kills')
    BY <1>1, <1>4, FS_Union DEF DeployInv, RestTypes
  <2> QED
    BY <2>1 DEF DeployInv, RestTypes, windows, extent
<1>7. OwnedInv'
  BY <1>3 DEF DeployInv, OwnedInv
<1>8. RowsFixed /\ AgentsFixed
  BY <1>3 DEF RowsFixed, AgentsFixed, windows, extent
<1>9. AgentInv' /\ JudgeInv'
  <2>1. \A p \in Callers : MadeBefore(p) /\ JudgesBefore(p)
    BY DEF MadeBefore, JudgesBefore, Judging
  <2> QED
    BY <1>8, <2>1, AgentsKeep, JudgesKeep DEF DeployInv, AgentsFixed
<1>10. TimerInv'
  <2>1. \A k \in kills \cup missed : k.id \in DeployIds /\ deployments'[k.id].status # "running"
    BY <1>3 DEF DeployInv, TimerInv
  <2>2. \A k \in K : k.id \in DeployIds /\ deployments'[k.id].status # "running"
    BY <1>2, <1>3, <1>4
  <2> QED
    BY <1>1, <1>3, <2>1, <2>2 DEF TimerInv
<1>11. LooseInv'
  BY <1>5 DEF DeployInv, LooseInv, extent
<1>12. CountInv'
  <2> SUFFICES ASSUME NEW s \in SessionNames, NEW n \in WindowNames
               PROVE  Cardinality(OfName(tmux', s, n)) <=
                          Cardinality(Unfinished(s, n)') + Cardinality(OfName(kills' \cup missed', s, n))
                        + Cardinality(OfName(Loose', s, n))
    BY DEF CountInv
  <2> DEFINE same == {i \in S : deployments[i].session = s /\ deployments[i].window = n}
  <2>1. Cardinality(OfName(tmux, s, n)) <=
          Cardinality(Unfinished(s, n)) + Cardinality(OfName(kills \cup missed, s, n)) + Cardinality(OfName(Loose, s, n))
    BY DEF CountInv, DeployInv
  <2>2. Countable(s, n) /\ Countable(s, n)'
    BY <1>3, <1>5, <1>6, CountTypes, CountTypesNext DEF DeployInv
  <2>3. IsFiniteSet(same) /\ IsFiniteSet(OfName(K, s, n)) /\ Cardinality(OfName(K, s, n)) = Cardinality(same)
    BY <1>2, <1>4, FS_Subset
  <2>4. /\ Cardinality(Unfinished(s, n)') \in Nat /\ Cardinality(same) \in Nat
        /\ Cardinality(OfName(kills \cup missed, s, n)) \in Nat /\ Cardinality(OfName(Loose, s, n)) \in Nat
    BY <2>2, <2>3, FS_CardinalityType DEF Countable
  <2>5. Unfinished(s, n) = Unfinished(s, n)' \cup same /\ Unfinished(s, n)' \cap same = {}
    <3>1. \A i \in S : i \in DeployIds /\ deployments[i].status = "running"
      BY DEF Running
    <3> QED
      BY <1>3, <3>1 DEF Unfinished
  <2>6. OfName(kills' \cup missed', s, n) = OfName(kills \cup missed, s, n) \cup OfName(K, s, n)
    BY <1>1 DEF OfName
  <2>7. OfName(kills \cup missed, s, n) \cap OfName(K, s, n) = {}
    BY <1>4 DEF OfName, DeployInv, TimerInv, Running
  <2> HIDE DEF same
  <2>8. Cardinality(Unfinished(s, n)) = Cardinality(Unfinished(s, n)') + Cardinality(same)
    BY <2>2, <2>3, <2>5, CountsAdd, ZenonT(60) DEF Countable
  <2>9. Cardinality(OfName(kills' \cup missed', s, n)) = Cardinality(OfName(kills \cup missed, s, n)) + Cardinality(same)
    BY <2>2, <2>3, <2>6, <2>7, CountsAdd, ZenonT(60) DEF Countable
  <2>10. tmux' = tmux
    BY DEF windows
  <2> QED
    BY <1>5, <2>1, <2>4, <2>8, <2>9, <2>10
<1> QED
  BY <1>3, <1>5, <1>6, <1>7, <1>9, <1>10, <1>11, <1>12 DEF DeployInv

LEMMA FinishedKeeps == ASSUME DeployInv, Finished PROVE DeployInv'
<1>1. PICK S \in SUBSET Running : Completes("web", S)
  BY DEF Finished
<1>2. /\ tasks' \in [Tasks -> TaskStatuses] /\ uneof' \in [Ingesters -> SUBSET Repos]
      /\ UNCHANGED <<windows, taskRepo, registered, caller, missed, unrecorded, extent>>
  BY DEF Finished, work, DeployInv, RestTypes
<1> QED
  BY <1>1, <1>2, CompletesKeeps

LEMMA CompleteKeeps == ASSUME DeployInv, NEW t \in Tasks, Complete(t) PROVE DeployInv'
<1>1. PICK S \in SUBSET Running : Completes("web", S)
  BY DEF Complete
<1>2. /\ tasks' \in [Tasks -> TaskStatuses] /\ uneof' \in [Ingesters -> SUBSET Repos]
      /\ UNCHANGED <<windows, taskRepo, registered, caller, missed, unrecorded, extent>>
  BY DEF Complete, TaskStatuses, DeployInv, RestTypes
<1> QED
  BY <1>1, <1>2, CompletesKeeps

LEMMA CullUneofKeeps == ASSUME DeployInv, NEW by \in Ingesters, CullUneof(by) PROVE DeployInv'
<1>1. PICK S \in SUBSET Running : Completes(by, S)
  BY DEF CullUneof
<1>2. /\ tasks' \in [Tasks -> TaskStatuses] /\ uneof' \in [Ingesters -> SUBSET Repos]
      /\ UNCHANGED <<windows, taskRepo, registered, caller, missed, unrecorded, extent>>
  BY DEF CullUneof, work, DeployInv, RestTypes
<1> QED
  BY <1>1, <1>2, CompletesKeeps

(* A timer kills the window of its name, if there is one. *)
LEMMA WindowKilled ==
    ASSUME DeployInv, NEW k \in kills, KillWindow(k), missed' = missed,
           Cardinality(Called(k)) <= 1, tmux' = tmux \ Called(k)
    PROVE  DeployInv'
<1>1. /\ kills' = kills \ {k} /\ k \in Timer
      /\ UNCHANGED <<deployments, elsewhere, work, caller, uneof, missed, unrecorded, extent>>
  BY DEF KillWindow, DeployInv, RestTypes
<1>2. /\ tmux' \in SUBSET tmux
      /\ \/ OfName(tmux, k.session, k.window) = {} /\ tmux' = tmux
         \/ \E w \in OfName(tmux, k.session, k.window) : tmux' = tmux \ {w}
  <2>1. Called(k) = OfName(tmux, k.session, k.window)
    BY DEF Called, OfName
  <2>2. IsFiniteSet(Called(k))
    <3>1. Called(k) \in SUBSET tmux /\ IsFiniteSet(tmux)
      BY DEF Called, DeployInv, RestTypes
    <3> QED
      BY <3>1, FS_Subset
  <2>3. ASSUME NEW w \in Called(k) PROVE Called(k) = {w}
    <3>1. IsFiniteSet(Called(k) \ {w}) /\ Cardinality(Called(k) \ {w}) = Cardinality(Called(k)) - 1
      BY <2>2, FS_RemoveElement
    <3>2. Cardinality(Called(k)) \in Nat /\ Cardinality(Called(k) \ {w}) \in Nat
      BY <2>2, <3>1, FS_CardinalityType
    <3>3. Cardinality(Called(k) \ {w}) = 0
      BY <3>1, <3>2
    <3>4. Called(k) \ {w} = {}
      BY <3>1, <3>3, FS_EmptySet
    <3> QED
      BY <3>4
  <2> QED
    BY <2>1, <2>3
<1>3. CallTypes' /\ AgentRowTypes' /\ OwnedInv' /\ RowsFixed /\ DeployIds' = DeployIds /\ AgentsFixed /\ Loose' = Loose
  BY <1>1, <1>2, RowsSame DEF DeployInv, CallTypes, AgentRowTypes, OwnedInv, AgentsFixed, work, extent, Loose, Making
<1>4. RestTypes'
  <2>1. tmux' \subseteq Window /\ IsFiniteSet(tmux') /\ kills' \subseteq Timer /\ IsFiniteSet(kills')
    BY <1>1, <1>2, FS_Subset DEF DeployInv, RestTypes
  <2> QED
    BY <1>1, <2>1 DEF DeployInv, RestTypes, work, extent
<1>5. AgentInv' /\ JudgeInv' /\ TimerInv'
  <2>1. \A p \in Callers : MadeBefore(p) /\ JudgesBefore(p)
    BY <1>1 DEF MadeBefore, JudgesBefore, Judging
  <2>2. kills' \cup missed' \subseteq kills \cup missed
    BY <1>1
  <2> QED
    BY <1>2, <1>3, <2>1, <2>2, AgentsKeep, JudgesKeep, TimersKeep DEF DeployInv
<1>6. LooseInv'
  BY <1>1, <1>3 DEF DeployInv, LooseInv, extent
<1>7. CountInv'
  <2> SUFFICES ASSUME NEW s \in SessionNames, NEW n \in WindowNames
               PROVE  Cardinality(OfName(tmux', s, n)) <=
                          Cardinality(Unfinished(s, n)') + Cardinality(OfName(kills' \cup missed', s, n))
                        + Cardinality(OfName(Loose', s, n))
    BY DEF CountInv
  <2>1. Cardinality(OfName(tmux, s, n)) <=
          Cardinality(Unfinished(s, n)) + Cardinality(OfName(kills \cup missed, s, n)) + Cardinality(OfName(Loose, s, n))
    BY DEF CountInv, DeployInv
  <2>2. Countable(s, n) /\ Countable(s, n)'
    BY <1>3, <1>4, CountTypes, CountTypesNext DEF DeployInv
  <2>3. /\ Cardinality(Unfinished(s, n)) \in Nat
        /\ Cardinality(OfName(tmux, s, n)) \in Nat /\ Cardinality(OfName(tmux', s, n)) \in Nat
        /\ Cardinality(OfName(kills \cup missed, s, n)) \in Nat /\ Cardinality(OfName(kills' \cup missed', s, n)) \in Nat
        /\ Cardinality(OfName(Loose, s, n)) \in Nat
    BY <2>2, FS_CardinalityType DEF Countable
  <2>4. Unfinished(s, n)' = Unfinished(s, n)
    BY <1>1, <1>3 DEF Unfinished
  <2>5. Cardinality(OfName(tmux', s, n)) <= Cardinality(OfName(tmux, s, n))
    <3>1. OfName(tmux', s, n) \in SUBSET OfName(tmux, s, n)
      BY <1>2 DEF OfName
    <3> QED
      BY <2>2, <3>1, FS_Subset DEF Countable
  <2>6. CASE k.session # s \/ k.window # n
    <3>1. OfName(kills' \cup missed', s, n) = OfName(kills \cup missed, s, n)
      BY <1>1, <2>6 DEF OfName
    <3> QED
      BY <1>3, <2>1, <2>3, <2>4, <2>5, <3>1
  <2>7. CASE k.session = s /\ k.window = n
    <3>1. CASE OfName(tmux, s, n) = {}
      <4>1. OfName(tmux', s, n) = {}
        BY <1>2, <3>1 DEF OfName
      <4>2. Cardinality(OfName(tmux', s, n)) = 0
        BY <4>1, FS_EmptySet
      <4> QED
        BY <1>3, <2>3, <2>4, <4>2
    <3>2. ASSUME NEW w \in OfName(tmux, s, n), tmux' = tmux \ {w}
          PROVE  Cardinality(OfName(tmux', s, n)) = Cardinality(OfName(tmux, s, n)) - 1
      <4>1. OfName(tmux', s, n) = OfName(tmux, s, n) \ {w}
        BY <3>2 DEF OfName
      <4> QED
        BY <2>2, <4>1, OneLess DEF Countable
    <3>3. Cardinality(OfName(kills \cup missed, s, n)) <= Cardinality(OfName(kills' \cup missed', s, n)) + 1
      <4>1. OfName(kills \cup missed, s, n) \ {k} \in SUBSET OfName(kills' \cup missed', s, n)
        BY <1>1 DEF OfName
      <4>2. /\ Cardinality(OfName(kills \cup missed, s, n)) <= Cardinality(OfName(kills \cup missed, s, n) \ {k}) + 1
            /\ Cardinality(OfName(kills \cup missed, s, n) \ {k}) \in Nat
            /\ Cardinality(OfName(kills \cup missed, s, n) \ {k}) <= Cardinality(OfName(kills' \cup missed', s, n))
        BY <2>2, <4>1, OneLess, FS_Subset DEF Countable
      <4> QED
        BY <2>3, <4>2
    <3>4. OfName(tmux, s, n) = {} \/ \E w \in OfName(tmux, s, n) : tmux' = tmux \ {w}
      BY <1>2, <2>7
    <3>5. CASE \E w \in OfName(tmux, s, n) : tmux' = tmux \ {w}
      <4>1. Cardinality(OfName(tmux', s, n)) = Cardinality(OfName(tmux, s, n)) - 1
        BY <3>2, <3>5
      <4> QED
        BY <1>3, <2>1, <2>3, <2>4, <3>3, <4>1
    <3> QED
      BY <3>1, <3>4, <3>5
  <2> QED
    BY <2>6, <2>7
<1> QED
  BY <1>3, <1>4, <1>5, <1>6, <1>7 DEF DeployInv

(* A kill that finds several windows, or fails, is noted as missed. *)
LEMMA KillMissed ==
    ASSUME DeployInv, NEW k \in kills, KillWindow(k), missed' = missed \cup {k}, tmux' = tmux
    PROVE  DeployInv'
<1>1. /\ kills' = kills \ {k} /\ k \in Timer
      /\ UNCHANGED <<deployments, windows, work, caller, uneof, unrecorded, extent>>
  BY DEF KillWindow, DeployInv, RestTypes, windows
<1>2. CallTypes' /\ Loose' = Loose /\ \A p \in Callers : MadeBefore(p) /\ JudgesBefore(p)
  BY <1>1 DEF DeployInv, CallTypes, Loose, Making, MadeBefore, JudgesBefore, Judging
<1>3. RestTypes'
  <2>1. /\ kills' \subseteq Timer /\ IsFiniteSet(kills')
        /\ missed' \subseteq Timer /\ IsFiniteSet(missed')
    BY <1>1, FS_RemoveElement, FS_AddElement DEF DeployInv, RestTypes
  <2> QED
    BY <1>1, <2>1 DEF DeployInv, RestTypes, windows, work, extent
<1>4. kills' \cup missed' = kills \cup missed
  BY <1>1
<1> QED
  BY <1>1, <1>2, <1>3, <1>4, LeftWithoutRow

LEMMA KillWindowKeeps == ASSUME DeployInv, NEW k \in kills, KillWindow(k) PROVE DeployInv'
BY WindowKilled, KillMissed DEF KillWindow

-------------------------------------------------------------------------------
(* The rest of the system. *)

(* An agent leaves: a window or an agent elsewhere is no more. *)
LEMMA LeavesKeeps == ASSUME DeployInv, NEW a, Leaves(a) PROVE DeployInv'
<1>1. /\ tmux' \in SUBSET tmux /\ elsewhere' \subseteq elsewhere
      /\ UNCHANGED <<deployments, work, caller, uneof, timers, unrecorded, extent>>
  BY DEF Leaves
<1>2. CallTypes' /\ AgentRowTypes' /\ OwnedInv' /\ RowsFixed /\ NoneCompleted /\ AgentsFixed
  BY <1>1, RowsSame DEF DeployInv, CallTypes, AgentRowTypes, OwnedInv, AgentsFixed, work, extent, DeployIds
<1>3. RestTypes'
  <2>1. tmux' \subseteq Window /\ IsFiniteSet(tmux')
    BY <1>1, FS_Subset DEF DeployInv, RestTypes
  <2> QED
    BY <1>1, <2>1 DEF DeployInv, RestTypes, work, timers, extent
<1>4. \A p \in Callers : MadeBefore(p) /\ JudgesBefore(p) /\ LooseBefore(p)
  BY <1>1 DEF MadeBefore, JudgesBefore, LooseBefore, Making, Judging
<1>5. kills' \cup missed' = kills \cup missed /\ unrecorded' = unrecorded
  BY <1>1 DEF timers
<1>6. AgentInv' /\ JudgeInv' /\ TimerInv' /\ LooseInv' /\ CountInv'
  BY <1>2, <1>3, <1>4, <1>5, QuietStep
<1> QED
  BY <1>2, <1>3, <1>6 DEF DeployInv

(* What is left of a merged project's rows belongs to the other. *)
LEMMA UniteKeeps == ASSUME DeployInv, NEW l \in Repos, NEW w \in Repos, Unite(l, w) PROVE DeployInv'
<1>1. /\ {l, w} \subseteq registered /\ l # w /\ registered' = registered \ {l}
      /\ UNCHANGED <<windows, tasks, caller, uneof, timers, unrecorded, extent>>
  BY DEF Unite
<1>2. Len(deployments) \in Nat /\ \A i \in DeployIds : deployments[i] \in AgentRow
  BY LenProperties, ElementOfSeq DEF DeployInv, AgentRowTypes, DeployIds
<1>3. \A i \in DeployIds :
         /\ [deployments[i] EXCEPT !.repo = w] \in AgentRow
         /\ [deployments[i] EXCEPT !.repo = w].agent = deployments[i].agent
         /\ [deployments[i] EXCEPT !.repo = w].repo = w
         /\ [deployments[i] EXCEPT !.repo = w].session = deployments[i].session
         /\ [deployments[i] EXCEPT !.repo = w].window = deployments[i].window
         /\ [deployments[i] EXCEPT !.repo = w].status = deployments[i].status
  BY <1>2 DEF AgentRow
<1>4. \A i \in DeployIds : deployments'[i] = IF deployments[i].repo = l THEN [deployments[i] EXCEPT !.repo = w] ELSE deployments[i]
  BY DEF Unite
<1>5. deployments' \in [1..Len(deployments) -> AgentRow]
  BY <1>2, <1>3 DEF Unite, DeployIds
<1>6. AgentRowTypes' /\ DeployIds' = DeployIds
  BY <1>2, <1>5 DEF AgentRowTypes, DeployIds
<1>7. RowsFixed /\ NoneCompleted
  BY <1>3, <1>4, <1>6 DEF RowsFixed, NoneCompleted
<1>8. OwnedInv'
  <2>1. \A i \in DeployIds : deployments'[i].repo \in registered'
    BY <1>1, <1>3, <1>4 DEF DeployInv, OwnedInv
  <2> QED
    BY <1>6, <2>1 DEF OwnedInv
<1>9. CallTypes'
  BY <1>1 DEF DeployInv, CallTypes
<1>10. RestTypes'
  <2>1. taskRepo' \in [Tasks -> registered'] /\ registered' \subseteq Repos
    BY <1>1 DEF Unite, DeployInv, RestTypes
  <2> QED
    BY <1>1, <2>1 DEF DeployInv, RestTypes, windows, timers, extent
<1>11. AgentsFixed /\ kills' \cup missed' = kills \cup missed /\ unrecorded' = unrecorded
  BY <1>1 DEF AgentsFixed, windows, timers, extent
<1>12. \A p \in Callers : MadeBefore(p) /\ JudgesBefore(p) /\ LooseBefore(p)
  BY <1>1 DEF MadeBefore, JudgesBefore, LooseBefore, Making, Judging
<1>13. AgentInv' /\ JudgeInv' /\ TimerInv' /\ LooseInv' /\ CountInv'
  BY <1>6, <1>7, <1>9, <1>10, <1>11, <1>12, QuietStep
<1> QED
  BY <1>6, <1>8, <1>9, <1>10, <1>13 DEF DeployInv

(* Timers of a process that ends are missed: none is forgotten. *)
LEMMA DropsTimers ==
    ASSUME DeployInv, NEW by, Drops(by)
    PROVE  /\ kills' \cup missed' = kills \cup missed
           /\ kills' \subseteq Timer /\ IsFiniteSet(kills') /\ missed' \subseteq Timer /\ IsFiniteSet(missed')
<1>1. /\ kills' = {k \in kills : k.by # by}
      /\ missed' = missed \cup {k \in kills : k.by = by}
      /\ kills \subseteq Timer /\ IsFiniteSet(kills) /\ missed \subseteq Timer /\ IsFiniteSet(missed)
  BY DEF Drops, DeployInv, RestTypes
<1>2. /\ {k \in kills : k.by # by} \in SUBSET kills
      /\ {k \in kills : k.by = by} \in SUBSET kills
  OBVIOUS
<1>3. IsFiniteSet(kills') /\ IsFiniteSet(missed')
  BY <1>1, <1>2, FS_Subset, FS_Union
<1> QED
  BY <1>1, <1>3

(* A pass exits or dies, with its timers. *)
LEMMA PassEnds ==
    ASSUME DeployInv, NEW by \in Ingesters, Drops(by), uneof' \in [Ingesters -> SUBSET Repos],
           UNCHANGED <<deployments, windows, work, caller, unrecorded, extent>>
    PROVE  DeployInv'
<1>1. CallTypes' /\ Loose' = Loose
  BY DEF DeployInv, CallTypes, Loose, Making
<1>2. RestTypes'
  BY DropsTimers DEF DeployInv, RestTypes, windows, work, extent
<1>3. \A p \in Callers : MadeBefore(p) /\ JudgesBefore(p)
  BY DEF MadeBefore, JudgesBefore, Judging
<1> QED
  BY <1>1, <1>2, <1>3, DropsTimers, LeftWithoutRow

(* The web server dies: windows that were to get a row are noted. *)
LEMMA ServerDiesKeeps == ASSUME DeployInv, ServerDies PROVE DeployInv'
<1> DEFINE M == {caller[r].made : r \in {r \in Callers : Making(r)}}
<1>1. /\ unrecorded' = unrecorded \cup M /\ caller' = [r \in Callers |-> NoCall] /\ Drops("web")
      /\ UNCHANGED <<deployments, windows, work, uneof, extent>>
  BY DEF ServerDies, Making
<1>2. unrecorded' = Loose
  BY <1>1 DEF Loose
<1> HIDE DEF M
<1>3. CallTypes' /\ \A p \in Callers : caller'[p].at = "idle" /\ caller'[p].rows = {}
  BY <1>1, FreshCall DEF CallTypes
<1>4. Loose' = Loose
  BY <1>2, <1>3 DEF Loose, Making
<1>5. Loose \subseteq Window /\ IsFiniteSet(Loose)
  BY LooseTypes DEF DeployInv
<1>6. RestTypes'
  BY <1>1, <1>2, <1>5, DropsTimers DEF DeployInv, RestTypes, windows, work, extent
<1>7. \A p \in Callers : MadeBefore(p) /\ JudgesBefore(p)
  BY <1>3 DEF MadeBefore, JudgesBefore
<1>8. kills' \cup missed' = kills \cup missed
  BY <1>1, DropsTimers
<1> QED
  BY <1>1, <1>3, <1>4, <1>6, <1>7, <1>8, LeftWithoutRow

(* Time passes, todos change, a pass finds an end mark. *)
LEMMA OutsideKeeps ==
    ASSUME DeployInv, tasks' \in [Tasks -> TaskStatuses], uneof' \in [Ingesters -> SUBSET Repos], clockSecond' \in Nat,
           UNCHANGED <<deployments, windows, taskRepo, registered, caller, timers, unrecorded, agents>>
    PROVE  DeployInv'
<1>1. CallTypes' /\ AgentRowTypes' /\ OwnedInv'
  BY DEF DeployInv, CallTypes, AgentRowTypes, OwnedInv, DeployIds
<1>2. RestTypes'
  BY DEF DeployInv, RestTypes, windows, timers
<1>3. RowsFixed /\ NoneCompleted /\ AgentsFixed
  BY RowsSame DEF AgentsFixed, windows
<1>4. \A p \in Callers : MadeBefore(p) /\ JudgesBefore(p) /\ LooseBefore(p)
  BY DEF MadeBefore, JudgesBefore, LooseBefore, Making, Judging
<1>5. kills' \cup missed' = kills \cup missed /\ unrecorded' = unrecorded
  BY DEF timers
<1>6. AgentInv' /\ JudgeInv' /\ TimerInv' /\ LooseInv' /\ CountInv'
  BY <1>1, <1>2, <1>3, <1>4, <1>5, QuietStep
<1> QED
  BY <1>1, <1>2, <1>6 DEF DeployInv

-------------------------------------------------------------------------------
(* Theorems. *)

LEMMA DeployStart == DeployInit => DeployInv
<1> SUFFICES ASSUME DeployInit PROVE DeployInv
  OBVIOUS
<1>1. CallTypes /\ \A r \in Callers : caller[r].at = "idle" /\ caller[r].rows = {}
  BY FreshCall DEF DeployInit, CallTypes
<1>2. deployments = <<>> /\ DeployIds = {}
  BY DEF DeployInit, DeployIds
<1>3. AgentRowTypes
  BY <1>2 DEF AgentRowTypes
<1>4. RestTypes
  <2>1. IsFiniteSet({})
    BY FS_EmptySet
  <2>2. [t \in Tasks |-> "open"] \in [Tasks -> TaskStatuses]
    BY DEF TaskStatuses
  <2> QED
    BY <2>1, <2>2, DeployConstantsOK DEF DeployInit, RestTypes, DeployConstantsOK
<1>5. Loose = {} /\ tmux = {} /\ kills = {} /\ missed = {}
  BY <1>1 DEF Loose, Making, DeployInit
<1>6. OwnedInv /\ TimerInv /\ LooseInv
  BY <1>2, <1>5 DEF OwnedInv, TimerInv, LooseInv
<1>7. AgentInv
  BY <1>1, <1>2, <1>5 DEF AgentInv, DeployInit
<1>8. JudgeInv
  BY <1>1, <1>2, <1>5 DEF JudgeInv
<1>9. CountInv
  <2> SUFFICES ASSUME NEW s \in SessionNames, NEW n \in WindowNames
               PROVE  Cardinality(OfName(tmux, s, n)) <=
                          Cardinality(Unfinished(s, n)) + Cardinality(OfName(kills \cup missed, s, n)) + Cardinality(OfName(Loose, s, n))
    BY DEF CountInv
  <2>1. OfName(tmux, s, n) = {} /\ Unfinished(s, n) = {} /\ OfName(kills \cup missed, s, n) = {} /\ OfName(Loose, s, n) = {}
    BY <1>2, <1>5 DEF OfName, Unfinished
  <2>2. Cardinality({}) = 0
    BY FS_EmptySet
  <2>3. /\ Cardinality(OfName(tmux, s, n)) = 0 /\ Cardinality(Unfinished(s, n)) = 0
        /\ Cardinality(OfName(kills \cup missed, s, n)) = 0 /\ Cardinality(OfName(Loose, s, n)) = 0
    BY <2>1, <2>2, Zenon
  <2> QED
    BY <2>3
<1> QED
  BY <1>1, <1>3, <1>4, <1>6, <1>7, <1>8, <1>9 DEF DeployInv

LEMMA DeployStep == DeployInv /\ [DeployNext]_deployVars => DeployInv'
<1> SUFFICES ASSUME DeployInv, [DeployNext]_deployVars PROVE DeployInv'
  OBVIOUS
<1>1. ASSUME NEW r \in Callers, StatusRead(r) \/ CullRead(r) PROVE DeployInv'
  BY <1>1, RowsReadKeep DEF StatusRead, CullRead
<1>2. ASSUME NEW r \in Callers, StatusList(r) \/ CullList(r) PROVE DeployInv'
  BY <1>2, ListedKeep DEF StatusList, CullList, At
<1>3. ASSUME NEW r \in Callers,
             \/ MegaRead(r) \/ MegaList(r) \/ MegaPick(r) \/ MegaLaunch(r) \/ MegaRecord(r) \/ MegaUndo(r)
             \/ Boot(r) \/ BootRegister(r) \/ StatusMark(r) \/ CullNext(r) \/ CullMark(r)
      PROVE  DeployInv'
  BY <1>3, MegaReadKeeps, MegaListKeeps, MegaPickKeeps, MegaLaunchKeeps, MegaRecordKeeps, MegaUndoKeeps,
     BootKeeps, BootRegisterKeeps, StatusMarkKeeps, CullNextKeeps, CullMarkKeeps
<1>4. CASE Finished \/ ServerDies
  BY <1>4, FinishedKeeps, ServerDiesKeeps
<1>5. CASE OnceExits
  <2>1. /\ "once" \in Ingesters /\ Drops("once") /\ uneof' \in [Ingesters -> SUBSET Repos]
        /\ UNCHANGED <<deployments, windows, work, caller, unrecorded, extent>>
    BY <1>5 DEF OnceExits, Ingesters, DeployInv, RestTypes
  <2> QED
    BY <2>1, PassEnds
<1>6. CASE NextSecond
  <2>1. clockSecond' \in Nat
    BY <1>6, DeployConstantsOK DEF NextSecond, DeployConstantsOK, DeployInv, RestTypes
  <2>2. /\ tasks' \in [Tasks -> TaskStatuses] /\ uneof' \in [Ingesters -> SUBSET Repos]
        /\ UNCHANGED <<deployments, windows, taskRepo, registered, caller, timers, unrecorded, agents>>
    BY <1>6 DEF NextSecond, DeployInv, RestTypes, work
  <2> QED
    BY <2>1, <2>2, OutsideKeeps
<1>7. ASSUME NEW t \in Tasks, Complete(t) PROVE DeployInv'
  BY <1>7, CompleteKeeps
<1>8. ASSUME NEW t \in Tasks, NEW status \in TaskStatuses, MoveTask(t, status) PROVE DeployInv'
  <2>1. /\ tasks' \in [Tasks -> TaskStatuses] /\ uneof' \in [Ingesters -> SUBSET Repos] /\ clockSecond' \in Nat
        /\ UNCHANGED <<deployments, windows, taskRepo, registered, caller, timers, unrecorded, agents>>
    BY <1>8 DEF MoveTask, DeployInv, RestTypes, extent
  <2> QED
    BY <2>1, OutsideKeeps
<1>9. ASSUME NEW by \in Ingesters, NEW q \in Repos, Signal(by, q) PROVE DeployInv'
  <2>1. /\ tasks' \in [Tasks -> TaskStatuses] /\ uneof' \in [Ingesters -> SUBSET Repos] /\ clockSecond' \in Nat
        /\ UNCHANGED <<deployments, windows, taskRepo, registered, caller, timers, unrecorded, agents>>
    BY <1>9 DEF Signal, DeployInv, RestTypes, extent, work
  <2> QED
    BY <2>1, OutsideKeeps
<1>10. ASSUME NEW by \in Ingesters, CullUneof(by) PROVE DeployInv'
  BY <1>10, CullUneofKeeps
<1>11. ASSUME NEW by \in Ingesters, PassDies(by) PROVE DeployInv'
  <2>1. /\ Drops(by) /\ uneof' \in [Ingesters -> SUBSET Repos]
        /\ UNCHANGED <<deployments, windows, work, caller, unrecorded, extent>>
    BY <1>11 DEF PassDies, DeployInv, RestTypes
  <2> QED
    BY <2>1, PassEnds
<1>12. ASSUME NEW k \in kills, KillWindow(k) PROVE DeployInv'
  BY <1>12, KillWindowKeeps
<1>13. ASSUME NEW a \in 1..agents, Leaves(a) PROVE DeployInv'
  BY <1>13, LeavesKeeps
<1>14. ASSUME NEW l \in Repos, NEW w \in Repos, Unite(l, w) PROVE DeployInv'
  BY <1>14, UniteKeeps
<1>15. CASE UNCHANGED deployVars
  <2>1. /\ tasks' \in [Tasks -> TaskStatuses] /\ uneof' \in [Ingesters -> SUBSET Repos] /\ clockSecond' \in Nat
        /\ UNCHANGED <<deployments, windows, taskRepo, registered, caller, timers, unrecorded, agents>>
    BY <1>15 DEF deployVars, DeployInv, RestTypes, extent, work
  <2> QED
    BY <2>1, OutsideKeeps
<1> QED
  BY <1>1, <1>2, <1>3, <1>4, <1>5, <1>6, <1>7, <1>8, <1>9, <1>10, <1>11, <1>12, <1>13, <1>14, <1>15 DEF DeployNext

(* In every reachable state windows, rows, timers and requests agree as     *)
(* DeployInv says.                                                          *)
THEOREM DeployInductive == DeploySpec => []DeployInv
<1>1. DeployInit => DeployInv
  BY DeployStart
<1>2. DeployInv /\ [DeployNext]_deployVars => DeployInv'
  BY DeployStep
<1> QED
  BY <1>1, <1>2, PTL DEF DeploySpec

(* What agent_deployments, tmux and the timers of the web server hold is of *)
(* its type, and every row and todo belongs to a project that is there.     *)
THEOREM DeployTypeCorrect == DeploySpec => []DeployTypeOK
<1>1. DeployInv => DeployTypeOK
  <2> SUFFICES ASSUME DeployInv PROVE DeployTypeOK
    OBVIOUS
  <2>1. \A i \in DeployIds : /\ deployments[i].status \in {"running", "completed", "failed", "culled"}
                             /\ deployments[i].repo \in registered /\ deployments[i].tasks \subseteq Tasks
    <3>1. \A i \in DeployIds : deployments[i] \in AgentRow
      BY ElementOfSeq DEF DeployInv, AgentRowTypes, DeployIds
    <3> QED
      BY <3>1 DEF AgentRow, RowStatuses, DeployInv, OwnedInv
  <2> QED
    BY <2>1 DEF DeployTypeOK, DeployInv, RestTypes, AgentInv, TimerInv
<1> QED
  BY <1>1, DeployInductive, PTL

(* Windows without a row are no more than requests under way and windows    *)
(* noted as such, whatever name they bear.                                  *)
LEMMA LooseCounts ==
    ASSUME DeployInv, NEW s, NEW n
    PROVE  LET C == {r \in Callers : Making(r) /\ caller[r].made.session = s /\ caller[r].made.window = n} IN
           /\ Cardinality(C) \in Nat /\ Cardinality(OfName(unrecorded, s, n)) \in Nat
           /\ Cardinality(OfName(Loose, s, n)) <= Cardinality(C) + Cardinality(OfName(unrecorded, s, n))
<1> DEFINE C == {r \in Callers : Making(r) /\ caller[r].made.session = s /\ caller[r].made.window = n}
           T == {caller[r].made : r \in C}
           f == [r \in C |-> caller[r].made]
           X == OfName(unrecorded, s, n)
<1>1. IsFiniteSet(C)
  BY DeployConstantsOK, FS_Subset DEF DeployConstantsOK
<1>2. f \in Surjection(C, T)
  BY DEF Surjection
<1>3. IsFiniteSet(X)
  <2>1. X \in SUBSET unrecorded /\ IsFiniteSet(unrecorded)
    BY DEF OfName, DeployInv, RestTypes
  <2> QED
    BY <2>1, FS_Subset
<1>4. OfName(Loose, s, n) = T \cup X
  BY DEF OfName, Loose
<1> HIDE DEF C, T, X, f
<1>5. IsFiniteSet(T) /\ Cardinality(T) <= Cardinality(C)
  BY <1>1, <1>2, FS_Surjection
<1>6. /\ Cardinality(T \cup X) = Cardinality(T) + Cardinality(X) - Cardinality(T \cap X)
      /\ Cardinality(T) \in Nat /\ Cardinality(X) \in Nat /\ Cardinality(C) \in Nat
  BY <1>1, <1>3, <1>5, FS_Union, FS_CardinalityType
<1>7. Cardinality(T \cap X) \in Nat
  <2>1. IsFiniteSet(T \cap X)
    BY <1>5, FS_Subset
  <2> QED
    BY <2>1, FS_CardinalityType
<1>8. Cardinality(OfName(Loose, s, n)) <= Cardinality(C) + Cardinality(X)
  BY <1>4, <1>5, <1>6, <1>7
<1> QED
  BY <1>6, <1>8 DEF C, X

(* No window of tmux is forgotten: half-made launches, kills on their way   *)
(* and windows that never got a row account for those no row names.         *)
THEOREM NoStraysSafe == DeploySpec => []NoStrays
<1>1. DeployInv => NoStrays
  <2> SUFFICES ASSUME DeployInv, NEW w \in tmux
               PROVE  LET Same(x) == x.session = w.session /\ x.window = w.window IN
                 Cardinality({v \in tmux : Same(v)}) <=
                     Cardinality({i \in DeployIds : Same(deployments[i]) /\ deployments[i].status # "completed"})
                   + Cardinality({k \in kills \cup missed : Same(k)})
                   + Cardinality({r \in Callers : At(r, "record") \/ At(r, "register") \/ At(r, "undo")} \cap {r \in Callers : Same(caller[r].made)})
                   + Cardinality({v \in unrecorded : Same(v)})
    BY DEF NoStrays, Forgets
  <2> DEFINE s == w.session
             n == w.window
             C == {r \in Callers : Making(r) /\ caller[r].made.session = s /\ caller[r].made.window = n}
  <2>1. s \in SessionNames /\ n \in WindowNames
    BY DEF DeployInv, RestTypes, Window
  <2>2. /\ {v \in tmux : v.session = s /\ v.window = n} = OfName(tmux, s, n)
        /\ {i \in DeployIds : (deployments[i].session = s /\ deployments[i].window = n) /\ deployments[i].status # "completed"} = Unfinished(s, n)
        /\ {k \in kills \cup missed : k.session = s /\ k.window = n} = OfName(kills \cup missed, s, n)
        /\ {v \in unrecorded : v.session = s /\ v.window = n} = OfName(unrecorded, s, n)
    BY DEF OfName, Unfinished
  <2>3. {r \in Callers : At(r, "record") \/ At(r, "register") \/ At(r, "undo")}
          \cap {r \in Callers : caller[r].made.session = s /\ caller[r].made.window = n} = C
    BY DEF At, Making
  <2> HIDE DEF s, n, C
  <2>4. Cardinality(OfName(tmux, s, n)) <=
          Cardinality(Unfinished(s, n)) + Cardinality(OfName(kills \cup missed, s, n)) + Cardinality(OfName(Loose, s, n))
    BY <2>1 DEF DeployInv, CountInv
  <2>5. /\ Cardinality(C) \in Nat /\ Cardinality(OfName(unrecorded, s, n)) \in Nat
        /\ Cardinality(OfName(Loose, s, n)) <= Cardinality(C) + Cardinality(OfName(unrecorded, s, n))
    BY LooseCounts DEF C
  <2>6. Countable(s, n)
    BY <2>1, CountTypes DEF DeployInv
  <2>7. /\ Cardinality(OfName(tmux, s, n)) \in Nat /\ Cardinality(Unfinished(s, n)) \in Nat
        /\ Cardinality(OfName(kills \cup missed, s, n)) \in Nat /\ Cardinality(OfName(Loose, s, n)) \in Nat
    BY <2>6, FS_CardinalityType DEF Countable
  <2>8. Cardinality(OfName(tmux, s, n)) <=
          Cardinality(Unfinished(s, n)) + Cardinality(OfName(kills \cup missed, s, n)) + Cardinality(C)
        + Cardinality(OfName(unrecorded, s, n))
    BY <2>4, <2>5, <2>7
  <2> QED
    BY <2>2, <2>3, <2>8 DEF s, n
<1> QED
  BY <1>1, DeployInductive, PTL

(* A row that runs fails only by a launch that compares, by a request that  *)
(* asks for the state of agents, or by one that culls.                      *)
LEMMA WhoFails ==
    ASSUME DeployInv, [DeployNext]_deployVars, NEW i \in Running, deployments'[i].status = "failed"
    PROVE  \E r \in Callers :
              \/ MegaPick(r)
              \/ StatusMark(r) /\ i \in caller[r].rows /\ Absent(r, i)
              \/ CullNext(r) /\ i \in caller[r].rows /\ caller'[r] # caller[r] /\ Absent(r, i)
<1>1. i \in DeployIds /\ deployments[i].status = "running" /\ AgentRowTypes
  BY DEF Running, DeployInv
<1>2. deployments' # deployments
  BY <1>1
<1>3. ASSUME NEW r \in Callers, NEW w, NEW ts, deployments' = Append(deployments, Deployment(w, ts)) PROVE FALSE
  <2>1. deployments'[i] = deployments[i]
    BY <1>1, <1>3, LenProperties DEF AgentRowTypes, DeployIds
  <2> QED
    BY <1>1, <2>1
<1>4. ASSUME NEW S, NEW st \in {"completed", "culled"}, deployments' = Ended(S, st) PROVE FALSE
  <2>1. st \in RowStatuses
    BY DEF RowStatuses
  <2>2. deployments'[i].status = IF i \in S THEN st ELSE deployments[i].status
    BY <1>1, <1>4, <2>1, EndedRows
  <2> QED
    BY <1>1, <2>2
<1>5. ASSUME NEW r \in Callers, MegaRecord(r) \/ BootRegister(r) PROVE FALSE
  BY <1>2, <1>3, <1>5 DEF MegaRecord, BootRegister
<1>6. ASSUME NEW r \in Callers, CullMark(r) PROVE FALSE
  BY <1>4, <1>6 DEF CullMark
<1>7. ASSUME NEW by, NEW S, Completes(by, S) PROVE FALSE
  BY <1>4, <1>7 DEF Completes
<1>8. ASSUME NEW r \in Callers, StatusMark(r) PROVE i \in caller[r].rows /\ Absent(r, i)
  <2> DEFINE S == {j \in RowsRead(r) : Absent(r, j)} \cap Running
  <2>1. deployments' = Ended(S, "failed") /\ "failed" \in RowStatuses
    BY <1>8 DEF StatusMark, RowStatuses
  <2> HIDE DEF S
  <2>2. deployments'[i].status = IF i \in S THEN "failed" ELSE deployments[i].status
    BY <1>1, <2>1, EndedRows
  <2>3. i \in S
    BY <1>1, <2>2
  <2> QED
    BY <2>3 DEF S, RowsRead
<1>9. ASSUME NEW r \in Callers, CullNext(r) PROVE i \in caller[r].rows /\ Absent(r, i) /\ caller'[r] # caller[r]
  <2>1. PICK j \in caller[r].rows :
          /\ Absent(r, j) /\ deployments' = Ended({j}, "failed")
          /\ caller' = [caller EXCEPT ![r].at = "cull", ![r].rows = @ \ {j}, ![r].busy = {j}]
    BY <1>2, <1>9 DEF CullNext
  <2> DEFINE S == {j}
  <2>2. deployments' = Ended(S, "failed") /\ "failed" \in RowStatuses
    BY <2>1 DEF RowStatuses
  <2>3. i = j
    <3> HIDE DEF S
    <3>1. deployments'[i].status = IF i \in S THEN "failed" ELSE deployments[i].status
      BY <1>1, <2>2, EndedRows
    <3>2. i \in S
      BY <1>1, <3>1
    <3> QED
      BY <3>2 DEF S
  <2>4. caller'[r].rows = caller[r].rows \ {j}
    BY <2>1 DEF DeployInv, CallTypes, Call
  <2> QED
    BY <2>1, <2>3, <2>4
<1>10. ASSUME NEW l, NEW w, Unite(l, w) PROVE FALSE
  <2>1. deployments'[i] = IF deployments[i].repo = l THEN [deployments[i] EXCEPT !.repo = w] ELSE deployments[i]
    BY <1>1, <1>10 DEF Unite
  <2>2. deployments[i] \in AgentRow
    BY <1>1, ElementOfSeq DEF AgentRowTypes, DeployIds
  <2>3. [deployments[i] EXCEPT !.repo = w].status = deployments[i].status
    BY <2>2 DEF AgentRow
  <2> QED
    BY <1>1, <2>1, <2>3
<1>11. ASSUME Finished \/ (\E t \in Tasks : Complete(t)) \/ (\E by \in Ingesters : CullUneof(by)) PROVE FALSE
  BY <1>7, <1>11 DEF Finished, Complete, CullUneof
<1>12. ASSUME NEW r \in Callers, MegaRead(r) \/ MegaList(r) \/ MegaLaunch(r) \/ MegaUndo(r) \/ Boot(r)
                                 \/ StatusRead(r) \/ StatusList(r) \/ CullRead(r) \/ CullList(r)
       PROVE  FALSE
  BY <1>2, <1>12 DEF MegaRead, MegaList, MegaLaunch, MegaUndo, Boot, StatusRead, StatusList, CullRead, CullList, Starts, Lists
<1>13. ASSUME \/ OnceExits \/ ServerDies \/ NextSecond
              \/ \E t \in Tasks, status \in TaskStatuses : MoveTask(t, status)
              \/ \E by \in Ingesters : PassDies(by) \/ \E q \in Repos : Signal(by, q)
              \/ \E k \in kills : KillWindow(k)
              \/ \E a \in 1..agents : Leaves(a)
              \/ UNCHANGED deployVars
       PROVE  FALSE
  BY <1>2, <1>13 DEF OnceExits, ServerDies, NextSecond, MoveTask, PassDies, Signal, KillWindow, Leaves, deployVars
<1> QED
  BY <1>5, <1>6, <1>8, <1>9, <1>10, <1>11, <1>12, <1>13 DEF DeployNext

(* Neither asking for the state of agents nor culling records as failed one *)
(* that is at work in a window, unless the listing of tmux failed.          *)
THEOREM LivingSpared == DeploySpec => SparesLiving
<1> DEFINE Spares == \A i \in Running :
             (deployments'[i].status = "failed" /\ \E w \in tmux : w.agent = deployments[i].agent)
                => \E r \in Callers : caller'[r] # caller[r] /\ (At(r, "pick") \/ caller[r].blind)
<1>1. DeployInv /\ [DeployNext]_deployVars => Spares
  <2> SUFFICES ASSUME DeployInv, [DeployNext]_deployVars, NEW i \in Running, deployments'[i].status = "failed",
                      NEW w \in tmux, w.agent = deployments[i].agent
               PROVE  \E r \in Callers : caller'[r] # caller[r] /\ (At(r, "pick") \/ caller[r].blind)
    OBVIOUS
  <2>1. PICK r \in Callers :
          \/ MegaPick(r)
          \/ StatusMark(r) /\ i \in caller[r].rows /\ Absent(r, i)
          \/ CullNext(r) /\ i \in caller[r].rows /\ caller'[r] # caller[r] /\ Absent(r, i)
    BY WhoFails
  <2>2. w.session = deployments[i].session
    BY DEF DeployInv, AgentInv, Running
  <2>3. Absent(r, i) => w.session \notin caller[r].live
    BY <2>2 DEF Absent
  <2>4. (Judging(r) /\ ~caller[r].blind /\ i \in caller[r].rows) => w.session \in caller[r].live
    BY DEF DeployInv, JudgeInv
  <2>5. CASE MegaPick(r)
    <3>1. caller[r] \in Call /\ caller[r].at = "pick"
      BY <2>5 DEF MegaPick, At, DeployInv, CallTypes
    <3>2. caller'[r].at = "launch"
      BY <2>5, <3>1 DEF MegaPick, DeployInv, CallTypes, Call
    <3>3. caller'[r] # caller[r]
      BY <3>1, <3>2
    <3> QED
      BY <3>1, <3>3 DEF At
  <2>6. CASE StatusMark(r) /\ i \in caller[r].rows /\ Absent(r, i)
    <3>1. caller[r].at = "statusMark" /\ Judging(r)
      BY <2>6 DEF StatusMark, At, Judging
    <3>2. caller[r].blind
      BY <2>3, <2>4, <2>6, <3>1 DEF DeployInv, CallTypes, Call
    <3>3. caller'[r].at = "idle"
      BY <2>6, CallEnds DEF StatusMark, DeployInv
    <3>4. caller'[r] # caller[r]
      BY <3>1, <3>3
    <3> QED
      BY <3>2, <3>4
  <2>7. CASE CullNext(r) /\ i \in caller[r].rows /\ caller'[r] # caller[r] /\ Absent(r, i)
    <3>1. Judging(r)
      BY <2>7 DEF CullNext, At, Judging
    <3> QED
      BY <2>3, <2>4, <2>7, <3>1 DEF DeployInv, CallTypes, Call
  <2> QED
    BY <2>1, <2>5, <2>6, <2>7
<1> QED
  BY <1>1, DeployInductive, PTL DEF DeploySpec, SparesLiving
==================================================================================
