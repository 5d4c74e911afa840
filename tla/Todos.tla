---------------------------------- MODULE Todos ----------------------------------
(***************************************************************************)
(* The todos of one project: how ingestion builds them from transcripts,   *)
(* and how the board, the triage calls and closing a session change them   *)
(* meanwhile.                                                              *)
(*                                                                         *)
(*   - extractTodosFromEntry and upsertTodo, packages/core/db/ingest.ts,   *)
(*     in the worker, one transcript entry at a time and in order (that    *)
(*     each is applied once and in order is IngestTail's subject);         *)
(*   - POST, PATCH and DELETE /api/todos, PATCH /api/todos/bulk, POST      *)
(*     /api/triage and PATCH /api/sessions/close, in the web server;       *)
(*   - packages/core/db/triage.ts: the file of triage decisions that the   *)
(*     web server appends to and the worker reads through a cache, kept    *)
(*     when the database is deleted and built anew;                        *)
(*   - packages/core/db/session-close.ts.                                  *)
(*                                                                         *)
(* A request changes the database in one transaction and appends to the    *)
(* triage file afterwards; another process may come, or the web server     *)
(* may die, between the two.  DELETE awaits an import in between, so that  *)
(* other requests may come as well.                                        *)
(***************************************************************************)
EXTENDS Integers, Sequences, SequencesExt, FiniteSets, FiniteSetsExt

CONSTANTS
    Sessions,       \* sessions of the project
    NoSession,      \* a todo of the board without a session
    Texts,          \* todo contents
    NoText,         \* a tool result that does not name its subject
    Transcripts,    \* what the sessions may say about todos
    Posts,          \* the todos that a request may post
    Injections,     \* the todos that a request may inject into a session
    MaxBoard,       \* bound: requests to the web server
    MaxDeaths,      \* bound: deaths of the web server
    MaxRebuilds,    \* bound: times the database is deleted and built anew
    MaxEvents       \* bound: all three together

Open      == {"pending", "in_progress"}
Terminal  == {"completed", "obsolete", "deleted"}
Statuses  == Open \cup Terminal

\* What a transcript says: TaskCreate, its result "Task #num created: text",
\* TaskUpdate, one item of TodoWrite or of a todos snapshot, one task of a
\* task list in a tool result, the system message that ends a session, and a
\* line that does not parse.
Ops   == {"create", "created", "update", "write", "list", "end", "torn"}
\* A todo always has a text, if an empty one; 0 is no number.
Entry == {e \in [op : Ops, text : Texts \cup {NoText}, num : Nat, to : Statuses \cup {"none"}] :
             /\ e.op \in {"create", "write", "list"} => e.text \in Texts
             /\ e.op \in {"created", "update"} => e.num # 0}

\* How many of the first i entries are of this kind.
CountTo(entries, op, i) == Cardinality({j \in 1..i : entries[j].op = op})

\* "Results arrive in the order their calls were made", each under a number
\* that the session has not used, and name no subject or that of their call.
\* After a TodoWrite or a torn line anything may follow.
Answered(entries) ==
    \A i \in 1..Len(entries) :
        entries[i].op = "created" /\ (\A j \in 1..i : entries[j].op \notin {"write", "torn"}) =>
            /\ \A j \in 1..i - 1 : entries[j].op \in {"created", "update"} => entries[j].num # entries[i].num
            /\ \E c \in 1..i - 1 : /\ entries[c].op = "create"
                                  /\ CountTo(entries, "create", c) = CountTo(entries, "created", i)
                                  /\ entries[i].text \in {NoText, entries[c].text}

ASSUME SessionAssumption == NoSession \notin Sessions
ASSUME TextAssumption    == NoText \notin Texts
ASSUME TranscriptAssumption == Transcripts \subseteq [Sessions -> Seq(Entry)]
ASSUME AnswerAssumption == \A said \in Transcripts : \A s \in Sessions : Answered(said[s])
ASSUME PostAssumption == Posts \subseteq [session : Sessions \cup {NoSession}, text : Texts, to : Open]
ASSUME InjectionAssumption == Injections \subseteq [session : Sessions, text : Texts, to : Statuses]
ASSUME BoundAssumption   ==
    MaxBoard \in Nat /\ MaxDeaths \in Nat /\ MaxRebuilds \in Nat /\ MaxEvents \in Nat

VARIABLES
    transcript,     \* what the sessions say
    pos,            \* entries of each session that are ingested
    closed,         \* sessions.status = 'closed'
    todos,          \* the todos table, by id
    triage,         \* triage.jsonl
    owed,           \* decisions committed and not yet appended to it, by request
    cache,          \* the worker's copy of it, or NoCache
    board, deaths, rebuilds,    \* bounded events so far
    spare,          \* history: sessions with a TaskCreate that made no row, with a torn
                    \* line, with a todo whose text was edited before it had its number,
                    \* or with one that a request posted as theirs
    outlived        \* history: the triage file when the database was rebuilt

input == transcript
web   == <<owed, board, deaths>>
vars  == <<transcript, pos, closed, todos, triage, owed, cache, board, deaths,
           rebuilds, spare, outlived>>

NoCache == [none |-> TRUE]
Cached(set) == [none |-> FALSE, texts |-> set]

Ids == 1..Len(todos)

Room == board + deaths + rebuilds < MaxEvents

\* A row: `own` says that its source is 'claude' and it has a session (without
\* one no entry finds it); `logged` is the last new_status of its todo_events,
\* or "none".  History: `patched`, its status was
\* set without an event since; `touched`, the web server ever set it; `edited`,
\* its text is not the transcript's.
Row(s, text, num, own, status) ==
    [session |-> s, text |-> text, num |-> num, own |-> own, status |-> status,
     logged |-> status, patched |-> FALSE, touched |-> FALSE, edited |-> FALSE]

\* A new status, with its todo_events row.
Logged(row, status) == [row EXCEPT !.status = status, !.logged = status, !.patched = FALSE]

\* The same, by a request.
ByHand(row, status) == [Logged(row, status) EXCEPT !.touched = TRUE]

\* SELECT ... .get(): the first row in id order.
Oldest(rows) == Min(rows)

-------------------------------------------------------------------------------
(* packages/core/db/ingest.ts, in the worker *)

\* Mutant: the triage file is not consulted.
SeenNothing == {}

\* loadTriageSet(): a copy at most five seconds old.
Seen == IF cache = NoCache THEN triage ELSE cache.texts

\* Mutant: a terminal status is not sticky.
MaySetAny(row, status) == row.status # status

\* existing.status !== todo.status && !TERMINAL_STATUSES.includes(existing.status)
MaySet(row, status) == row.status # status /\ row.status \notin Terminal

\* By project, external id and source; or by session, content and source.
Matching(s, text, num) ==
    IF num # 0 THEN {t \in Ids : todos[t].own /\ todos[t].num = num}
    ELSE {t \in Ids : todos[t].own /\ todos[t].session = s /\ todos[t].text = text}

Upserted(s, text, num, status) ==
    LET found == Matching(s, text, num)
        t     == Oldest(found)
    IN  IF text \in Seen THEN todos
        ELSE IF found = {} THEN Append(todos, Row(s, text, num, TRUE, status))
        ELSE IF MaySet(todos[t], status) THEN [todos EXCEPT ![t] = Logged(@, status)]
        ELSE todos

\* Mutant: the newest unnumbered todo takes the number.
NumberTakerNewest(s, text) ==
    LET unnumbered == {t \in Ids : todos[t].own /\ todos[t].session = s /\ todos[t].num = 0}
    IN  IF unnumbered = {} THEN {} ELSE {Max(unnumbered)}

\* The oldest unnumbered todo of the session with this text, or with any text.
NumberTaker(s, text) ==
    LET unnumbered == {t \in Ids : todos[t].own /\ todos[t].session = s /\ todos[t].num = 0}
        named      == {t \in unnumbered : todos[t].text = text}
    IN  IF named # {} THEN {Oldest(named)}
        ELSE IF unnumbered # {} THEN {Oldest(unnumbered)} ELSE {}

Numbered(s, text, num) ==
    [t \in Ids |-> IF t \in NumberTaker(s, text) THEN [todos[t] EXCEPT !.num = num] ELSE todos[t]]

\* Mutant: a deleted task is left as it is.
UpdateToSame(status) == status

\* block.input.status === 'deleted' ? 'completed' : block.input.status
UpdateTo(status) == IF status = "deleted" THEN "completed" ELSE status

\* The todo of the project with this number, whatever its session and status.
Updated(num, status) ==
    LET found == {t \in Ids : todos[t].own /\ todos[t].num = num}
        t     == Oldest(found)
    IN  IF status = "none" \/ found = {} \/ todos[t].status = status THEN todos
        ELSE [todos EXCEPT ![t] = Logged(@, UpdateTo(status))]

\* Mutant: a status that is not given is stored as it is.
GivenAsIs(status) == status

\* todo.status ?? 'pending'
Given(status) == IF status = "none" THEN "pending" ELSE status

\* extractTodosFromEntry; a closed session's entries change nothing.
Extracted(s, e) ==
    IF closed[s] THEN todos
    ELSE CASE e.op = "create"  -> Upserted(s, e.text, 0, "pending")
           [] e.op = "write"   -> Upserted(s, e.text, 0, Given(e.to))
           [] e.op = "list"    -> Upserted(s, e.text, e.num, Given(e.to))
           [] e.op = "created" -> Numbered(s, e.text, e.num)
           [] e.op = "update"  -> Updated(e.num, e.to)
           [] e.op \in {"end", "torn"} -> todos

\* The worker applies the next entry of a session.
ReadEntry(s) ==
    LET e == transcript[s][pos[s] + 1]
    IN  /\ pos[s] < Len(transcript[s])
        /\ pos' = [pos EXCEPT ![s] = @ + 1]
        /\ todos' = Extracted(s, e)
        /\ closed' = [closed EXCEPT ![s] = @ \/ e.op = "end"]
        /\ cache' = IF ~closed[s] /\ e.op \in {"create", "write", "list"}
                    THEN Cached(Seen) ELSE cache
        /\ spare' = IF e.op = "torn" \/ (e.op = "create" /\ Len(todos') = Len(todos)) THEN spare \cup {s} ELSE spare
        /\ UNCHANGED <<input, triage, web, rebuilds, outlived>>

\* Date.now() - _cacheTime >= 5000
CacheExpires ==
    /\ cache # NoCache
    /\ cache' = NoCache
    /\ UNCHANGED <<input, pos, closed, todos, triage, web, rebuilds, spare, outlived>>

-------------------------------------------------------------------------------
(* The web server.  A request runs to its end before the next one begins,  *)
(* except for a DELETE that awaits its import.                             *)

\* The decisions of one request on these todos.
Batch(some, awaits) == [texts |-> {todos[t].text : t \in some}, awaits |-> awaits]

Begins ==
    /\ \A o \in owed : o.awaits
    /\ board < MaxBoard /\ Room
    /\ board' = board + 1
    /\ UNCHANGED <<pos, cache, triage, rebuilds, outlived>>

Request == Begins /\ UNCHANGED <<input, deaths, spare>>

\* POST /api/todos: the source is what the request says, or 'manual'.
PostTodo ==
    /\ Begins
    /\ \E p \in Posts : \E own \in {FALSE, p.session # NoSession} :
         /\ todos' = Append(todos, [Row(p.session, p.text, 0, own, p.to) EXCEPT !.touched = TRUE])
         /\ spare' = IF own THEN spare \cup {p.session} ELSE spare
    /\ UNCHANGED <<input, deaths, closed, owed>>

\* PATCH /api/todos: no todo_events row.
PatchTodo ==
    /\ Request
    /\ \E t \in Ids, status \in Statuses :
         /\ todos' = [todos EXCEPT ![t].status = status, ![t].patched = TRUE, ![t].touched = TRUE]
         /\ owed' = IF status \in Terminal THEN owed \cup {Batch({t}, FALSE)} ELSE owed
    /\ UNCHANGED closed

\* The same with a text: the row keeps its number and its session.
EditTodo ==
    /\ Begins
    /\ \E t \in Ids : \E text \in Texts \ {todos[t].text} :
         /\ todos' = [todos EXCEPT ![t].text = text, ![t].edited = TRUE]
         /\ spare' = IF todos[t].own /\ todos[t].num = 0 THEN spare \cup {todos[t].session} ELSE spare
    /\ UNCHANGED <<input, deaths, closed, owed>>

\* extractAndCreateTodos, when a nudge agent ends: source 'nudge', no event.
NudgeTodo ==
    /\ Request
    /\ \E text \in Texts :
           todos' = Append(todos, [Row(NoSession, text, 0, FALSE, "pending") EXCEPT
                                      !.logged = "none", !.patched = TRUE, !.touched = TRUE])
    /\ UNCHANGED <<closed, owed>>

TodoWrite(text, status) == [op |-> "write", text |-> text, num |-> 0, to |-> status]
TornLine == [op |-> "torn", text |-> NoText, num |-> 0, to |-> "none"]

\* What the file holds when `k` entries were written before the injection.  It
\* does not end its line: when the harness goes on before the worker has read
\* it, the harness's next entry is joined to it and parses no more.
Injected(entries, k, e, joined) ==
    LET longer == InsertAt(entries, k + 1, e)
    IN  IF joined /\ k < Len(entries) THEN [longer EXCEPT ![k + 2] = TornLine] ELSE longer

\* POST /api/sessions/[sessionId]/inject: a TodoWrite is appended to the file,
\* then its todo is inserted as manual, unless the web server dies between.
InjectTodo ==
    /\ Begins
    /\ \E i \in Injections, joined \in BOOLEAN : LET s == i.session IN
         /\ \E k \in pos[s]..Len(transcript[s]) :
               transcript' = [transcript EXCEPT ![s] = Injected(@, k, TodoWrite(i.text, i.to), joined)]
         /\ \/ /\ todos' = Append(todos, [Row(s, i.text, 0, FALSE, i.to) EXCEPT !.touched = TRUE])
               /\ UNCHANGED deaths
            \/ /\ deaths < MaxDeaths /\ board + rebuilds + deaths + 1 < MaxEvents /\ deaths' = deaths + 1
               /\ UNCHANGED todos
    /\ UNCHANGED <<closed, owed, spare>>

\* Mutant: the event is written only when a todo is closed.
BulkSetQuietly(row, status) ==
    IF status \in Terminal THEN ByHand(row, status) ELSE [row EXCEPT !.status = status, !.touched = TRUE]

\* One todo of PATCH /api/todos/bulk.
BulkSet(row, status) ==
    IF row.status # status THEN ByHand(row, status) ELSE [row EXCEPT !.touched = TRUE]

\* PATCH /api/todos/bulk
PatchBulk ==
    /\ Request
    /\ \E some \in SUBSET Ids \ {{}}, status \in Statuses :
         /\ todos' = [t \in Ids |-> IF t \in some THEN BulkSet(todos[t], status) ELSE todos[t]]
         /\ owed' = IF status \in Terminal THEN owed \cup {Batch(some, FALSE)} ELSE owed
    /\ UNCHANGED closed

\* DELETE /api/todos
DeleteTodos ==
    /\ Request
    /\ \E some \in SUBSET Ids \ {{}} :
         /\ todos' = [t \in Ids |-> IF t \in some THEN ByHand(todos[t], "deleted") ELSE todos[t]]
         /\ owed' = owed \cup {Batch(some, TRUE)}
    /\ UNCHANGED closed

\* POST /api/triage, obsolete_todos: nothing goes to the triage file.
ObsoleteTodos ==
    /\ Request
    /\ \E some \in SUBSET Ids \ {{}} :
           todos' = [t \in Ids |->
               IF t \in some /\ todos[t].status \notin {"completed", "obsolete"}
               THEN ByHand(todos[t], "obsolete") ELSE todos[t]]
    /\ UNCHANGED <<closed, owed>>

\* The todos a session leaves open.
LeftOpen(s) == {t \in Ids : todos[t].session = s /\ todos[t].status \in Open}

\* closeSessions, from PATCH /api/sessions/close or POST /api/triage: one
\* transaction, with the cascade or, on demand, without it.
CloseSessions ==
    /\ Request
    /\ \E some \in SUBSET Sessions \ {{}}, cascade \in BOOLEAN :
         /\ closed' = [s \in Sessions |-> closed[s] \/ s \in some]
         /\ todos' = [t \in Ids |->
                IF cascade /\ t \in UNION {LeftOpen(s) : s \in some}
                THEN ByHand(todos[t], "obsolete") ELSE todos[t]]
    /\ UNCHANGED owed

\* recordTriage, recordTriageBatch
RecordTriage ==
    /\ \E o \in owed :
         /\ o.awaits => \A p \in owed : p.awaits
         /\ triage' = triage \cup o.texts
         /\ owed' = owed \ {o}
    /\ UNCHANGED <<input, pos, closed, todos, cache, board, deaths, rebuilds, spare, outlived>>

\* The web server dies, or an append fails, after the transaction.
WebDies ==
    /\ owed # {} /\ deaths < MaxDeaths /\ Room
    /\ deaths' = deaths + 1
    /\ \/ owed' = {}
       \/ \E o \in owed : owed' = owed \ {o}
    /\ UNCHANGED <<input, pos, closed, todos, triage, cache, board, rebuilds, spare, outlived>>

\* The database is deleted, the processes are restarted, and every session
\* file is read from its start.
Rebuild ==
    /\ owed = {}
    /\ rebuilds < MaxRebuilds /\ Room
    /\ rebuilds' = rebuilds + 1
    /\ todos' = <<>>
    /\ pos' = [s \in Sessions |-> 0]
    /\ closed' = [s \in Sessions |-> FALSE]
    /\ cache' = NoCache
    /\ spare' = {}
    /\ outlived' = triage
    /\ UNCHANGED <<input, triage, web>>

-------------------------------------------------------------------------------
Init ==
    /\ transcript \in Transcripts
    /\ pos = [s \in Sessions |-> 0]
    /\ closed = [s \in Sessions |-> FALSE]
    /\ todos = <<>>
    /\ triage = {}
    /\ owed = {}
    /\ cache = NoCache
    /\ board = 0 /\ deaths = 0 /\ rebuilds = 0
    /\ spare = {}
    /\ outlived = {}

Next ==
    \/ \E s \in Sessions : ReadEntry(s)
    \/ CacheExpires
    \/ PostTodo
    \/ PatchTodo
    \/ EditTodo
    \/ NudgeTodo
    \/ InjectTodo
    \/ PatchBulk
    \/ DeleteTodos
    \/ ObsoleteTodos
    \/ CloseSessions
    \/ RecordTriage
    \/ WebDies
    \/ Rebuild

Spec == Init /\ [][Next]_vars

-------------------------------------------------------------------------------
Todo == [session : Sessions \cup {NoSession}, text : Texts, num : Nat, own : BOOLEAN,
         status : Statuses, logged : Statuses \cup {"none"},
         patched : BOOLEAN, touched : BOOLEAN, edited : BOOLEAN]

TypeOK ==
    /\ transcript \in [Sessions -> Seq(Entry)]
    /\ pos \in [Sessions -> Nat] /\ \A s \in Sessions : pos[s] <= Len(transcript[s])
    /\ closed \in [Sessions -> BOOLEAN]
    /\ todos \in Seq(Todo)
    /\ triage \subseteq Texts /\ outlived \subseteq triage
    /\ owed \subseteq [texts : SUBSET Texts, awaits : BOOLEAN]
    /\ cache = NoCache \/ (cache.none = FALSE /\ cache.texts \subseteq triage)
    /\ board \in 0..MaxBoard /\ deaths \in 0..MaxDeaths /\ rebuilds \in 0..MaxRebuilds
    /\ spare \subseteq Sessions

\* The entries of s read so far that have one of these kinds.
Said(s, ops) == {i \in 1..pos[s] : transcript[s][i].op \in ops}

\* The n-th of a set of positions.
Nth(set, n) == CHOOSE i \in set : Cardinality({j \in set : j <= i}) = n

\* The subject of the TaskCreate that the result at i answers: results arrive
\* in the order of their calls.
TaskOf(s, i) ==
    LET n == Cardinality({j \in Said(s, {"created"}) : j <= i})
    IN  transcript[s][Nth(Said(s, {"create"}), n)].text

\* The session's unnumbered items, of TodoWrite or of a task list, that may
\* take the number of a task.
Numberless(s) == Said(s, {"write"}) \cup {i \in Said(s, {"list"}) : transcript[s][i].num = 0}

\* A number always lands on the todo whose TaskCreate it answers, also when
\* several calls are answered together, when results do not name their
\* subject and while the board changes the rows, in a session each of whose
\* TaskCreates made a row of its own, whose waiting todos keep their texts,
\* for which no request posted a todo as the session's own and that has no
\* item without a number, injected or not.  (A TaskCreate
\* that is skipped as triaged, or falls together with an earlier one, leaves
\* its number to another todo; of two waiting todos whose texts were edited,
\* one may be found by the other's subject.)
NumberNamesItsTask ==
    \A t \in Ids : LET s == todos[t].session IN
        todos[t].own /\ todos[t].num # 0 /\ ~todos[t].edited /\ s \notin spare /\ Numberless(s) = {} =>
            \/ \E i \in Said(s, {"created"}) :
                   transcript[s][i].num = todos[t].num /\ TaskOf(s, i) = todos[t].text
            \/ \E i \in Said(s, {"list"}) :
                   transcript[s][i].num = todos[t].num /\ transcript[s][i].text = todos[t].text

\* What the session last said about its task n; a deleted task is done with.
LastTold(s, n) ==
    LET updates == {i \in Said(s, {"update"}) : transcript[s][i].num = n /\ transcript[s][i].to # "none"}
        last    == transcript[s][Max(updates)].to
    IN  IF updates = {} THEN "pending" ELSE IF last = "deleted" THEN "completed" ELSE last

\* No other session has spoken of a task n.
OnlyHere(s, n) ==
    \A r \in Sessions \ {s} : \A i \in Said(r, {"created", "update", "list"}) :
        transcript[r][i].num # n

\* The table follows the transcript: a numbered task has a row, and that row
\* has the status its session last reported, whatever the board, other
\* sessions and the triage file did in between, unless the board set that row
\* itself, the session was closed or uses TodoWrite or task lists as well, a
\* TaskCreate made no row, a todo was edited before it had its number or
\* posted as the session's own, or another session uses the same number.
MirrorsTranscript ==
    \A s \in Sessions \ spare : ~closed[s] /\ Said(s, {"write", "list"}) = {} =>
        \A i \in Said(s, {"created"}) : LET n == transcript[s][i].num IN
            OnlyHere(s, n) =>
                \E t \in Ids :
                    /\ todos[t].own /\ todos[t].session = s /\ todos[t].num = n
                    /\ todos[t].text = TaskOf(s, i) \/ todos[t].edited
                    /\ todos[t].touched \/ todos[t].status = LastTold(s, n)

\* todo_events accounts for every status in the table: the last event of a
\* todo leads to the status it has, except after PATCH /api/todos or when an
\* agent made it.
TrailFollows == \A t \in Ids : todos[t].status = todos[t].logged \/ todos[t].patched

\* What the triage file held when the database was lost is not ingested
\* again, whatever the age of the worker's copy of the file; a request may
\* post it again, or change a text to it.
DecisionsOutliveDatabase ==
    \A t \in Ids : todos[t].own /\ ~todos[t].edited /\ ~todos[t].touched => todos[t].text \notin outlived

\* Some terminal todo is open again after this step.
Reopens == \E t \in Ids : /\ todos[t].status \in Terminal
                          /\ t \in 1..Len(todos') /\ todos'[t].status \in Open

\* The session whose next entry this step reads says this.
Reads(ops) == \E s \in Sessions :
    pos'[s] = pos[s] + 1 /\ transcript[s][pos'[s]].op \in ops

\* A todo that was closed, by hand or by its transcript, is never opened by
\* a TaskCreate, TodoWrite, a task list or a result that is read later.
SnapshotsNeverReopen == [][Reopens => board' > board \/ Reads({"update"})]_vars

-------------------------------------------------------------------------------
(* What the documents promise and the code does not keep *)

\* upsertTodo: "Terminal statuses are sticky - ingest can never reopen a
\* closed todo".  TaskUpdate does not go through upsertTodo.
TerminalIsSticky == [][Reopens => board' > board]_vars

\* extractTodosFromEntry: "every later TaskUpdate names a todo by it", and
\* the schema: "external_id TEXT, -- TaskCreate ID within session".  The todo
\* is looked up in the whole project, where each session has its own task 1.
UpdateStaysInSession ==
    [][\A s \in Sessions : Reads({"update"}) /\ pos'[s] = pos[s] + 1 =>
           \A t \in Ids : todos'[t] # todos[t] => todos[t].session = s]_vars
===============================================================================
