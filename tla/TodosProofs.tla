------------------------------- MODULE TodosProofs -------------------------------
(***************************************************************************)
(* What a todo keeps, however transcripts, requests, the triage file and   *)
(* new databases mix, for every number of sessions, texts and entries.     *)
(***************************************************************************)
EXTENDS Todos, SequenceTheorems, FiniteSetTheorems, WellFoundedInduction, TLAPS

(* A row's last event leads to its status, unless one set it without; and   *)
(* the worker's rows are not of what the last database's triage decided.    *)
GoodRow(row) ==
    /\ row \in Todo
    /\ row.status = row.logged \/ row.patched
    /\ row.own /\ ~row.edited /\ ~row.touched => row.text \notin outlived
    /\ row.own => row.session \in Sessions

TodosRowsInv == todos \in Seq(Todo) /\ \A t \in Ids : GoodRow(todos[t])

(* The worker's copy of the triage file is not older than the database. *)
CacheInv ==
    /\ triage \subseteq Texts /\ outlived \subseteq triage
    /\ owed \subseteq [texts : SUBSET Texts, awaits : BOOLEAN]
    /\ \/ cache = NoCache
       \/ \E texts \in SUBSET triage : cache = Cached(texts) /\ outlived \subseteq texts

InputInv ==
    /\ transcript \in [Sessions -> Seq(Entry)]
    /\ pos \in [Sessions -> Nat] /\ \A s \in Sessions : pos[s] <= Len(transcript[s])
    /\ closed \in [Sessions -> BOOLEAN]
    /\ board \in 0..MaxBoard /\ deaths \in 0..MaxDeaths /\ rebuilds \in 0..MaxRebuilds
    /\ spare \subseteq Sessions

TodosInv == InputInv /\ CacheInv /\ TodosRowsInv
-------------------------------------------------------------------------------
(* Rows *)

LEMMA NewTodo ==
    ASSUME NEW s \in Sessions \cup {NoSession}, NEW text \in Texts, NEW num \in Nat, NEW own \in BOOLEAN,
           NEW status \in Statuses, own => s \in Sessions
    PROVE  /\ (own => text \notin outlived) => GoodRow(Row(s, text, num, own, status))
           /\ GoodRow([Row(s, text, num, own, status) EXCEPT !.touched = TRUE])
BY DEF GoodRow, Row, Todo

LEMMA ChangedRow ==
    ASSUME NEW row, GoodRow(row), NEW status \in Statuses
    PROVE  /\ GoodRow(Logged(row, status)) /\ Logged(row, status).text = row.text
           /\ GoodRow(ByHand(row, status)) /\ ByHand(row, status).text = row.text
           /\ GoodRow(BulkSet(row, status))
<1>1. row \in Todo
  BY DEF GoodRow
<1>2. Logged(row, status) \in Todo /\ ByHand(row, status) \in Todo /\ [row EXCEPT !.touched = TRUE] \in Todo
  BY <1>1 DEF Logged, ByHand, Todo
<1>3. GoodRow(Logged(row, status)) /\ GoodRow(ByHand(row, status)) /\ GoodRow([row EXCEPT !.touched = TRUE])
  BY <1>1, <1>2 DEF GoodRow, Logged, ByHand, Todo
<1> QED
  BY <1>1, <1>3 DEF Logged, ByHand, Todo, BulkSet

(* Rows are changed in place, or one is added. *)
LEMMA RowsChange ==
    ASSUME TodosRowsInv, DOMAIN todos' = Ids, todos' = [t \in DOMAIN todos' |-> todos'[t]], outlived' = outlived,
           \A t \in Ids : GoodRow(todos'[t])
    PROVE  TodosRowsInv'
<1>1. Len(todos) \in Nat /\ \A t \in Ids : todos'[t] \in Todo
  BY DEF TodosRowsInv, GoodRow
<1>2. todos' \in Seq(Todo) /\ Len(todos') = Len(todos)
  BY <1>1 DEF Ids
<1> QED
  BY <1>2 DEF TodosRowsInv, Ids, GoodRow

LEMMA RowAdded ==
    ASSUME TodosRowsInv, NEW row, todos' = Append(todos, row), outlived' = outlived, GoodRow(row)
    PROVE  TodosRowsInv'
<1>1. row \in Todo /\ todos \in Seq(Todo)
  BY DEF TodosRowsInv, GoodRow
<1>2. todos' \in Seq(Todo) /\ Len(todos') = Len(todos) + 1 /\ Len(todos) \in Nat
  BY <1>1
<1>3. \A t \in 1..Len(todos') : todos'[t] = IF t = Len(todos) + 1 THEN row ELSE todos[t]
  BY <1>1, <1>2
<1>4. \A t \in 1..Len(todos') : GoodRow(todos'[t])
  BY <1>2, <1>3 DEF TodosRowsInv, Ids
<1> QED
  BY <1>2, <1>4 DEF TodosRowsInv, Ids, GoodRow

LEMMA RowsStay ==
    ASSUME TodosRowsInv, UNCHANGED <<todos, outlived>>
    PROVE  TodosRowsInv'
BY DEF TodosRowsInv, Ids, GoodRow

-------------------------------------------------------------------------------
(* The worker *)

(* One entry leaves good rows; a terminal row stays terminal unless the     *)
(* entry is an update.                                                      *)
LEMMA ReadKeepsRows ==
    ASSUME TodosInv, NEW s \in Sessions, ReadEntry(s)
    PROVE  /\ TodosRowsInv'
           /\ transcript[s][pos'[s]].op # "update" =>
                \A t \in Ids : todos[t].status \in Terminal => todos'[t].status = todos[t].status
<1> DEFINE e == transcript[s][pos[s] + 1]
<1>0. TodosRowsInv /\ CacheInv /\ todos \in Seq(Todo)
  BY DEF TodosInv, TodosRowsInv
<1>1. pos'[s] = pos[s] + 1 /\ todos' = Extracted(s, e) /\ outlived' = outlived
  BY DEF ReadEntry, TodosInv, InputInv
<1>2. e \in Entry
  BY DEF ReadEntry, TodosInv, InputInv
<1> HIDE DEF e
<1>3. outlived \subseteq Seen
  BY <1>0 DEF Seen, CacheInv, Cached, NoCache
<1>4. CASE todos' = todos
  BY <1>0, <1>1, <1>4, RowsStay
<1>5. ASSUME NEW text \in Texts, NEW num \in Nat, NEW status \in Statuses, todos' = Upserted(s, text, num, status)
      PROVE  TodosRowsInv' /\ \A t \in Ids : todos[t].status \in Terminal => todos'[t].status = todos[t].status
  <2>1. CASE text \notin Seen /\ todos' = Append(todos, Row(s, text, num, TRUE, status))
    <3>1. GoodRow(Row(s, text, num, TRUE, status))
      BY <1>3, <2>1, NewTodo
    <3>2. \A t \in Ids : todos'[t] = todos[t]
      BY <1>0, <2>1 DEF Ids
    <3> QED
      BY <1>0, <1>1, <2>1, <3>1, <3>2, RowAdded
  <2>2. ASSUME NEW u, MaySet(todos[u], status), todos' = [todos EXCEPT ![u] = Logged(@, status)]
        PROVE  TodosRowsInv' /\ \A t \in Ids : todos[t].status \in Terminal => todos'[t].status = todos[t].status
    <3>1. DOMAIN todos' = Ids /\ \A t \in Ids : todos'[t] = IF t = u THEN Logged(todos[t], status) ELSE todos[t]
      BY <1>0, <2>2 DEF Ids
    <3>2. \A t \in Ids : GoodRow(todos'[t])
      BY <1>0, <3>1, ChangedRow DEF TodosRowsInv
    <3>3. todos' = [t \in DOMAIN todos' |-> todos'[t]]
      BY <1>0, <2>2
    <3> QED
      BY <1>0, <1>1, <2>2, <3>1, <3>2, <3>3, RowsChange DEF MaySet
  <2> QED
    BY <1>0, <1>1, <1>5, <2>1, <2>2, RowsStay DEF Upserted
<1>6. CASE todos' = Numbered(s, e.text, e.num)
  <2>1. /\ DOMAIN todos' = Ids /\ todos' = [t \in DOMAIN todos' |-> todos'[t]]
        /\ \A t \in Ids : todos'[t] = todos[t] \/ todos'[t] = [todos[t] EXCEPT !.num = e.num]
    BY <1>6 DEF Numbered
  <2>2. ASSUME NEW t \in Ids PROVE GoodRow(todos'[t]) /\ todos'[t].status = todos[t].status
    <3>1. GoodRow(todos[t]) /\ todos[t] \in Todo /\ e.num \in Nat
      BY <1>0, <1>2 DEF TodosRowsInv, GoodRow, Entry
    <3>2. GoodRow([todos[t] EXCEPT !.num = e.num]) /\ [todos[t] EXCEPT !.num = e.num].status = todos[t].status
      BY <3>1 DEF GoodRow, Todo
    <3> QED
      BY <2>1, <3>1, <3>2
  <2> QED
    BY <1>0, <1>1, <2>1, <2>2, RowsChange
<1>7. CASE e.op = "update" /\ todos' = Updated(e.num, e.to)
  <2>1. ASSUME NEW u, e.to # "none", todos' = [todos EXCEPT ![u] = Logged(@, UpdateTo(e.to))]
        PROVE  TodosRowsInv'
    <3>0. UpdateTo(e.to) \in Statuses
      BY <1>2, <2>1 DEF Entry, UpdateTo, Statuses, Terminal
    <3>1. DOMAIN todos' = Ids /\ \A t \in Ids : todos'[t] = IF t = u THEN Logged(todos[t], UpdateTo(e.to)) ELSE todos[t]
      BY <1>0, <2>1 DEF Ids
    <3>2. \A t \in Ids : GoodRow(todos'[t])
      BY <1>0, <3>0, <3>1, ChangedRow DEF TodosRowsInv
    <3>3. todos' = [t \in DOMAIN todos' |-> todos'[t]]
      BY <1>0, <2>1
    <3> QED
      BY <1>0, <1>1, <3>1, <3>2, <3>3, RowsChange
  <2>2. TodosRowsInv'
    BY <1>0, <1>1, <1>7, <2>1, RowsStay DEF Updated
  <2>3. transcript[s][pos'[s]].op = "update"
    BY <1>1, <1>7 DEF e
  <2> QED
    BY <2>2, <2>3
<1>8. e.op \in {"create", "write", "list"} => e.text \in Texts /\ Given(e.to) \in Statuses /\ e.num \in Nat /\ 0 \in Nat
  BY <1>2 DEF Entry, Given, Statuses, Open
<1>9. \/ todos' = todos
      \/ e.op \in {"create", "write", "list"} /\ \E num \in {0, e.num}, status \in {"pending", Given(e.to)} :
            todos' = Upserted(s, e.text, num, status)
      \/ todos' = Numbered(s, e.text, e.num)
      \/ e.op = "update" /\ todos' = Updated(e.num, e.to)
  BY <1>1, <1>2 DEF Extracted, Entry, Ops
<1>10. "pending" \in Statuses
  BY DEF Statuses, Open
<1> QED
  BY <1>4, <1>5, <1>6, <1>7, <1>8, <1>9, <1>10
-------------------------------------------------------------------------------
(* The requests *)

(* A line that is not ended joins the next one; whatever else was written    *)
(* stays, and nothing is read twice.                                        *)
LEMMA InjectedType ==
    ASSUME NEW entries \in Seq(Entry), NEW k \in 0..Len(entries), NEW e \in Entry, NEW joined \in BOOLEAN
    PROVE  Injected(entries, k, e, joined) \in Seq(Entry) /\ Len(Injected(entries, k, e, joined)) = Len(entries) + 1
<1> DEFINE longer == InsertAt(entries, k + 1, e)
<1>1. longer \in Seq(Entry) /\ Len(longer) = Len(entries) + 1
  <2>1. longer = SubSeq(entries, 1, k) \o <<e>> \o SubSeq(entries, k + 1, Len(entries))
    <3>1. (k + 1) - 1 = k
      OBVIOUS
    <3> QED
      BY <3>1 DEF InsertAt
  <2>0. Len(entries) \in Nat /\ k \in Nat /\ k <= Len(entries) /\ \A i \in 1..Len(entries) : entries[i] \in Entry
    OBVIOUS
  <2>2. SubSeq(entries, 1, k) \in Seq(Entry) /\ Len(SubSeq(entries, 1, k)) = k
    BY <2>0, SubSeqProperties
  <2>3. SubSeq(entries, k + 1, Len(entries)) \in Seq(Entry)
        /\ Len(SubSeq(entries, k + 1, Len(entries))) = Len(entries) - k
    BY <2>0, SubSeqProperties
  <2>4. <<e>> \in Seq(Entry) /\ Len(<<e>>) = 1
    OBVIOUS
  <2>5. SubSeq(entries, 1, k) \o <<e>> \in Seq(Entry) /\ Len(SubSeq(entries, 1, k) \o <<e>>) = k + 1
    BY <2>0, <2>2, <2>4, ConcatProperties
  <2>6. ASSUME NEW head \in Seq(Entry), NEW tail \in Seq(Entry), Len(head) = k + 1, Len(tail) = Len(entries) - k
        PROVE  head \o tail \in Seq(Entry) /\ Len(head \o tail) = Len(entries) + 1
    BY <2>0, <2>6, ConcatProperties
  <2>7. longer = (SubSeq(entries, 1, k) \o <<e>>) \o SubSeq(entries, k + 1, Len(entries))
    BY <2>1
  <2> HIDE DEF longer
  <2> QED
    BY <2>3, <2>5, <2>6, <2>7
<1>2. TornLine \in Entry
  BY DEF TornLine, Entry, Ops
<1> HIDE DEF longer
<1>3. k < Len(entries) => /\ [longer EXCEPT ![k + 2] = TornLine] \in Seq(Entry)
                          /\ Len([longer EXCEPT ![k + 2] = TornLine]) = Len(longer)
  BY <1>1, <1>2, ExceptSeq
<1> QED
  BY <1>1, <1>3 DEF Injected, longer

LEMMA InjectKeepsInput ==
    ASSUME TodosInv, InjectTodo
    PROVE  transcript' \in [Sessions -> Seq(Entry)] /\ \A s \in Sessions : pos'[s] <= Len(transcript'[s])
<1>0. InputInv
  BY DEF TodosInv
<1>i. PICK i \in Injections : \E joined \in BOOLEAN : \E k \in pos[i.session]..Len(transcript[i.session]) :
         transcript' = [transcript EXCEPT ![i.session] = Injected(@, k, TodoWrite(i.text, i.to), joined)]
  BY DEF InjectTodo
<1>1. PICK joined \in BOOLEAN, k \in pos[i.session]..Len(transcript[i.session]) :
         transcript' = [transcript EXCEPT ![i.session] = Injected(@, k, TodoWrite(i.text, i.to), joined)]
  BY <1>i
<1>2. i.session \in Sessions /\ TodoWrite(i.text, i.to) \in Entry
  BY InjectionAssumption DEF TodoWrite, Entry, Ops, Statuses, Open
<1>3. k \in 0..Len(transcript[i.session]) /\ transcript[i.session] \in Seq(Entry)
  BY <1>0, <1>2 DEF InputInv
<1>4. /\ Injected(transcript[i.session], k, TodoWrite(i.text, i.to), joined) \in Seq(Entry)
      /\ Len(Injected(transcript[i.session], k, TodoWrite(i.text, i.to), joined)) = Len(transcript[i.session]) + 1
  BY <1>2, <1>3, InjectedType
<1>5. pos' = pos
  BY DEF InjectTodo, Begins
<1> QED
  BY <1>0, <1>1, <1>2, <1>4, <1>5 DEF InputInv

Requests == \/ PostTodo \/ PatchTodo \/ EditTodo \/ NudgeTodo \/ InjectTodo \/ PatchBulk
            \/ DeleteTodos \/ ObsoleteTodos \/ CloseSessions

LEMMA RequestsKeepInput ==
    ASSUME TodosInv, Requests
    PROVE  InputInv' /\ board' > board
<1>0. InputInv
  BY DEF TodosInv
<1>1. /\ UNCHANGED <<pos, rebuilds>> /\ board' = board + 1 /\ board' \in 0..MaxBoard /\ board' > board
  <2>1. Begins
    BY DEF Requests, PostTodo, PatchTodo, EditTodo, NudgeTodo, InjectTodo, PatchBulk,
       DeleteTodos, ObsoleteTodos, CloseSessions, Request
  <2> QED
    BY <1>0, <2>1, BoundAssumption DEF InputInv, Begins
<1>2. transcript' \in [Sessions -> Seq(Entry)] /\ \A s \in Sessions : pos'[s] <= Len(transcript'[s])
  BY <1>0, <1>1, InjectKeepsInput DEF InputInv, input, Requests, PostTodo, PatchTodo, EditTodo, NudgeTodo, PatchBulk,
     DeleteTodos, ObsoleteTodos, CloseSessions, Request
<1>3. closed' \in [Sessions -> BOOLEAN]
  BY <1>0 DEF InputInv, Requests, PostTodo, PatchTodo, EditTodo, NudgeTodo, InjectTodo, PatchBulk,
     DeleteTodos, ObsoleteTodos, CloseSessions
<1>4. deaths' \in 0..MaxDeaths
  <2>1. deaths' = deaths \/ (deaths < MaxDeaths /\ deaths' = deaths + 1)
    BY DEF Requests, PostTodo, PatchTodo, EditTodo, NudgeTodo, InjectTodo, PatchBulk,
       DeleteTodos, ObsoleteTodos, CloseSessions, Request
  <2> QED
    BY <1>0, <2>1, BoundAssumption DEF InputInv
<1>5. spare' \subseteq Sessions
  <2>1. CASE EditTodo
    <3>1. \A t \in Ids : todos[t].own => todos[t].session \in Sessions
      BY DEF TodosInv, TodosRowsInv, GoodRow
    <3> QED
      BY <1>0, <2>1, <3>1 DEF EditTodo, InputInv
  <2>2. CASE PostTodo
    BY <1>0, <2>2, PostAssumption DEF PostTodo, InputInv
  <2>3. CASE ~EditTodo /\ ~PostTodo
    <3>1. spare' = spare
      BY <2>3 DEF Requests, PatchTodo, NudgeTodo, InjectTodo, PatchBulk, DeleteTodos, ObsoleteTodos, CloseSessions, Request
    <3> QED
      BY <1>0, <3>1 DEF InputInv
  <2> QED
    BY <2>1, <2>2, <2>3
<1> QED
  BY <1>0, <1>1, <1>2, <1>3, <1>4, <1>5 DEF InputInv

(* What a request decides on is what rows are of. *)
LEMMA RequestsKeepCache ==
    ASSUME TodosInv, Requests
    PROVE  CacheInv'
<1>0. CacheInv /\ \A t \in Ids : todos[t].text \in Texts
  BY DEF TodosInv, TodosRowsInv, GoodRow, Todo
<1>1. UNCHANGED <<triage, cache, outlived>>
  BY DEF Requests, PostTodo, PatchTodo, EditTodo, NudgeTodo, InjectTodo, PatchBulk,
     DeleteTodos, ObsoleteTodos, CloseSessions, Request, Begins
<1>2. owed' \subseteq [texts : SUBSET Texts, awaits : BOOLEAN]
  <2>1. ASSUME NEW some \in SUBSET Ids, NEW awaits \in BOOLEAN
        PROVE  Batch(some, awaits) \in [texts : SUBSET Texts, awaits : BOOLEAN]
    <3>1. {todos[t].text : t \in some} \subseteq Texts
      BY <1>0
    <3> QED
      BY <3>1 DEF Batch
  <2>2. owed' = owed \/ \E some \in SUBSET Ids, awaits \in BOOLEAN : owed' = owed \cup {Batch(some, awaits)}
    <3>1. CASE PatchTodo
      <4>1. PICK t \in Ids : owed' = owed \cup {Batch({t}, FALSE)} \/ owed' = owed
        BY <3>1 DEF PatchTodo
      <4> QED
        BY <4>1
    <3>2. CASE PatchBulk \/ DeleteTodos
      BY <3>2 DEF PatchBulk, DeleteTodos
    <3>3. CASE PostTodo \/ EditTodo \/ NudgeTodo \/ InjectTodo \/ ObsoleteTodos \/ CloseSessions
      BY <3>3 DEF PostTodo, EditTodo, NudgeTodo, InjectTodo, ObsoleteTodos, CloseSessions
    <3> QED
      BY <3>1, <3>2, <3>3 DEF Requests
  <2> QED
    BY <1>0, <2>1, <2>2 DEF CacheInv
<1> QED
  BY <1>0, <1>1, <1>2 DEF CacheInv

LEMMA RequestsKeepRows ==
    ASSUME TodosInv, Requests
    PROVE  TodosRowsInv'
<1>0. TodosRowsInv /\ todos \in Seq(Todo)
  BY DEF TodosInv, TodosRowsInv
<1>1. outlived' = outlived
  BY DEF Requests, PostTodo, PatchTodo, EditTodo, NudgeTodo, InjectTodo, PatchBulk,
     DeleteTodos, ObsoleteTodos, CloseSessions, Request, Begins
<1>2. ASSUME NEW some, NEW status \in Statuses,
             todos' = [t \in Ids |-> IF t \in some THEN ByHand(todos[t], status) ELSE todos[t]]
      PROVE  TodosRowsInv'
  <2>1. \A t \in Ids : GoodRow(todos'[t])
    BY <1>0, <1>2, ChangedRow DEF TodosRowsInv
  <2> QED
    BY <1>0, <1>1, <1>2, <2>1, RowsChange
<1>3. CASE PostTodo
  <2>1. PICK p \in Posts, own \in BOOLEAN :
           /\ todos' = Append(todos, [Row(p.session, p.text, 0, own, p.to) EXCEPT !.touched = TRUE])
           /\ own => p.session # NoSession
    BY <1>3 DEF PostTodo
  <2>2. GoodRow([Row(p.session, p.text, 0, own, p.to) EXCEPT !.touched = TRUE])
    BY <2>1, PostAssumption, NewTodo DEF Statuses
  <2> QED
    BY <1>0, <1>1, <2>1, <2>2, RowAdded
<1>4. CASE PatchTodo
  <2>1. PICK u \in Ids, status \in Statuses :
           todos' = [todos EXCEPT ![u].status = status, ![u].patched = TRUE, ![u].touched = TRUE]
    BY <1>4 DEF PatchTodo
  <2>2. GoodRow([todos[u] EXCEPT !.status = status, !.patched = TRUE, !.touched = TRUE])
    BY <1>0 DEF TodosRowsInv, GoodRow, Todo
  <2>3. todos' = [todos EXCEPT ![u] = [todos[u] EXCEPT !.status = status, !.patched = TRUE, !.touched = TRUE]]
    BY <1>0, <2>1
  <2>4. todos' = [t \in DOMAIN todos' |-> todos'[t]]
    BY <1>0, <2>3
  <2>5. DOMAIN todos' = Ids
        /\ \A t \in Ids : todos'[t] = IF t = u THEN [todos[u] EXCEPT !.status = status, !.patched = TRUE, !.touched = TRUE] ELSE todos[t]
    BY <1>0, <2>3 DEF Ids
  <2>6. \A t \in Ids : GoodRow(todos'[t])
    BY <1>0, <2>2, <2>5 DEF TodosRowsInv
  <2> QED
    BY <1>0, <1>1, <2>4, <2>5, <2>6, RowsChange
<1>5. CASE EditTodo
  <2>1. PICK u \in Ids, text \in Texts : todos' = [todos EXCEPT ![u].text = text, ![u].edited = TRUE]
    BY <1>5 DEF EditTodo
  <2>2. GoodRow([todos[u] EXCEPT !.text = text, !.edited = TRUE])
    BY <1>0 DEF TodosRowsInv, GoodRow, Todo
  <2>3. todos' = [todos EXCEPT ![u] = [todos[u] EXCEPT !.text = text, !.edited = TRUE]]
    BY <1>0, <2>1
  <2>4. todos' = [t \in DOMAIN todos' |-> todos'[t]]
    BY <1>0, <2>3
  <2>5. DOMAIN todos' = Ids
        /\ \A t \in Ids : todos'[t] = IF t = u THEN [todos[u] EXCEPT !.text = text, !.edited = TRUE] ELSE todos[t]
    BY <1>0, <2>3 DEF Ids
  <2>6. \A t \in Ids : GoodRow(todos'[t])
    BY <1>0, <2>2, <2>5 DEF TodosRowsInv
  <2> QED
    BY <1>0, <1>1, <2>4, <2>5, <2>6, RowsChange
<1>6. CASE NudgeTodo
  <2>1. PICK text \in Texts :
           todos' = Append(todos, [Row(NoSession, text, 0, FALSE, "pending") EXCEPT
                                      !.logged = "none", !.patched = TRUE, !.touched = TRUE])
    BY <1>6 DEF NudgeTodo
  <2>2. GoodRow([Row(NoSession, text, 0, FALSE, "pending") EXCEPT !.logged = "none", !.patched = TRUE, !.touched = TRUE])
    BY DEF GoodRow, Row, Todo, Statuses, Open
  <2> QED
    BY <1>0, <1>1, <2>1, <2>2, RowAdded
<1>7. CASE InjectTodo
  <2>1. PICK i \in Injections :
           \/ todos' = Append(todos, [Row(i.session, i.text, 0, FALSE, i.to) EXCEPT !.touched = TRUE])
           \/ todos' = todos
    BY <1>7 DEF InjectTodo
  <2>2. GoodRow([Row(i.session, i.text, 0, FALSE, i.to) EXCEPT !.touched = TRUE])
    BY InjectionAssumption, NewTodo
  <2> QED
    BY <1>0, <1>1, <2>1, <2>2, RowAdded, RowsStay
<1>8. CASE PatchBulk
  <2>1. PICK some \in SUBSET Ids, status \in Statuses :
           todos' = [t \in Ids |-> IF t \in some THEN BulkSet(todos[t], status) ELSE todos[t]]
    BY <1>8 DEF PatchBulk
  <2>2. \A t \in Ids : GoodRow(todos'[t])
    BY <1>0, <2>1, ChangedRow DEF TodosRowsInv
  <2> QED
    BY <1>0, <1>1, <2>1, <2>2, RowsChange
<1>9. CASE DeleteTodos
  <2>1. PICK some \in SUBSET Ids : todos' = [t \in Ids |-> IF t \in some THEN ByHand(todos[t], "deleted") ELSE todos[t]]
    BY <1>9 DEF DeleteTodos
  <2> QED
    BY <1>2, <2>1 DEF Statuses, Terminal
<1>10. CASE ObsoleteTodos
  <2>1. PICK some \in SUBSET Ids :
           todos' = [t \in Ids |-> IF t \in some /\ todos[t].status \notin {"completed", "obsolete"}
                                   THEN ByHand(todos[t], "obsolete") ELSE todos[t]]
    BY <1>10 DEF ObsoleteTodos
  <2>2. \A t \in Ids : GoodRow(todos'[t])
    BY <1>0, <2>1, ChangedRow DEF TodosRowsInv, Statuses, Terminal
  <2> QED
    BY <1>0, <1>1, <2>1, <2>2, RowsChange
<1>11. CASE CloseSessions
  <2>1. PICK some \in SUBSET Sessions, cascade \in BOOLEAN :
           todos' = [t \in Ids |-> IF cascade /\ t \in UNION {LeftOpen(s) : s \in some}
                                   THEN ByHand(todos[t], "obsolete") ELSE todos[t]]
    BY <1>11 DEF CloseSessions
  <2>2. \A t \in Ids : GoodRow(todos'[t])
    BY <1>0, <2>1, ChangedRow DEF TodosRowsInv, Statuses, Terminal
  <2> QED
    BY <1>0, <1>1, <2>1, <2>2, RowsChange
<1> QED
  BY <1>3, <1>4, <1>5, <1>6, <1>7, <1>8, <1>9, <1>10, <1>11 DEF Requests
-------------------------------------------------------------------------------
(* The other steps *)

LEMMA ReadKeepsInput ==
    ASSUME TodosInv, NEW s \in Sessions, ReadEntry(s)
    PROVE  InputInv' /\ CacheInv' /\ pos'[s] = pos[s] + 1
<1>0. InputInv /\ CacheInv
  BY DEF TodosInv
<1>1. /\ UNCHANGED <<transcript, triage, owed, board, deaths, rebuilds, outlived>>
      /\ pos[s] < Len(transcript[s]) /\ pos' = [pos EXCEPT ![s] = @ + 1]
      /\ pos[s] \in Nat /\ Len(transcript[s]) \in Nat
  BY <1>0 DEF ReadEntry, input, web, InputInv
<1>2. closed' \in [Sessions -> BOOLEAN]
  BY <1>0 DEF ReadEntry, InputInv
<1>3. spare' \subseteq Sessions
  BY <1>0 DEF ReadEntry, InputInv
<1>4. pos' \in [Sessions -> Nat] /\ \A r \in Sessions : pos'[r] <= Len(transcript'[r])
  BY <1>0, <1>1 DEF InputInv
<1>5. cache' = cache \/ cache' = Cached(Seen)
  BY DEF ReadEntry
<1>6. Seen \subseteq triage /\ outlived \subseteq Seen
  BY <1>0 DEF Seen, CacheInv, Cached, NoCache
<1>7. CacheInv'
  BY <1>0, <1>1, <1>5, <1>6 DEF CacheInv
<1> QED
  BY <1>0, <1>1, <1>2, <1>3, <1>4, <1>7 DEF InputInv

(* The file grows or the request is forgotten; no row is touched. *)
LEMMA TriageKeeps ==
    ASSUME TodosInv, CacheExpires \/ RecordTriage \/ WebDies
    PROVE  TodosInv' /\ todos' = todos
<1>0. InputInv /\ CacheInv /\ TodosRowsInv
  BY DEF TodosInv
<1>1. /\ UNCHANGED <<transcript, pos, closed, todos, board, rebuilds, spare, outlived>>
      /\ deaths' = deaths \/ (deaths < MaxDeaths /\ deaths' = deaths + 1)
  BY DEF CacheExpires, RecordTriage, WebDies, input, web
<1>2. /\ cache' = cache \/ cache' = NoCache
      /\ owed' \subseteq owed
      /\ triage' = triage \/ \E o \in owed : triage' = triage \cup o.texts
  BY DEF CacheExpires, RecordTriage, WebDies, web
<1>3. InputInv'
  BY <1>0, <1>1, BoundAssumption DEF InputInv
<1>4. CacheInv'
  BY <1>0, <1>1, <1>2 DEF CacheInv
<1> QED
  BY <1>0, <1>1, <1>3, <1>4, RowsStay DEF TodosInv

(* A new database has no rows, and no process a copy of the triage file. *)
LEMMA RebuildKeeps ==
    ASSUME TodosInv, Rebuild
    PROVE  TodosInv' /\ todos' = <<>>
<1>0. InputInv /\ CacheInv
  BY DEF TodosInv
<1>1. /\ UNCHANGED <<transcript, triage, owed, board, deaths>>
      /\ rebuilds < MaxRebuilds /\ rebuilds' = rebuilds + 1 /\ todos' = <<>> /\ spare' = {}
      /\ pos' = [s \in Sessions |-> 0] /\ closed' = [s \in Sessions |-> FALSE]
      /\ cache' = NoCache /\ outlived' = triage
  BY DEF Rebuild, input, web
<1>2. transcript' \in [Sessions -> Seq(Entry)] /\ \A s \in Sessions : pos'[s] <= Len(transcript'[s])
  BY <1>0, <1>1 DEF InputInv
<1>3. InputInv'
  BY <1>0, <1>1, <1>2, BoundAssumption DEF InputInv
<1>4. CacheInv'
  BY <1>0, <1>1 DEF CacheInv
<1>5. TodosRowsInv'
  BY <1>1 DEF TodosRowsInv, Ids
<1> QED
  BY <1>1, <1>3, <1>4, <1>5 DEF TodosInv

LEMMA TodosStart ==
    ASSUME Init
    PROVE  TodosInv
<1>1. transcript \in [Sessions -> Seq(Entry)] /\ \A s \in Sessions : Len(transcript[s]) \in Nat
  BY TranscriptAssumption DEF Init
<1>2. InputInv
  BY <1>1, BoundAssumption DEF Init, InputInv
<1>3. CacheInv /\ TodosRowsInv
  BY DEF Init, CacheInv, TodosRowsInv, Ids
<1> QED
  BY <1>2, <1>3 DEF TodosInv

LEMMA TodosStep ==
    ASSUME TodosInv, [Next]_vars
    PROVE  TodosInv'
<1>1. ASSUME NEW s \in Sessions, ReadEntry(s) PROVE TodosInv'
  BY <1>1, ReadKeepsInput, ReadKeepsRows DEF TodosInv
<1>2. CASE Requests
  BY <1>2, RequestsKeepInput, RequestsKeepCache, RequestsKeepRows DEF TodosInv
<1>3. CASE UNCHANGED vars
  <2>1. UNCHANGED <<transcript, pos, closed, todos, triage, owed, cache, board, deaths, rebuilds, spare, outlived>>
    BY <1>3 DEF vars
  <2>2. InputInv'
    BY <2>1 DEF TodosInv, InputInv
  <2>3. CacheInv'
    BY <2>1 DEF TodosInv, CacheInv
  <2> QED
    BY <2>1, <2>2, <2>3, RowsStay DEF TodosInv
<1> QED
  BY <1>1, <1>2, <1>3, TriageKeeps, RebuildKeeps DEF Next, Requests

-------------------------------------------------------------------------------
(* The inductive invariant: good rows, and a triage file and a copy of it   *)
(* that are never older than the database.                                  *)
THEOREM TodosInductive == Spec => []TodosInv
<1>1. Init => TodosInv
  BY TodosStart
<1>2. TodosInv /\ [Next]_vars => TodosInv'
  BY TodosStep
<1> QED
  BY <1>1, <1>2, PTL DEF Spec

(* Every variable keeps its type; the worker's copy of the triage file is a  *)
(* part of the file.                                                         *)
THEOREM TodosTypeCorrect == Spec => []TypeOK
<1>1. TodosInv => TypeOK
  <2> SUFFICES ASSUME TodosInv PROVE TypeOK
    OBVIOUS
  <2>1. InputInv /\ CacheInv /\ TodosRowsInv
    BY DEF TodosInv
  <2>2. cache = NoCache \/ (cache.none = FALSE /\ cache.texts \subseteq triage)
    BY <2>1 DEF CacheInv, Cached
  <2> QED
    BY <2>1, <2>2 DEF TypeOK, InputInv, CacheInv, TodosRowsInv
<1> QED
  BY <1>1, TodosInductive, PTL

(* todo_events accounts for every status: whatever mix of ingestion, board   *)
(* requests and new databases led there, the last event of a todo leads to   *)
(* its status, except after PATCH /api/todos or when an agent made it.       *)
THEOREM TrailSafe == Spec => []TrailFollows
<1>1. TodosInv => TrailFollows
  BY DEF TodosInv, TodosRowsInv, GoodRow, TrailFollows
<1> QED
  BY <1>1, TodosInductive, PTL

(* What the triage file held when the database was lost is not ingested      *)
(* again, also while the worker reads the file through its copy.             *)
THEOREM DecisionsSafe == Spec => []DecisionsOutliveDatabase
<1>1. TodosInv => DecisionsOutliveDatabase
  BY DEF TodosInv, TodosRowsInv, GoodRow, DecisionsOutliveDatabase
<1> QED
  BY <1>1, TodosInductive, PTL

(* A closed todo is opened by a request or by a TaskUpdate, never by a       *)
(* TaskCreate, TodoWrite, task list or result that is read later.            *)
THEOREM SnapshotsSafe == Spec => SnapshotsNeverReopen
<1>1. TodosInv /\ [Next]_vars => [Reopens => board' > board \/ Reads({"update"})]_vars
  <2> SUFFICES ASSUME TodosInv, Next, Reopens
               PROVE  board' > board \/ Reads({"update"})
    OBVIOUS
  <2>0. PICK t \in Ids : todos[t].status \in Terminal /\ t \in 1..Len(todos') /\ todos'[t].status \in Open
    BY DEF Reopens
  <2>1. todos'[t].status # todos[t].status
    BY <2>0 DEF Terminal, Open
  <2>2. ASSUME NEW s \in Sessions, ReadEntry(s) PROVE Reads({"update"})
    <3>1. pos'[s] = pos[s] + 1 /\ transcript[s][pos'[s]].op = "update"
      BY <2>0, <2>1, <2>2, ReadKeepsInput, ReadKeepsRows
    <3> QED
      BY <3>1 DEF Reads
  <2>3. ASSUME Requests PROVE board' > board
    BY <2>3, RequestsKeepInput
  <2>4. CASE CacheExpires \/ RecordTriage \/ WebDies
    BY <2>1, <2>4, TriageKeeps
  <2>5. CASE Rebuild
    BY <2>0, <2>5, RebuildKeeps
  <2> QED
    BY <2>2, <2>3, <2>4, <2>5 DEF Next, Requests
<1> QED
  BY <1>1, TodosInductive, PTL DEF Spec, SnapshotsNeverReopen
-------------------------------------------------------------------------------
(* Numbers.  The todos of a session that wait for a number are, in the order  *)
(* of their ids, those of its TaskCreates that no result has answered yet.    *)

OpsUpTo(q, p, op) == {i \in 1..p : q[i].op = op}

(* LastTold, of a transcript q that is read up to p. *)
Told(q, p, n) ==
    LET updates == {i \in OpsUpTo(q, p, "update") : q[i].num = n /\ q[i].to # "none"}
    IN  IF updates = {} THEN "pending" ELSE UpdateTo(q[Max(updates)].to)

(* The row of the TaskCreate at i: it waits, or has the number that answered  *)
(* it, with the status that was last told if nobody else speaks of it.        *)
Waits(row, q, p, i) ==
    /\ CountTo(q, "create", i) > CountTo(q, "created", p)
    /\ ~row.edited /\ (row.touched \/ row.status = "pending")

Has(row, q, p, i, alone) ==
    \E j \in OpsUpTo(q, p, "created") :
        /\ row.num = q[j].num /\ CountTo(q, "created", j) = CountTo(q, "create", i)
        /\ row.num \in alone => row.touched \/ row.status = Told(q, p, row.num)

Matched(row, s, q, p, i, alone) ==
    /\ row.own /\ row.session = s /\ (row.text = q[i].text \/ row.edited)
    /\ (row.num = 0 => Waits(row, q, p, i))
    /\ (row.num # 0 => Has(row, q, p, i, alone))

(* f gives the rows of the TaskCreates of s among the first m rows. *)
Follows(f, s, q, p, rows, m, alone) ==
    /\ f \in [OpsUpTo(q, p, "create") -> 1..m]
    /\ \A i, j \in OpsUpTo(q, p, "create") : i < j => f[i] < f[j]
    /\ \A i \in OpsUpTo(q, p, "create") : Matched(rows[f[i]], s, q, p, i, alone)
    /\ \A t \in 1..m :
          rows[t].own /\ rows[t].session = s /\ rows[t].num \in {0} \cup alone =>
              \E i \in OpsUpTo(q, p, "create") : t = f[i]
    /\ CountTo(q, "created", p) <= CountTo(q, "create", p)

(* The number of a row answers the TaskCreate that has its text. *)
NamedBy(row, q, p) ==
    \E i \in 1..p : /\ q[i].num = row.num
                    /\ \/ q[i].op = "list" /\ row.text = q[i].text
                       \/ /\ q[i].op = "created"
                          /\ \E c \in OpsUpTo(q, p, "create") :
                                 row.text = q[c].text /\ CountTo(q, "create", c) = CountTo(q, "created", i)

(* Numbers that no other session and no task list has named. *)
Alone(s) == IF Said(s, {"list"}) # {} THEN {} ELSE {n \in Nat : n # 0 /\ OnlyHere(s, n)}

Quiet(s) == s \notin spare /\ Numberless(s) = {}

RowOK(t) ==
    LET s == todos[t].session IN
    todos[t].own /\ todos[t].num # 0 =>
        /\ \E i \in Said(s, {"created", "list"}) : transcript[s][i].num = todos[t].num
        /\ Quiet(s) /\ ~todos[t].edited => NamedBy(todos[t], transcript[s], pos[s])

SessionOK(s) ==
    /\ Answered(transcript[s])
    /\ Said(s, {"torn"}) # {} => s \in spare
    /\ Quiet(s) /\ ~closed[s] =>
          \E f : Follows(f, s, transcript[s], pos[s], todos, Len(todos), Alone(s))

NumbersInv == (\A t \in Ids : RowOK(t)) /\ \A s \in Sessions : SessionOK(s)

-------------------------------------------------------------------------------
(* Counting entries, and the first and the last of a set of positions *)

(* A set of naturals has a least member, and the least one is Min. *)
LEMMA LeastNatural ==
    ASSUME NEW T \in SUBSET Nat, T # {}
    PROVE  \E n \in T : \A m \in T : n <= m
<1> DEFINE below == {0..n : n \in T}
           R == StrictSubsetOrdering(Nat)
<1>1. below \subseteq FiniteSubsetsOf(Nat)
  <2> SUFFICES ASSUME NEW n \in T PROVE 0..n \in SUBSET Nat /\ IsFiniteSet(0..n)
    BY DEF FiniteSubsetsOf
  <2> QED
    BY FS_Interval
<1>2. below # {}
  OBVIOUS
<1>3. \E x \in below : \A y \in below : ~ (<<y, x>> \in R)
  <2>1. IsWellFoundedOn(R, FiniteSubsetsOf(Nat))
    BY FS_StrictSubsetOrderingWellFounded
  <2> HIDE DEF below, R
  <2> QED
    BY <1>1, <1>2, <2>1, WFMin
<1>4. PICK n \in T : \A m \in T : ~ (<<0..m, 0..n>> \in R)
  BY <1>3
<1>5. ASSUME NEW m \in T, ~(n <= m) PROVE FALSE
  <2>1. 0..m \in SUBSET Nat /\ 0..n \in SUBSET Nat /\ 0..m \subseteq 0..n
    BY <1>5
  <2>2. n \in 0..n /\ n \notin 0..m
    BY <1>5
  <2>3. <<0..m, 0..n>> \in R
    BY <2>1, <2>2 DEF StrictSubsetOrdering
  <2> QED
    BY <1>4, <2>3
<1> QED
  BY <1>5

LEMMA MinIs ==
    ASSUME NEW S \in SUBSET Nat
    PROVE  /\ S # {} => Min(S) \in S /\ \A x \in S : Min(S) <= x
           /\ \A u \in S : (\A x \in S : u <= x) => Min(S) = u
<1>1. S # {} => \E u \in S : \A x \in S : u <= x
  BY LeastNatural
<1>2. ASSUME NEW u \in S, \A x \in S : u <= x PROVE Min(S) = u
  <2>1. Min(S) \in S /\ Min(S) <= u
    BY <1>2 DEF Min
  <2>2. u <= Min(S) /\ Min(S) \in Nat /\ u \in Nat
    BY <1>2, <2>1
  <2> QED
    BY <2>1, <2>2
<1> QED
  BY <1>1, <1>2

LEMMA MaxIs ==
    ASSUME NEW p \in Nat, NEW S \in SUBSET (1..p)
    PROVE  /\ S # {} => Max(S) \in S /\ \A x \in S : x <= Max(S)
           /\ \A u \in S : (\A x \in S : x <= u) => Max(S) = u
<1>1. S # {} => \E u \in S : \A x \in S : x <= u
  <2> SUFFICES ASSUME S # {} PROVE \E u \in S : \A x \in S : x <= u
    OBVIOUS
  <2> DEFINE T == {m \in Nat : \A x \in S : x <= m}
  <2>1. p \in T
    OBVIOUS
  <2>2. PICK m \in T : \A n \in T : m <= n
    BY <2>1, LeastNatural
  <2>0. PICK s \in S : TRUE
    OBVIOUS
  <2>3. m \in Nat /\ m >= 1 /\ ~(m - 1 \in T)
    <3>1. m \in Nat /\ s \in 1..p /\ s <= m
      BY <2>0, <2>2
    <3>2. ASSUME m - 1 \in T PROVE FALSE
      <4>1. m <= m - 1
        BY <2>2, <3>2
      <4> QED
        BY <3>1, <4>1
    <3> QED
      BY <3>1, <3>2
  <2>4. PICK x \in S : ~(x <= m - 1)
    BY <2>3
  <2>5. x = m
    BY <2>2, <2>4
  <2> QED
    BY <2>2, <2>4, <2>5
<1>2. ASSUME NEW u \in S, \A x \in S : x <= u PROVE Max(S) = u
  <2>1. Max(S) \in S /\ u <= Max(S)
    BY <1>2 DEF Max
  <2>0. \A x \in S : x \in Nat
    OBVIOUS
  <2>2. Max(S) <= u /\ Max(S) \in Nat /\ u \in Nat
    BY <1>2, <2>0, <2>1
  <2> QED
    BY <2>1, <2>2
<1> QED
  BY <1>1, <1>2 DEF Max

LEMMA CountFacts ==
    ASSUME NEW q, NEW op, NEW i \in Nat
    PROVE  /\ IsFiniteSet(OpsUpTo(q, i, op)) /\ CountTo(q, op, i) \in Nat
           /\ CountTo(q, op, i) = Cardinality(OpsUpTo(q, i, op))
           /\ q[i + 1].op = op => /\ CountTo(q, op, i + 1) = CountTo(q, op, i) + 1
                                  /\ OpsUpTo(q, i + 1, op) = OpsUpTo(q, i, op) \cup {i + 1}
           /\ q[i + 1].op # op => /\ CountTo(q, op, i + 1) = CountTo(q, op, i)
                                  /\ OpsUpTo(q, i + 1, op) = OpsUpTo(q, i, op)
<1>1. IsFiniteSet(1..i)
  BY FS_Interval
<1>2. OpsUpTo(q, i, op) \in SUBSET (1..i) /\ CountTo(q, op, i) = Cardinality(OpsUpTo(q, i, op))
      /\ CountTo(q, op, i + 1) = Cardinality(OpsUpTo(q, i + 1, op))
  BY DEF OpsUpTo, CountTo
<1>3. IsFiniteSet(OpsUpTo(q, i, op)) /\ Cardinality(OpsUpTo(q, i, op)) \in Nat
  BY <1>1, <1>2, FS_Subset, FS_CardinalityType
<1>4. /\ q[i + 1].op = op => OpsUpTo(q, i + 1, op) = OpsUpTo(q, i, op) \cup {i + 1}
      /\ q[i + 1].op # op => OpsUpTo(q, i + 1, op) = OpsUpTo(q, i, op)
      /\ i + 1 \notin OpsUpTo(q, i, op)
  BY DEF OpsUpTo
<1>5. Cardinality(OpsUpTo(q, i, op) \cup {i + 1}) = Cardinality(OpsUpTo(q, i, op)) + 1
  BY <1>3, <1>4, FS_AddElement
<1> QED
  BY <1>2, <1>3, <1>4, <1>5

LEMMA CountGrows ==
    ASSUME NEW q, NEW op, NEW i \in Nat, NEW j \in Nat, i <= j
    PROVE  /\ CountTo(q, op, i) \in Nat /\ CountTo(q, op, j) \in Nat /\ CountTo(q, op, i) <= CountTo(q, op, j)
           /\ i < j /\ q[j].op = op => CountTo(q, op, i) < CountTo(q, op, j)
<1>1. OpsUpTo(q, i, op) \in SUBSET OpsUpTo(q, j, op)
  BY DEF OpsUpTo
<1>2. /\ IsFiniteSet(OpsUpTo(q, j, op)) /\ CountTo(q, op, i) \in Nat /\ CountTo(q, op, j) \in Nat
      /\ CountTo(q, op, i) = Cardinality(OpsUpTo(q, i, op)) /\ CountTo(q, op, j) = Cardinality(OpsUpTo(q, j, op))
  BY CountFacts
<1>3. /\ Cardinality(OpsUpTo(q, i, op)) <= Cardinality(OpsUpTo(q, j, op))
      /\ Cardinality(OpsUpTo(q, j, op)) = Cardinality(OpsUpTo(q, i, op)) => OpsUpTo(q, j, op) = OpsUpTo(q, i, op)
  BY <1>1, <1>2, FS_Subset
<1>4. i < j /\ q[j].op = op => j \in OpsUpTo(q, j, op) /\ j \notin OpsUpTo(q, i, op)
  BY DEF OpsUpTo
<1> QED
  BY <1>2, <1>3, <1>4

(* Entries of one kind that are counted alike are the same. *)
LEMMA CountTells ==
    ASSUME NEW q, NEW op, NEW p \in Nat, NEW i \in OpsUpTo(q, p, op), NEW j \in OpsUpTo(q, p, op),
           CountTo(q, op, i) = CountTo(q, op, j)
    PROVE  i = j
<1>1. i \in Nat /\ j \in Nat /\ q[i].op = op /\ q[j].op = op
  BY DEF OpsUpTo
<1>2. ~(i < j) /\ ~(j < i)
  BY <1>1, CountGrows
<1> QED
  BY <1>1, <1>2

(* What is counted up to p is what q says up to there. *)
LEMMA CountAgrees ==
    ASSUME NEW q, NEW r, NEW p \in Nat, \A j \in 1..p : q[j] = r[j]
    PROVE  \A op : /\ OpsUpTo(r, p, op) = OpsUpTo(q, p, op) /\ CountTo(r, op, p) = CountTo(q, op, p)
                   /\ \A i \in 1..p : CountTo(r, op, i) = CountTo(q, op, i)
<1> SUFFICES ASSUME NEW op, NEW i \in Nat, i <= p
             PROVE  {j \in 1..i : q[j].op = op} = {j \in 1..i : r[j].op = op}
  BY DEF OpsUpTo, CountTo
<1> QED
  OBVIOUS

LEMMA ToldAgrees ==
    ASSUME NEW q, NEW r, NEW p \in Nat, NEW n, \A j \in 1..p : q[j] = r[j]
    PROVE  Told(q, p, n) = Told(r, p, n)
<1> DEFINE U(x) == {i \in OpsUpTo(x, p, "update") : x[i].num = n /\ x[i].to # "none"}
<1>1. U(q) = U(r) /\ U(q) \subseteq 1..p
  BY DEF OpsUpTo
<1>2. U(q) # {} => Max(U(q)) \in 1..p
  BY <1>1, MaxIs
<1> QED
  BY <1>1, <1>2 DEF Told

-------------------------------------------------------------------------------
(* What the rows of a session's TaskCreates survive *)

(* b is the row a after something that its session did not say. *)
Keeps(a, b, alone) ==
    /\ b.num = a.num
    /\ (b.edited = a.edited /\ b.text = a.text) \/ (b.edited /\ a.num # 0)
    /\ a.num \in {0} \cup alone => b.touched \/ (b.status = a.status /\ b.touched = a.touched)

LEMMA FollowsKept ==
    ASSUME NEW f, NEW s, NEW q, NEW r, NEW p \in Nat, NEW rows, NEW rows2, NEW m \in Nat, NEW n \in Nat, m <= n,
           NEW alone, NEW alone2 \in SUBSET alone, Follows(f, s, q, p, rows, m, alone),
           \A j \in 1..p : q[j] = r[j],
           \A t \in 1..m : /\ rows2[t].own = rows[t].own /\ rows2[t].session = rows[t].session
                           /\ rows[t].own /\ rows[t].session = s => Keeps(rows[t], rows2[t], alone2),
           \A t \in 1..n : t > m => ~(rows2[t].own /\ rows2[t].session = s /\ rows2[t].num \in {0} \cup alone2)
    PROVE  Follows(f, s, r, p, rows2, n, alone2)
<1>0. \A op : \A i \in OpsUpTo(q, p, op) : i \in 1..p
  BY DEF OpsUpTo
<1>2. \A op : /\ OpsUpTo(r, p, op) = OpsUpTo(q, p, op) /\ CountTo(r, op, p) = CountTo(q, op, p)
              /\ \A i \in 1..p : CountTo(r, op, i) = CountTo(q, op, i)
  BY CountAgrees
<1>1. \A op : /\ OpsUpTo(r, p, op) = OpsUpTo(q, p, op) /\ CountTo(r, op, p) = CountTo(q, op, p)
              /\ \A i \in OpsUpTo(q, p, op) : i \in 1..p
  BY <1>0, <1>2
<1>3. ASSUME NEW k PROVE Told(r, p, k) = Told(q, p, k)
  <2>1. Told(q, p, k) = Told(r, p, k)
    BY ToldAgrees
  <2> QED
    BY <2>1
<1>4. f \in [OpsUpTo(r, p, "create") -> 1..n]
  BY <1>1 DEF Follows
<1>5. ASSUME NEW i \in OpsUpTo(q, p, "create") PROVE Matched(rows2[f[i]], s, r, p, i, alone2)
  <2>1. /\ Matched(rows[f[i]], s, q, p, i, alone) /\ Keeps(rows[f[i]], rows2[f[i]], alone2) /\ i \in 1..p /\ q[i] = r[i]
        /\ rows2[f[i]].own /\ rows2[f[i]].session = s
    BY <1>1 DEF Follows, Matched
  <2> DEFINE a == rows[f[i]]
             b == rows2[f[i]]
  <2>2. b.own /\ b.session = s /\ (b.text = r[i].text \/ b.edited) /\ b.num = a.num
    BY <2>1 DEF Matched, Keeps
  <2>3. b.num = 0 => Waits(b, r, p, i)
    BY <1>1, <1>2, <2>1 DEF Matched, Keeps, Waits
  <2>4. b.num # 0 => Has(b, r, p, i, alone2)
    <3> SUFFICES ASSUME b.num # 0 PROVE Has(b, r, p, i, alone2)
      OBVIOUS
    <3>1. PICK j \in OpsUpTo(q, p, "created") :
             /\ a.num = q[j].num /\ CountTo(q, "created", j) = CountTo(q, "create", i)
             /\ a.num \in alone => a.touched \/ a.status = Told(q, p, a.num)
      BY <2>1, <2>2 DEF Matched, Has
    <3>2. b.num \in alone2 => b.touched \/ b.status = Told(r, p, b.num)
      BY <1>3, <2>1, <2>2, <3>1 DEF Keeps, Matched
    <3>3. j \in OpsUpTo(r, p, "created") /\ b.num = r[j].num /\ CountTo(r, "created", j) = CountTo(r, "create", i)
      BY <1>1, <1>2, <2>1, <2>2, <3>1
    <3> QED
      BY <3>2, <3>3 DEF Has
  <2> QED
    BY <2>2, <2>3, <2>4 DEF Matched
<1>6. ASSUME NEW t \in 1..n, rows2[t].own, rows2[t].session = s, rows2[t].num \in {0} \cup alone2
      PROVE  \E i \in OpsUpTo(r, p, "create") : t = f[i]
  <2>1. t \in 1..m
    BY <1>6
  <2>2. rows[t].own /\ rows[t].session = s /\ rows[t].num \in {0} \cup alone
    BY <1>6, <2>1 DEF Keeps
  <2> QED
    BY <1>1, <2>1, <2>2 DEF Follows
<1> QED
  BY <1>1, <1>4, <1>5, <1>6 DEF Follows

(* An entry that is no TaskCreate and answers none. *)
LEMMA FollowsPast ==
    ASSUME NEW f, NEW s, NEW q, NEW p \in Nat, NEW rows, NEW m \in Nat, NEW alone,
           Follows(f, s, q, p, rows, m, alone), q[p + 1].op \notin {"create", "created"},
           q[p + 1].op = "update" => alone = {}
    PROVE  Follows(f, s, q, p + 1, rows, m, alone)
<1>1. \A op : op \in {"create", "created"} =>
          OpsUpTo(q, p + 1, op) = OpsUpTo(q, p, op) /\ CountTo(q, op, p + 1) = CountTo(q, op, p) /\ CountTo(q, op, p) \in Nat
  <2> SUFFICES ASSUME NEW op, op \in {"create", "created"}
               PROVE  OpsUpTo(q, p + 1, op) = OpsUpTo(q, p, op) /\ CountTo(q, op, p + 1) = CountTo(q, op, p) /\ CountTo(q, op, p) \in Nat
    OBVIOUS
  <2>1. q[p + 1].op # op
    OBVIOUS
  <2> QED
    BY <2>1, CountFacts
<1>2. q[p + 1].op # "update" => \A k : Told(q, p + 1, k) = Told(q, p, k)
  <2>1. q[p + 1].op # "update" => OpsUpTo(q, p + 1, "update") = OpsUpTo(q, p, "update")
    BY DEF OpsUpTo
  <2> QED
    BY <2>1 DEF Told
<1>3. ASSUME NEW i \in OpsUpTo(q, p, "create"), Matched(rows[f[i]], s, q, p, i, alone)
      PROVE  Matched(rows[f[i]], s, q, p + 1, i, alone)
  BY <1>1, <1>2, <1>3 DEF Matched, Waits, Has
<1> QED
  BY <1>1, <1>3 DEF Follows

(* A TaskUpdate sets the status that was last told. *)
LEMMA ToldUpdate ==
    ASSUME NEW q, NEW p \in Nat, NEW n, q[p + 1].op = "update"
    PROVE  Told(q, p + 1, n) = IF q[p + 1].num = n /\ q[p + 1].to # "none" THEN UpdateTo(q[p + 1].to) ELSE Told(q, p, n)
<1> DEFINE U(k) == {i \in OpsUpTo(q, k, "update") : q[i].num = n /\ q[i].to # "none"}
<1>1. OpsUpTo(q, p + 1, "update") = OpsUpTo(q, p, "update") \cup {p + 1} /\ OpsUpTo(q, p, "update") \subseteq 1..p
  BY CountFacts DEF OpsUpTo
<1>2. CASE q[p + 1].num = n /\ q[p + 1].to # "none"
  <2>1. p + 1 \in U(p + 1) /\ U(p + 1) \in SUBSET (1..(p + 1)) /\ \A x \in U(p + 1) : x <= p + 1
    BY <1>1, <1>2
  <2>2. Max(U(p + 1)) = p + 1
    <3> HIDE DEF U
    <3>1. p + 1 \in Nat
      OBVIOUS
    <3> QED
      BY <2>1, <3>1, MaxIs
  <2> QED
    BY <1>2, <2>1, <2>2 DEF Told
<1>3. CASE ~(q[p + 1].num = n /\ q[p + 1].to # "none")
  <2>1. U(p + 1) = U(p)
    BY <1>1, <1>3
  <2> QED
    BY <1>3, <2>1 DEF Told
<1> QED
  BY <1>2, <1>3

LEMMA FollowsUpdate ==
    ASSUME NEW f, NEW s, NEW q, NEW p \in Nat, NEW rows, NEW rows2, NEW m \in Nat, NEW alone,
           Follows(f, s, q, p, rows, m, alone), q[p + 1].op = "update",
           \A t \in 1..m : /\ rows2[t].own = rows[t].own /\ rows2[t].session = rows[t].session
                           /\ rows2[t].num = rows[t].num /\ rows2[t].text = rows[t].text
                           /\ rows2[t].edited = rows[t].edited /\ rows2[t].touched = rows[t].touched,
           \A t \in 1..m : rows[t].own /\ rows[t].session = s /\ rows[t].num = 0 => rows2[t].status = rows[t].status,
           \A t \in 1..m : rows[t].own /\ rows[t].session = s /\ rows[t].num \in alone =>
               IF rows[t].num = q[p + 1].num /\ q[p + 1].to # "none"
               THEN rows[t].touched \/ rows2[t].status = UpdateTo(q[p + 1].to)
               ELSE rows2[t].status = rows[t].status
    PROVE  Follows(f, s, q, p + 1, rows2, m, alone)
<1>1. /\ OpsUpTo(q, p + 1, "create") = OpsUpTo(q, p, "create") /\ CountTo(q, "create", p + 1) = CountTo(q, "create", p)
      /\ OpsUpTo(q, p + 1, "created") = OpsUpTo(q, p, "created") /\ CountTo(q, "created", p + 1) = CountTo(q, "created", p)
  BY CountFacts
<1>2. ASSUME NEW i \in OpsUpTo(q, p, "create") PROVE Matched(rows2[f[i]], s, q, p + 1, i, alone)
  <2>1. f[i] \in 1..m /\ Matched(rows[f[i]], s, q, p, i, alone)
    BY DEF Follows
  <2> DEFINE a == rows[f[i]]
             b == rows2[f[i]]
  <2>2. /\ b.own = a.own /\ b.session = a.session /\ b.num = a.num /\ b.text = a.text
        /\ b.edited = a.edited /\ b.touched = a.touched
    BY <2>1
  <2>3. b.num = 0 => Waits(b, q, p + 1, i)
    BY <1>1, <2>1, <2>2 DEF Matched, Waits
  <2>4. b.num # 0 => Has(b, q, p + 1, i, alone)
    <3> SUFFICES ASSUME b.num # 0 PROVE Has(b, q, p + 1, i, alone)
      OBVIOUS
    <3>1. PICK j \in OpsUpTo(q, p, "created") :
             /\ a.num = q[j].num /\ CountTo(q, "created", j) = CountTo(q, "create", i)
             /\ a.num \in alone => a.touched \/ a.status = Told(q, p, a.num)
      BY <2>1, <2>2 DEF Matched, Has
    <3>2. b.num \in alone => b.touched \/ b.status = Told(q, p + 1, b.num)
      BY <2>1, <2>2, <3>1, ToldUpdate DEF Matched
    <3> QED
      BY <1>1, <2>2, <3>1, <3>2 DEF Has
  <2> QED
    BY <2>1, <2>2, <2>3, <2>4 DEF Matched
<1>3. \A t \in 1..m : rows2[t].own /\ rows2[t].session = s /\ rows2[t].num \in {0} \cup alone =>
          \E i \in OpsUpTo(q, p, "create") : t = f[i]
  BY DEF Follows
<1> QED
  BY <1>1, <1>2, <1>3 DEF Follows

(* A TaskCreate that makes a row. *)
LEMMA FollowsCreate ==
    ASSUME NEW f, NEW s, NEW q, NEW p \in Nat, NEW rows, NEW rows2, NEW m \in Nat, NEW alone,
           Follows(f, s, q, p, rows, m, alone), q[p + 1].op = "create",
           \A t \in 1..m : rows2[t] = rows[t],
           rows2[m + 1].own, rows2[m + 1].session = s, rows2[m + 1].text = q[p + 1].text, rows2[m + 1].num = 0,
           ~rows2[m + 1].edited, rows2[m + 1].status = "pending"
    PROVE  \E g : Follows(g, s, q, p + 1, rows2, m + 1, alone)
<1>1. /\ OpsUpTo(q, p + 1, "create") = OpsUpTo(q, p, "create") \cup {p + 1} /\ OpsUpTo(q, p, "create") \subseteq 1..p
      /\ CountTo(q, "create", p + 1) = CountTo(q, "create", p) + 1 /\ CountTo(q, "create", p) \in Nat
      /\ OpsUpTo(q, p + 1, "created") = OpsUpTo(q, p, "created") /\ CountTo(q, "created", p + 1) = CountTo(q, "created", p)
      /\ CountTo(q, "created", p) \in Nat
  <2>1. OpsUpTo(q, p, "create") \subseteq 1..p
    BY DEF OpsUpTo
  <2> QED
    BY <2>1, CountFacts
<1>2. \A k : Told(q, p + 1, k) = Told(q, p, k)
  <2>1. OpsUpTo(q, p + 1, "update") = OpsUpTo(q, p, "update")
    BY DEF OpsUpTo
  <2> QED
    BY <2>1 DEF Told
<1> DEFINE g == [i \in OpsUpTo(q, p + 1, "create") |-> IF i = p + 1 THEN m + 1 ELSE f[i]]
<1>3. /\ g \in [OpsUpTo(q, p + 1, "create") -> 1..(m + 1)] /\ g[p + 1] = m + 1
      /\ \A i \in OpsUpTo(q, p, "create") : g[i] = f[i] /\ f[i] \in 1..m /\ i \in 1..p
  BY <1>1 DEF Follows
<1>4. \A i, j \in OpsUpTo(q, p + 1, "create") : i < j => g[i] < g[j]
  <2> SUFFICES ASSUME NEW i \in OpsUpTo(q, p + 1, "create"), NEW j \in OpsUpTo(q, p + 1, "create"), i < j PROVE g[i] < g[j]
    OBVIOUS
  <2>1. i \in OpsUpTo(q, p, "create")
    BY <1>1
  <2> HIDE DEF g
  <2>2. CASE j = p + 1
    <3>1. g[i] \in 1..m /\ g[j] = m + 1
      BY <1>3, <2>1, <2>2
    <3> QED
      BY <3>1
  <2>3. CASE j \in OpsUpTo(q, p, "create")
    BY <1>3, <2>1, <2>3 DEF Follows
  <2> QED
    BY <1>1, <2>2, <2>3
<1>5. ASSUME NEW i \in OpsUpTo(q, p, "create") PROVE Matched(rows2[g[i]], s, q, p + 1, i, alone)
  <2>1. Matched(rows[f[i]], s, q, p, i, alone) /\ rows2[g[i]] = rows[f[i]]
    BY <1>3 DEF Follows
  <2> HIDE DEF g
  <2> QED
    BY <1>1, <1>2, <2>1 DEF Matched, Waits, Has
<1>6. Matched(rows2[m + 1], s, q, p + 1, p + 1, alone)
  BY <1>1 DEF Matched, Waits, Follows
<1>7. ASSUME NEW t \in 1..(m + 1), rows2[t].own, rows2[t].session = s, rows2[t].num \in {0} \cup alone
      PROVE  \E i \in OpsUpTo(q, p + 1, "create") : t = g[i]
  <2>1. CASE t = m + 1
    BY <1>1, <1>3, <2>1
  <2>2. CASE t \in 1..m
    BY <1>1, <1>3, <1>7, <2>2 DEF Follows
  <2> QED
    BY <2>1, <2>2
<1>8. CountTo(q, "created", p + 1) <= CountTo(q, "create", p + 1)
  BY <1>1 DEF Follows
<1>9. \A i \in OpsUpTo(q, p + 1, "create") : Matched(rows2[g[i]], s, q, p + 1, i, alone)
  BY <1>1, <1>3, <1>5, <1>6
<1> HIDE DEF g
<1> QED
  BY <1>3, <1>4, <1>7, <1>8, <1>9 DEF Follows

(* u is the oldest of the rows of s that wait for a number. *)
FirstWaits(rows, m, s, u) ==
    /\ u \in 1..m /\ rows[u].own /\ rows[u].session = s /\ rows[u].num = 0
    /\ \A t \in 1..m : rows[t].own /\ rows[t].session = s /\ rows[t].num = 0 => u <= t

(* The oldest todo that waits is that of the TaskCreate that the next result  *)
(* answers.                                                                   *)
LEMMA NextToAnswer ==
    ASSUME NEW f, NEW s, NEW q, NEW p \in Nat, NEW rows, NEW m \in Nat, NEW alone,
           Follows(f, s, q, p, rows, m, alone), NEW c \in OpsUpTo(q, p, "create"),
           CountTo(q, "create", c) = CountTo(q, "created", p) + 1
    PROVE  FirstWaits(rows, m, s, f[c]) /\ rows[f[c]].text = q[c].text
<1>1. f[c] \in 1..m /\ Matched(rows[f[c]], s, q, p, c, alone) /\ CountTo(q, "created", p) \in Nat
  BY CountFacts DEF Follows
<1>2. rows[f[c]].num = 0
  <2> SUFFICES ASSUME rows[f[c]].num # 0 PROVE FALSE
    OBVIOUS
  <2>1. PICK j \in OpsUpTo(q, p, "created") : CountTo(q, "created", j) = CountTo(q, "create", c)
    BY <1>1 DEF Matched, Has
  <2>2. j \in Nat /\ j <= p
    BY DEF OpsUpTo
  <2>3. CountTo(q, "created", j) <= CountTo(q, "created", p)
    BY <2>2, CountGrows
  <2> QED
    BY <1>1, <2>1, <2>3
<1>3. ASSUME NEW t \in 1..m, rows[t].own, rows[t].session = s, rows[t].num = 0 PROVE f[c] <= t
  <2>1. PICK i \in OpsUpTo(q, p, "create") : t = f[i]
    BY <1>3 DEF Follows
  <2>2. CountTo(q, "create", i) > CountTo(q, "created", p)
    BY <1>3, <2>1 DEF Follows, Matched, Waits
  <2>3. i \in Nat /\ c \in Nat /\ q[c].op = "create"
    BY DEF OpsUpTo
  <2>4. i < c => CountTo(q, "create", i) < CountTo(q, "create", c) /\ CountTo(q, "create", i) \in Nat
    BY <2>3, CountGrows
  <2>5. ~(i < c)
    BY <1>1, <2>2, <2>4
  <2>6. CASE i = c
    BY <1>1, <2>1, <2>6
  <2>7. CASE c < i
    <3>1. f[c] < f[i]
      BY <2>7 DEF Follows
    <3> QED
      BY <1>1, <2>1, <3>1
  <2> QED
    BY <2>3, <2>5, <2>6, <2>7
<1> QED
  BY <1>1, <1>2, <1>3 DEF Matched, Waits, FirstWaits

(* A result that numbers that todo. *)
LEMMA FollowsAnswer ==
    ASSUME NEW f, NEW s, NEW q, NEW p \in Nat, NEW rows, NEW rows2, NEW m \in Nat, NEW alone,
           Follows(f, s, q, p, rows, m, alone), q[p + 1].op = "created", q[p + 1].num # 0,
           NEW c \in OpsUpTo(q, p, "create"), CountTo(q, "create", c) = CountTo(q, "created", p + 1),
           \A j \in 1..p : q[j].op \in {"created", "update"} => q[j].num # q[p + 1].num,
           \A t \in 1..m : t # f[c] => rows2[t] = rows[t],
           LET a == rows[f[c]]
               b == rows2[f[c]]
           IN  /\ b.own = a.own /\ b.session = a.session /\ b.text = a.text /\ b.status = a.status
               /\ b.touched = a.touched /\ b.edited = a.edited /\ b.num = q[p + 1].num
    PROVE  Follows(f, s, q, p + 1, rows2, m, alone)
<1>1. /\ OpsUpTo(q, p + 1, "create") = OpsUpTo(q, p, "create") /\ CountTo(q, "create", p + 1) = CountTo(q, "create", p)
      /\ OpsUpTo(q, p + 1, "created") = OpsUpTo(q, p, "created") \cup {p + 1}
      /\ CountTo(q, "created", p + 1) = CountTo(q, "created", p) + 1
      /\ CountTo(q, "created", p) \in Nat /\ CountTo(q, "create", p) \in Nat
  <2>1. /\ OpsUpTo(q, p + 1, "create") = OpsUpTo(q, p, "create") /\ CountTo(q, "create", p + 1) = CountTo(q, "create", p)
        /\ CountTo(q, "create", p) \in Nat
    BY CountFacts
  <2>2. /\ OpsUpTo(q, p + 1, "created") = OpsUpTo(q, p, "created") \cup {p + 1}
        /\ CountTo(q, "created", p + 1) = CountTo(q, "created", p) + 1
        /\ CountTo(q, "created", p) \in Nat
    BY CountFacts
  <2> QED
    BY <2>1, <2>2
<1>2. \A k : Told(q, p + 1, k) = Told(q, p, k)
  <2>1. OpsUpTo(q, p + 1, "update") = OpsUpTo(q, p, "update")
    BY DEF OpsUpTo
  <2> QED
    BY <2>1 DEF Told
<1>3. Told(q, p, q[p + 1].num) = "pending"
  BY DEF Told, OpsUpTo
<1> DEFINE a == rows[f[c]]
           b == rows2[f[c]]
<1>4. /\ f[c] \in 1..m /\ a.own /\ a.session = s /\ a.num = 0 /\ a.text = q[c].text
      /\ a.touched \/ a.status = "pending"
  <2>1. CountTo(q, "create", c) = CountTo(q, "created", p) + 1
    BY <1>1
  <2>2. f[c] \in 1..m /\ a.own /\ a.session = s /\ a.num = 0 /\ a.text = q[c].text
    BY <2>1, NextToAnswer DEF FirstWaits
  <2>3. Matched(a, s, q, p, c, alone)
    BY DEF Follows
  <2> QED
    BY <2>2, <2>3 DEF Matched, Waits
<1>5. Matched(b, s, q, p + 1, c, alone)
  <2>1. /\ b.own /\ b.session = s /\ b.text = q[c].text /\ b.num = q[p + 1].num /\ b.num # 0
        /\ b.touched \/ b.status = Told(q, p + 1, b.num)
    BY <1>2, <1>3, <1>4
  <2>2. p + 1 \in OpsUpTo(q, p + 1, "created")
    BY <1>1
  <2>3. Has(b, q, p + 1, c, alone)
    BY <2>1, <2>2 DEF Has
  <2> QED
    BY <2>1, <2>3 DEF Matched
<1>6. ASSUME NEW i \in OpsUpTo(q, p, "create"), i # c PROVE Matched(rows2[f[i]], s, q, p + 1, i, alone)
  <2>0. i \in Nat /\ c \in Nat /\ q[i].op = "create" /\ q[c].op = "create"
    BY DEF OpsUpTo
  <2>1. f[i] # f[c]
    <3>1. i < c \/ c < i
      BY <1>6, <2>0
    <3>2. f[i] \in 1..m /\ f[c] \in 1..m
      BY DEF Follows
    <3>3. i < c => f[i] < f[c]
      BY DEF Follows
    <3>4. c < i => f[c] < f[i]
      BY DEF Follows
    <3> QED
      BY <3>1, <3>2, <3>3, <3>4
  <2>2. rows2[f[i]] = rows[f[i]] /\ Matched(rows[f[i]], s, q, p, i, alone)
    BY <2>1 DEF Follows
  <2>3. ASSUME rows[f[i]].num = 0 PROVE CountTo(q, "create", i) > CountTo(q, "created", p) + 1
    <3>1. CountTo(q, "create", i) > CountTo(q, "created", p)
      BY <2>2, <2>3 DEF Matched, Waits
    <3>2. CountTo(q, "create", i) # CountTo(q, "create", c)
      BY <1>6, CountTells
    <3>3. CountTo(q, "create", i) \in Nat
      BY <2>0, CountFacts
    <3> QED
      BY <1>1, <3>1, <3>2, <3>3
  <2>4. rows[f[i]].num = 0 => Waits(rows[f[i]], q, p + 1, i)
    BY <1>1, <2>2, <2>3 DEF Matched, Waits
  <2>5. rows[f[i]].num # 0 => Has(rows[f[i]], q, p + 1, i, alone)
    BY <1>1, <1>2, <2>2 DEF Matched, Has
  <2> QED
    BY <2>2, <2>4, <2>5 DEF Matched
<1>7. ASSUME NEW t \in 1..m, rows2[t].own, rows2[t].session = s, rows2[t].num \in {0} \cup alone
      PROVE  \E i \in OpsUpTo(q, p, "create") : t = f[i]
  <2>1. CASE t = f[c]
    BY <2>1
  <2>2. CASE t # f[c]
    BY <1>7, <2>2 DEF Follows
  <2> QED
    BY <2>1, <2>2
<1>8. CountTo(q, "created", p + 1) <= CountTo(q, "create", p + 1)
  <2>1. c \in Nat /\ c <= p
    BY DEF OpsUpTo
  <2>2. CountTo(q, "create", c) <= CountTo(q, "create", p)
    BY <2>1, CountGrows
  <2> QED
    BY <1>1, <2>2
<1> QED
  BY <1>1, <1>5, <1>6, <1>7, <1>8 DEF Follows
-------------------------------------------------------------------------------
(* What steps of others leave of the numbers *)

(* Nothing that was read is said otherwise. *)
Grown == \A r \in Sessions : /\ pos[r] \in Nat /\ pos'[r] \in Nat /\ pos[r] <= pos'[r]
                             /\ \A j \in 1..pos[r] : transcript'[r][j] = transcript[r][j]

LEMMA SaidGrows ==
    ASSUME Grown, NEW s \in Sessions
    PROVE  /\ \A ops : Said(s, ops) \subseteq Said(s, ops)'
           /\ Numberless(s) \subseteq Numberless(s)'
           /\ Alone(s)' \subseteq Alone(s)
<1>1. \A r \in Sessions : \A ops : \A i \in Said(r, ops) : i \in Said(r, ops)' /\ transcript'[r][i] = transcript[r][i]
  BY DEF Grown, Said
<1>2. Numberless(s) \subseteq Numberless(s)'
  <2>1. \A i \in Said(s, {"write"}) : i \in Said(s, {"write"})'
    BY <1>1
  <2>2. \A i \in Said(s, {"list"}) : i \in Said(s, {"list"})' /\ transcript'[s][i] = transcript[s][i]
    BY <1>1
  <2> QED
    BY <2>1, <2>2 DEF Numberless
<1>3. \A n : OnlyHere(s, n)' => OnlyHere(s, n)
  BY <1>1 DEF OnlyHere
<1>4. Alone(s)' \subseteq Alone(s)
  <2>1. Said(s, {"list"})' = {} => Said(s, {"list"}) = {}
    BY <1>1
  <2> QED
    BY <1>3, <2>1 DEF Alone
<1> QED
  BY <1>1, <1>2, <1>4

(* A number that was said stays said, and names the same task. *)
LEMMA NamedKept ==
    ASSUME NEW a, NEW b, NEW q, NEW r, NEW p \in Nat, NEW o \in Nat, p <= o, \A j \in 1..p : q[j] = r[j],
           NamedBy(a, q, p), b.num = a.num, b.text = a.text
    PROVE  NamedBy(b, r, o)
<1>1. PICK i \in 1..p : /\ q[i].num = a.num
                        /\ \/ q[i].op = "list" /\ a.text = q[i].text
                           \/ /\ q[i].op = "created"
                              /\ \E c \in OpsUpTo(q, p, "create") :
                                     a.text = q[c].text /\ CountTo(q, "create", c) = CountTo(q, "created", i)
  BY DEF NamedBy
<1>2. i \in 1..o /\ r[i] = q[i]
  OBVIOUS
<1>3. CASE q[i].op = "list" /\ a.text = q[i].text
  BY <1>1, <1>2, <1>3 DEF NamedBy
<1>4. ASSUME NEW c \in OpsUpTo(q, p, "create"), q[i].op = "created", a.text = q[c].text,
             CountTo(q, "create", c) = CountTo(q, "created", i)
      PROVE  NamedBy(b, r, o)
  <2>1. c \in 1..p /\ c \in OpsUpTo(r, o, "create") /\ r[c] = q[c]
    BY DEF OpsUpTo
  <2>2. CountTo(r, "create", c) = CountTo(r, "created", i)
    BY <1>4, <2>1, CountAgrees
  <2> QED
    BY <1>1, <1>2, <1>4, <2>1, <2>2 DEF NamedBy
<1> QED
  BY <1>1, <1>3, <1>4

LEMMA RowKept ==
    ASSUME Grown, NEW t, RowOK(t), spare \subseteq spare', todos[t].own => todos[t].session \in Sessions,
           todos'[t].own = todos[t].own, todos'[t].session = todos[t].session, todos'[t].num = todos[t].num,
           todos[t].own => (todos'[t].text = todos[t].text /\ todos'[t].edited = todos[t].edited) \/ todos'[t].edited
    PROVE  RowOK(t)'
<1> SUFFICES ASSUME todos[t].own, todos[t].num # 0 PROVE RowOK(t)'
  BY DEF RowOK
<1>1. PICK s \in Sessions : s = todos[t].session
  OBVIOUS
<1>2. PICK i \in Said(s, {"created", "list"}) : transcript[s][i].num = todos[t].num
  BY <1>1 DEF RowOK
<1>3. i \in Said(s, {"created", "list"})' /\ transcript'[s][i].num = todos'[t].num
  BY <1>1, <1>2 DEF Grown, Said
<1>4. ASSUME Quiet(s)', ~todos'[t].edited PROVE NamedBy(todos'[t], transcript'[s], pos'[s])
  <2>1. Quiet(s)
    <3>1. Numberless(s) \subseteq Numberless(s)'
      BY SaidGrows
    <3> QED
      BY <1>4, <3>1 DEF Quiet
  <2>2. NamedBy(todos[t], transcript[s], pos[s])
    BY <1>1, <1>4, <2>1 DEF RowOK
  <2>3. /\ pos[s] \in Nat /\ pos'[s] \in Nat /\ pos[s] <= pos'[s]
        /\ \A j \in 1..pos[s] : transcript[s][j] = transcript'[s][j]
    BY DEF Grown
  <2> QED
    BY <1>4, <2>2, <2>3, NamedKept
<1> QED
  BY <1>1, <1>3, <1>4 DEF RowOK

LEMMA SessionKept ==
    ASSUME Grown, NEW s \in Sessions, SessionOK(s), pos'[s] = pos[s], Answered(transcript'[s]),
           spare \subseteq spare', closed[s] => closed'[s],
           Len(todos) \in Nat, Len(todos') \in Nat, Len(todos) <= Len(todos'),
           s \notin spare' /\ ~closed'[s] =>
               \A t \in Ids : /\ todos'[t].own = todos[t].own /\ todos'[t].session = todos[t].session
                              /\ todos[t].own /\ todos[t].session = s => Keeps(todos[t], todos'[t], Alone(s)'),
           s \notin spare' => \A t \in 1..Len(todos') : t > Len(todos) => ~(todos'[t].own /\ todos'[t].session = s)
    PROVE  SessionOK(s)'
<1>1. pos[s] \in Nat /\ \A j \in 1..pos[s] : transcript[s][j] = transcript'[s][j]
  BY DEF Grown
<1>2. \A ops : Said(s, ops)' = Said(s, ops)
  BY <1>1 DEF Said
<1>3. Said(s, {"torn"})' # {} => s \in spare'
  BY <1>2 DEF SessionOK
<1>4. ASSUME Quiet(s)', ~closed'[s]
      PROVE  \E f : Follows(f, s, transcript'[s], pos'[s], todos', Len(todos'), Alone(s)')
  <2>1. Quiet(s) /\ ~closed[s] /\ s \notin spare' /\ Alone(s)' \in SUBSET Alone(s)
    BY <1>4, SaidGrows DEF Quiet
  <2>2. PICK f : Follows(f, s, transcript[s], pos[s], todos, Len(todos), Alone(s))
    BY <2>1 DEF SessionOK
  <2>3. \A t \in 1..Len(todos) : /\ todos'[t].own = todos[t].own /\ todos'[t].session = todos[t].session
                                 /\ todos[t].own /\ todos[t].session = s => Keeps(todos[t], todos'[t], Alone(s)')
    BY <1>4, <2>1 DEF Ids
  <2>4. Follows(f, s, transcript'[s], pos[s], todos', Len(todos'), Alone(s)')
    BY <1>1, <2>1, <2>2, <2>3, FollowsKept
  <2> QED
    BY <2>4
<1> QED
  BY <1>3, <1>4 DEF SessionOK

(* An injected TodoWrite leaves what stands before it. *)
LEMMA InjectedAnswers ==
    ASSUME NEW entries \in Seq(Entry), NEW k \in 0..Len(entries), NEW e \in Entry, e.op = "write", NEW joined \in BOOLEAN,
           Answered(entries)
    PROVE  /\ \A j \in 1..k : Injected(entries, k, e, joined)[j] = entries[j]
           /\ Answered(Injected(entries, k, e, joined))
<1> DEFINE longer == InsertAt(entries, k + 1, e)
           x == Injected(entries, k, e, joined)
<1>0. k \in Nat /\ k <= Len(entries) /\ Len(entries) \in Nat
  OBVIOUS
<1>1. longer = (SubSeq(entries, 1, k) \o <<e>>) \o SubSeq(entries, k + 1, Len(entries))
  <2>1. (k + 1) - 1 = k
    BY <1>0
  <2> QED
    BY <2>1 DEF InsertAt
<1>2. \A j \in 1..k + 1 : longer[j] = IF j = k + 1 THEN e ELSE entries[j]
  <2>1. SubSeq(entries, 1, k) \in Seq(Entry) /\ Len(SubSeq(entries, 1, k)) = k
        /\ \A j \in 1..k : SubSeq(entries, 1, k)[j] = entries[j]
    BY <1>0, SubSeqProperties
  <2>2. SubSeq(entries, k + 1, Len(entries)) \in Seq(Entry)
    BY <1>0, SubSeqProperties
  <2>3. <<e>> \in Seq(Entry) /\ Len(<<e>>) = 1 /\ <<e>>[1] = e
    OBVIOUS
  <2>4. ASSUME NEW head \in Seq(Entry), Len(head) = k, NEW one \in Seq(Entry), Len(one) = 1, NEW tail \in Seq(Entry)
        PROVE  \A j \in 1..k + 1 : ((head \o one) \o tail)[j] = IF j = k + 1 THEN one[1] ELSE head[j]
    <3>1. head \o one \in Seq(Entry) /\ Len(head \o one) = k + 1
          /\ \A j \in 1..k + 1 : (head \o one)[j] = IF j = k + 1 THEN one[1] ELSE head[j]
      <4>1. /\ head \o one \in Seq(Entry) /\ Len(head \o one) = Len(head) + Len(one)
            /\ \A j \in 1..Len(head) + Len(one) :
                   (head \o one)[j] = IF j <= Len(head) THEN head[j] ELSE one[j - Len(head)]
        BY ConcatProperties
      <4>2. \A j \in 1..k + 1 : j <= k \/ (j = k + 1 /\ j - k = 1)
        BY <1>0
      <4> QED
        BY <1>0, <2>4, <4>1, <4>2
    <3> HIDE <2>4
    <3>2. \A j \in 1..k + 1 : ((head \o one) \o tail)[j] = (head \o one)[j]
      BY <1>0, <3>1, ConcatProperties
    <3> QED
      BY <3>1, <3>2
  <2>5. \A j \in 1..k + 1 : longer[j] = IF j = k + 1 THEN <<e>>[1] ELSE SubSeq(entries, 1, k)[j]
    BY <1>1, <2>1, <2>2, <2>3, <2>4
  <2> QED
    BY <1>0, <2>1, <2>3, <2>5
<1>3. longer \in Seq(Entry) /\ Len(longer) = Len(entries) + 1
  <2>1. Injected(entries, k, e, FALSE) = longer
    BY DEF Injected
  <2>2. Injected(entries, k, e, FALSE) \in Seq(Entry) /\ Len(Injected(entries, k, e, FALSE)) = Len(entries) + 1
    BY InjectedType
  <2> QED
    BY <2>1, <2>2
<1> HIDE DEF longer
<1>4. \A j \in 1..k + 1 : x[j] = IF j = k + 1 THEN e ELSE entries[j]
  <2>1. x = longer \/ x = [longer EXCEPT ![k + 2] = TornLine]
    BY DEF Injected, longer
  <2>2. \A j \in 1..k + 1 : x[j] = longer[j]
    BY <1>0, <1>3, <2>1
  <2> QED
    BY <1>2, <2>2
<1> HIDE DEF x
<1>5. \A j \in 1..k : x[j] = entries[j]
  BY <1>0, <1>4
<1>6. ASSUME NEW i \in 1..Len(x), x[i].op = "created", \A j \in 1..i : x[j].op \notin {"write", "torn"}
      PROVE  /\ \A j \in 1..i - 1 : x[j].op \in {"created", "update"} => x[j].num # x[i].num
             /\ \E c \in 1..i - 1 : /\ x[c].op = "create" /\ CountTo(x, "create", c) = CountTo(x, "created", i)
                                   /\ x[i].text \in {NoText, x[c].text}
  <2>1. Len(x) = Len(entries) + 1
    BY InjectedType DEF x
  <2>2. i \in Nat /\ ~(k + 1 <= i)
    <3>1. x[k + 1].op = "write"
      BY <1>0, <1>4
    <3> QED
      BY <1>0, <1>6, <2>1, <3>1
  <2>3. i \in 1..k /\ i \in 1..Len(entries)
    BY <1>0, <1>6, <2>2
  <2>4. /\ entries[i].op = "created" /\ \A j \in 1..i : entries[j].op \notin {"write", "torn"}
        /\ \A j \in 1..i : x[j] = entries[j]
    BY <1>5, <1>6, <2>3
  <2>5. /\ \A j \in 1..i - 1 : entries[j].op \in {"created", "update"} => entries[j].num # entries[i].num
        /\ \E c \in 1..i - 1 : /\ entries[c].op = "create" /\ CountTo(entries, "create", c) = CountTo(entries, "created", i)
                               /\ entries[i].text \in {NoText, entries[c].text}
    BY <2>3, <2>4 DEF Answered
  <2>6. \A op : \A j \in 1..i : CountTo(x, op, j) = CountTo(entries, op, j)
    BY <2>2, <2>4, CountAgrees
  <2>7. i \in 1..i /\ \A j \in 1..i - 1 : j \in 1..i
    BY <2>2, <2>3
  <2> QED
    BY <2>4, <2>5, <2>6, <2>7
<1> QED
  BY <1>5, <1>6 DEF Answered, x

(* b is the row a after a request that leaves its text. *)
Marked(a, b) ==
    /\ b.own = a.own /\ b.session = a.session /\ b.num = a.num /\ b.text = a.text /\ b.edited = a.edited
    /\ b.touched \/ (b.status = a.status /\ b.touched = a.touched)

LEMMA MarkedRows ==
    ASSUME NEW row \in Todo, NEW status \in Statuses
    PROVE  /\ Marked(row, row) /\ Marked(row, ByHand(row, status)) /\ Marked(row, BulkSet(row, status))
           /\ Marked(row, [row EXCEPT !.status = status, !.patched = TRUE, !.touched = TRUE])
<1>1. Marked(row, row) /\ Marked(row, [row EXCEPT !.status = status, !.patched = TRUE, !.touched = TRUE])
      /\ Marked(row, [row EXCEPT !.touched = TRUE])
  BY DEF Marked, Todo
<1>2. Marked(row, ByHand(row, status))
  BY DEF Marked, Todo, ByHand, Logged
<1> QED
  BY <1>1, <1>2 DEF BulkSet

(* A request marks rows, adds one that is not the worker's or that it says   *)
(* is, or edits one.                                                         *)
MarksRows == DOMAIN todos' = Ids /\ Len(todos') = Len(todos) /\ \A t \in Ids : Marked(todos[t], todos'[t])
AddsRow   == \E row : todos' = Append(todos, row) /\ row.num = 0 /\ (row.own => row.session \in spare')
EditsRow  ==
    \E u \in Ids, text \in Texts :
        /\ todos' = [todos EXCEPT ![u].text = text, ![u].edited = TRUE]
        /\ todos[u].own /\ todos[u].num = 0 => todos[u].session \in spare'

LEMMA RequestRows ==
    ASSUME TodosInv, Requests
    PROVE  MarksRows \/ AddsRow \/ EditsRow
<1>0. todos \in Seq(Todo) /\ Len(todos) \in Nat /\ DOMAIN todos = Ids /\ \A t \in Ids : todos[t] \in Todo
  BY DEF TodosInv, TodosRowsInv, Ids
<1>2. todos' \in Seq(Todo)
  BY RequestsKeepRows DEF TodosRowsInv
<1>1. ASSUME DOMAIN todos' = Ids, \A t \in Ids : Marked(todos[t], todos'[t]) PROVE MarksRows
  <2>1. Len(todos') \in Nat /\ DOMAIN todos' = 1..Len(todos')
    BY <1>2
  <2>2. Len(todos') = Len(todos)
    BY <1>0, <1>1, <2>1 DEF Ids
  <2> QED
    BY <1>1, <2>2 DEF MarksRows
<1>3. CASE PostTodo
  <2>1. PICK p \in Posts, own \in BOOLEAN :
           /\ todos' = Append(todos, [Row(p.session, p.text, 0, own, p.to) EXCEPT !.touched = TRUE])
           /\ own => p.session \in spare'
    BY <1>3 DEF PostTodo
  <2>2. LET row == [Row(p.session, p.text, 0, own, p.to) EXCEPT !.touched = TRUE] IN
        row.num = 0 /\ (row.own => row.session \in spare')
    BY <2>1 DEF Row
  <2> QED
    BY <2>1, <2>2 DEF AddsRow
<1>4. CASE NudgeTodo
  <2>1. PICK text \in Texts :
           todos' = Append(todos, [Row(NoSession, text, 0, FALSE, "pending") EXCEPT
                                      !.logged = "none", !.patched = TRUE, !.touched = TRUE])
    BY <1>4 DEF NudgeTodo
  <2>2. LET row == [Row(NoSession, text, 0, FALSE, "pending") EXCEPT !.logged = "none", !.patched = TRUE, !.touched = TRUE] IN
        row.num = 0 /\ ~row.own
    BY DEF Row
  <2> QED
    BY <2>1, <2>2 DEF AddsRow
<1>5. CASE InjectTodo
  <2>1. PICK i \in Injections :
           \/ todos' = Append(todos, [Row(i.session, i.text, 0, FALSE, i.to) EXCEPT !.touched = TRUE])
           \/ todos' = todos
    BY <1>5 DEF InjectTodo
  <2>2. LET row == [Row(i.session, i.text, 0, FALSE, i.to) EXCEPT !.touched = TRUE] IN row.num = 0 /\ ~row.own
    BY DEF Row
  <2>3. \A t \in Ids : Marked(todos[t], todos[t])
    BY DEF Marked
  <2> QED
    BY <1>0, <1>1, <2>1, <2>2, <2>3 DEF AddsRow
<1>6. CASE EditTodo
  BY <1>6 DEF EditTodo, EditsRow
<1>7. CASE PatchTodo
  <2>1. PICK u \in Ids, status \in Statuses :
           todos' = [todos EXCEPT ![u].status = status, ![u].patched = TRUE, ![u].touched = TRUE]
    BY <1>7 DEF PatchTodo
  <2>2. todos' = [todos EXCEPT ![u] = [todos[u] EXCEPT !.status = status, !.patched = TRUE, !.touched = TRUE]]
    BY <1>0, <2>1
  <2>3. DOMAIN todos' = Ids
        /\ \A t \in Ids : todos'[t] = IF t = u THEN [todos[u] EXCEPT !.status = status, !.patched = TRUE, !.touched = TRUE] ELSE todos[t]
    BY <1>0, <2>2
  <2>4. Marked(todos[u], [todos[u] EXCEPT !.status = status, !.patched = TRUE, !.touched = TRUE])
    BY <1>0, MarkedRows
  <2>5. \A t \in Ids : Marked(todos[t], todos[t])
    BY DEF Marked
  <2>6. \A t \in Ids : Marked(todos[t], todos'[t])
    BY <2>3, <2>4, <2>5
  <2> QED
    BY <1>1, <2>3, <2>6
<1>8. CASE PatchBulk
  <2>1. PICK some \in SUBSET Ids, status \in Statuses :
           todos' = [t \in Ids |-> IF t \in some THEN BulkSet(todos[t], status) ELSE todos[t]]
    BY <1>8 DEF PatchBulk
  <2>2. DOMAIN todos' = Ids /\ \A t \in Ids : Marked(todos[t], todos'[t])
    BY <1>0, <2>1, MarkedRows
  <2> QED
    BY <1>1, <2>2
<1>9. CASE DeleteTodos
  <2>1. PICK some \in SUBSET Ids : todos' = [t \in Ids |-> IF t \in some THEN ByHand(todos[t], "deleted") ELSE todos[t]]
    BY <1>9 DEF DeleteTodos
  <2>2. "deleted" \in Statuses
    BY DEF Statuses, Terminal
  <2>3. DOMAIN todos' = Ids /\ \A t \in Ids : Marked(todos[t], todos'[t])
    BY <1>0, <2>1, <2>2, MarkedRows
  <2> QED
    BY <1>1, <2>3
<1>10. CASE ObsoleteTodos \/ CloseSessions
  <2>1. PICK some \in SUBSET Ids : todos' = [t \in Ids |-> IF t \in some THEN ByHand(todos[t], "obsolete") ELSE todos[t]]
    <3>1. CASE ObsoleteTodos
      <4>1. PICK some \in SUBSET Ids :
               todos' = [t \in Ids |-> IF t \in some /\ todos[t].status \notin {"completed", "obsolete"}
                                       THEN ByHand(todos[t], "obsolete") ELSE todos[t]]
        BY <3>1 DEF ObsoleteTodos
      <4> DEFINE those == {t \in some : todos[t].status \notin {"completed", "obsolete"}}
      <4>2. todos' = [t \in Ids |-> IF t \in those THEN ByHand(todos[t], "obsolete") ELSE todos[t]]
        BY <4>1
      <4> QED
        BY <4>2
    <3>2. CASE CloseSessions
      <4>1. PICK some \in SUBSET Sessions, cascade \in BOOLEAN :
               todos' = [t \in Ids |-> IF cascade /\ t \in UNION {LeftOpen(s) : s \in some}
                                       THEN ByHand(todos[t], "obsolete") ELSE todos[t]]
        BY <3>2 DEF CloseSessions
      <4> DEFINE those == {t \in Ids : cascade /\ t \in UNION {LeftOpen(s) : s \in some}}
      <4>2. todos' = [t \in Ids |-> IF t \in those THEN ByHand(todos[t], "obsolete") ELSE todos[t]]
        BY <4>1
      <4> HIDE DEF those
      <4>3. [t \in Ids |-> IF t \in those THEN ByHand(todos[t], "obsolete") ELSE todos[t]]
            = [t \in Ids |-> IF t \in those \cap Ids THEN ByHand(todos[t], "obsolete") ELSE todos[t]]
        OBVIOUS
      <4> QED
        BY <4>2, <4>3
    <3> QED
      BY <1>10, <3>1, <3>2
  <2>2. "obsolete" \in Statuses
    BY DEF Statuses, Terminal
  <2>3. DOMAIN todos' = Ids /\ \A t \in Ids : Marked(todos[t], todos'[t])
    BY <1>0, <2>1, <2>2, MarkedRows
  <2> QED
    BY <1>1, <2>3
<1> QED
  BY <1>3, <1>4, <1>5, <1>6, <1>7, <1>8, <1>9, <1>10 DEF Requests

LEMMA RequestsKeepNumbers ==
    ASSUME TodosInv, NumbersInv, Requests
    PROVE  NumbersInv'
<1>0. /\ todos \in Seq(Todo) /\ Len(todos) \in Nat /\ todos' \in Seq(Todo) /\ Len(todos') \in Nat
      /\ \A t \in Ids : todos[t] \in Todo /\ (todos[t].own => todos[t].session \in Sessions)
  BY RequestsKeepRows DEF TodosInv, TodosRowsInv, GoodRow, Ids
<1>1. /\ pos' = pos /\ spare \subseteq spare' /\ \A s \in Sessions : closed[s] => closed'[s]
  <2>1. pos' = pos /\ spare \subseteq spare'
    BY DEF Requests, PostTodo, PatchTodo, EditTodo, NudgeTodo, InjectTodo, PatchBulk,
       DeleteTodos, ObsoleteTodos, CloseSessions, Request, Begins
  <2>2. \A s \in Sessions : closed[s] => closed'[s]
    BY DEF Requests, PostTodo, PatchTodo, EditTodo, NudgeTodo, InjectTodo, PatchBulk,
       DeleteTodos, ObsoleteTodos, CloseSessions
  <2> QED
    BY <2>1, <2>2
<1>2. \A s \in Sessions : Answered(transcript'[s]) /\ \A j \in 1..pos[s] : transcript'[s][j] = transcript[s][j]
  <2>1. \A s \in Sessions : Answered(transcript[s])
    BY DEF NumbersInv, SessionOK
  <2>2. CASE ~InjectTodo
    <3>1. transcript' = transcript
      BY <2>2 DEF Requests, PostTodo, PatchTodo, EditTodo, NudgeTodo, PatchBulk, DeleteTodos, ObsoleteTodos,
         CloseSessions, Request, input
    <3> QED
      BY <2>1, <3>1
  <2>3. CASE InjectTodo
    <3>0. InputInv
      BY DEF TodosInv
    <3>i. PICK i \in Injections : \E joined \in BOOLEAN : \E k \in pos[i.session]..Len(transcript[i.session]) :
             transcript' = [transcript EXCEPT ![i.session] = Injected(@, k, TodoWrite(i.text, i.to), joined)]
      BY <2>3 DEF InjectTodo
    <3>1. PICK joined \in BOOLEAN, k \in pos[i.session]..Len(transcript[i.session]) :
             transcript' = [transcript EXCEPT ![i.session] = Injected(@, k, TodoWrite(i.text, i.to), joined)]
      BY <3>i
    <3> DEFINE r == i.session
               e == TodoWrite(i.text, i.to)
    <3>2. r \in Sessions /\ e \in Entry /\ e.op = "write"
      BY InjectionAssumption DEF TodoWrite, Entry, Ops, Statuses, Open
    <3> HIDE DEF e
    <3>3. k \in 0..Len(transcript[r]) /\ transcript[r] \in Seq(Entry) /\ pos[r] \in Nat /\ pos[r] <= k /\ k \in Nat
      BY <3>0, <3>2 DEF InputInv
    <3>4. /\ \A j \in 1..k : Injected(transcript[r], k, e, joined)[j] = transcript[r][j]
          /\ Answered(Injected(transcript[r], k, e, joined))
      BY <2>1, <3>2, <3>3, InjectedAnswers
    <3>5. \A s \in Sessions : transcript'[s] = IF s = r THEN Injected(transcript[r], k, e, joined) ELSE transcript[s]
      BY <3>0, <3>1, <3>2 DEF InputInv, e
    <3>6. \A j \in 1..pos[r] : j \in 1..k
      BY <3>3
    <3> QED
      BY <2>1, <3>4, <3>5, <3>6
  <2> QED
    BY <2>2, <2>3
<1>3. Grown
  BY <1>1, <1>2 DEF Grown, TodosInv, InputInv
<1>4. CASE MarksRows
  <2>1. Ids' = Ids /\ Len(todos') = Len(todos) /\ \A t \in Ids : Marked(todos[t], todos'[t])
    BY <1>4 DEF MarksRows, Ids
  <2>2. ASSUME NEW t \in Ids PROVE RowOK(t)'
    <3>1. /\ RowOK(t) /\ todos'[t].own = todos[t].own /\ todos'[t].session = todos[t].session /\ todos'[t].num = todos[t].num
          /\ todos'[t].text = todos[t].text /\ todos'[t].edited = todos[t].edited
      BY <2>1 DEF NumbersInv, Marked
    <3> QED
      BY <1>0, <1>1, <1>3, <3>1, RowKept
  <2>3. ASSUME NEW s \in Sessions PROVE SessionOK(s)'
    <3>1. \A t \in Ids : /\ todos'[t].own = todos[t].own /\ todos'[t].session = todos[t].session
                         /\ Keeps(todos[t], todos'[t], Alone(s)')
      BY <2>1 DEF Marked, Keeps
    <3>2. SessionOK(s)
      BY DEF NumbersInv
    <3>3. \A t \in 1..Len(todos') : ~(t > Len(todos))
      BY <1>0, <2>1
    <3>4. Len(todos) <= Len(todos')
      BY <1>0, <2>1
    <3> QED
      BY <1>0, <1>1, <1>2, <1>3, <3>1, <3>2, <3>3, <3>4, SessionKept
  <2> QED
    BY <2>1, <2>2, <2>3 DEF NumbersInv
<1>5. CASE AddsRow
  <2>1. PICK row : todos' = Append(todos, row) /\ row.num = 0 /\ (row.own => row.session \in spare')
    BY <1>5 DEF AddsRow
  <2>2. /\ Len(todos') = Len(todos) + 1 /\ todos'[Len(todos) + 1] = row
        /\ \A t \in Ids : todos'[t] = todos[t]
        /\ \A t \in Ids' : t \in Ids \/ t = Len(todos) + 1
    BY <1>0, <2>1 DEF Ids
  <2>3. ASSUME NEW t \in Ids' PROVE RowOK(t)'
    <3>1. CASE t = Len(todos) + 1
      BY <2>1, <2>2, <3>1 DEF RowOK
    <3>2. CASE t \in Ids
      <4>1. RowOK(t)
        BY <3>2 DEF NumbersInv
      <4> QED
        BY <1>0, <1>1, <1>3, <2>2, <3>2, <4>1, RowKept
    <3> QED
      BY <2>2, <3>1, <3>2
  <2>4. ASSUME NEW s \in Sessions PROVE SessionOK(s)'
    <3>1. \A t \in Ids : /\ todos'[t].own = todos[t].own /\ todos'[t].session = todos[t].session
                         /\ Keeps(todos[t], todos'[t], Alone(s)')
      BY <2>2 DEF Keeps
    <3>2. SessionOK(s)
      BY DEF NumbersInv
    <3>3. s \notin spare' => \A t \in 1..Len(todos') : t > Len(todos) => ~(todos'[t].own /\ todos'[t].session = s)
      BY <1>0, <2>1, <2>2
    <3>4. Len(todos) <= Len(todos')
      BY <1>0, <2>2
    <3> QED
      BY <1>0, <1>1, <1>2, <1>3, <3>1, <3>2, <3>3, <3>4, SessionKept
  <2> QED
    BY <2>3, <2>4 DEF NumbersInv
<1>6. CASE EditsRow
  <2>1. PICK u \in Ids, text \in Texts : /\ todos' = [todos EXCEPT ![u].text = text, ![u].edited = TRUE]
                                         /\ todos[u].own /\ todos[u].num = 0 => todos[u].session \in spare'
    BY <1>6 DEF EditsRow
  <2>2. todos' = [todos EXCEPT ![u] = [todos[u] EXCEPT !.text = text, !.edited = TRUE]]
    BY <1>0, <2>1
  <2>3. /\ Len(todos') = Len(todos) /\ Ids' = Ids
        /\ \A t \in Ids : todos'[t] = IF t = u THEN [todos[u] EXCEPT !.text = text, !.edited = TRUE] ELSE todos[t]
    BY <1>0, <2>2 DEF Ids
  <2>4. /\ todos'[u].own = todos[u].own /\ todos'[u].session = todos[u].session /\ todos'[u].num = todos[u].num
        /\ todos'[u].status = todos[u].status /\ todos'[u].touched = todos[u].touched /\ todos'[u].edited
    <3>1. todos[u] \in Todo
      BY <1>0
    <3> QED
      BY <2>3, <3>1 DEF Todo
  <2>5. ASSUME NEW t \in Ids PROVE RowOK(t)'
    <3>1. RowOK(t)
      BY DEF NumbersInv
    <3>2. /\ todos'[t].own = todos[t].own /\ todos'[t].session = todos[t].session /\ todos'[t].num = todos[t].num
          /\ (todos'[t].text = todos[t].text /\ todos'[t].edited = todos[t].edited) \/ todos'[t].edited
      BY <2>3, <2>4
    <3> QED
      BY <1>0, <1>1, <1>3, <3>1, <3>2, RowKept
  <2>6. ASSUME NEW s \in Sessions PROVE SessionOK(s)'
    <3>1. \A t \in Ids : todos'[t].own = todos[t].own /\ todos'[t].session = todos[t].session
      BY <2>3, <2>4
    <3>2. ASSUME s \notin spare', NEW t \in Ids, todos[t].own, todos[t].session = s
          PROVE  Keeps(todos[t], todos'[t], Alone(s)')
      BY <2>1, <2>3, <2>4, <3>2 DEF Keeps
    <3>3. \A t \in 1..Len(todos') : ~(t > Len(todos))
      BY <1>0, <2>3
    <3>4. Len(todos) <= Len(todos') /\ SessionOK(s)
      BY <1>0, <2>3 DEF NumbersInv
    <3> QED
      BY <1>0, <1>1, <1>2, <1>3, <3>1, <3>2, <3>3, <3>4, SessionKept
  <2> QED
    BY <2>3, <2>5, <2>6 DEF NumbersInv
<1> QED
  BY <1>4, <1>5, <1>6, RequestRows
-------------------------------------------------------------------------------
(* What an entry does to the rows *)

(* The entry adds a row, sets the status of one, or may number one. *)
ReadAdds(r, e) ==
    /\ ~closed[r] /\ e.op \in {"create", "write", "list"}
    /\ \E status \in Statuses :
         /\ todos' = Append(todos, Row(r, e.text, IF e.op = "list" THEN e.num ELSE 0, TRUE, status))
         /\ e.op = "create" => status = "pending"

ReadSets(r, e) ==
    /\ ~closed[r] /\ e.op \in {"create", "write", "list", "update"}
    /\ \E u \in Ids, status \in Statuses :
         /\ todos' = [todos EXCEPT ![u] = Logged(@, status)]
         /\ todos[u].own
         /\ IF e.op \in {"list", "update"} /\ e.num # 0 THEN todos[u].num = e.num ELSE todos[u].session = r

ReadNumbers(r, e) == ~closed[r] /\ e.op = "created" /\ todos' = Numbered(r, e.text, e.num)

LEMMA Matches ==
    ASSUME todos \in Seq(Todo), NEW s, NEW text, NEW num, Matching(s, text, num) # {}
    PROVE  LET t == Oldest(Matching(s, text, num)) IN
           t \in Ids /\ todos[t].own /\ IF num # 0 THEN todos[t].num = num ELSE todos[t].session = s
<1>1. Len(todos) \in Nat /\ Matching(s, text, num) \in SUBSET Nat
  BY DEF Matching, Ids
<1>2. Min(Matching(s, text, num)) \in Matching(s, text, num)
  BY <1>1, MinIs
<1> QED
  BY <1>2 DEF Oldest, Matching

LEMMA ReadRows ==
    ASSUME TodosInv, NEW r \in Sessions, ReadEntry(r)
    PROVE  LET e == transcript[r][pos[r] + 1] IN
           /\ e \in Entry
           /\ todos' = todos \/ ReadAdds(r, e) \/ ReadSets(r, e) \/ ReadNumbers(r, e)
<1> DEFINE e == transcript[r][pos[r] + 1]
<1>0. todos \in Seq(Todo) /\ Len(todos) \in Nat
  BY DEF TodosInv, TodosRowsInv
<1>1. e \in Entry /\ todos' = Extracted(r, e)
  BY DEF ReadEntry, TodosInv, InputInv
<1> HIDE DEF e
<1>2. ASSUME ~closed[r], e.op \in {"create", "write", "list"}, NEW num \in Nat, num = IF e.op = "list" THEN e.num ELSE 0,
             NEW status \in Statuses, e.op = "create" => status = "pending", todos' = Upserted(r, e.text, num, status)
      PROVE  todos' = todos \/ ReadAdds(r, e) \/ ReadSets(r, e)
  <2>1. CASE todos' = Append(todos, Row(r, e.text, num, TRUE, status))
    BY <1>2, <2>1 DEF ReadAdds
  <2>2. CASE Matching(r, e.text, num) # {} /\ todos' = [todos EXCEPT ![Oldest(Matching(r, e.text, num))] = Logged(@, status)]
    <3> DEFINE u == Oldest(Matching(r, e.text, num))
    <3>1. u \in Ids /\ todos[u].own /\ IF num # 0 THEN todos[u].num = num ELSE todos[u].session = r
      BY <1>0, <2>2, Matches
    <3> HIDE DEF u
    <3>2. IF e.op \in {"list", "update"} /\ e.num # 0 THEN todos[u].num = e.num ELSE todos[u].session = r
      BY <1>2, <3>1
    <3>3. todos' = [todos EXCEPT ![u] = Logged(@, status)]
      BY <2>2 DEF u
    <3> QED
      BY <1>2, <3>1, <3>2, <3>3 DEF ReadSets
  <2> QED
    BY <1>2, <2>1, <2>2 DEF Upserted
<1>3. ASSUME ~closed[r], e.op = "update", todos' = Updated(e.num, e.to)
      PROVE  todos' = todos \/ ReadSets(r, e)
  <2> DEFINE found == {t \in Ids : todos[t].own /\ todos[t].num = e.num}
             u     == Oldest(found)
  <2>1. SUFFICES ASSUME e.to # "none", found # {}, todos' = [todos EXCEPT ![u] = Logged(@, UpdateTo(e.to))]
                 PROVE  ReadSets(r, e)
    BY <1>3 DEF Updated
  <2>2. found \in SUBSET Nat
    BY <1>0 DEF Ids
  <2>3. u \in found
    <3> HIDE DEF found
    <3> QED
      BY <2>1, <2>2, MinIs DEF Oldest
  <2>4. UpdateTo(e.to) \in Statuses
    BY <1>1, <2>1 DEF Entry, UpdateTo, Statuses, Terminal
  <2>5. e.num # 0
    BY <1>1, <1>3 DEF Entry
  <2>6. u \in Ids /\ todos[u].own /\ todos[u].num = e.num
    BY <2>3
  <2> HIDE DEF u, found
  <2> QED
    BY <1>3, <2>1, <2>4, <2>5, <2>6 DEF ReadSets
<1>4. e.op \in {"create", "write", "list"} => Given(e.to) \in Statuses /\ e.num \in Nat /\ 0 \in Nat
  BY <1>1 DEF Entry, Given, Statuses, Open
<1>5. "pending" \in Statuses
  BY DEF Statuses, Open
<1>6. \/ todos' = todos
      \/ /\ ~closed[r] /\ e.op \in {"create", "write", "list"}
         /\ todos' = Upserted(r, e.text, IF e.op = "list" THEN e.num ELSE 0, IF e.op = "create" THEN "pending" ELSE Given(e.to))
      \/ ReadNumbers(r, e)
      \/ ~closed[r] /\ e.op = "update" /\ todos' = Updated(e.num, e.to)
  BY <1>1 DEF Extracted, Entry, Ops, ReadNumbers
<1>7. ASSUME ~closed[r], e.op \in {"create", "write", "list"},
             todos' = Upserted(r, e.text, IF e.op = "list" THEN e.num ELSE 0, IF e.op = "create" THEN "pending" ELSE Given(e.to))
      PROVE  todos' = todos \/ ReadAdds(r, e) \/ ReadSets(r, e)
  <2>1. (IF e.op = "list" THEN e.num ELSE 0) \in Nat /\ (IF e.op = "create" THEN "pending" ELSE Given(e.to)) \in Statuses
    BY <1>4, <1>5, <1>7
  <2> QED
    BY <1>2, <1>7, <2>1
<1> QED
  BY <1>1, <1>3, <1>6, <1>7 DEF e

LEMMA ReadFrame ==
    ASSUME TodosInv, NEW r \in Sessions, ReadEntry(r)
    PROVE  /\ Grown /\ transcript' = transcript /\ pos'[r] = pos[r] + 1 /\ pos[r] \in Nat
           /\ \A s \in Sessions : s # r => pos'[s] = pos[s] /\ closed'[s] = closed[s]
           /\ spare \subseteq spare' /\ \A s \in Sessions : closed[s] => closed'[s]
           /\ Len(todos) \in Nat /\ Len(todos') \in Nat /\ Len(todos) <= Len(todos')
           /\ \A i \in 1..pos[r] + 1 : transcript[r][i] \in Entry
<1>0. InputInv /\ todos \in Seq(Todo)
  BY DEF TodosInv, TodosRowsInv
<1>1. /\ transcript' = transcript /\ pos' = [pos EXCEPT ![r] = @ + 1] /\ pos[r] < Len(transcript[r])
      /\ closed' = [closed EXCEPT ![r] = @ \/ transcript[r][pos[r] + 1].op = "end"] /\ spare \subseteq spare'
  BY DEF ReadEntry, input
<1>2. pos'[r] = pos[r] + 1 /\ pos[r] \in Nat /\ \A s \in Sessions : s # r => pos'[s] = pos[s]
  BY <1>0, <1>1 DEF InputInv
<1>3. Grown
  BY <1>0, <1>1, <1>2 DEF Grown, InputInv
<1>4. \A s \in Sessions : (closed[s] => closed'[s]) /\ (s # r => closed'[s] = closed[s])
  BY <1>0, <1>1 DEF InputInv
<1>5. Len(todos) \in Nat /\ Len(todos') \in Nat /\ Len(todos) <= Len(todos')
  <2> DEFINE e == transcript[r][pos[r] + 1]
  <2>1. todos' = todos \/ ReadAdds(r, e) \/ ReadSets(r, e) \/ ReadNumbers(r, e)
    BY ReadRows
  <2> HIDE DEF e
  <2>2. todos' \in Seq(Todo) /\ Len(todos) \in Nat
    BY <1>0, ReadKeepsRows DEF TodosRowsInv
  <2>3. CASE todos' = todos
    BY <2>2, <2>3
  <2>4. CASE ReadAdds(r, e)
    BY <1>0, <2>2, <2>4 DEF ReadAdds
  <2>5. CASE ReadSets(r, e)
    BY <1>0, <2>2, <2>5 DEF ReadSets
  <2>6. CASE ReadNumbers(r, e)
    <3>1. DOMAIN todos' = Ids /\ DOMAIN todos' = 1..Len(todos') /\ Len(todos') \in Nat
      BY <2>2, <2>6 DEF ReadNumbers, Numbered
    <3> QED
      BY <2>2, <3>1 DEF Ids
  <2> QED
    BY <2>1, <2>3, <2>4, <2>5, <2>6
<1>6. \A i \in 1..pos[r] + 1 : transcript[r][i] \in Entry
  <2>1. transcript[r] \in Seq(Entry) /\ pos[r] + 1 <= Len(transcript[r]) /\ Len(transcript[r]) \in Nat
    BY <1>0, <1>1, <1>2 DEF InputInv
  <2> QED
    BY <1>2, <2>1
<1> QED
  BY <1>1, <1>2, <1>3, <1>4, <1>5, <1>6

(* A row after an entry: only a result numbers it, and only the entry that    *)
(* speaks of it sets its status.                                             *)
LEMMA ReadRow ==
    ASSUME TodosInv, NEW r \in Sessions, ReadEntry(r), NEW t \in Ids
    PROVE  LET e == transcript[r][pos[r] + 1]
               a == todos[t]
               b == todos'[t]
           IN  /\ b.own = a.own /\ b.session = a.session /\ b.text = a.text /\ b.edited = a.edited /\ b.touched = a.touched
               /\ b.num = a.num \/ (ReadNumbers(r, e) /\ t \in NumberTaker(r, e.text) /\ b.num = e.num)
               /\ b.status = a.status \/ (ReadSets(r, e) /\ a.own /\ IF e.op \in {"list", "update"} /\ e.num # 0
                                                                    THEN a.num = e.num ELSE a.session = r)
<1> DEFINE e == transcript[r][pos[r] + 1]
<1>0. todos \in Seq(Todo) /\ Len(todos) \in Nat /\ todos[t] \in Todo
  BY DEF TodosInv, TodosRowsInv, Ids
<1>1. todos' = todos \/ ReadAdds(r, e) \/ ReadSets(r, e) \/ ReadNumbers(r, e)
  BY ReadRows
<1> HIDE DEF e
<1>2. CASE todos' = todos
  BY <1>2 DEF e
<1>3. CASE ReadAdds(r, e)
  <2>1. todos'[t] = todos[t]
    BY <1>0, <1>3 DEF ReadAdds, Ids
  <2> QED
    BY <2>1 DEF e
<1>4. CASE ReadSets(r, e)
  <2>1. PICK u \in Ids, status \in Statuses :
           /\ todos' = [todos EXCEPT ![u] = Logged(@, status)]
           /\ todos[u].own
           /\ IF e.op \in {"list", "update"} /\ e.num # 0 THEN todos[u].num = e.num ELSE todos[u].session = r
    BY <1>4 DEF ReadSets
  <2>2. todos'[t] = IF t = u THEN Logged(todos[t], status) ELSE todos[t]
    BY <1>0, <2>1 DEF Ids
  <2>3. LET b == Logged(todos[t], status) IN
        /\ b.own = todos[t].own /\ b.session = todos[t].session /\ b.text = todos[t].text
        /\ b.edited = todos[t].edited /\ b.touched = todos[t].touched /\ b.num = todos[t].num
    BY <1>0 DEF Logged, Todo
  <2>4. CASE t # u
    BY <2>2, <2>4 DEF e
  <2>5. CASE t = u
    BY <1>4, <2>1, <2>2, <2>3, <2>5 DEF e
  <2> QED
    BY <2>4, <2>5
<1>5. CASE ReadNumbers(r, e)
  <2>1. todos'[t] = IF t \in NumberTaker(r, e.text) THEN [todos[t] EXCEPT !.num = e.num] ELSE todos[t]
    BY <1>5 DEF ReadNumbers, Numbered
  <2>2. LET b == [todos[t] EXCEPT !.num = e.num] IN
        /\ b.own = todos[t].own /\ b.session = todos[t].session /\ b.text = todos[t].text /\ b.status = todos[t].status
        /\ b.edited = todos[t].edited /\ b.touched = todos[t].touched /\ b.num = e.num
    BY <1>0 DEF Todo
  <2> QED
    BY <1>5, <2>1, <2>2 DEF e
<1> QED
  BY <1>1, <1>2, <1>3, <1>4, <1>5

LEMMA NewRead ==
    ASSUME TodosInv, NEW r \in Sessions, ReadEntry(r), NEW t \in 1..Len(todos'), t > Len(todos)
    PROVE  LET e == transcript[r][pos[r] + 1] IN
           /\ t = Len(todos) + 1 /\ Len(todos') = Len(todos) + 1 /\ ~closed[r] /\ e.op \in {"create", "write", "list"}
           /\ \A u \in Ids : todos'[u] = todos[u]
           /\ todos'[t].own /\ todos'[t].session = r /\ todos'[t].text = e.text /\ ~todos'[t].edited
           /\ todos'[t].num = (IF e.op = "list" THEN e.num ELSE 0)
           /\ e.op = "create" => todos'[t].status = "pending"
<1> DEFINE e == transcript[r][pos[r] + 1]
<1>0. todos \in Seq(Todo) /\ Len(todos) \in Nat /\ todos' \in Seq(Todo)
  BY ReadKeepsRows DEF TodosInv, TodosRowsInv
<1>1. todos' = todos \/ ReadAdds(r, e) \/ ReadSets(r, e) \/ ReadNumbers(r, e)
  BY ReadRows
<1> HIDE DEF e
<1>2. ReadAdds(r, e)
  <2>1. todos' # todos
    BY <1>0
  <2>2. ~ReadSets(r, e)
    BY <1>0 DEF ReadSets
  <2>3. ~ReadNumbers(r, e)
    <3> SUFFICES ASSUME ReadNumbers(r, e) PROVE FALSE
      OBVIOUS
    <3>1. DOMAIN todos' = Ids
      BY DEF ReadNumbers, Numbered
    <3>2. DOMAIN todos' = 1..Len(todos') /\ Len(todos') \in Nat
      BY <1>0
    <3> QED
      BY <1>0, <3>1, <3>2 DEF Ids
  <2> QED
    BY <1>1, <2>1, <2>2, <2>3
<1>3. PICK status \in Statuses :
         /\ todos' = Append(todos, Row(r, e.text, IF e.op = "list" THEN e.num ELSE 0, TRUE, status))
         /\ e.op = "create" => status = "pending"
  BY <1>2 DEF ReadAdds
<1> DEFINE row == Row(r, e.text, IF e.op = "list" THEN e.num ELSE 0, TRUE, status)
<1>4. /\ row.own /\ row.session = r /\ row.text = e.text /\ ~row.edited /\ row.status = status
      /\ row.num = (IF e.op = "list" THEN e.num ELSE 0)
  BY DEF Row
<1> HIDE DEF row
<1>5. todos' = Append(todos, row)
  BY <1>3 DEF row
<1>6. t = Len(todos) + 1 /\ Len(todos') = Len(todos) + 1 /\ todos'[t] = row /\ \A u \in Ids : todos'[u] = todos[u]
  BY <1>0, <1>5 DEF Ids
<1>7. ~closed[r] /\ e.op \in {"create", "write", "list"}
  BY <1>2 DEF ReadAdds
<1> QED
  BY <1>3, <1>4, <1>6, <1>7 DEF e

(* What takes a number waits for one. *)
LEMMA TakerWaits ==
    ASSUME NEW r, NEW text, Len(todos) \in Nat
    PROVE  \A u \in NumberTaker(r, text) : u \in Ids /\ todos[u].own /\ todos[u].session = r /\ todos[u].num = 0
<1> DEFINE unnumbered == {u \in Ids : todos[u].own /\ todos[u].session = r /\ todos[u].num = 0}
           named      == {u \in unnumbered : todos[u].text = text}
<1>1. unnumbered \in SUBSET Nat /\ named \in SUBSET Nat
  BY DEF Ids
<1>2. (named # {} => Min(named) \in named) /\ (unnumbered # {} => Min(unnumbered) \in unnumbered)
  <2> HIDE DEF named, unnumbered
  <2> QED
    BY <1>1, MinIs
<1>3. \A u \in NumberTaker(r, text) : u \in unnumbered
  BY <1>2 DEF NumberTaker, Oldest
<1> QED
  BY <1>3

LEMMA ReadElsewhere ==
    ASSUME TodosInv, NumbersInv, NEW r \in Sessions, ReadEntry(r), NEW s \in Sessions, s # r
    PROVE  SessionOK(s)'
<1> DEFINE e == transcript[r][pos[r] + 1]
<1>0. /\ Grown /\ transcript' = transcript /\ pos'[r] = pos[r] + 1 /\ pos[r] \in Nat /\ pos'[s] = pos[s]
      /\ spare \subseteq spare' /\ (closed[s] => closed'[s])
      /\ Len(todos) \in Nat /\ Len(todos') \in Nat /\ Len(todos) <= Len(todos')
  BY ReadFrame
<1>1. Answered(transcript'[s]) /\ SessionOK(s)
  BY <1>0 DEF NumbersInv, SessionOK
<1>2. ASSUME NEW t \in Ids PROVE todos'[t].own = todos[t].own /\ todos'[t].session = todos[t].session
  BY ReadRow
<1>3. ASSUME NEW t \in Ids, todos[t].own, todos[t].session = s PROVE Keeps(todos[t], todos'[t], Alone(s)')
  <2>1. /\ todos'[t].text = todos[t].text /\ todos'[t].edited = todos[t].edited /\ todos'[t].touched = todos[t].touched
        /\ todos'[t].num = todos[t].num \/ t \in NumberTaker(r, e.text)
        /\ \/ todos'[t].status = todos[t].status
           \/ IF e.op \in {"list", "update"} /\ e.num # 0 THEN todos[t].num = e.num ELSE todos[t].session = r
    BY ReadRow
  <2>2. t \notin NumberTaker(r, e.text)
    BY <1>0, <1>3, TakerWaits
  <2>3. ASSUME todos[t].num \in {0} \cup Alone(s)', e.op \in {"list", "update"}, e.num # 0, todos[t].num = e.num
        PROVE  FALSE
    <3>0. PICK n : n = e.num
      OBVIOUS
    <3>1. OnlyHere(s, n)'
      BY <2>3, <3>0 DEF Alone
    <3>2. pos'[r] \in Said(r, {"created", "update", "list"})' /\ transcript'[r][pos'[r]].num = n
      BY <1>0, <2>3, <3>0 DEF Said
    <3> QED
      BY <3>1, <3>2 DEF OnlyHere
  <2> QED
    BY <1>3, <2>1, <2>2, <2>3 DEF Keeps
<1>4. ASSUME NEW t \in 1..Len(todos'), t > Len(todos) PROVE todos'[t].session # s
  BY <1>4, NewRead
<1> HIDE DEF e
<1> QED
  BY <1>0, <1>1, <1>2, <1>3, <1>4, SessionKept
-------------------------------------------------------------------------------
(* What an entry of the session itself does to its numbers *)

(* A session that stays quiet has said no TodoWrite and no torn line, and its *)
(* TaskCreates make rows.                                                     *)
LEMMA QuietRead ==
    ASSUME TodosInv, NumbersInv, NEW r \in Sessions, ReadEntry(r), Quiet(r)'
    PROVE  LET e == transcript[r][pos[r] + 1] IN
           /\ Quiet(r) /\ r \notin spare'
           /\ \A j \in 1..pos[r] + 1 : transcript[r][j].op \notin {"write", "torn"}
           /\ e.op = "list" => e.num # 0 /\ Alone(r)' = {}
           /\ e.op = "create" => Len(todos') # Len(todos)
<1> DEFINE e == transcript[r][pos[r] + 1]
<1>0. /\ Grown /\ transcript' = transcript /\ pos'[r] = pos[r] + 1 /\ pos[r] \in Nat
      /\ spare \subseteq spare'
  BY ReadFrame
<1>1. Numberless(r)' = {} /\ r \notin spare' /\ r \notin spare
  BY <1>0 DEF Quiet
<1>2. Quiet(r)
  <2>1. Numberless(r) \subseteq Numberless(r)'
    BY <1>0, SaidGrows
  <2> QED
    BY <1>1, <2>1 DEF Quiet
<1>3. spare' = IF e.op = "torn" \/ (e.op = "create" /\ Len(todos') = Len(todos)) THEN spare \cup {r} ELSE spare
  BY DEF ReadEntry
<1>4. e.op # "torn" /\ (e.op = "create" => Len(todos') # Len(todos))
  <2> HIDE DEF e
  <2> QED
    BY <1>1, <1>3
<1>5. pos[r] + 1 \in 1..pos'[r] /\ \A i \in 1..pos'[r] : i \in 1..pos[r] + 1
  BY <1>0
<1>6. Said(r, {"write"})' = {} /\ (e.op = "list" => e.num # 0)
  <2>1. e.op = "list" => pos[r] + 1 \in Said(r, {"list"})'
    BY <1>0, <1>5 DEF Said
  <2>2. e.op = "list" /\ e.num = 0 => pos[r] + 1 \in Numberless(r)'
    BY <1>0, <2>1 DEF Numberless
  <2>3. Said(r, {"write"})' \subseteq Numberless(r)'
    BY DEF Numberless
  <2> QED
    BY <1>1, <2>2, <2>3
<1>7. e.op = "list" => Alone(r)' = {}
  <2>1. e.op = "list" => pos[r] + 1 \in Said(r, {"list"})'
    BY <1>0, <1>5 DEF Said
  <2> QED
    BY <2>1 DEF Alone
<1>8. ASSUME NEW j \in 1..pos[r] + 1 PROVE transcript[r][j].op \notin {"write", "torn"}
  <2>1. transcript[r][j].op # "write"
    BY <1>0, <1>6 DEF Said
  <2>2. transcript[r][j].op # "torn"
    <3>1. CASE j = pos[r] + 1
      BY <1>4, <3>1
    <3>2. CASE j \in 1..pos[r]
      <4>1. Said(r, {"torn"}) = {}
        BY <1>1 DEF NumbersInv, SessionOK
      <4> QED
        BY <3>2, <4>1 DEF Said
    <3> QED
      BY <1>0, <3>1, <3>2
  <2> QED
    BY <2>1, <2>2
<1> QED
  BY <1>1, <1>2, <1>4, <1>6, <1>7, <1>8

(* The rows of a session with this number. *)
RowsOf(rows, m, s, n) == {t \in 1..m : rows[t].own /\ rows[t].session = s /\ rows[t].num = n}

(* Of a session's tasks, each number is one's. *)
LEMMA OneTask ==
    ASSUME NEW f, NEW s, NEW q, NEW p \in Nat, NEW rows, NEW m \in Nat, NEW alone,
           Follows(f, s, q, p, rows, m, alone), Len(q) \in Nat, p <= Len(q), Answered(q),
           \A j \in 1..p : q[j].op \notin {"write", "torn"},
           NEW n \in alone, n # 0, NEW t \in RowsOf(rows, m, s, n), NEW u \in RowsOf(rows, m, s, n)
    PROVE  t = u
<1>0. /\ t \in 1..m /\ rows[t].own /\ rows[t].session = s /\ rows[t].num = n
      /\ u \in 1..m /\ rows[u].own /\ rows[u].session = s /\ rows[u].num = n
  BY DEF RowsOf
<1>1. PICK i \in OpsUpTo(q, p, "create") : t = f[i]
  BY <1>0 DEF Follows
<1>2. PICK k \in OpsUpTo(q, p, "create") : u = f[k]
  BY <1>0 DEF Follows
<1>3. PICK j \in OpsUpTo(q, p, "created") : n = q[j].num /\ CountTo(q, "created", j) = CountTo(q, "create", i)
  BY <1>0, <1>1 DEF Follows, Matched, Has
<1>4. PICK l \in OpsUpTo(q, p, "created") : n = q[l].num /\ CountTo(q, "created", l) = CountTo(q, "create", k)
  BY <1>0, <1>2 DEF Follows, Matched, Has
<1>5. ASSUME NEW x \in OpsUpTo(q, p, "created"), NEW y \in OpsUpTo(q, p, "created"), q[x].num = q[y].num PROVE ~(x < y)
  <2>1. x \in 1..p /\ y \in 1..p /\ q[x].op = "created" /\ q[y].op = "created" /\ y \in 1..Len(q)
    BY DEF OpsUpTo
  <2>2. \A z \in 1..y : q[z].op \notin {"write", "torn"}
    BY <2>1
  <2>3. \A z \in 1..y - 1 : q[z].op \in {"created", "update"} => q[z].num # q[y].num
    BY <2>1, <2>2 DEF Answered
  <2> QED
    BY <1>5, <2>1, <2>3
<1>6. j = l
  <2>1. j \in Nat /\ l \in Nat
    BY DEF OpsUpTo
  <2>2. q[j].num = q[l].num /\ q[l].num = q[j].num
    BY <1>3, <1>4
  <2>3. ~(j < l)
    BY <1>5, <2>2
  <2>4. ~(l < j)
    BY <1>5, <2>2
  <2> QED
    BY <2>1, <2>3, <2>4
<1>7. i = k
  BY <1>3, <1>4, <1>6, CountTells
<1> QED
  BY <1>1, <1>2, <1>7

(* The oldest unnumbered row takes the number of a result that names its      *)
(* text, or none.                                                            *)
LEMMA TakerIs ==
    ASSUME NEW r, NEW u, FirstWaits(todos, Len(todos), r, u), Len(todos) \in Nat,
           \A t \in Ids : todos[t].text \in Texts,
           NEW text \in {NoText, todos[u].text}
    PROVE  NumberTaker(r, text) = {u}
<1> DEFINE unnumbered == {t \in Ids : todos[t].own /\ todos[t].session = r /\ todos[t].num = 0}
           named      == {t \in unnumbered : todos[t].text = text}
<1>1. unnumbered \in SUBSET Nat /\ named \in SUBSET Nat /\ u \in unnumbered
  BY DEF Ids, FirstWaits
<1>2. (u \in named \/ named = {}) /\ \A t \in unnumbered : u <= t
  BY <1>1, TextAssumption DEF Ids, FirstWaits
<1>3. Min(unnumbered) = u /\ (named # {} => Min(named) = u)
  <2>1. \A t \in named : u <= t
    BY <1>2
  <2> HIDE DEF unnumbered, named
  <2> QED
    BY <1>1, <1>2, <2>1, MinIs
<1> QED
  BY <1>1, <1>3 DEF NumberTaker, Oldest

LEMMA ReadTyped ==
    ASSUME TodosInv, NEW r \in Sessions, ReadEntry(r)
    PROVE  /\ transcript[r] \in Seq(Entry) /\ Len(transcript[r]) \in Nat
           /\ pos[r] \in Nat /\ pos[r] + 1 \in 1..Len(transcript[r]) /\ pos[r] <= Len(transcript[r])
           /\ transcript[r][pos[r] + 1] \in Entry
           /\ todos \in Seq(Todo) /\ Len(todos) \in Nat
           /\ \A t \in Ids : todos[t] \in Todo
           /\ \A t \in Ids : todos[t].text \in Texts
           /\ \A t \in Ids : todos[t].own => todos[t].session \in Sessions
<1>1. transcript[r] \in Seq(Entry) /\ pos[r] \in Nat
  BY DEF TodosInv, InputInv
<1>2. Len(transcript[r]) \in Nat /\ pos[r] < Len(transcript[r])
  BY <1>1 DEF ReadEntry
<1>3. transcript[r][pos[r] + 1] \in Entry
  BY <1>1, <1>2
<1>4. todos \in Seq(Todo) /\ Len(todos) \in Nat
  BY DEF TodosInv, TodosRowsInv
<1>5. /\ \A t \in Ids : todos[t] \in Todo
      /\ \A t \in Ids : todos[t].text \in Texts
      /\ \A t \in Ids : todos[t].own => todos[t].session \in Sessions
  BY DEF TodosInv, TodosRowsInv, GoodRow, Todo
<1> QED
  BY <1>1, <1>2, <1>3, <1>4, <1>5

(* The result at p + 1 answers the TaskCreate at c, and numbers its row. *)
AnswersTask(f, r, q, p, c) ==
    /\ c \in OpsUpTo(q, p, "create") /\ CountTo(q, "create", c) = CountTo(q, "created", p + 1)
    /\ \A j \in 1..p : q[j].op \in {"created", "update"} => q[j].num # q[p + 1].num
    /\ q[p + 1].num # 0 /\ f[c] \in Ids /\ todos[f[c]].text = q[c].text
    /\ ReadNumbers(r, q[p + 1]) /\ NumberTaker(r, q[p + 1].text) = {f[c]}

LEMMA ReadAnswer ==
    ASSUME TodosInv, NumbersInv, NEW r \in Sessions, ReadEntry(r), Quiet(r)', ~closed[r],
           transcript[r][pos[r] + 1].op = "created",
           NEW f, NEW alone, Follows(f, r, transcript[r], pos[r], todos, Len(todos), alone)
    PROVE  \E c : AnswersTask(f, r, transcript[r], pos[r], c)
<1> DEFINE q == transcript[r]
           p == pos[r]
           e == q[p + 1]
<1>0. /\ q \in Seq(Entry) /\ p \in Nat /\ p + 1 \in 1..Len(q) /\ e \in Entry
      /\ Len(todos) \in Nat /\ \A t \in Ids : todos[t].text \in Texts
  BY ReadTyped
<1>1. Answered(q)
  BY DEF NumbersInv, SessionOK
<1>2. \A j \in 1..p + 1 : q[j].op \notin {"write", "torn"}
  BY QuietRead
<1> HIDE DEF q, p
<1>3. /\ \A j \in 1..p : q[j].op \in {"created", "update"} => q[j].num # e.num
      /\ \E c \in 1..p : /\ q[c].op = "create" /\ CountTo(q, "create", c) = CountTo(q, "created", p + 1)
                         /\ e.text \in {NoText, q[c].text}
  <2>1. (p + 1) - 1 = p
    BY <1>0
  <2>2. e.op = "created"
    BY DEF p, q
  <2> QED
    BY <1>0, <1>1, <1>2, <2>1, <2>2 DEF Answered
<1>4. PICK c \in OpsUpTo(q, p, "create") : CountTo(q, "create", c) = CountTo(q, "created", p + 1) /\ e.text \in {NoText, q[c].text}
  BY <1>3 DEF OpsUpTo
<1>5. CountTo(q, "create", c) = CountTo(q, "created", p) + 1
  <2>1. q[p + 1].op = "created" /\ p \in Nat
    BY <1>0 DEF p, q
  <2>2. CountTo(q, "created", p + 1) = CountTo(q, "created", p) + 1
    BY <2>1, CountFacts
  <2> QED
    BY <1>4, <2>2
<1>6. Follows(f, r, q, p, todos, Len(todos), alone)
  BY DEF p, q
<1>7. FirstWaits(todos, Len(todos), r, f[c]) /\ todos[f[c]].text = q[c].text
  <2> DEFINE m == Len(todos)
  <2>1. p \in Nat /\ m \in Nat /\ Follows(f, r, q, p, todos, m, alone) /\ c \in OpsUpTo(q, p, "create")
        /\ CountTo(q, "create", c) = CountTo(q, "created", p) + 1
    BY <1>0, <1>5, <1>6
  <2> HIDE DEF m, e
  <2>2. FirstWaits(todos, m, r, f[c])
    BY <2>1, NextToAnswer
  <2>3. todos[f[c]].text = q[c].text
    BY <2>1, NextToAnswer
  <2> QED
    BY <2>2, <2>3 DEF m
<1>8. NumberTaker(r, e.text) = {f[c]}
  <2>1. Len(todos) \in Nat /\ (\A t \in Ids : todos[t].text \in Texts) /\ e.text \in {NoText, todos[f[c]].text}
    BY <1>0, <1>4, <1>7
  <2> QED
    BY <1>7, <2>1, TakerIs
<1>9. ReadNumbers(r, e)
  BY DEF ReadEntry, Extracted, ReadNumbers, p, q
<1>10. e.num # 0
  BY <1>0 DEF Entry, p, q
<1> QED
  <2>1. f[c] \in Ids
    BY <1>7 DEF Ids, FirstWaits
  <2>2. AnswersTask(f, r, q, p, c)
    BY <1>3, <1>4, <1>7, <1>8, <1>9, <1>10, <2>1 DEF AnswersTask
  <2> QED
    BY <2>2 DEF p, q

(* A TaskUpdate that is read. *)
LEMMA ReadUpdate ==
    ASSUME TodosInv, NumbersInv, NEW r \in Sessions, ReadEntry(r), Quiet(r)', ~closed[r],
           transcript[r][pos[r] + 1].op = "update",
           NEW f, NEW alone, alone = Alone(r)', Follows(f, r, transcript[r], pos[r], todos, Len(todos), alone),
           NEW t \in Ids, todos[t].own, todos[t].session = r, todos[t].num \in alone
    PROVE  LET e == transcript[r][pos[r] + 1] IN
           IF todos[t].num = e.num /\ e.to # "none"
           THEN todos[t].touched \/ todos'[t].status = UpdateTo(e.to)
           ELSE todos'[t].status = todos[t].status
<1> DEFINE q == transcript[r]
           p == pos[r]
           e == q[p + 1]
           found == {u \in Ids : todos[u].own /\ todos[u].num = e.num}
<1>0. /\ q \in Seq(Entry) /\ p \in Nat /\ Len(q) \in Nat /\ p <= Len(q) /\ p + 1 \in 1..Len(q) /\ e \in Entry
      /\ todos \in Seq(Todo) /\ Len(todos) \in Nat /\ \A u \in Ids : todos[u].own => todos[u].session \in Sessions
  BY ReadTyped
<1>1. todos' = Updated(e.num, e.to)
  BY DEF ReadEntry, Extracted
<1>2. Answered(q) /\ \A u \in Ids : RowOK(u)
  BY DEF NumbersInv, SessionOK
<1>3. \A j \in 1..p : q[j].op \notin {"write", "torn"}
  BY <1>0, QuietRead
<1>4. todos[t].num # 0
  BY DEF Alone
<1>5. ASSUME todos[t].num = e.num PROVE found = {t}
  <2>0. PICK n : n = todos[t].num
    OBVIOUS
  <2>1. OnlyHere(r, n)'
    BY <2>0 DEF Alone
  <2>2. ASSUME NEW u \in found PROVE u = t
    <3>1. PICK s \in Sessions : s = todos[u].session
      BY <1>0
    <3>2. PICK i \in Said(s, {"created", "list"}) : transcript[s][i].num = e.num
      BY <1>2, <1>4, <1>5, <3>1 DEF RowOK
    <3>3. s = r
      <4>0. Grown /\ transcript' = transcript
        BY ReadFrame
      <4>1. i \in Said(s, {"created", "list"})'
        BY <3>2, <4>0, SaidGrows
      <4>2. i \in Said(s, {"created", "update", "list"})'
        BY <4>1 DEF Said
      <4>3. s # r => transcript'[s][i].num # n
        BY <2>1, <4>2 DEF OnlyHere
      <4> QED
        BY <1>5, <2>0, <3>2, <4>0, <4>3
    <3>4. t \in RowsOf(todos, Len(todos), r, n) /\ u \in RowsOf(todos, Len(todos), r, n)
      BY <1>5, <2>0, <3>1, <3>3 DEF Ids, RowsOf
    <3>5. Follows(f, r, q, p, todos, Len(todos), alone) /\ n \in alone /\ n # 0
      BY <1>4, <2>0
    <3>6. p \in Nat /\ Len(todos) \in Nat /\ Len(q) \in Nat /\ p <= Len(q) /\ Answered(q)
      BY <1>0, <1>2
    <3> HIDE DEF q, p, found
    <3> QED
      BY <1>3, <3>4, <3>5, <3>6, OneTask
  <2> QED
    BY <1>5, <2>2
<1>6. todos[t].num = e.num => Oldest(found) = t
  <2> SUFFICES ASSUME todos[t].num = e.num PROVE Oldest(found) = t
    OBVIOUS
  <2>1. found = {t}
    BY <1>5
  <2>2. {t} \in SUBSET Nat
    BY <1>0 DEF Ids
  <2>3. Min({t}) \in {t}
    BY <2>2, MinIs
  <2> HIDE DEF found
  <2> QED
    BY <2>1, <2>3 DEF Oldest
<1>7. CASE todos[t].num = e.num /\ e.to # "none"
  <2>1. todos[t].touched \/ todos[t].status # "deleted"
    <3>1. PICK i \in OpsUpTo(q, p, "create") : t = f[i]
      BY DEF Follows, Ids
    <3>2. todos[t].touched \/ todos[t].status = Told(q, p, todos[t].num)
      BY <1>4, <3>1 DEF Follows, Matched, Has
    <3>3. Told(q, p, todos[t].num) # "deleted"
      BY DEF Told, UpdateTo
    <3> QED
      BY <3>2, <3>3
  <2>2. found # {} /\ Oldest(found) = t
    BY <1>5, <1>6, <1>7
  <2>3. todos' = IF todos[t].status = e.to THEN todos ELSE [todos EXCEPT ![t] = Logged(@, UpdateTo(e.to))]
    BY <1>1, <1>7, <2>2 DEF Updated
  <2> HIDE DEF found, e
  <2>4. CASE todos[t].status = e.to
    <3>1. e.to # "deleted" => UpdateTo(e.to) = e.to
      BY DEF UpdateTo
    <3> QED
      BY <1>7, <2>1, <2>3, <2>4, <3>1 DEF e
  <2>5. CASE todos[t].status # e.to
    <3>1. todos'[t] = Logged(todos[t], UpdateTo(e.to)) /\ todos[t] \in Todo
      BY <1>0, <2>3, <2>5 DEF Ids
    <3>2. todos'[t].status = UpdateTo(e.to)
      BY <3>1 DEF Logged, Todo
    <3> QED
      BY <1>7, <3>2 DEF e
  <2> QED
    BY <2>4, <2>5
<1>8. CASE ~(todos[t].num = e.num /\ e.to # "none")
  <2>1. todos'[t] = todos[t]
    <3>1. CASE todos' = todos
      BY <3>1
    <3>2. CASE todos[t].num # e.num /\ found # {} /\ todos' = [todos EXCEPT ![Oldest(found)] = Logged(@, UpdateTo(e.to))]
      <4>1. found \in SUBSET Nat /\ found # {}
        BY <1>0, <3>2 DEF Ids
      <4>2. Min(found) \in found
        <5> HIDE DEF found
        <5> QED
          BY <4>1, MinIs
      <4>3. Oldest(found) # t
        BY <3>2, <4>2 DEF Oldest
      <4> HIDE DEF found
      <4> QED
        BY <1>0, <3>2, <4>3 DEF Ids
    <3> QED
      BY <1>1, <1>8, <3>1, <3>2 DEF Updated
  <2> QED
    BY <1>8, <2>1
<1> QED
  BY <1>7, <1>8

LEMMA FollowsFewer ==
    ASSUME NEW f, NEW s, NEW q, NEW p \in Nat, NEW rows, NEW m \in Nat, NEW alone, NEW fewer \in SUBSET alone,
           Follows(f, s, q, p, rows, m, alone)
    PROVE  Follows(f, s, q, p, rows, m, fewer)
<1>1. \A t \in 1..m : Keeps(rows[t], rows[t], fewer)
  BY DEF Keeps
<1>2. \A t \in 1..m : ~(t > m)
  OBVIOUS
<1> QED
  BY <1>1, <1>2, FollowsKept

LEMMA HereCreate ==
    ASSUME TodosInv, NumbersInv, NEW r \in Sessions, ReadEntry(r), Quiet(r)', ~closed[r],
           transcript[r][pos[r] + 1].op = "create",
           NEW f, NEW alone, Follows(f, r, transcript[r], pos[r], todos, Len(todos), alone)
    PROVE  \E g : Follows(g, r, transcript[r], pos[r] + 1, todos', Len(todos'), alone)
<1>1. /\ pos[r] \in Nat /\ Len(todos) \in Nat /\ Len(todos') \in Nat /\ Len(todos) <= Len(todos')
      /\ Len(todos') # Len(todos)
  BY ReadFrame, QuietRead
<1>2. Len(todos) + 1 \in 1..Len(todos') /\ Len(todos) + 1 > Len(todos)
  BY <1>1
<1> DEFINE b == todos'[Len(todos) + 1]
<1>3. /\ Len(todos') = Len(todos) + 1 /\ \A u \in Ids : todos'[u] = todos[u]
      /\ b.own /\ b.session = r /\ b.text = transcript[r][pos[r] + 1].text /\ ~b.edited /\ b.num = 0 /\ b.status = "pending"
  BY <1>2, NewRead
<1>4. \A u \in 1..Len(todos) : todos'[u] = todos[u]
  BY <1>3 DEF Ids
<1>5. \E g : Follows(g, r, transcript[r], pos[r] + 1, todos', Len(todos) + 1, alone)
  <2>1. transcript[r][pos[r] + 1].op = "create" /\ pos[r] \in Nat /\ Len(todos) \in Nat
    BY <1>1
  <2> QED
    BY <1>3, <1>4, <2>1, FollowsCreate, SMTT(30)
<1> QED
  BY <1>3, <1>5

(* Nothing but an item adds a row. *)
LEMMA NoNewRead ==
    ASSUME TodosInv, NEW r \in Sessions, ReadEntry(r), transcript[r][pos[r] + 1].op \notin {"create", "write", "list"}
    PROVE  Len(todos') = Len(todos) /\ Ids' = Ids
<1>1. Len(todos) \in Nat /\ Len(todos') \in Nat /\ Len(todos) <= Len(todos')
  BY ReadFrame
<1>2. Len(todos') \in 1..Len(todos') /\ Len(todos') > Len(todos) => FALSE
  BY NewRead
<1> QED
  BY <1>1, <1>2 DEF Ids

LEMMA HereCreated ==
    ASSUME TodosInv, NumbersInv, NEW r \in Sessions, ReadEntry(r), Quiet(r)', ~closed[r],
           transcript[r][pos[r] + 1].op = "created",
           NEW f, NEW alone, Follows(f, r, transcript[r], pos[r], todos, Len(todos), alone)
    PROVE  Follows(f, r, transcript[r], pos[r] + 1, todos', Len(todos'), alone)
<1> DEFINE q == transcript[r]
           p == pos[r]
           e == q[p + 1]
<1>0. p \in Nat /\ Len(todos) \in Nat /\ Len(todos') = Len(todos) /\ \A t \in Ids : todos[t] \in Todo
  BY ReadTyped, NoNewRead
<1>c. PICK c : AnswersTask(f, r, q, p, c)
  BY ReadAnswer
<1>1. /\ c \in OpsUpTo(q, p, "create") /\ CountTo(q, "create", c) = CountTo(q, "created", p + 1)
      /\ \A j \in 1..p : q[j].op \in {"created", "update"} => q[j].num # e.num
      /\ e.num # 0 /\ f[c] \in Ids
      /\ ReadNumbers(r, e) /\ NumberTaker(r, e.text) = {f[c]}
  BY <1>c DEF AnswersTask
<1>2. \A t \in Ids : todos'[t] = IF t \in NumberTaker(r, e.text) THEN [todos[t] EXCEPT !.num = e.num] ELSE todos[t]
  BY <1>1 DEF ReadNumbers, Numbered
<1>3. \A t \in 1..Len(todos) : t # f[c] => todos'[t] = todos[t]
  BY <1>1, <1>2 DEF Ids
<1>4. todos'[f[c]] = [todos[f[c]] EXCEPT !.num = e.num]
  BY <1>1, <1>2
<1>5. LET a == todos[f[c]]
          b == todos'[f[c]]
      IN  /\ b.own = a.own /\ b.session = a.session /\ b.text = a.text /\ b.status = a.status
          /\ b.touched = a.touched /\ b.edited = a.edited /\ b.num = e.num
  BY <1>0, <1>1, <1>4 DEF Todo
<1>6. Follows(f, r, q, p, todos, Len(todos), alone) /\ e.op = "created"
  OBVIOUS
<1> HIDE DEF q, p
<1>7. Follows(f, r, q, p + 1, todos', Len(todos), alone)
  <2>1. /\ p \in Nat /\ Len(todos) \in Nat /\ q[p + 1].num # 0
        /\ c \in OpsUpTo(q, p, "create") /\ CountTo(q, "create", c) = CountTo(q, "created", p + 1)
        /\ \A j \in 1..p : q[j].op \in {"created", "update"} => q[j].num # q[p + 1].num
    BY <1>0, <1>1
  <2> QED
    BY <1>3, <1>5, <1>6, <2>1, FollowsAnswer, SMTT(30)
<1> QED
  BY <1>0, <1>7 DEF q, p

LEMMA HereUpdate ==
    ASSUME TodosInv, NumbersInv, NEW r \in Sessions, ReadEntry(r), Quiet(r)', ~closed[r],
           transcript[r][pos[r] + 1].op = "update",
           NEW f, NEW alone, alone = Alone(r)', Follows(f, r, transcript[r], pos[r], todos, Len(todos), alone)
    PROVE  Follows(f, r, transcript[r], pos[r] + 1, todos', Len(todos'), alone)
<1> DEFINE q == transcript[r]
           p == pos[r]
           e == q[p + 1]
<1>0. p \in Nat /\ Len(todos) \in Nat /\ Len(todos') = Len(todos) /\ e \in Entry /\ Ids = 1..Len(todos)
  BY ReadTyped, NoNewRead DEF Ids
<1>1. e.num # 0
  BY <1>0 DEF Entry
<1>2. \A t \in Ids : /\ todos'[t].own = todos[t].own /\ todos'[t].session = todos[t].session
                     /\ todos'[t].num = todos[t].num /\ todos'[t].text = todos[t].text
                     /\ todos'[t].edited = todos[t].edited /\ todos'[t].touched = todos[t].touched
  BY ReadRow DEF ReadNumbers
<1>3. \A t \in Ids : todos[t].num = 0 => todos'[t].status = todos[t].status
  BY <1>1, ReadRow
<1>4. \A t \in Ids : todos[t].own /\ todos[t].session = r /\ todos[t].num \in alone =>
          IF todos[t].num = e.num /\ e.to # "none"
          THEN todos[t].touched \/ todos'[t].status = UpdateTo(e.to)
          ELSE todos'[t].status = todos[t].status
  BY ReadUpdate
<1>5. Follows(f, r, q, p, todos, Len(todos), alone) /\ e.op = "update"
  OBVIOUS
<1> HIDE DEF q, p
<1>6. Follows(f, r, q, p + 1, todos', Len(todos), alone)
  BY <1>0, <1>2, <1>3, <1>4, <1>5, FollowsUpdate
<1> QED
  BY <1>0, <1>6 DEF q, p

LEMMA HereList ==
    ASSUME TodosInv, NumbersInv, NEW r \in Sessions, ReadEntry(r), Quiet(r)', ~closed[r],
           transcript[r][pos[r] + 1].op = "list",
           NEW f, Follows(f, r, transcript[r], pos[r], todos, Len(todos), {})
    PROVE  Follows(f, r, transcript[r], pos[r] + 1, todos', Len(todos'), {})
<1> DEFINE q == transcript[r]
           p == pos[r]
           e == q[p + 1]
<1>0. /\ p \in Nat /\ Len(todos) \in Nat /\ Len(todos') \in Nat /\ Len(todos) <= Len(todos') /\ Ids = 1..Len(todos)
      /\ e.num # 0 /\ e.op = "list"
  BY ReadFrame, QuietRead DEF Ids
<1>1. \A t \in Ids : /\ todos'[t].own = todos[t].own /\ todos'[t].session = todos[t].session
                     /\ Keeps(todos[t], todos'[t], {})
  <2> SUFFICES ASSUME NEW t \in Ids
               PROVE  /\ todos'[t].own = todos[t].own /\ todos'[t].session = todos[t].session
                      /\ Keeps(todos[t], todos'[t], {})
    OBVIOUS
  <2>1. /\ todos'[t].own = todos[t].own /\ todos'[t].session = todos[t].session
        /\ todos'[t].text = todos[t].text /\ todos'[t].edited = todos[t].edited /\ todos'[t].touched = todos[t].touched
        /\ todos'[t].num = todos[t].num
        /\ todos[t].num = 0 => todos'[t].status = todos[t].status
    BY <1>0, ReadRow DEF ReadNumbers
  <2> QED
    BY <2>1 DEF Keeps
<1>2. \A t \in 1..Len(todos') : t > Len(todos) => todos'[t].num # 0
  BY <1>0, NewRead
<1>3. Follows(f, r, q, p + 1, todos, Len(todos), {})
  BY <1>0, FollowsPast
<1> HIDE DEF q, p
<1>4. Follows(f, r, q, p + 1, todos', Len(todos'), {})
  <2>1. p + 1 \in Nat
    BY <1>0
  <2> QED
    BY <1>0, <1>1, <1>2, <1>3, <2>1, FollowsKept
<1> QED
  BY <1>4 DEF q, p

LEMMA ReadHere ==
    ASSUME TodosInv, NumbersInv, NEW r \in Sessions, ReadEntry(r)
    PROVE  SessionOK(r)'
<1> DEFINE e == transcript[r][pos[r] + 1]
<1>0. /\ Grown /\ transcript' = transcript /\ pos'[r] = pos[r] + 1 /\ pos[r] \in Nat
      /\ spare \subseteq spare' /\ Len(todos) \in Nat /\ SessionOK(r) /\ e \in Entry
  BY ReadFrame, ReadTyped DEF NumbersInv
<1>1. Answered(transcript'[r])
  BY <1>0 DEF SessionOK
<1>2. Said(r, {"torn"})' # {} => r \in spare'
  <2> SUFFICES ASSUME NEW i \in Said(r, {"torn"})' PROVE r \in spare'
    OBVIOUS
  <2>1. i \in 1..pos[r] + 1 /\ transcript[r][i].op = "torn"
    BY <1>0 DEF Said
  <2>2. CASE i = pos[r] + 1
    BY <2>1, <2>2 DEF ReadEntry
  <2>3. CASE i \in 1..pos[r]
    <3>1. i \in Said(r, {"torn"})
      BY <2>1, <2>3 DEF Said
    <3> QED
      BY <1>0, <3>1 DEF SessionOK
  <2> QED
    BY <1>0, <2>1, <2>2, <2>3
<1>3. ASSUME Quiet(r)', ~closed'[r]
      PROVE  \E f : Follows(f, r, transcript'[r], pos'[r], todos', Len(todos'), Alone(r)')
  <2>1. ~closed[r] /\ e.op # "end"
    BY <1>3 DEF ReadEntry, TodosInv, InputInv
  <2>2. /\ Quiet(r) /\ e.op \notin {"write", "torn"}
        /\ e.op = "list" => Alone(r)' = {}
    <3>1. pos[r] + 1 \in 1..pos[r] + 1
      BY <1>0
    <3> QED
      BY <1>3, <3>1, QuietRead
  <2>3. PICK alone : alone = Alone(r)'
    OBVIOUS
  <2>4. PICK f : Follows(f, r, transcript[r], pos[r], todos, Len(todos), alone)
    <3>1. PICK f : Follows(f, r, transcript[r], pos[r], todos, Len(todos), Alone(r))
      BY <1>0, <2>1, <2>2 DEF SessionOK
    <3>2. alone \in SUBSET Alone(r)
      BY <1>0, <2>3, SaidGrows
    <3> QED
      BY <1>0, <3>1, <3>2, FollowsFewer
  <2>5. e.op \in {"create", "created", "update", "list"}
    BY <1>0, <2>1, <2>2 DEF Entry, Ops
  <2>6. \E g : Follows(g, r, transcript[r], pos[r] + 1, todos', Len(todos'), alone)
    <3>1. CASE e.op = "create"
      BY <1>3, <2>1, <2>4, <3>1, HereCreate
    <3>2. CASE e.op = "created"
      BY <1>3, <2>1, <2>4, <3>2, HereCreated
    <3>3. CASE e.op = "update"
      BY <1>3, <2>1, <2>3, <2>4, <3>3, HereUpdate
    <3>4. CASE e.op = "list"
      <4>1. alone = {}
        BY <2>2, <2>3, <3>4
      <4> QED
        BY <1>3, <2>1, <2>4, <3>4, <4>1, HereList
    <3> QED
      BY <2>5, <3>1, <3>2, <3>3, <3>4
  <2> QED
    BY <1>0, <2>3, <2>6
<1> QED
  BY <1>1, <1>2, <1>3 DEF SessionOK

LEMMA ReadKeepsNumbers ==
    ASSUME TodosInv, NumbersInv, NEW r \in Sessions, ReadEntry(r)
    PROVE  NumbersInv'
<1> DEFINE q == transcript[r]
           p == pos[r]
           e == q[p + 1]
<1>0. /\ Grown /\ transcript' = transcript /\ pos'[r] = p + 1 /\ p \in Nat /\ p + 1 \in 1..p + 1
      /\ spare \subseteq spare' /\ Len(todos) \in Nat /\ Len(todos') \in Nat /\ Len(todos) <= Len(todos')
      /\ \A t \in Ids : todos[t].own => todos[t].session \in Sessions
  <2>1. pos[r] + 1 \in 1..pos[r] + 1
    BY ReadFrame
  <2> QED
    BY <2>1, ReadFrame, ReadTyped
<1>1. \A ops : e.op \in ops => p + 1 \in Said(r, ops)'
  BY <1>0 DEF Said
<1>2. ASSUME NEW t \in Ids PROVE RowOK(t)'
  <2>1. /\ todos'[t].own = todos[t].own /\ todos'[t].session = todos[t].session
        /\ todos'[t].text = todos[t].text /\ todos'[t].edited = todos[t].edited
        /\ todos'[t].num = todos[t].num \/ (ReadNumbers(r, e) /\ t \in NumberTaker(r, e.text) /\ todos'[t].num = e.num)
    BY ReadRow
  <2>2. CASE todos'[t].num = todos[t].num
    <3>1. RowOK(t)
      BY DEF NumbersInv
    <3> HIDE DEF e, q, p
    <3> QED
      BY <1>0, <2>1, <2>2, <3>1, RowKept
  <2>3. CASE ReadNumbers(r, e) /\ t \in NumberTaker(r, e.text) /\ todos'[t].num = e.num
    <3>1. /\ todos[t].session = r /\ ~closed[r] /\ e.op = "created"
      BY <1>0, <2>3, TakerWaits DEF ReadNumbers
    <3>2. p + 1 \in Said(r, {"created", "list"})' /\ transcript'[r][p + 1].num = todos'[t].num
      BY <1>0, <1>1, <2>3, <3>1
    <3>3. ASSUME Quiet(r)' PROVE NamedBy(todos'[t], transcript'[r], pos'[r])
      <4>1. Quiet(r)
        BY <3>3, QuietRead
      <4>2. PICK f, alone : Follows(f, r, transcript[r], pos[r], todos, Len(todos), alone)
        BY <3>1, <4>1 DEF NumbersInv, SessionOK
      <4>c. PICK c : AnswersTask(f, r, q, p, c)
        BY <3>1, <3>3, <4>2, ReadAnswer
      <4>3. /\ c \in OpsUpTo(q, p, "create") /\ CountTo(q, "create", c) = CountTo(q, "created", p + 1)
            /\ todos[f[c]].text = q[c].text /\ NumberTaker(r, e.text) = {f[c]}
        BY <4>c DEF AnswersTask
      <4>4. todos'[t].text = q[c].text
        BY <2>1, <2>3, <4>3
      <4>5. c \in OpsUpTo(q, p + 1, "create")
        BY <1>0, <4>3 DEF OpsUpTo
      <4>6. NamedBy(todos'[t], q, p + 1)
        BY <1>0, <2>3, <3>1, <4>3, <4>4, <4>5 DEF NamedBy
      <4> QED
        BY <1>0, <4>6
    <3> QED
      BY <2>1, <3>1, <3>2, <3>3 DEF RowOK
  <2> QED
    BY <2>1, <2>2, <2>3
<1>3. ASSUME NEW t \in 1..Len(todos'), t > Len(todos) PROVE RowOK(t)'
  <2>1. /\ todos'[t].session = r /\ todos'[t].text = e.text /\ todos'[t].num = (IF e.op = "list" THEN e.num ELSE 0)
    BY <1>3, NewRead
  <2>2. SUFFICES ASSUME todos'[t].num # 0 PROVE RowOK(t)'
    BY DEF RowOK
  <2>3. e.op = "list" /\ todos'[t].num = e.num
    BY <2>1, <2>2
  <2>4. p + 1 \in Said(r, {"created", "list"})' /\ transcript'[r][p + 1].num = todos'[t].num
    BY <1>0, <1>1, <2>3
  <2>5. NamedBy(todos'[t], q, p + 1)
    BY <1>0, <2>1, <2>3 DEF NamedBy
  <2> QED
    BY <1>0, <2>1, <2>4, <2>5 DEF RowOK
<1>4. \A t \in Ids' : RowOK(t)'
  <2> SUFFICES ASSUME NEW t \in 1..Len(todos') PROVE RowOK(t)'
    BY DEF Ids
  <2>1. t \in Ids \/ t > Len(todos)
    BY <1>0 DEF Ids
  <2> QED
    BY <1>2, <1>3, <2>1
<1>5. \A s \in Sessions : SessionOK(s)'
  BY ReadHere, ReadElsewhere
<1> QED
  BY <1>4, <1>5 DEF NumbersInv
-------------------------------------------------------------------------------
(* The numbers' invariant *)

LEMMA FollowsNothing ==
    ASSUME NEW s, NEW q, NEW alone
    PROVE  \E f : Follows(f, s, q, 0, <<>>, 0, alone)
<1> DEFINE f == [i \in {} |-> 0]
<1>1. OpsUpTo(q, 0, "create") = {} /\ OpsUpTo(q, 0, "created") = {}
  BY DEF OpsUpTo
<1>2. CountTo(q, "create", 0) = 0 /\ CountTo(q, "created", 0) = 0
  BY <1>1, CountFacts, FS_EmptySet
<1>3. f \in [{} -> 1..0]
  OBVIOUS
<1>4. Follows(f, s, q, 0, <<>>, 0, alone)
  BY <1>1, <1>2, <1>3 DEF Follows
<1> QED
  BY <1>4

LEMMA NumbersStart ==
    ASSUME Init
    PROVE  NumbersInv
<1>1. todos = <<>> /\ Ids = {} /\ Len(todos) = 0 /\ \A s \in Sessions : pos[s] = 0 /\ Answered(transcript[s])
  BY AnswerAssumption DEF Init, Ids
<1>2. \A s \in Sessions : \E f : Follows(f, s, transcript[s], pos[s], todos, Len(todos), Alone(s))
  BY <1>1, FollowsNothing
<1>3. \A s \in Sessions : Said(s, {"torn"}) = {}
  BY <1>1 DEF Said
<1> QED
  BY <1>1, <1>2, <1>3 DEF NumbersInv, SessionOK

LEMMA RebuildNumbers ==
    ASSUME TodosInv, NumbersInv, Rebuild
    PROVE  NumbersInv'
<1>1. transcript' = transcript /\ todos' = <<>> /\ \A s \in Sessions : pos'[s] = 0
  BY DEF Rebuild, input
<1>2. Ids' = {} /\ Len(todos') = 0 /\ \A s \in Sessions : Answered(transcript'[s])
  BY <1>1 DEF Ids, NumbersInv, SessionOK
<1>3. ASSUME NEW s \in Sessions PROVE \E f : Follows(f, s, transcript'[s], pos'[s], todos', Len(todos'), Alone(s)')
  BY <1>1, <1>2, FollowsNothing
<1>4. \A s \in Sessions : Said(s, {"torn"})' = {}
  BY <1>1 DEF Said
<1> QED
  BY <1>2, <1>3, <1>4 DEF NumbersInv, SessionOK

LEMMA NumbersStay ==
    ASSUME NumbersInv, UNCHANGED <<transcript, pos, closed, todos, spare>>
    PROVE  NumbersInv'
<1>1. \A s : Quiet(s)' = Quiet(s) /\ Alone(s)' = Alone(s) /\ \A ops : Said(s, ops)' = Said(s, ops)
  BY DEF Quiet, Numberless, Alone, OnlyHere, Said
<1>2. Ids' = Ids /\ \A t \in Ids : RowOK(t)'
  BY <1>1 DEF NumbersInv, RowOK, Ids
<1>3. \A s \in Sessions : SessionOK(s)'
  BY <1>1 DEF NumbersInv, SessionOK
<1> QED
  BY <1>2, <1>3 DEF NumbersInv

(* A session's waiting todos are those of its unanswered TaskCreates, in      *)
(* order, and every number was said in its row's session.                    *)
THEOREM NumbersInductive == Spec => [](TodosInv /\ NumbersInv)
<1>1. Init => TodosInv /\ NumbersInv
  BY TodosStart, NumbersStart
<1>2. ASSUME TodosInv, NumbersInv, [Next]_vars PROVE NumbersInv'
  <2>1. ASSUME NEW s \in Sessions, ReadEntry(s) PROVE NumbersInv'
    BY <1>2, <2>1, ReadKeepsNumbers
  <2>2. CASE Requests
    BY <1>2, <2>2, RequestsKeepNumbers
  <2>3. CASE Rebuild
    BY <1>2, <2>3, RebuildNumbers
  <2>4. CASE CacheExpires \/ RecordTriage \/ WebDies \/ UNCHANGED vars
    <3>1. UNCHANGED <<transcript, pos, closed, todos, spare>>
      BY <2>4 DEF CacheExpires, RecordTriage, WebDies, vars, input, web
    <3> QED
      BY <1>2, <3>1, NumbersStay
  <2> QED
    BY <1>2, <2>1, <2>2, <2>3, <2>4 DEF Next, Requests
<1>3. TodosInv /\ NumbersInv /\ [Next]_vars => (TodosInv /\ NumbersInv)'
  BY <1>2, TodosStep
<1> QED
  BY <1>1, <1>3, PTL DEF Spec

LEMMA TaskIs ==
    ASSUME NEW s, pos[s] \in Nat, NEW i \in Said(s, {"created"}), NEW c \in OpsUpTo(transcript[s], pos[s], "create"),
           CountTo(transcript[s], "create", c) = CountTo(transcript[s], "created", i)
    PROVE  TaskOf(s, i) = transcript[s][c].text
<1> DEFINE q == transcript[s]
           creates == Said(s, {"create"})
           n == Cardinality({j \in Said(s, {"created"}) : j <= i})
<1>1. i \in 1..pos[s] /\ c \in creates /\ creates = OpsUpTo(q, pos[s], "create")
  BY DEF Said, OpsUpTo
<1>2. n = CountTo(q, "created", i)
  <2>1. {j \in Said(s, {"created"}) : j <= i} = {j \in 1..i : q[j].op = "created"}
    BY <1>1 DEF Said
  <2> QED
    BY <2>1 DEF CountTo
<1>3. ASSUME NEW k \in creates PROVE Cardinality({j \in creates : j <= k}) = CountTo(q, "create", k)
  <2>1. {j \in creates : j <= k} = {j \in 1..k : q[j].op = "create"}
    BY <1>3 DEF Said
  <2> QED
    BY <2>1 DEF CountTo
<1> HIDE DEF q, creates, n
<1>4. Cardinality({j \in creates : j <= c}) = n
  BY <1>1, <1>2, <1>3 DEF q
<1>5. ASSUME NEW k \in creates, Cardinality({j \in creates : j <= k}) = n PROVE k = c
  <2>1. CountTo(q, "create", k) = CountTo(q, "create", c)
    BY <1>1, <1>3, <1>4, <1>5
  <2>2. k \in OpsUpTo(q, pos[s], "create") /\ c \in OpsUpTo(q, pos[s], "create")
    BY <1>1
  <2> QED
    BY <2>1, <2>2, CountTells
<1>6. Nth(creates, n) = c
  BY <1>1, <1>4, <1>5 DEF Nth
<1> QED
  BY <1>6 DEF TaskOf, q, creates, n

(* A number lands on the todo whose TaskCreate it answers, also when several *)
(* calls are answered together, results name no subject, and the board       *)
(* changes the rows meanwhile.                                               *)
THEOREM NumbersSafe == Spec => []NumberNamesItsTask
<1>1. TodosInv /\ NumbersInv => NumberNamesItsTask
  <2> SUFFICES ASSUME TodosInv, NumbersInv, NEW t \in Ids, NEW s, s = todos[t].session, todos[t].own, todos[t].num # 0,
                      ~todos[t].edited, s \notin spare, Numberless(s) = {}
               PROVE  \/ \E i \in Said(s, {"created"}) :
                             transcript[s][i].num = todos[t].num /\ TaskOf(s, i) = todos[t].text
                      \/ \E i \in Said(s, {"list"}) :
                             transcript[s][i].num = todos[t].num /\ transcript[s][i].text = todos[t].text
    BY DEF NumberNamesItsTask
  <2>1. s \in Sessions /\ pos[s] \in Nat
    BY DEF TodosInv, TodosRowsInv, GoodRow, InputInv
  <2>2. NamedBy(todos[t], transcript[s], pos[s])
    BY DEF NumbersInv, RowOK, Quiet
  <2>3. PICK i \in 1..pos[s] :
           /\ transcript[s][i].num = todos[t].num
           /\ \/ transcript[s][i].op = "list" /\ todos[t].text = transcript[s][i].text
              \/ /\ transcript[s][i].op = "created"
                 /\ \E c \in OpsUpTo(transcript[s], pos[s], "create") :
                        /\ todos[t].text = transcript[s][c].text
                        /\ CountTo(transcript[s], "create", c) = CountTo(transcript[s], "created", i)
    BY <2>2 DEF NamedBy
  <2>4. CASE transcript[s][i].op = "list" /\ todos[t].text = transcript[s][i].text
    BY <2>3, <2>4 DEF Said
  <2>5. ASSUME transcript[s][i].op = "created", NEW c \in OpsUpTo(transcript[s], pos[s], "create"),
               todos[t].text = transcript[s][c].text,
               CountTo(transcript[s], "create", c) = CountTo(transcript[s], "created", i)
        PROVE  \E j \in Said(s, {"created"}) : transcript[s][j].num = todos[t].num /\ TaskOf(s, j) = todos[t].text
    <3>1. i \in Said(s, {"created"})
      BY <2>5 DEF Said
    <3>2. TaskOf(s, i) = transcript[s][c].text
      BY <2>1, <2>5, <3>1, TaskIs
    <3> QED
      BY <2>3, <2>5, <3>1, <3>2
  <2> QED
    BY <2>3, <2>4, <2>5
<1> QED
  BY <1>1, NumbersInductive, PTL

(* The table follows the transcript: a task that was numbered has a row of    *)
(* its own, with the status that its session last reported for it, unless    *)
(* the board set that row, whatever is read, edited, closed or rebuilt       *)
(* between.                                                                  *)
THEOREM MirrorsSafe == Spec => []MirrorsTranscript
<1>1. TodosInv /\ NumbersInv => MirrorsTranscript
  <2> SUFFICES ASSUME TodosInv, NumbersInv, NEW s \in Sessions \ spare, ~closed[s], Said(s, {"write", "list"}) = {},
                      NEW i \in Said(s, {"created"}), NEW n, n = transcript[s][i].num, OnlyHere(s, n)
               PROVE  \E t \in Ids :
                         /\ todos[t].own /\ todos[t].session = s /\ todos[t].num = n
                         /\ todos[t].text = TaskOf(s, i) \/ todos[t].edited
                         /\ todos[t].touched \/ todos[t].status = LastTold(s, n)
    BY DEF MirrorsTranscript
  <2> DEFINE q == transcript[s]
             p == pos[s]
  <2>1. /\ q \in Seq(Entry) /\ p \in Nat /\ p <= Len(q) /\ Len(q) \in Nat
        /\ i \in 1..p /\ q[i].op = "created" /\ i \in OpsUpTo(q, p, "created")
    BY DEF TodosInv, InputInv, Said, OpsUpTo
  <2>2. n \in Nat /\ n # 0
    <3>1. q[i] \in Entry
      BY <2>1
    <3> QED
      BY <2>1, <3>1 DEF Entry
  <2>3. Said(s, {"write"}) = {} /\ Said(s, {"list"}) = {} /\ Said(s, {"torn"}) = {}
    <3>1. Said(s, {"torn"}) = {}
      BY DEF NumbersInv, SessionOK
    <3> QED
      BY <3>1 DEF Said
  <2>4. Quiet(s) /\ n \in Alone(s)
    BY <2>2, <2>3 DEF Quiet, Numberless, Alone
  <2>5. PICK f, alone : n \in alone /\ Follows(f, s, q, p, todos, Len(todos), alone)
    BY <2>4 DEF NumbersInv, SessionOK
  <2>6. PICK c \in OpsUpTo(q, p, "create") : CountTo(q, "create", c) = CountTo(q, "created", i)
    <3>1. \A j \in 1..i : q[j].op \notin {"write", "torn"}
      BY <2>1, <2>3 DEF Said
    <3>2. i \in 1..Len(q) /\ Answered(q)
      BY <2>1 DEF NumbersInv, SessionOK
    <3>3. PICK c \in 1..i - 1 : q[c].op = "create" /\ CountTo(q, "create", c) = CountTo(q, "created", i)
      BY <2>1, <3>1, <3>2 DEF Answered
    <3> QED
      BY <2>1, <3>3 DEF OpsUpTo
  <2> DEFINE row == todos[f[c]]
  <2>7. f[c] \in Ids /\ Matched(row, s, q, p, c, alone)
    BY <2>5, <2>6 DEF Follows, Ids
  <2>8. row.num # 0
    <3>1. CountTo(q, "created", i) <= CountTo(q, "created", p) /\ CountTo(q, "created", i) \in Nat
          /\ CountTo(q, "created", p) \in Nat
      BY <2>1, CountGrows
    <3> QED
      BY <2>6, <2>7, <3>1 DEF Matched, Waits
  <2>9. PICK j \in OpsUpTo(q, p, "created") :
           /\ row.num = q[j].num /\ CountTo(q, "created", j) = CountTo(q, "create", c)
           /\ row.num \in alone => row.touched \/ row.status = Told(q, p, row.num)
    BY <2>7, <2>8 DEF Matched, Has
  <2>10. j = i
    BY <2>1, <2>6, <2>9, CountTells
  <2>11. row.num = n /\ (row.touched \/ row.status = Told(q, p, n))
    BY <2>5, <2>9, <2>10
  <2>12. Told(q, p, n) = LastTold(s, n)
    BY DEF Told, LastTold, OpsUpTo, Said, UpdateTo
  <2>13. TaskOf(s, i) = q[c].text
    BY <2>1, <2>6, TaskIs
  <2> QED
    BY <2>7, <2>11, <2>12, <2>13 DEF Matched
<1> QED
  BY <1>1, NumbersInductive, PTL
===============================================================================
