------------------------------ MODULE IngestTail ------------------------------
(***************************************************************************)
(* How ingestion follows the session files of a harness: the loops of      *)
(* ingestAll, ingestSubagentsForSession and ingestJsonlSource in           *)
(* packages/core/db/ingest.ts, one visit of one file at a time.            *)
(*                                                                         *)
(* A harness appends lines to a file; several passes (the worker's         *)
(* periodic run, its watcher's run, a spawned ingest-once process) visit   *)
(* the same files over one SQLite database.  A visit stats the file, reads *)
(* the stored byte offset, streams from there to the end of the file in    *)
(* transactions of BatchSize lines, and last stores the size it stat'ed    *)
(* as the new offset.  Nothing but those transactions and that one write   *)
(* is atomic, and a visit may die between any two of them.                 *)
(*                                                                         *)
(* Bytes.  A line is two units long, so an odd position is the middle of a *)
(* line: position 2*i is the end of line i.                                *)
(***************************************************************************)
EXTENDS Integers

CONSTANTS
    Files,      \* session files
    Passes,     \* concurrent runs of ingestAll
    Harness,    \* which loop reads the file: "claude", "subagent" or "native"
    Uuids,      \* message uuids
    NoId,       \* a message without a uuid (stored as NULL)
    Contents,   \* what a file may come to hold
    Tearing,    \* may a write stop in the middle of a line?
    MaxLines,   \* bound: lines of a file
    BatchSize,  \* lines of one transaction (500 in the code)
    MaxCopies,  \* bound: row and booking counters saturate here
    MaxAborts   \* bound: visits that die

LineNos == 1..MaxLines
Bytes   == 0..(2 * MaxLines)
Kinds   == {"user", "parent", "assistant", "broken", "end", "throttle"}
Line    == [kind : Kinds, id : Uuids \cup {NoId}]

ASSUME FilesAssumption  == Files # {}
ASSUME HarnessAssumption == Harness \in [Files -> {"claude", "subagent", "native"}]
ASSUME IdAssumption     == NoId \notin Uuids
ASSUME ContentAssumption == Contents \subseteq [LineNos -> Line]
ASSUME TearingAssumption == Tearing \in BOOLEAN
ASSUME BoundAssumption  ==
    /\ MaxLines \in Nat \ {0}
    /\ BatchSize \in Nat \ {0}
    /\ MaxCopies \in Nat \ {0}
    /\ MaxAborts \in Nat

VARIABLES
    content,    \* the lines a file holds once fully written
    size,       \* the bytes of it written so far
    offset,     \* ingest_offsets.byte_offset (0: no row yet)
    index,      \* the unique index on messages.message_uuid
    rows,       \* rows a line produced: messages, or refusals of a throttle
    booked,     \* times a line's tokens were added to usage_minutes
    closed,     \* the session_end line that closed the session (0: open)
    delegated,  \* sessions.delegated_from is set by a visit
    visit,      \* what each pass is doing
    aborts,     \* visits that died so far
    cut         \* history: lines an offset was stored in the middle of

vars == <<content, size, offset, index, rows, booked, closed, delegated,
          visit, aborts, cut>>
file == <<content, size>>
db   == <<offset, index, rows, booked, closed, delegated>>

-------------------------------------------------------------------------------
(* Lines as the three loops see them *)

Kind(f, i) == content[f][i].kind
Id(f, i)   == content[f][i].id

\* Only the unfirehose/1.0 loop knows throttle records and session_end.
IsThrottle(f, i) == Kind(f, i) = "throttle" /\ Harness[f] = "native"
IsEnd(f, i)      == Kind(f, i) = "end" /\ Harness[f] = "native"

\* The translated line has a role, so insertMessage will try to store it.
IsMessage(f, i)  == Kind(f, i) # "throttle" /\ (Kind(f, i) = "end" => IsEnd(f, i))

\* The user message that names UNFIREHOSE_PARENT_SESSION.
NamesParent(f, i) == Kind(f, i) = "parent" /\ Harness[f] = "claude"

\* Mutant: the stream starts one byte late and loses its first line.
WholeAfter(b, e) == {i \in LineNos : 2 * (i - 1) > b /\ 2 * i <= e}

\* The lines readline yields whole from the bytes after b up to e.  The half
\* of a line is no JSON, and a malformed line is skipped without a trace.
Whole(b, e) == {i \in LineNos : 2 * (i - 1) >= b /\ 2 * i <= e}

Bump(n) == IF n < MaxCopies THEN n + 1 ELSE n

-------------------------------------------------------------------------------
(* One transaction over the lines `batch` of file f *)

\* Mutant: the unique index is forgotten and only the batch is checked.
InsertedUnindexed(f, i, batch) ==
    /\ IsMessage(f, i)
    /\ \A j \in batch : j < i /\ IsMessage(f, j) => Id(f, j) # Id(f, i) \/ Id(f, i) = NoId

\* INSERT OR IGNORE: a uuid already in the index, or earlier in the batch,
\* is ignored; a NULL uuid never is.
Inserted(f, i, batch) ==
    /\ IsMessage(f, i)
    /\ Id(f, i) \notin index
    /\ \A j \in batch : j < i /\ IsMessage(f, j) => Id(f, j) # Id(f, i) \/ Id(f, i) = NoId

\* The line's usage reaches updateUsageMinutes.  A line whose content blocks
\* throw keeps its message row and loses the rest; a subagent's tokens are
\* its parent's; a session this visit knows to be delegated is skipped.
Books(f, i, batch, knowsParent) ==
    /\ Inserted(f, i, batch)
    /\ Kind(f, i) = "assistant"
    /\ Harness[f] # "subagent"
    /\ ~knowsParent
    /\ \A j \in batch : j < i => ~NamesParent(f, j)

\* Mutant: the WHERE no longer guards a session that is already closed.
ClosedByLatest(f, batch) ==
    LET ends == {i \in batch : IsEnd(f, i)}
    IN  IF ends = {} THEN closed[f] ELSE CHOOSE i \in ends : \A j \in ends : i <= j

\* UPDATE sessions SET status = 'closed' ... AND status != 'closed'
ClosedBy(f, batch) ==
    LET ends == {i \in batch : IsEnd(f, i)}
    IN  IF closed[f] # 0 \/ ends = {} THEN closed[f]
        ELSE CHOOSE i \in ends : \A j \in ends : i <= j

Commit(f, batch, knowsParent) ==
    /\ rows' = [rows EXCEPT ![f] = [i \in LineNos |->
           IF i \in batch /\ (Inserted(f, i, batch) \/ IsThrottle(f, i))
           THEN Bump(rows[f][i]) ELSE rows[f][i]]]
    /\ booked' = [booked EXCEPT ![f] = [i \in LineNos |->
           IF i \in batch /\ Books(f, i, batch, knowsParent)
           THEN Bump(booked[f][i]) ELSE booked[f][i]]]
    /\ index' = index \cup ({Id(f, i) : i \in {j \in batch : IsMessage(f, j)}} \ {NoId})
    /\ closed' = [closed EXCEPT ![f] = ClosedBy(f, batch)]
    /\ UNCHANGED <<offset, delegated>>

-------------------------------------------------------------------------------
(* A visit of one file by one pass *)

Stages == {"idle", "stated", "stream", "tail", "link", "save"}

Visit == [at : Stages, on : Files, seen : Bytes, pos : Bytes, eof : Bytes, parent : BOOLEAN]

Idle == [at |-> "idle", on |-> CHOOSE f \in Files : TRUE, seen |-> 0, pos |-> 0,
         eof |-> 0, parent |-> FALSE]

Init ==
    /\ content \in [Files -> Contents]
    /\ size = [f \in Files |-> 0]
    /\ offset = [f \in Files |-> 0]
    /\ index = {}
    /\ rows = [f \in Files |-> [i \in LineNos |-> 0]]
    /\ booked = [f \in Files |-> [i \in LineNos |-> 0]]
    /\ closed = [f \in Files |-> 0]
    /\ delegated = [f \in Files |-> FALSE]
    /\ visit = [p \in Passes |-> Idle]
    /\ aborts = 0
    /\ cut = [f \in Files |-> {}]

\* The harness appends: whole lines, or with Tearing a part of one.
HarnessWrites(f) ==
    /\ \E n \in 1..2 :
         /\ size[f] + n <= 2 * MaxLines
         /\ ~Tearing => n = 2
         /\ size' = [size EXCEPT ![f] = @ + n]
    /\ UNCHANGED <<content, db, visit, aborts, cut>>

\* const fstat = await stat(filePath)
Stat(p, f) ==
    /\ visit[p].at = "idle"
    /\ visit' = [visit EXCEPT ![p] = [Idle EXCEPT !.at = "stated", !.on = f, !.seen = size[f]]]
    /\ UNCHANGED <<file, db, aborts, cut>>

\* Mutant: a file that has an offset row counts as ingested.
NothingNewOnceSeen(p) == visit[p].seen = 0 \/ offset[visit[p].on] > 0

\* if (fstat.size <= startByte) continue
NothingNew(p) == visit[p].seen <= offset[visit[p].on]

\* SELECT byte_offset FROM ingest_offsets; open the stream there.
ReadOffset(p) ==
    /\ visit[p].at = "stated"
    /\ visit' = [visit EXCEPT ![p] =
           IF NothingNew(p) THEN Idle
           ELSE [@ EXCEPT !.at = "stream", !.pos = offset[visit[p].on]]]
    /\ UNCHANGED <<file, db, aborts, cut>>

\* Where the next BatchSize lines end; the rest of a torn line counts as one.
BatchEnd(pos) == 2 * (pos \div 2 + BatchSize)

KnowsParent(p, batch) ==
    visit[p].parent \/ \E i \in batch : NamesParent(visit[p].on, i)

\* if (batch.length >= 500) batchInsert(batch.splice(0))
CommitFull(p) ==
    LET f     == visit[p].on
        end   == BatchEnd(visit[p].pos)
        batch == Whole(visit[p].pos, end)
    IN  /\ visit[p].at = "stream"
        /\ end <= size[f]
        /\ Commit(f, batch, visit[p].parent)
        /\ visit' = [visit EXCEPT ![p] =
               [@ EXCEPT !.pos = end, !.parent = KnowsParent(p, batch)]]
        /\ UNCHANGED <<file, aborts, cut>>

\* The stream meets the end of the file, wherever that is by now.
ReachEof(p) ==
    LET f == visit[p].on
    IN  /\ visit[p].at = "stream"
        /\ BatchEnd(visit[p].pos) > size[f]
        /\ visit' = [visit EXCEPT ![p] = [@ EXCEPT !.at = "tail", !.eof = size[f]]]
        /\ UNCHANGED <<file, db, aborts, cut>>

\* if (batch.length > 0) batchInsert(batch)
CommitTail(p) ==
    LET f     == visit[p].on
        batch == Whole(visit[p].pos, visit[p].eof)
    IN  /\ visit[p].at = "tail"
        /\ Commit(f, batch, visit[p].parent)
        /\ visit' = [visit EXCEPT ![p] =
               [@ EXCEPT !.at = IF Harness[f] = "claude" THEN "link" ELSE "save",
                         !.pos = visit[p].eof, !.parent = KnowsParent(p, batch)]]
        /\ UNCHANGED <<file, aborts, cut>>

\* if (detectedDelegatedFrom) UPDATE sessions SET delegated_from = ...
LinkDelegation(p) ==
    /\ visit[p].at = "link"
    /\ delegated' = [delegated EXCEPT ![visit[p].on] = @ \/ visit[p].parent]
    /\ visit' = [visit EXCEPT ![p].at = "save"]
    /\ UNCHANGED <<file, offset, index, rows, booked, closed, aborts, cut>>

\* Mutants: the file is stat'ed after the read; one byte is added for the
\* newline.
OffsetStatedLate(p) == size[visit[p].on]
OffsetPlusOne(p)    == visit[p].seen + 1

\* The size this visit stat'ed, whatever the offset row holds now.
NewOffset(p) == visit[p].seen

\* INSERT INTO ingest_offsets ... ON CONFLICT DO UPDATE SET byte_offset = excluded.
SaveOffset(p) ==
    LET f == visit[p].on
    IN  /\ visit[p].at = "save"
        /\ offset' = [offset EXCEPT ![f] = NewOffset(p)]
        /\ cut' = [cut EXCEPT ![f] = @ \cup {i \in LineNos : 2 * i - 1 = NewOffset(p)}]
        /\ visit' = [visit EXCEPT ![p] = Idle]
        /\ UNCHANGED <<file, index, rows, booked, closed, delegated, aborts>>

\* The stream or the database throws and the pass ends, or its process dies.
Abort(p) ==
    /\ visit[p].at # "idle"
    /\ aborts < MaxAborts
    /\ aborts' = aborts + 1
    /\ visit' = [visit EXCEPT ![p] = Idle]
    /\ UNCHANGED <<file, db, cut>>

Next ==
    \/ \E f \in Files : HarnessWrites(f)
    \/ \E p \in Passes :
         \/ \E f \in Files : Stat(p, f)
         \/ ReadOffset(p)
         \/ CommitFull(p)
         \/ ReachEof(p)
         \/ CommitTail(p)
         \/ LinkDelegation(p)
         \/ SaveOffset(p)
         \/ Abort(p)

Spec == Init /\ [][Next]_vars

-------------------------------------------------------------------------------
(* What ingestion owes its readers *)

TypeOK ==
    /\ content \in [Files -> Contents]
    /\ size \in [Files -> Bytes]
    /\ offset \in [Files -> Bytes]
    /\ index \subseteq Uuids
    /\ rows \in [Files -> [LineNos -> 0..MaxCopies]]
    /\ booked \in [Files -> [LineNos -> 0..MaxCopies]]
    /\ closed \in [Files -> 0..MaxLines]
    /\ delegated \in [Files -> BOOLEAN]
    /\ visit \in [Passes -> Visit]
    /\ aborts \in 0..MaxAborts
    /\ cut \in [Files -> SUBSET LineNos]

\* The line can give the database nothing more: it holds nothing to store, a
\* row stands for it, or an offset was stored in its middle and it is lost.
Handled(f, i) ==
    \/ ~IsMessage(f, i) /\ ~IsThrottle(f, i)
    \/ IsMessage(f, i) /\ Id(f, i) \in index
    \/ rows[f][i] > 0
    \/ i \in cut[f]

\* However the passes interleave and wherever one dies, a stored offset never
\* runs ahead of what was stored: every line that ends at or before it was
\* ingested, unless an offset was once stored in the middle of that line.
\* (The offset is the size before the read, never the size after it.)
OffsetCoversHandled ==
    \A f \in Files, i \in LineNos : 2 * i <= offset[f] => Handled(f, i)

\* Lines take effect in the order the harness wrote them: no line has a row
\* while an earlier line of its file is still to be ingested.  Todos and
\* session state are built by replaying lines, so an inversion would leave
\* an older state standing.
AppliedInOrder ==
    \A f \in Files, i, j \in LineNos :
        rows[f][i] > 0 /\ j < i => Handled(f, j)

\* Reading a file again, two passes at once, or one message copied into two
\* files must not count its tokens twice: a uuid is booked to usage_minutes
\* at most once, and only by the line its message row came from.
UsageBookedOnce ==
    \A f, g \in Files, i, j \in LineNos :
        booked[f][i] > 0 /\ Id(f, i) # NoId =>
            /\ booked[f][i] = 1 /\ rows[f][i] = 1
            /\ (booked[g][j] > 0 /\ Id(g, j) = Id(f, i)) => <<f, i>> = <<g, j>>

\* closed_at is the time of the first session_end of the file that was not
\* lost, whichever pass got there first and however often it is read again.
ClosedAtFirstEnd ==
    \A f \in Files, i \in LineNos :
        closed[f] # 0 /\ IsEnd(f, i) /\ i < closed[f] => i \in cut[f]

\* With one pass at a time a stored offset only grows.
OffsetNeverRetreats == [][\A f \in Files : offset'[f] >= offset[f]]_vars

\* Every line that is completely written is eventually ingested, or was cut.
EventuallyHandled ==
    \A f \in Files, i \in LineNos : (size[f] >= 2 * i) ~> Handled(f, i)

-------------------------------------------------------------------------------
(* What the documents promise and the code does not keep *)

\* packages/schema/docs/all-logs.md, Idempotency: "Safe to re-run ingestion
\* at any time".  A pass that runs while the harness is in the middle of a
\* line stores an offset behind which the rest of the line is never read.
NoWrittenLineIsLost ==
    \A f \in Files, i \in LineNos :
        2 * i <= size[f] /\ 2 * i <= offset[f] =>
            \/ ~IsMessage(f, i) /\ ~IsThrottle(f, i)
            \/ IsMessage(f, i) /\ Id(f, i) \in index
            \/ rows[f][i] > 0

\* The same promise for throttle records: a line that is read again (the
\* file grew between the stat and the end of the stream, or the pass died
\* before its offset was stored) files its refusal again.
RefusalCountedOnce ==
    \A f \in Files, i \in LineNos : IsThrottle(f, i) => rows[f][i] <= 1

\* ingest.ts, in the loop of ingestAll: "Skip usage rollups for delegated
\* sessions (parent already counted)".  Only the visit that read the parent
\* marker knows the session is delegated; the next one books its tokens.
DelegatedNeverBooked ==
    [][\A f \in Files : delegated[f] => booked'[f] = booked[f]]_vars

-------------------------------------------------------------------------------
(* Fairness: the worker starts a pass every minute, a pass visits every file *)
(* it lists in turn, and an await that does not fail returns.                *)

GoesOn(p) ==
    \/ ReadOffset(p) \/ CommitFull(p) \/ ReachEof(p) \/ CommitTail(p)
    \/ LinkDelegation(p) \/ SaveOffset(p)

Fairness ==
    \A p \in Passes : WF_vars(GoesOn(p)) /\ \A f \in Files : SF_vars(Stat(p, f))

FairSpec == Spec /\ Fairness
===============================================================================
