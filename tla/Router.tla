-------------------------------- MODULE Router --------------------------------
(***************************************************************************)
(* The daemon of packages/router: it scans session files, keeps a cursor   *)
(* per file, and posts the new lines in batches to a remote endpoint.      *)
(*                                                                         *)
(* The daemon is one event loop.  A scan reads the files one after the     *)
(* other without giving up the loop (the harness may still append between  *)
(* two reads); flush() gives it up only while sendBatch waits for a reply  *)
(* or for its backoff.  start() makes its first scan before it watches the *)
(* files, and a stop() that throws leaves a daemon without watch or timer. *)
(*                                                                         *)
(* The cursors live in memory and are written to disk as one JSON file, by *)
(* a plain write that truncates the file first: it may fail, or the process*)
(* be killed in it, and a file that was cut short is read back as {}.      *)
(*                                                                         *)
(* Bytes.  A line is two units long: 2*i is the end of line i, and an odd  *)
(* position is the middle of a line.                                       *)
(***************************************************************************)
EXTENDS Integers, Sequences

CONSTANTS
    Files,          \* session files under the watch paths
    MaxLines,       \* bound: lines of a file
    MaxEpochs,      \* bound: times a file is truncated and written anew, plus one
    Tearing,        \* may a write stop in the middle of a line?
    BatchSize,      \* config.batch_size
    MaxRetries,     \* MAX_RETRIES of sender.ts
    DiskFails,      \* may writing the cursor file fail?
    WatchFails,     \* may fs.watch fail on a path?
    MaxFaults       \* bound: kills, replies lost after the data was stored, failed saves

Bytes  == 0..(2 * MaxLines)
Epochs == 1..MaxEpochs

\* `received` saturates one above what the faults explain.
MaxCopies == MaxFaults + 2

\* What a scan may find between two newlines: a line, or a part of one.
Pieces == {x \in [file : Files, epoch : Epochs, from : Bytes, to : Bytes] :
              x.from < x.to /\ x.to <= 2 * (x.from \div 2 + 1)}

ASSUME FilesAssumption == Files # {}
ASSUME FlagAssumption  == Tearing \in BOOLEAN /\ DiskFails \in BOOLEAN /\ WatchFails \in BOOLEAN
ASSUME BoundAssumption ==
    /\ MaxLines \in Nat \ {0}
    /\ MaxEpochs \in Nat \ {0}
    /\ BatchSize \in Nat \ {0}
    /\ MaxRetries \in Nat \ {0}
    /\ MaxFaults \in Nat

VARIABLES
    size, epoch,    \* a file: bytes written, and how often it was begun
    saved,          \* the cursor file
    stage,          \* "down", "starting", "serving", or "retired" when stop() threw
    watching,       \* files under a path that is watched
    changed,        \* fs.watch has a change to report
    cursors,        \* this.cursors
    scanning,       \* files the scan under way has still to read
    pending,        \* this.pendingLines
    batch,          \* the lines flush() took out, <<>> when it is not sending
    attempt,        \* attempt of sendBatch, 0 when not sending (this.sending)
    post,           \* where that attempt is: "idle", "sent", "stored", "backoff"
    received,       \* times the endpoint stored a piece
    dropped,        \* history: pieces behind a cursor that nobody holds any more
    faults          \* history: events after which a piece may be sent again

disk   == <<size, epoch>>
sender == <<batch, attempt, post>>
watch  == <<stage, watching, changed>>
vars   == <<size, epoch, saved, stage, watching, changed, cursors, scanning, pending,
            batch, attempt, post, received, dropped, faults>>

Elements(s) == {s[k] : k \in 1..Len(s)}

Up == stage # "down"

\* The event loop can take up a timer, a reply or a signal.
Free == stage \in {"serving", "retired"} /\ scanning = {}

\* What the process would forget if it ended now.
Held == Elements(pending) \cup Elements(batch)

Least(a, b)    == IF a <= b THEN a ELSE b
Greatest(a, b) == IF a >= b THEN a ELSE b

-------------------------------------------------------------------------------
(* scanner.ts *)

\* text.split('\n') over the bytes from c to s of file f.
PiecesBetween(f, c, s) ==
    [k \in 1..((s + 1) \div 2 - c \div 2) |->
        LET line == c \div 2 + k
        IN  [file |-> f, epoch |-> epoch[f],
             from |-> Greatest(c, 2 * (line - 1)), to |-> Least(s, 2 * line)]]

\* Mutant: the cursor is not moved.
NextCursorStuck(f)  == cursors[f]

\* A cursor moves to the size that was read.  readNewLines also returns 0 for
\* a file that shrank, but scan() takes its cursor only when it has lines.
NextCursor(f) == IF size[f] > cursors[f] THEN size[f] ELSE cursors[f]

Fresh(f) == IF size[f] > cursors[f] THEN PiecesBetween(f, cursors[f], size[f]) ELSE <<>>

-------------------------------------------------------------------------------
(* router.ts: flush *)

\* Mutant: only full batches are worth a request.
FlushFullOnly(queue) == attempt = 0 /\ Len(queue) >= BatchSize

\* if (this.sending || this.pendingLines.length === 0) return
MayFlush(queue) == attempt = 0 /\ queue # <<>>

\* const batch = this.pendingLines.splice(0, this.config.batch_size)
StartFlush(queue) ==
    /\ batch' = SubSeq(queue, 1, Least(BatchSize, Len(queue)))
    /\ pending' = SubSeq(queue, BatchSize + 1, Len(queue))
    /\ attempt' = 1
    /\ post' = "sent"

\* After a flush: if a full batch is waiting, flush again.
EndFlush(queue) ==
    IF Len(queue) >= BatchSize
    THEN StartFlush(queue)
    ELSE /\ pending' = queue
         /\ batch' = <<>>
         /\ attempt' = 0
         /\ post' = "idle"

\* The process ends with its cursors at `stored`: what it held and has not
\* delivered is behind a cursor for good if the stored cursor is past it.
ExitWith(stored) ==
    /\ stage' = "down"
    /\ watching' = {}
    /\ changed' = FALSE
    /\ saved' = stored
    /\ dropped' = dropped \cup {x \in Held : x.to <= stored[x.file] /\ received[x] = 0}
    /\ scanning' = {}
    /\ pending' = <<>>
    /\ batch' = <<>>
    /\ attempt' = 0
    /\ post' = "idle"
    /\ cursors' = stored
    /\ UNCHANGED <<disk, received>>

-------------------------------------------------------------------------------
Init ==
    /\ size = [f \in Files |-> 0]
    /\ epoch = [f \in Files |-> 1]
    /\ saved = [f \in Files |-> 0]
    /\ stage = "down"
    /\ watching = {}
    /\ changed = FALSE
    /\ cursors = [f \in Files |-> 0]
    /\ scanning = {}
    /\ pending = <<>>
    /\ batch = <<>>
    /\ attempt = 0
    /\ post = "idle"
    /\ received = [x \in Pieces |-> 0]
    /\ dropped = {}
    /\ faults = 0

(* The harness *)

HarnessWrites(f) ==
    /\ \E n \in 1..2 :
         /\ size[f] + n <= 2 * MaxLines
         /\ ~Tearing => n = 2
         /\ size' = [size EXCEPT ![f] = @ + n]
    /\ changed' = (changed \/ f \in watching)
    /\ UNCHANGED <<epoch, saved, stage, watching, cursors, scanning, pending, sender, received, dropped, faults>>

HarnessTruncates(f) ==
    /\ epoch[f] < MaxEpochs
    /\ epoch' = [epoch EXCEPT ![f] = @ + 1]
    /\ size' = [size EXCEPT ![f] = 0]
    /\ changed' = (changed \/ f \in watching)
    /\ UNCHANGED <<saved, stage, watching, cursors, scanning, pending, sender, received, dropped, faults>>

(* The daemon *)

\* Mutant: the cursor file is not read.
LoadedNothing == [f \in Files |-> 0]

\* loadCursors()
Loaded == saved

\* new Router(config).start(): loadCursors, then a first scan.
Start ==
    /\ ~Up
    /\ stage' = "starting"
    /\ cursors' = Loaded
    /\ scanning' = Files
    /\ UNCHANGED <<disk, saved, watching, changed, pending, sender, received, dropped, faults>>

\* The rest of start(): watch the paths, of which some may fail ("failed to
\* watch" is logged and nothing more), and set the interval.
Watch ==
    /\ stage = "starting" /\ scanning = {}
    /\ stage' = "serving"
    /\ watching' \in IF WatchFails THEN SUBSET Files ELSE {Files}
    /\ UNCHANGED <<disk, saved, changed, cursors, scanning, pending, sender, received, dropped, faults>>

\* fs.watch reports a change to some .jsonl file, one of these or another.
WatchEvent ==
    /\ Free /\ watching # {}
    /\ scanning' = Files
    /\ changed' = FALSE
    /\ UNCHANGED <<disk, saved, stage, watching, cursors, pending, sender, received, dropped, faults>>

\* One file of scan(); the last one flushes if a full batch is waiting.
ScanFile(f) ==
    LET queue == pending \o Fresh(f)
    IN  /\ f \in scanning
        /\ scanning' = scanning \ {f}
        /\ cursors' = [cursors EXCEPT ![f] = NextCursor(f)]
        /\ IF scanning = {f} /\ Len(queue) >= BatchSize /\ MayFlush(queue)
           THEN StartFlush(queue)
           ELSE pending' = queue /\ UNCHANGED sender
        /\ UNCHANGED <<disk, saved, watch, received, dropped, faults>>

\* setInterval(() => this.flush(), flush_interval_ms)
FlushTimer ==
    /\ stage = "serving" /\ scanning = {}
    /\ MayFlush(pending)
    /\ StartFlush(pending)
    /\ UNCHANGED <<disk, saved, watch, cursors, scanning, received, dropped, faults>>

\* What loadCursors makes of a cursor file that was truncated and not
\* written: {}, and a cursor that is not there counts as 0.
Blank == [f \in Files |-> 0]

\* saveCursors throws: with the cursor file as it was, or truncated.
SaveFails ==
    /\ DiskFails /\ faults < MaxFaults
    /\ faults' = faults + 1
    /\ saved' \in {saved, Blank}

\* Mutants: the lines of a failed flush go behind those that came later;
\* they are not put back at all.
PutBackLast    == pending \o batch
PutBackNothing == pending

\* this.pendingLines.unshift(...batch)
PutBack == batch \o pending

\* saveCursors throws inside the try of flush(): the catch branch.
PutsBack ==
    /\ SaveFails
    /\ EndFlush(PutBack)
    /\ UNCHANGED dropped

\* The rest of flush() once sendBatch has returned.
AfterSend ==
    \/ /\ saved' = cursors
       /\ EndFlush(pending)
       /\ dropped' = dropped \cup {x \in Elements(batch) : received[x] = 0}
       /\ UNCHANGED faults
    \/ PutsBack

\* The endpoint stores the batch and answers 2xx.
EndpointStores ==
    /\ post = "sent"
    /\ post' = "stored"
    /\ received' = [x \in Pieces |->
           IF x \in Elements(batch) /\ received[x] < MaxCopies THEN received[x] + 1 ELSE received[x]]
    /\ UNCHANGED <<disk, saved, watch, cursors, scanning, pending, batch, attempt, dropped, faults>>

ReplyArrives ==
    /\ Free /\ post = "stored"
    /\ AfterSend
    /\ UNCHANGED <<disk, watch, cursors, scanning, received>>

\* Mutant: attempt <= MAX_RETRIES.
AttemptsLeftOneMore == attempt <= MaxRetries

\* if (attempt < MAX_RETRIES - 1), counting from 0
AttemptsLeft == attempt < MaxRetries

\* A refused connection, a timeout or an answer that is neither 2xx nor 401:
\* back off, or after the last attempt return as if all were sent.
AttemptFails ==
    /\ Free /\ post = "sent"
    /\ IF AttemptsLeft
       THEN /\ post' = "backoff"
            /\ UNCHANGED <<saved, pending, batch, attempt, dropped, faults>>
       ELSE AfterSend
    /\ UNCHANGED <<disk, watch, cursors, scanning, received>>

\* The same, when the endpoint had stored the batch and its answer is lost.
\* (After the last attempt sendBatch returns, which is ReplyArrives.)
ReplyLost ==
    /\ Free /\ post = "stored" /\ AttemptsLeft
    /\ faults < MaxFaults
    /\ faults' = faults + 1
    /\ post' = "backoff"
    /\ UNCHANGED <<disk, saved, watch, cursors, scanning, pending, batch, attempt, received, dropped>>

Retry ==
    /\ Free /\ post = "backoff"
    /\ post' = "sent"
    /\ attempt' = attempt + 1
    /\ UNCHANGED <<disk, saved, watch, cursors, scanning, pending, batch, received, dropped, faults>>

\* statusCode === 401: stop() ends the watch and the interval and saves the
\* cursors, then process.exit(1).  A save that throws does so inside the try:
\* the batch is put back, and the process goes on with nothing to wake it.
Unauthorized ==
    /\ Free /\ post = "sent"
    /\ \/ ExitWith(cursors) /\ UNCHANGED faults
       \/ /\ PutsBack
          /\ stage' = "retired"
          /\ watching' = {}
          /\ changed' = FALSE
          /\ UNCHANGED <<disk, cursors, scanning, received>>

\* A retired process that sends nothing has nothing to wait for: node ends it.
Drained ==
    /\ stage = "retired" /\ attempt = 0
    /\ ExitWith(saved)
    /\ UNCHANGED faults

\* SIGINT or SIGTERM: cleanup saves the cursors, then process.exit(0); a save
\* that throws ends the process as well.
Signal ==
    /\ Free
    /\ \/ ExitWith(cursors) /\ UNCHANGED faults
       \/ SaveFails /\ ExitWith(saved')

\* The process is killed or dies of an error nobody catches: anywhere, and so
\* also in a save, between the truncation of the cursor file and the write.
Killed ==
    /\ Up /\ faults < MaxFaults
    /\ \/ ExitWith(saved)
       \/ Free /\ ExitWith(Blank)
    /\ faults' = faults + 1

Next ==
    \/ \E f \in Files : HarnessWrites(f) \/ HarnessTruncates(f) \/ ScanFile(f)
    \/ Start
    \/ Watch
    \/ WatchEvent
    \/ FlushTimer
    \/ EndpointStores
    \/ ReplyArrives
    \/ AttemptFails
    \/ ReplyLost
    \/ Retry
    \/ Unauthorized
    \/ Drained
    \/ Signal
    \/ Killed

Spec == Init /\ [][Next]_vars

-------------------------------------------------------------------------------
TypeOK ==
    /\ size \in [Files -> Bytes] /\ epoch \in [Files -> Epochs]
    /\ saved \in [Files -> Bytes] /\ cursors \in [Files -> Bytes]
    /\ stage \in {"down", "starting", "serving", "retired"}
    /\ watching \subseteq Files /\ changed \in BOOLEAN
    /\ scanning \subseteq Files
    /\ pending \in Seq(Pieces) /\ batch \in Seq(Pieces) /\ Len(batch) <= BatchSize
    /\ attempt \in 0..MaxRetries
    /\ post \in {"idle", "sent", "stored", "backoff"}
    /\ received \in [Pieces -> 0..MaxCopies]
    /\ dropped \subseteq Pieces
    /\ faults \in 0..MaxFaults

\* Some piece of a class holds byte b of file f as it is in its epoch e.
Holds(class, f, e, b) ==
    \E x \in class : x.file = f /\ x.epoch = e /\ x.from <= b /\ b < x.to

Settled(f, e, b) == Holds({x \in Pieces : received[x] > 0} \cup dropped, f, e, b)

\* Nothing falls between a cursor and the endpoint: whatever scans, timers,
\* replies and exits interleave, a byte behind the in-memory cursor, or behind
\* the cursor file, which is all a crash leaves, was received, is still held by
\* the process, or was given up on at one of the points where the daemon gives
\* up (the last attempt, or an exit).  A file that was truncated is left out:
\* its cursor stays where the old lines put it (TruncationResetsCursor).
BytesAccounted ==
    \A f \in Files : epoch[f] = 1 => \A b \in 0..(cursors[f] - 1) \cup 0..(saved[f] - 1) :
        Settled(f, 1, b) \/ Holds(Held, f, 1, b)

\* The daemon implements the channel: even when a failed flush puts its batch
\* back while later lines wait, or the process ends with lines behind its
\* cursors, a file's lines are stored or given up on in the order they were
\* written, and none is dealt with again but for a fault.
Channel == INSTANCE LineChannel WITH copies <- received, lost <- dropped
ChannelKept == Channel!ChannelSpec

\* The endpoint gets a line twice only after a lost reply, a kill or a failed
\* save, once more for each of them: overlapping scans and flushes never
\* send one twice.
DuplicatesAreFaults == \A x \in Pieces : received[x] <= 1 + faults

\* Across restarts, truncated session files, failed flushes and exits, no save
\* stores a position behind the one on disk.  A stored cursor moves back only
\* when a save failed or the process was killed in one, and then the file was
\* cut short: all cursors are gone, never one of them set back by itself.
SavedNeverRetreats ==
    [][(\E f \in Files : saved'[f] < saved[f]) => faults' > faults /\ saved' = Blank]_vars

\* The daemon knows of file f, or will when it comes up: it is to be told of a
\* change, is about to read the file, or is not running.
Told(f) == changed \/ f \in scanning \/ ~Up

\* Every byte the daemon has read or is told of, in a file that is not
\* truncated, is eventually received or given up on: also a partial batch that
\* nothing fills up, a batch that was put back, and what a kill left unsent.
\* What is written between the first scan and the watch, or under a path whose
\* watch failed, is not told of (EverythingSettles).
EventuallySettled ==
    \A f \in Files : \A b \in 0..(2 * MaxLines - 1) :
        (size[f] > b /\ (b < cursors[f] \/ Told(f))) ~> (Settled(f, 1, b) \/ epoch[f] > 1)

-------------------------------------------------------------------------------
(* What the documents promise and the code does not keep *)

\* packages/router/README.md: "Tracks cursor positions per file so it never
\* re-sends data, even after restarts".  The cursors are saved after a send:
\* a daemon killed between the two sends the batch again.
NeverResent == \A x \in Pieces : received[x] <= 1

\* router.ts, in flush: "Save cursors after successful send".  The cursors
\* already stand behind lines that scans queued while the send was under way.
SavedMeansReceived ==
    \A f \in Files : \A b \in 0..(saved[f] - 1) :
        Holds({x \in Pieces : received[x] > 0}, f, epoch[f], b)

\* router.ts, in flush: "Put lines back for retry".  sendBatch does not throw
\* when its attempts are used up, so the lines are dropped by a daemon that
\* goes on running.
RunningNeverDrops == [][Up /\ Up' => dropped' = dropped]_vars

\* scanner.ts: "File hasn't grown (or was truncated - reset cursor)".  The
\* caller takes the new cursor only along with lines.
TruncationResetsCursor ==
    [][\A f \in Files : f \in scanning /\ f \notin scanning' /\ Up' => cursors'[f] <= size[f]]_vars

\* packages/router/README.md: the daemon "forwards new events".  A line that
\* is half written when a scan reads it is forwarded as two halves.
EventsArriveWhole ==
    \A x \in Pieces : received[x] > 0 => x.from % 2 = 0 /\ x.to = x.from + 2

\* packages/router/README.md: the daemon "forwards new events".  The first scan
\* comes before the watch: an event written between them waits for another
\* change or for a restart, and neither need come.
EverythingSettles ==
    \A f \in Files : \A b \in 0..(2 * MaxLines - 1) :
        (size[f] > b) ~> (Settled(f, 1, b) \/ epoch[f] > 1)

-------------------------------------------------------------------------------
(* Fairness: the daemon is restarted when it ends and start() runs to its    *)
(* end; a change that fs.watch noticed is reported (a change before the      *)
(* watch is not noticed, and nothing says that another follows).  The        *)
(* interval, a backoff and a request, which ends by its 30 s timeout, come   *)
(* up in every turn of the event loop; scans take the loop again and again,  *)
(* so that for these fairness is strong.                                     *)

Fairness ==
    /\ WF_vars(Start)
    /\ WF_vars(Watch)
    /\ WF_vars(WatchEvent /\ changed)
    /\ WF_vars(Drained)
    /\ \A f \in Files : WF_vars(ScanFile(f))
    /\ SF_vars(FlushTimer)
    /\ SF_vars(Retry)
    /\ SF_vars(ReplyArrives \/ AttemptFails \/ ReplyLost \/ Unauthorized)

FairSpec == Spec /\ Fairness
===============================================================================
