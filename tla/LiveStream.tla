-------------------------------- MODULE LiveStream --------------------------------
(***************************************************************************)
(* One connection to the live feed, apps/web/src/app/api/live/route.ts.    *)
(* A scan stats every recently written session file, then reads the files  *)
(* one after another, each with an await of its own: the last lines of one *)
(* that is new to the connection, what was appended to one that is known.  *)
(* Harnesses write and the browser leaves at any of these awaits.          *)
(***************************************************************************)
EXTENDS Integers, SequencesExt

CONSTANTS
    LiveFiles,      \* session files, each in a directory of its own
    FeedLines,      \* bound: lines of a file
    ContextBytes,   \* how far back the first read goes, 50000
    ContextLines,   \* how many lines of it are sent, 20
    MaxStalls       \* bound: reads given up on after three seconds

\* A position counts half lines, so an odd one is in the middle of a line.
Positions == 0..(2 * FeedLines)
Unseen    == -1

ASSUME LiveConstantsOK == {FeedLines, ContextBytes, ContextLines, MaxStalls} \subseteq Nat

VARIABLES
    feedSize,       \* bytes on disk
    fileSizes,      \* the connection's cursors
    scanning,       \* sizes that the scan in flight has yet to deal with, by file
    reading,        \* the file being read, from where, and its size before the read
    connected,      \* the browser listens
    gone,           \* the server has noticed that it does not: `closed` in the code
    released,       \* cleanup ran
    watchedDirs, watchers,  \* directories watched so far, and watchers open
    shown,          \* lines of each file that reached the browser, in order
    since,          \* history: the first cursor of each file
    split,          \* history: lines in whose middle a cursor was put
    stalls

liveVars == <<feedSize, fileSizes, scanning, reading, connected, gone, released,
              watchedDirs, watchers, shown, since, split, stalls>>

Nothing == [file |-> {}, from |-> 0, to |-> 0]

LiveInit ==
    /\ feedSize = [f \in LiveFiles |-> 0] /\ stalls = 0
    /\ fileSizes = [f \in LiveFiles |-> Unseen]
    /\ scanning = <<>> /\ reading = Nothing
    /\ connected = TRUE /\ gone = FALSE /\ released = FALSE
    /\ watchedDirs = {} /\ watchers = {}
    /\ shown = [f \in LiveFiles |-> <<>>] /\ since = [f \in LiveFiles |-> Unseen]
    /\ split = [f \in LiveFiles |-> {}]

-----------------------------------------------------------------------------
\* A harness appends half a line.
AppendHalf(f) ==
    /\ feedSize[f] + 1 \in Positions
    /\ feedSize' = [feedSize EXCEPT ![f] = @ + 1]
    /\ UNCHANGED <<fileSizes, scanning, reading, connected, gone, released,
                   watchedDirs, watchers, shown, since, split, stalls>>

\* One of the two timers or a watcher starts a scan.  Which files were written
\* in the last ten minutes is any set of them.  The list of sessions is sent
\* first, and the server notices when nobody is there to take it.
StartScan(hot) ==
    /\ ~gone /\ DOMAIN scanning = {}
    /\ scanning' = [f \in hot |-> feedSize[f]]
    /\ gone' = ~connected
    /\ UNCHANGED <<feedSize, fileSizes, reading, connected, released, watchedDirs, watchers, shown, since, split, stalls>>

\* The scan is done with a file and watches its directory.
Done(f) ==
    /\ scanning' = [g \in DOMAIN scanning \ {f} |-> scanning[g]]
    /\ reading' = Nothing
    /\ watchedDirs' = watchedDirs \cup {f}
    /\ watchers' = IF f \in watchedDirs THEN watchers ELSE watchers \cup {f}

\* Mutant: the place is not held at the start of the file.
FromRaw(f) == IF fileSizes[f] # Unseen THEN fileSizes[f] ELSE scanning[f] - ContextBytes

\* Where to read from: the cursor, or so far before the end of a new file.
From(f) ==
    IF fileSizes[f] # Unseen THEN fileSizes[f]
    ELSE IF scanning[f] > ContextBytes THEN scanning[f] - ContextBytes ELSE 0

\* The scan comes to a file; readNewLines stats it again, and opens it when
\* there is something after the place to read from.
OpenFile(f) ==
    /\ reading = Nothing /\ f \in DOMAIN scanning
    /\ fileSizes[f] = Unseen \/ scanning[f] > fileSizes[f]
    /\ feedSize[f] > From(f)
    /\ reading' = [file |-> {f}, from |-> From(f), to |-> feedSize[f]]
    /\ UNCHANGED <<feedSize, fileSizes, scanning, connected, gone, released,
                   watchedDirs, watchers, shown, since, split, stalls>>

\* Mutant: a read that was given up on counts as one to the end.
CursorRegardless(f, to, stalled) == IF fileSizes[f] = Unseen THEN scanning[f] ELSE to

\* Where the cursor goes: to the size found by the scan for a new file, else to
\* the size found before the read, unless the read was given up on.
CursorAfter(f, to, stalled) ==
    IF fileSizes[f] = Unseen THEN scanning[f] ELSE IF stalled THEN reading.from ELSE to

PutCursor(f, pos) ==
    /\ fileSizes' = [fileSizes EXCEPT ![f] = pos]
    /\ since' = [since EXCEPT ![f] = IF @ = Unseen THEN pos ELSE @]
    /\ split' = [split EXCEPT ![f] = IF pos % 2 = 1 THEN @ \cup {(pos + 1) \div 2} ELSE @]

\* Nothing is read from a file that did not grow, or is new and empty.
SkipFile(f) ==
    /\ reading = Nothing /\ f \in DOMAIN scanning
    /\ IF fileSizes[f] = Unseen THEN feedSize[f] <= From(f) /\ PutCursor(f, scanning[f])
       ELSE scanning[f] <= fileSizes[f] /\ UNCHANGED <<fileSizes, since, split>>
    /\ Done(f)
    /\ UNCHANGED <<feedSize, connected, gone, released, shown, stalls>>

\* Lines read up to a position that parse: the whole ones, and of a new file
\* those among the last lines of what was read.
LinesRead(f, end) ==
    LET first   == (reading.from + 1) \div 2 + 1
        last    == end \div 2
        context == (end + 1) \div 2 - ContextLines + 1
        begin   == IF fileSizes[f] = Unseen /\ context > first THEN context ELSE first
    IN  [i \in 1..(IF last >= begin THEN last - begin + 1 ELSE 0) |-> begin + i - 1]

\* What was read is sent in one go; a send that fails tells that nobody listens.
Deliver(f, end, stalled) ==
    /\ f \in reading.file
    /\ shown' = [shown EXCEPT ![f] = IF connected /\ ~gone THEN @ \o LinesRead(f, end) ELSE @]
    /\ gone' = (gone \/ (~connected /\ LinesRead(f, end) # <<>>))
    /\ PutCursor(f, CursorAfter(f, reading.to, stalled))
    /\ Done(f)
    /\ UNCHANGED <<feedSize, connected, released>>

\* The stream ends where the file ends by then.
ReadToEnd(f) == Deliver(f, feedSize[f], FALSE) /\ UNCHANGED stalls

\* After three seconds without an end, what was read so far is taken.
GiveUp(f) ==
    /\ stalls < MaxStalls
    /\ \E end \in reading.from..feedSize[f] : Deliver(f, end, TRUE)
    /\ stalls' = stalls + 1

Leave ==
    /\ connected
    /\ connected' = FALSE
    /\ UNCHANGED <<feedSize, fileSizes, scanning, reading, gone, released,
                   watchedDirs, watchers, shown, since, split, stalls>>

\* The heartbeat finds nobody there and cleans up, whatever a scan is doing.
Heartbeat ==
    /\ ~connected /\ ~released
    /\ gone' = TRUE /\ released' = TRUE /\ watchers' = {}
    /\ UNCHANGED <<feedSize, fileSizes, scanning, reading, connected, watchedDirs, shown, since, split, stalls>>

\* The browser comes back on a connection of its own.
Connect ==
    /\ released /\ DOMAIN scanning = {}
    /\ fileSizes' = [f \in LiveFiles |-> Unseen]
    /\ UNCHANGED <<scanning, reading>>
    /\ connected' = TRUE /\ gone' = FALSE /\ released' = FALSE
    /\ watchedDirs' = {} /\ watchers' = {}
    /\ shown' = [f \in LiveFiles |-> <<>>] /\ since' = [f \in LiveFiles |-> Unseen]
    /\ split' = [f \in LiveFiles |-> {}]
    /\ UNCHANGED <<feedSize, stalls>>

LiveNext ==
    \/ \E f \in LiveFiles : AppendHalf(f) \/ OpenFile(f) \/ SkipFile(f) \/ ReadToEnd(f) \/ GiveUp(f)
    \/ \E hot \in SUBSET LiveFiles \ {{}} : StartScan(hot)
    \/ Leave \/ Heartbeat \/ Connect

-----------------------------------------------------------------------------
LiveTypeOK ==
    /\ feedSize \in [LiveFiles -> Positions] /\ fileSizes \in [LiveFiles -> Positions \cup {Unseen}]
    /\ DOMAIN scanning \subseteq LiveFiles /\ reading.file \subseteq DOMAIN scanning
    /\ reading.from \in Positions /\ reading.to \in Positions
    /\ watchers \subseteq watchedDirs /\ watchedDirs \subseteq LiveFiles
    /\ \A f \in LiveFiles : ToSet(shown[f]) \cup split[f] \subseteq 1..FeedLines

\* While the browser listens, a line that was written after the connection
\* first saw the file is behind the cursor only once it was sent, whichever of
\* the three sizes of the file a read used and whether it ended; lines that a
\* cursor split are the exception.
NothingSkipped ==
    \A f \in LiveFiles : connected /\ since[f] # Unseen =>
        \A i \in 1..FeedLines :
            2 * (i - 1) >= since[f] /\ 2 * i <= fileSizes[f] => i \in split[f] \/ Contains(shown[f], i)

-----------------------------------------------------------------------------
(* What the documents promise and the code does not keep.                  *)

\* "Real-time SSE stream across every active session" (README.md): each line
\* whole, once, and in order.  A cursor can split a line; what a read finds
\* beyond its cursor is sent again; and of a file that grew by more than the
\* context before its first read, the last lines come first.
ShownWhole   == \A f \in LiveFiles : connected => split[f] = {}
ShownOnce    == \A f \in LiveFiles : IsInjective(shown[f])
ShownInOrder == \A f \in LiveFiles : \A k \in DOMAIN shown[f] : \A j \in 1..(k - 1) : shown[f][j] <= shown[f][k]

\* "Cleanup on close": after it no watcher is open.
WatchersReleased == released => watchers = {}
==================================================================================
