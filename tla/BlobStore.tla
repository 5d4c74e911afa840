-------------------------------- MODULE BlobStore ---------------------------------
(***************************************************************************)
(* The content-addressed store of files, packages/core/db/ingest.ts        *)
(* archiveToolResultsForSession and the route /api/todos/attachments.      *)
(*                                                                         *)
(* A harness spills large tool outputs to files that it sweeps after 30    *)
(* days; every pass copies what it does not have.  Users attach files to   *)
(* todos.  Both go to a file named by its hash, and a row says who holds   *)
(* it.  The web server removes the file with the last attachment, unless a *)
(* row of either table still holds it.  Passes run in the worker and in    *)
(* processes of their own, so the look, the write and the row of one mix   *)
(* with those of another, and with the web server's count and removal.     *)
(*                                                                         *)
(* Spills only grow, so a content stands for its size and its hash alike.  *)
(***************************************************************************)
EXTENDS Integers, FiniteSets, FiniteSetsExt

CONSTANTS
    Spills,         \* files of tool-results/, by session and path
    Archivers,      \* processes that run passes
    MaxBytes,       \* TOOL_RESULT_MAX_BYTES
    MaxSize, MaxAttached, MaxCrashes    \* bounds

ASSUME BlobConstantsOK ==
    /\ {MaxBytes, MaxSize, MaxAttached, MaxCrashes} \subseteq Nat
    /\ IsFiniteSet(Spills) /\ {"web", "nobody"} \cap Archivers = {}

VARIABLES
    spill,          \* content of each spill, 0 before it is there and after the sweep
    swept,
    blobs,          \* attachments/<hash>: how much of it is there, and who opened it last
    toolResults,    \* tool_results, by spill
    attached,       \* todo_attachments: rows of each hash
    job,            \* what each process is at
    crashes,        \* so far
    torn, crossed           \* history, see below

blobVars == <<spill, swept, blobs, toolResults, attached, job, crashes, torn, crossed>>

Contents == 1..MaxSize
Web == "web"
Processes == Archivers \cup {Web}
Nobody == "nobody"
NoFile == "none"
NoBlob == [is |-> "absent", by |-> Nobody]
NoResult == [size |-> 0, hash |-> 0]
AtRest == [at |-> "rest", file |-> NoFile, size |-> 0, hash |-> 0]

At(p, where) == job[p].at = where
Exists(h) == blobs[h].is # "absent"
Writing(h) == {p \in Processes : At(p, "writing") /\ job[p].hash = h}

BlobInit ==
    /\ spill = [f \in Spills |-> 0] /\ swept = {}
    /\ blobs = [h \in Contents |-> NoBlob]
    /\ toolResults = [f \in Spills |-> NoResult] /\ attached = [h \in Contents |-> 0]
    /\ job = [p \in Processes |-> AtRest]
    /\ crashes = 0 /\ torn = {} /\ crossed = {}

-----------------------------------------------------------------------------
(* The harness.                                                            *)

Grow(f) ==
    /\ f \notin swept /\ spill[f] < MaxSize
    /\ spill' = [spill EXCEPT ![f] = @ + 1]
    /\ UNCHANGED <<swept, blobs, toolResults, attached, job, crashes, torn, crossed>>

SweepSpill(f) ==
    /\ spill[f] # 0
    /\ spill' = [spill EXCEPT ![f] = 0] /\ swept' = swept \cup {f}
    /\ UNCHANGED <<blobs, toolResults, attached, job, crashes, torn, crossed>>

-----------------------------------------------------------------------------
(* A pass comes to a spill.                                                *)

\* The size decides whether there is work to do.
StatSpill(p, f) ==
    /\ At(p, "rest") /\ spill[f] # 0
    /\ toolResults[f].size # spill[f] /\ spill[f] <= MaxBytes
    /\ job' = [job EXCEPT ![p] = [at |-> "read", file |-> f, size |-> spill[f], hash |-> 0]]
    /\ UNCHANGED <<spill, swept, blobs, toolResults, attached, crashes, torn, crossed>>

\* The file is written only if its name is not there yet.
Looked(h) == IF Exists(h) THEN "row" ELSE "open"

ReadSpill(p) ==
    LET content == spill[job[p].file] IN
    /\ At(p, "read")
    /\ job' = [job EXCEPT ![p] = IF content = 0 THEN AtRest
                                 ELSE [@ EXCEPT !.at = Looked(content), !.hash = content]]
    /\ UNCHANGED <<spill, swept, blobs, toolResults, attached, crashes, torn, crossed>>

\* INSERT ... ON CONFLICT(session_uuid, rel_path) DO UPDATE, with the stat'ed size.
RecordSpill(p) ==
    LET j == job[p] IN
    /\ p \in Archivers /\ At(p, "row")
    /\ toolResults' = [toolResults EXCEPT ![j.file] = [size |-> j.size, hash |-> j.hash]]
    /\ crossed' = IF At(Web, "unlink") /\ job[Web].hash = j.hash THEN crossed \cup {j.hash} ELSE crossed
    /\ job' = [job EXCEPT ![p] = AtRest]
    /\ UNCHANGED <<spill, swept, blobs, attached, crashes, torn>>

-----------------------------------------------------------------------------
(* The file of a hash, by whomever.                                        *)

\* writeFile truncates what another has made meanwhile.
OpenBlob(p) ==
    /\ At(p, "open")
    /\ blobs' = [blobs EXCEPT ![job[p].hash] = [is |-> "partial", by |-> p]]
    /\ job' = [job EXCEPT ![p].at = "writing"]
    /\ UNCHANGED <<spill, swept, toolResults, attached, crashes, torn, crossed>>

\* Who opened it last leaves it whole; what is written to a file that was
\* removed is lost with it; another may leave a gap that the last one fills.
CloseBlob(p) ==
    LET h == job[p].hash IN
    /\ At(p, "writing")
    /\ \E is \in IF blobs[h].by = p THEN {"whole"}
                 ELSE IF Exists(h) THEN {blobs[h].is, "whole"} ELSE {"absent"} :
           /\ blobs' = [blobs EXCEPT ![h] = [is |-> is, by |-> IF is = "partial" THEN @.by ELSE Nobody]]
           /\ torn' = IF is = "whole" THEN torn \ {h} ELSE torn
    /\ job' = [job EXCEPT ![p].at = "row"]
    /\ UNCHANGED <<spill, swept, toolResults, attached, crashes, crossed>>

-----------------------------------------------------------------------------
(* The web server; a request runs to its end before the next one begins.   *)

\* POST, one file.
Upload(h) ==
    /\ At(Web, "rest") /\ MapThenSumSet(LAMBDA c : attached[c], Contents) < MaxAttached
    /\ job' = [job EXCEPT ![Web] = [AtRest EXCEPT !.at = Looked(h), !.hash = h]]
    /\ UNCHANGED <<spill, swept, blobs, toolResults, attached, crashes, torn, crossed>>

Attach ==
    /\ At(Web, "row")
    /\ attached' = [attached EXCEPT ![job[Web].hash] = @ + 1]
    /\ job' = [job EXCEPT ![Web] = AtRest]
    /\ UNCHANGED <<spill, swept, blobs, toolResults, crashes, torn, crossed>>

\* DELETE: the row,
Detach(h) ==
    /\ At(Web, "rest") /\ attached[h] > 0
    /\ attached' = [attached EXCEPT ![h] = @ - 1]
    /\ job' = [job EXCEPT ![Web] = [AtRest EXCEPT !.at = "count", !.hash = h]]
    /\ UNCHANGED <<spill, swept, blobs, toolResults, crashes, torn, crossed>>

\* Mutant: tool_results does not count as a holder.
AttachmentsOf(h) == attached[h]
HoldersOf(h) == attached[h] + Cardinality({f \in Spills : toolResults[f].hash = h})

\* what still holds the hash,
CountHolders ==
    /\ At(Web, "count")
    /\ job' = [job EXCEPT ![Web] = IF HoldersOf(@.hash) = 0 THEN [@ EXCEPT !.at = "unlink"] ELSE AtRest]
    /\ UNCHANGED <<spill, swept, blobs, toolResults, attached, crashes, torn, crossed>>

\* and the file.
Unlink ==
    LET h == job[Web].hash IN
    /\ At(Web, "unlink")
    /\ blobs' = [blobs EXCEPT ![h] = NoBlob]
    /\ crossed' = IF \E p \in Archivers : job[p].hash = h /\ job[p].at \in {"row", "writing"}
                  THEN crossed \cup {h} ELSE crossed
    /\ torn' = torn \ {h}
    /\ job' = [job EXCEPT ![Web] = AtRest]
    /\ UNCHANGED <<spill, swept, toolResults, attached, crashes>>

\* A process dies, or a call on the file system fails.
Crash(p) ==
    /\ ~At(p, "rest") /\ crashes < MaxCrashes
    /\ crashes' = crashes + 1
    /\ torn' = IF At(p, "writing") THEN torn \cup {job[p].hash} ELSE torn
    /\ job' = [job EXCEPT ![p] = AtRest]
    /\ UNCHANGED <<spill, swept, blobs, toolResults, attached, crossed>>

BlobNext ==
    \/ \E f \in Spills : Grow(f) \/ SweepSpill(f)
    \/ \E p \in Archivers : (\E f \in Spills : StatSpill(p, f)) \/ ReadSpill(p) \/ RecordSpill(p)
    \/ \E p \in Processes : OpenBlob(p) \/ CloseBlob(p) \/ Crash(p)
    \/ \E h \in Contents : Upload(h) \/ Detach(h)
    \/ Attach \/ CountHolders \/ Unlink

BlobSpec == BlobInit /\ [][BlobNext]_blobVars

-----------------------------------------------------------------------------
BlobTypeOK ==
    /\ spill \in [Spills -> 0..MaxSize] /\ swept \subseteq Spills
    /\ blobs \in [Contents -> [is : {"absent", "partial", "whole"}, by : Processes \cup {Nobody}]]
    /\ toolResults \in [Spills -> [size : 0..MaxBytes, hash : 0..MaxSize]]
    /\ attached \in [Contents -> Nat]
    /\ job \in [Processes -> [at : {"rest", "read", "open", "writing", "row", "count", "unlink"},
                              file : Spills \cup {NoFile}, size : 0..MaxBytes, hash : 0..MaxSize]]
    /\ crashes \in 0..MaxCrashes
    /\ torn \subseteq Contents /\ crossed \subseteq Contents

\* A file stays as long as a row of either table holds it, whoever else holds
\* it or lets it go.  One case is `crossed`: a pass had found or written the
\* file and not yet its row when the web server, having counted no holder,
\* removed it.
HoldersKeepBlobs ==
    /\ \A h \in Contents : attached[h] > 0 => Exists(h)
    /\ \A f \in Spills : LET h == toolResults[f].hash IN h = 0 \/ Exists(h) \/ h \in crossed

\* Passes skip a spill by its size alone.  When the size in its row is the size
\* it has, the row names its present content, though it grew between the stat
\* and the read, and passes overtook each other.
SizeVouchesForContent ==
    \A f \in Spills : spill[f] # 0 /\ toolResults[f].size = spill[f] => toolResults[f].hash = spill[f]

\* A file that is not whole is being written, or its writer died at it.
TornOnlyByDeath == \A h \in Contents : blobs[h].is = "partial" => h \in torn \/ Writing(h) # {}

\* The archive holds what its rows say.
PayloadsKept == HoldersKeepBlobs /\ SizeVouchesForContent /\ TornOnlyByDeath

-----------------------------------------------------------------------------
(* What comments promise and the code does not keep.                       *)

\* attachments/route.ts: tool_results "shares this blob store, and its payloads
\* are unrecoverable ... so it counts as a holder".
ResultsAreHeld == \A f \in Spills : toolResults[f].hash = 0 \/ Exists(toolResults[f].hash)

\* ingest.ts: spills are copied "before Claude Code's cleanupPeriodDays sweep
\* deletes them".  A name left by a writer that died passes for a copy.
SweptIsWhole == \A f \in swept : LET h == toolResults[f].hash IN
    h = 0 \/ blobs[h].is = "whole" \/ Writing(h) # {}

\* blob-response.ts: "the bytes at a hash cannot change, so a year is not too
\* long".  A second writer truncates the file that rows already name.
BytesNeverChange == [][\A h \in Contents : blobs[h].is = "whole" => blobs'[h].is # "partial"]_blobVars
===================================================================================
