------------------------------- MODULE RefusalScan -------------------------------
(***************************************************************************)
(* How a refused call is counted, packages/core/db/rate-limit-scan.ts and  *)
(* refusals.ts.  Ingestion files the record by which a harness reports its *)
(* own refusal; the scanner looks for the error text in the content blocks *)
(* behind a cursor.  A text within a minute of a record of its session is  *)
(* not counted again.                                                      *)
(*                                                                         *)
(* The worker scans a batch now and then.  The web server scans on request *)
(* too, a batch or until nothing is left, and if asked from scratch: it    *)
(* deletes what was scanned, sets the cursor to zero and reads on, in      *)
(* statements of their own.  It can also file the records anew from the    *)
(* logs on disk.  The cursor is read before the transaction that moves it. *)
(***************************************************************************)
EXTENDS Integers, Sequences, FiniteSetsExt, Functions

CONSTANTS
    Sessions,
    Texts,          \* content blocks: [session, minute, match]; match: detectRateLimit
                    \* sees a refusal and the text is not a model's own prose
    Records,        \* reported refusals: [session, minute, api]; api: a Claude row,
                    \* known by its message, otherwise a throttle record
    Batch,          \* blocks of one scan
    MaxRescans, MaxDeaths, MaxRereads, MaxBackfills     \* bounds

NoSession == "none"
Scanners  == {"worker", "web"}

ASSUME ScanConstantsOK ==
    /\ NoSession \notin Sessions /\ Batch \in Nat \ {0}
    /\ Texts \subseteq [session : Sessions, minute : Nat, match : BOOLEAN]
    /\ Records \subseteq [session : Sessions, minute : Nat, api : BOOLEAN]
    /\ {MaxRescans, MaxDeaths, MaxRereads, MaxBackfills} \subseteq Nat

VARIABLES
    disk,           \* records that the harness has written
    known,          \* sessions with a row
    ingested,       \* records that ingestion has read
    blocks,         \* content_blocks, by id
    reported,       \* harness-reported tally of each record
    scanned,        \* tally of the scanner: ids of their blocks
    cursor,         \* settings.rate_limit_scan_block_id
    scan,           \* the scan of each process
    early, late, raced,                     \* history, see below
    rescans, deaths, rereads, backfills     \* bounded tally so far

log    == <<disk, known, ingested, blocks>>
tally == <<reported, scanned, cursor>>
history == <<early, late, raced>>
bounds == <<rescans, deaths, rereads, backfills>>
scanVars   == <<log, tally, scan, history, bounds>>

\* A scan outside a batch.
Scanning(at, drain) == [at |-> at, drain |-> drain, from |-> 0, to |-> 0]
Idle == Scanning("idle", FALSE)

ScanInit ==
    /\ disk = {} /\ known = {} /\ ingested = {} /\ blocks = <<>>
    /\ reported = [r \in Records |-> <<>>] /\ scanned = {} /\ cursor = 0
    /\ scan = [p \in Scanners |-> Idle]
    /\ early = {} /\ late = {} /\ raced = FALSE
    /\ rescans = 0 /\ deaths = 0 /\ rereads = 0 /\ backfills = 0

\* A reported event: its session, and whether it names the message.
Filed(session, message) == [session |-> session, message |-> message]
SessionOf(r) == IF r.session \in known THEN r.session ELSE NoSession

Close(t, r) == t.minute - r.minute \in -1..1
CoversText(r, row, t) == row.session = t.session /\ Close(t, r)
\* Mutant: only records before the text.
ReportedBefore(t) == \E r \in Records : r.minute <= t.minute /\ \E i \in DOMAIN reported[r] : CoversText(r, reported[r][i], t)
NearbyReported(t) == \E r \in Records : \E i \in DOMAIN reported[r] : CoversText(r, reported[r][i], t)

\* Records that are filed after a text near them was counted.
Preceded(rs) == {r \in rs : \E i \in scanned : blocks[i].session = SessionOf(r) /\ Close(blocks[i], r)}

-----------------------------------------------------------------------------
(* Harness and ingestion.                                                  *)

Write(r) == /\ r \notin disk /\ disk' = disk \cup {r}
            /\ UNCHANGED <<known, ingested, blocks, tally, scan, history, bounds>>

\* Ingestion reads a record.  A message it has is ignored; a throttle record
\* has no name, and one that is read again is filed again.
IngestRecord(r) ==
    /\ r \in disk
    /\ r \in ingested => rereads < MaxRereads
    /\ rereads' = IF r \in ingested THEN rereads + 1 ELSE rereads
    /\ ingested' = ingested \cup {r}
    /\ known' = IF r.api THEN known \cup {r.session} ELSE known
    /\ reported' = IF r.api /\ r \in ingested THEN reported
                   ELSE [reported EXCEPT ![r] = Append(@, Filed(IF r.api THEN r.session ELSE SessionOf(r), r.api))]
    /\ late' = late \cup Preceded({r})
    /\ UNCHANGED <<disk, blocks, scanned, cursor, scan, early, raced, rescans, deaths, backfills>>

IngestText(t) ==
    /\ t \notin Range(blocks)
    /\ blocks' = Append(blocks, t)
    /\ known' = known \cup {t.session}
    /\ UNCHANGED <<disk, ingested, tally, scan, history, bounds>>

-----------------------------------------------------------------------------
(* The scanner.                                                            *)

\* A scan begins; only the web server drains or starts from scratch.
Begin(p, drain) ==
    /\ scan[p].at = "idle"
    /\ drain => p = "web"
    /\ scan' = [scan EXCEPT ![p] = Scanning("begun", drain)]
    /\ UNCHANGED <<log, tally, history, bounds>>

Wipe(drain) ==
    /\ scan["web"].at = "idle" /\ rescans < MaxRescans
    /\ rescans' = rescans + 1
    /\ scanned' = {} /\ late' = {}
    /\ scan' = [scan EXCEPT !["web"] = Scanning("wiped", drain)]
    /\ UNCHANGED <<log, reported, cursor, early, raced, deaths, rereads, backfills>>

ZeroCursor ==
    /\ scan["web"].at = "wiped"
    /\ cursor' = 0 /\ raced' = FALSE
    /\ scan' = [scan EXCEPT !["web"] = Scanning("begun", scan["web"].drain)]
    /\ UNCHANGED <<log, reported, scanned, early, late, bounds>>

\* The cursor, and the blocks behind it.
Select(p) ==
    /\ scan[p].at = "begun"
    /\ scan' = [scan EXCEPT ![p] =
           IF cursor >= Len(blocks) THEN Idle
           ELSE [at |-> "batch", drain |-> scan[p].drain, from |-> cursor, to |-> Min({cursor + Batch, Len(blocks)})]]
    /\ UNCHANGED <<log, tally, history, bounds>>

\* Mutant: the newest block there is now.
NewestBlock(p) == Len(blocks)
LastOfBatch(p) == scan[p].to

\* The transaction: tally for the batch, and the cursor behind it.
Commit(p) ==
    /\ scan[p].at = "batch"
    /\ scanned' = scanned \cup {i \in (scan[p].from + 1)..scan[p].to :
                                   blocks[i].match /\ ~NearbyReported(blocks[i])}
    /\ cursor' = LastOfBatch(p)
    /\ raced' = (raced \/ cursor < scan[p].from)
    /\ scan' = [scan EXCEPT ![p] = IF scan[p].drain THEN Scanning("begun", TRUE) ELSE Idle]
    /\ UNCHANGED <<log, reported, early, late, bounds>>

Die(p) ==
    /\ scan[p].at # "idle" /\ deaths < MaxDeaths
    /\ deaths' = deaths + 1
    /\ raced' = (raced \/ scan[p].at = "wiped")
    /\ scan' = [scan EXCEPT ![p] = Idle]
    /\ UNCHANGED <<log, tally, early, late, rescans, rereads, backfills>>

\* backfillReportedRefusals, one transaction: files what it does not find.
\* Mutant: known by its message alone.
MissingMessage(r) == ~ \E i \in DOMAIN reported[r] : reported[r][i].message
Missing(r) ==
    IF r.api /\ r \in ingested
    THEN ~ \E i \in DOMAIN reported[r] : reported[r][i].message
    ELSE ~ \E i \in DOMAIN reported[r] : reported[r][i].session = SessionOf(r)
Backfill ==
    LET filed == {r \in disk : Missing(r)} IN
    /\ scan["web"].at = "idle" /\ backfills < MaxBackfills
    /\ backfills' = backfills + 1
    /\ reported' = [r \in Records |-> IF r \in filed
                                      THEN Append(reported[r], Filed(SessionOf(r), r.api /\ r \in ingested))
                                      ELSE reported[r]]
    /\ early' = early \cup (filed \ ingested)
    /\ late' = late \cup Preceded(filed)
    /\ UNCHANGED <<log, scanned, cursor, scan, raced, rescans, deaths, rereads>>

ScanNext ==
    \/ \E r \in Records : Write(r) \/ IngestRecord(r)
    \/ \E t \in Texts : IngestText(t)
    \/ \E p \in Scanners : \/ \E drain \in BOOLEAN : Begin(p, drain)
                           \/ Select(p) \/ Commit(p) \/ Die(p)
    \/ \E drain \in BOOLEAN : Wipe(drain)
    \/ ZeroCursor
    \/ Backfill

ScanSpec == ScanInit /\ [][ScanNext]_scanVars

-----------------------------------------------------------------------------
ScanTypeOK ==
    /\ disk \subseteq Records /\ ingested \subseteq disk /\ known \subseteq Sessions
    /\ blocks \in Seq(Texts) /\ scanned \subseteq DOMAIN blocks /\ cursor \in 0..Len(blocks)
    /\ reported \in [Records -> Seq([session : Sessions \cup {NoSession}, message : BOOLEAN])]
    /\ scan \in [Scanners -> [at : {"idle", "wiped", "begun", "batch"}, drain : BOOLEAN, from : Nat, to : Nat]]
    /\ early \subseteq Records /\ late \subseteq Records /\ raced \in BOOLEAN
    /\ {rescans, deaths, rereads, backfills} \subseteq Nat

\* Every refusal text that the cursor has passed is counted or covered by a
\* record, with two processes scanning, whatever died.  Two things break that
\* until the next rescan (`raced`): a scan that read its cursor before a rescan
\* set it to zero commits after it, and a rescan dies between deleting the
\* tally and resetting the cursor.
NothingMissed ==
    raced \/ scan["web"].at = "wiped"
    \/ \A i \in 1..cursor : blocks[i].match => i \in scanned \/ NearbyReported(blocks[i])

\* A refusal is counted from its text beside its record only when the text was
\* scanned before the record was filed, and the next rescan cures that.
RecordWins ==
    \A i \in scanned, r \in Records :
        (\E k \in DOMAIN reported[r] : CoversText(r, reported[r][k], blocks[i])) => r \in late

\* A record is filed twice only for one of three reasons: it was filed from disk
\* before ingestion came to it, it was filed before its session had a row, or a
\* throttle record was read twice.
FiledOnce ==
    \A r \in Records : Len(reported[r]) > 1 =>
        \/ r \in early
        \/ \E i \in DOMAIN reported[r] : reported[r][i].session = NoSession
        \/ ~r.api /\ rereads > 0

\* One refusal is one event, neither missed nor counted twice, with those
\* exceptions.
OneEventEach == NothingMissed /\ RecordWins /\ FiledOnce
==================================================================================
