------------------------------ MODULE TablesProofs ------------------------------
(***************************************************************************)
(* The tables that the worker keeps besides the log, for every number of   *)
(* processes at them and whichever of them die: the archive of blobs, the  *)
(* alerts, the tally of refusals, and the two tiers of status polls and of *)
(* mesh samples.  Each has an inductive invariant of its own.              *)
(***************************************************************************)
EXTENDS MCTables, PriceLedgerProofs

(***************************************************************************)
(* The archive holds what its rows say, for every number of spills and of  *)
(* passes at once, and however often they die.                             *)
(***************************************************************************)
JobStages == {"rest", "read", "open", "writing", "row", "count", "unlink"}
Job == [at : JobStages, file : Spills \cup {NoFile}, size : 0..MaxBytes, hash : 0..MaxSize]

(* Types; the number of attachments has no bound here. *)
BlobTypes ==
    /\ spill \in [Spills -> 0..MaxSize] /\ swept \subseteq Spills
    /\ blobs \in [Contents -> [is : {"absent", "partial", "whole"}, by : Processes \cup {Nobody}]]
    /\ toolResults \in [Spills -> [size : 0..MaxBytes, hash : 0..MaxSize]]
    /\ attached \in [Contents -> Nat]
    /\ job \in [Processes -> Job]
    /\ torn \subseteq Contents /\ crossed \subseteq Contents

(* Where each kind of process may be, and what it has in hand there. *)
StageInv ==
    /\ \A p \in Archivers : ~At(p, "count") /\ ~At(p, "unlink")
    /\ ~At(Web, "read")
    /\ \A p \in Processes : At(p, "rest") \/ At(p, "read") \/ job[p].hash \in Contents
    /\ \A p \in Archivers : At(p, "rest") \/ job[p].file \in Spills

(* A swept spill does not come back.  A record, or what a pass is about to  *)
(* record, names a content at least as long as the size beside it, and no   *)
(* longer than the spill is now.                                            *)
SizeInv ==
    /\ \A f \in swept : spill[f] = 0
    /\ \A f \in Spills : /\ toolResults[f].size <= toolResults[f].hash
                         /\ f \in swept \/ toolResults[f].hash <= spill[f]
    /\ \A p \in Archivers :
         /\ At(p, "read") => job[p].file \in swept \/ job[p].size <= spill[job[p].file]
         /\ job[p].at \in {"open", "writing", "row"} =>
              /\ job[p].size <= job[p].hash
              /\ job[p].file \in swept \/ job[p].hash <= spill[job[p].file]

(* Whoever is about to write a row has its file, unless the web server      *)
(* crossed it; once the web server has counted, every new holder is crossed. *)
HolderInv ==
    /\ HoldersKeepBlobs
    /\ job[Web].at \in {"writing", "row"} => Exists(job[Web].hash)
    /\ \A p \in Archivers : job[p].at \in {"writing", "row"} =>
          Exists(job[p].hash) \/ job[p].hash \in crossed
    /\ At(Web, "unlink") => /\ attached[job[Web].hash] = 0
                            /\ \A f \in Spills : toolResults[f].hash = job[Web].hash => job[Web].hash \in crossed

(* Who opened a partial file last is still writing it, or died at one. *)
OwnerInv ==
    \A h \in Contents : blobs[h].is = "partial" =>
        h \in torn \/ (blobs[h].by \in Processes /\ At(blobs[h].by, "writing") /\ job[blobs[h].by].hash = h)

BlobInv == BlobTypes /\ StageInv /\ SizeInv /\ HolderInv /\ OwnerInv

-------------------------------------------------------------------------------
(* Web is not an archiver, and is no file's "nobody". *)
LEMMA WhoIsWho ==
    /\ Web \in Processes /\ Web \notin Archivers /\ Nobody \notin Processes
    /\ \A p \in Processes : p \in Archivers \/ p = Web
    /\ MaxBytes \in Nat /\ MaxSize \in Nat
    /\ \A h \in Contents : h \in Nat /\ h \in 0..MaxSize /\ h # 0
BY BlobConstantsOK DEF Web, Processes, Nobody, Contents

(* No holder is counted only if no row of either table names the hash. *)
LEMMA NobodyHolds ==
    ASSUME BlobTypes, NEW h \in Contents, HoldersOf(h) = 0
    PROVE  attached[h] = 0 /\ \A f \in Spills : toolResults[f].hash # h
<1> DEFINE Holding == {f \in Spills : toolResults[f].hash = h}
<1>1. IsFiniteSet(Holding)
  BY BlobConstantsOK, FS_Subset
<1>2. Cardinality(Holding) \in Nat /\ (Cardinality(Holding) = 0 => Holding = {})
  BY <1>1, FS_CardinalityType, FS_EmptySet
<1>3. attached[h] \in Nat /\ attached[h] + Cardinality(Holding) = 0
  BY DEF BlobTypes, HoldersOf
<1>4. attached[h] = 0 /\ Cardinality(Holding) = 0
  BY <1>2, <1>3
<1> QED
  BY <1>2, <1>4

LEMMA LookedAt ==
    ASSUME NEW h
    PROVE  Looked(h) \in {"row", "open"} /\ (Looked(h) = "row" <=> Exists(h))
BY DEF Looked

-------------------------------------------------------------------------------
(* One lemma for each step *)

LEMMA BlobStart ==
    ASSUME BlobInit
    PROVE  BlobInv
<1>0. /\ spill = [f \in Spills |-> 0] /\ swept = {} /\ torn = {} /\ crossed = {}
      /\ attached = [h \in Contents |-> 0]
      /\ \A f \in Spills : toolResults[f].size = 0 /\ toolResults[f].hash = 0
      /\ \A h \in Contents : blobs[h].is = "absent"
      /\ \A p \in Processes : job[p].at = "rest"
  BY DEF BlobInit, NoResult, NoBlob, AtRest
<1>1. BlobTypes
  <2>1. toolResults \in [Spills -> [size : 0..MaxBytes, hash : 0..MaxSize]]
    BY WhoIsWho DEF BlobInit, NoResult
  <2>2. blobs \in [Contents -> [is : {"absent", "partial", "whole"}, by : Processes \cup {Nobody}]]
    BY DEF BlobInit, NoBlob
  <2>3. AtRest \in Job
    BY WhoIsWho DEF AtRest, Job, JobStages
  <2>4. job \in [Processes -> Job]
    BY <2>3 DEF BlobInit
  <2>5. spill \in [Spills -> 0..MaxSize] /\ attached \in [Contents -> Nat]
    BY <1>0, WhoIsWho
  <2> QED
    BY <1>0, <2>1, <2>2, <2>4, <2>5 DEF BlobTypes
<1>p. Web \in Processes /\ \A p \in Archivers : p \in Processes
  BY DEF Processes
<1>2. StageInv /\ SizeInv
  BY <1>0, <1>p DEF StageInv, SizeInv, At
<1>3. HolderInv
  BY <1>0, <1>p DEF HolderInv, HoldersKeepBlobs, At
<1>4. OwnerInv
  BY <1>0 DEF OwnerInv
<1> QED
  BY <1>1, <1>2, <1>3, <1>4 DEF BlobInv

LEMMA HarnessKeeps ==
    ASSUME BlobInv, NEW f \in Spills, Grow(f) \/ SweepSpill(f)
    PROVE  BlobInv'
<1>0. BlobTypes /\ StageInv /\ SizeInv /\ HolderInv /\ OwnerInv
  BY DEF BlobInv
<1>1. UNCHANGED <<blobs, toolResults, attached, job, torn, crossed>>
  BY DEF Grow, SweepSpill
<1>2. \/ f \notin swept /\ spill' = [spill EXCEPT ![f] = spill[f] + 1] /\ swept' = swept /\ spill[f] < MaxSize
      \/ spill' = [spill EXCEPT ![f] = 0] /\ swept' = swept \cup {f}
  BY DEF Grow, SweepSpill
<1>3. spill' \in [Spills -> 0..MaxSize] /\ swept' \subseteq Spills
  BY <1>0, <1>2, WhoIsWho DEF BlobTypes
<1>4. /\ swept \subseteq swept' /\ \A g \in swept' : spill'[g] = 0
      /\ \A g \in Spills : g \in swept' \/ spill[g] <= spill'[g]
  BY <1>0, <1>2, WhoIsWho DEF BlobTypes, SizeInv
<1>5. BlobTypes'
  BY <1>0, <1>1, <1>3 DEF BlobTypes
<1>6. StageInv' /\ HolderInv' /\ OwnerInv'
  BY <1>0, <1>1 DEF StageInv, HolderInv, HoldersKeepBlobs, OwnerInv, At, Exists
<1>7. SizeInv'
  <2>1. \A g \in Spills : spill[g] \in Nat /\ spill'[g] \in Nat /\ toolResults[g].hash \in Nat
    BY <1>0, <1>3, WhoIsWho DEF BlobTypes
  <2>2. \A p \in Archivers : p \in Processes /\ job[p].size \in Nat /\ job[p].hash \in Nat /\ (At(p, "rest") \/ job[p].file \in Spills)
    BY <1>0, WhoIsWho DEF BlobTypes, StageInv, Job, Processes
  <2>3. \A g \in Spills : g \in swept' \/ toolResults[g].hash <= spill'[g]
    BY <1>0, <1>4, <2>1 DEF SizeInv
  <2>4. ASSUME NEW p \in Archivers
        PROVE  /\ At(p, "read") => job[p].file \in swept' \/ job[p].size <= spill'[job[p].file]
               /\ job[p].at \in {"open", "writing", "row"} => job[p].file \in swept' \/ job[p].hash <= spill'[job[p].file]
    BY <1>0, <1>4, <2>1, <2>2 DEF SizeInv, At
  <2> QED
    BY <1>0, <1>1, <1>4, <2>3, <2>4 DEF SizeInv, At
<1> QED
  BY <1>5, <1>6, <1>7 DEF BlobInv

(* A pass that begins, or ends without a row, changes nothing but itself. *)
LEMMA JobKeeps ==
    ASSUME BlobInv, NEW p \in Processes, NEW j \in Job, job' = [job EXCEPT ![p] = j],
           UNCHANGED <<spill, swept, blobs, toolResults, attached, crossed>>,
           torn \subseteq torn', torn' \subseteq Contents,
           At(p, "writing") => job[p].hash \in torn',
           j.at \in {"rest", "read", "row", "open", "count"},
           j.at = "row" => Exists(j.hash),
           j.at \in {"rest", "read"} \/ j.hash \in Contents,
           p = Web => j.at # "read",
           p \in Archivers => j.at # "count" /\ (j.at = "rest" \/ j.file \in Spills),
           p \in Archivers /\ j.at = "read" => j.file \in swept \/ j.size <= spill[j.file],
           p \in Archivers /\ j.at \in {"open", "row"} =>
               j.size <= j.hash /\ (j.file \in swept \/ j.hash <= spill[j.file])
    PROVE  BlobInv'
<1>0. BlobTypes /\ StageInv /\ SizeInv /\ HolderInv /\ OwnerInv
  BY DEF BlobInv
<1>1. job' \in [Processes -> Job] /\ \A q \in Processes : job'[q] = IF q = p THEN j ELSE job[q]
  BY <1>0 DEF BlobTypes
<1>2. Web \in Processes /\ Archivers \subseteq Processes
  BY DEF Processes
<1>3. BlobTypes'
  BY <1>0, <1>1 DEF BlobTypes
<1>4. StageInv'
  <2>1. \A q \in Archivers : job'[q].at \notin {"count", "unlink"} /\ (job'[q].at = "rest" \/ job'[q].file \in Spills)
    BY <1>0, <1>1, <1>2 DEF StageInv, At
  <2>2. job'[Web].at # "read" /\ \A q \in Processes : job'[q].at \in {"rest", "read"} \/ job'[q].hash \in Contents
    BY <1>0, <1>1, <1>2 DEF StageInv, At
  <2> QED
    BY <2>1, <2>2 DEF StageInv, At
<1>5. SizeInv'
  <2>1. ASSUME NEW q \in Archivers
        PROVE  /\ job'[q].at = "read" => job'[q].file \in swept \/ job'[q].size <= spill[job'[q].file]
               /\ job'[q].at \in {"open", "writing", "row"} =>
                    job'[q].size <= job'[q].hash /\ (job'[q].file \in swept \/ job'[q].hash <= spill[job'[q].file])
    <3>1. CASE q = p
      BY <1>1, <1>2, <3>1
    <3>2. CASE q # p
      BY <1>0, <1>1, <1>2, <3>2 DEF SizeInv, At
    <3> QED
      BY <3>1, <3>2
  <2> QED
    BY <1>0, <2>1 DEF SizeInv, At
<1>6. HolderInv'
  <2>1. HoldersKeepBlobs'
    BY <1>0 DEF HolderInv, HoldersKeepBlobs, Exists
  <2>2. job'[Web].at \in {"writing", "row"} => Exists(job'[Web].hash)
    BY <1>0, <1>1, <1>2 DEF HolderInv, Exists
  <2>3. \A q \in Archivers : job'[q].at \in {"writing", "row"} => Exists(job'[q].hash) \/ job'[q].hash \in crossed
    BY <1>0, <1>1, <1>2 DEF HolderInv, Exists
  <2>4. job'[Web].at = "unlink" => job'[Web] = job[Web]
    BY <1>1, <1>2
  <2> QED
    BY <1>0, <2>1, <2>2, <2>3, <2>4 DEF HolderInv, At, Exists
<1>7. OwnerInv'
  <2>1. ASSUME NEW h \in Contents, blobs[h].is = "partial"
        PROVE  h \in torn' \/ (blobs[h].by \in Processes /\ job'[blobs[h].by].at = "writing" /\ job'[blobs[h].by].hash = h)
    BY <1>0, <1>1, <2>1 DEF OwnerInv, At
  <2> QED
    BY <2>1 DEF OwnerInv, At
<1> QED
  BY <1>3, <1>4, <1>5, <1>6, <1>7 DEF BlobInv

(* A job moves on, or ends, with what it has in hand. *)
LEMMA JobMoves ==
    ASSUME BlobTypes, NEW p \in Processes, NEW stage \in JobStages
    PROVE  /\ [job EXCEPT ![p].at = stage] \in [Processes -> Job]
           /\ \A q \in Processes : q # p => [job EXCEPT ![p].at = stage][q] = job[q]
           /\ [job EXCEPT ![p].at = stage][p].at = stage
           /\ [job EXCEPT ![p].at = stage][p].hash = job[p].hash
           /\ [job EXCEPT ![p].at = stage][p].size = job[p].size
           /\ [job EXCEPT ![p].at = stage][p].file = job[p].file
<1>1. job \in [Processes -> Job] /\ job[p] \in Job
  BY DEF BlobTypes
<1>2. [job[p] EXCEPT !.at = stage] \in Job
  BY <1>1 DEF Job
<1>3. [job EXCEPT ![p].at = stage] = [job EXCEPT ![p] = [job[p] EXCEPT !.at = stage]]
  BY <1>1
<1> QED
  BY <1>1, <1>2, <1>3 DEF Job

LEMMA JobEnds ==
    ASSUME BlobTypes, NEW p \in Processes, job' = [job EXCEPT ![p] = AtRest]
    PROVE  /\ job' \in [Processes -> Job]
           /\ \A q \in Processes : q # p => job'[q] = job[q]
           /\ job'[p].at = "rest"
<1>1. job \in [Processes -> Job] /\ AtRest \in Job /\ AtRest.at = "rest"
  BY WhoIsWho DEF BlobTypes, AtRest, Job, JobStages
<1> QED
  BY <1>1

LEMMA StatKeeps ==
    ASSUME BlobInv, NEW p \in Archivers, NEW f \in Spills, StatSpill(p, f)
    PROVE  BlobInv'
<1> DEFINE j == [at |-> "read", file |-> f, size |-> spill[f], hash |-> 0]
<1>0. BlobTypes
  BY DEF BlobInv
<1>1. j \in Job
  BY <1>0, WhoIsWho DEF StatSpill, BlobTypes, Job, JobStages
<1>2. job' = [job EXCEPT ![p] = j] /\ UNCHANGED <<spill, swept, blobs, toolResults, attached, crossed, torn>>
  BY DEF StatSpill
<1>3. p \in Processes /\ p # Web /\ ~At(p, "writing")
  BY WhoIsWho DEF Processes, StatSpill, At
<1>4. torn \subseteq Contents /\ spill[f] \in Nat
  BY <1>0, WhoIsWho DEF BlobTypes
<1>5. j.at = "read" /\ j.file = f /\ j.size = spill[f] /\ j.size <= spill[j.file]
  BY <1>4
<1> HIDE DEF j
<1> QED
  BY <1>1, <1>2, <1>3, <1>4, <1>5, JobKeeps

LEMMA ReadSpillKeeps ==
    ASSUME BlobInv, NEW p \in Archivers, ReadSpill(p)
    PROVE  BlobInv'
<1> DEFINE content == spill[job[p].file]
           j       == IF content = 0 THEN AtRest ELSE [job[p] EXCEPT !.at = Looked(content), !.hash = content]
<1>0. BlobTypes /\ StageInv /\ SizeInv
  BY DEF BlobInv
<1>1. p \in Processes /\ p # Web /\ ~At(p, "writing") /\ job[p] \in Job /\ At(p, "read")
  BY <1>0, WhoIsWho DEF Processes, ReadSpill, At, BlobTypes
<1>2. job' = [job EXCEPT ![p] = j] /\ UNCHANGED <<spill, swept, blobs, toolResults, attached, crossed, torn>>
  BY DEF ReadSpill
<1>3. job[p].file \in Spills /\ content \in 0..MaxSize /\ torn \subseteq Contents
  BY <1>0, <1>1 DEF BlobTypes, StageInv, At
<1>4. job[p].file \in swept \/ job[p].size <= content
  BY <1>0, <1>1 DEF SizeInv
<1>5. job[p].file \in swept => content = 0
  BY <1>0 DEF SizeInv
<1>6. CASE content = 0
  <2>1. j = AtRest /\ AtRest \in Job /\ AtRest.at = "rest"
    BY <1>6, WhoIsWho DEF AtRest, Job, JobStages
  <2> HIDE DEF j
  <2> QED
    BY <1>1, <1>2, <1>3, <2>1, JobKeeps
<1>7. CASE content # 0
  <2>0. content \in Contents /\ Looked(content) \in JobStages
    BY <1>3, <1>7, LookedAt, WhoIsWho DEF JobStages, Contents
  <2>a. j = [job[p] EXCEPT !.at = Looked(content), !.hash = content]
    BY <1>7
  <2> HIDE DEF content, j
  <2>1. /\ j \in Job /\ j.at = Looked(content) /\ j.hash = content
        /\ j.file = job[p].file /\ j.size = job[p].size /\ content \in Contents
    BY <1>1, <1>3, <2>0, <2>a DEF Job
  <2> USE DEF content
  <2>2. j.size <= j.hash /\ j.hash <= spill[j.file] /\ j.file \in Spills
    BY <1>3, <1>4, <1>5, <1>7, <2>1, WhoIsWho
  <2>3. j.at \in {"row", "open"} /\ (j.at = "row" => Exists(j.hash))
    BY <2>1, LookedAt
  <2>4. j.at # "read" /\ j.at # "count"
    BY <2>3
  <2> HIDE DEF j, content
  <2> QED
    BY <1>1, <1>2, <1>3, <2>1, <2>2, <2>3, <2>4, JobKeeps
<1> QED
  BY <1>6, <1>7

LEMMA UploadKeeps ==
    ASSUME BlobInv, NEW h \in Contents, Upload(h)
    PROVE  BlobInv'
<1> DEFINE j == [AtRest EXCEPT !.at = Looked(h), !.hash = h]
<1>0. BlobTypes
  BY DEF BlobInv
<1>1. /\ j \in Job /\ j.at \in {"row", "open"} /\ j.hash = h
      /\ j.at = "row" => Exists(j.hash)
  <2>1. Looked(h) \in {"row", "open"} /\ (Looked(h) = "row" => Exists(h)) /\ Looked(h) \in JobStages
    BY LookedAt DEF JobStages
  <2>2. AtRest \in Job /\ h \in 0..MaxSize
    BY WhoIsWho DEF AtRest, Job, JobStages
  <2>3. j \in Job /\ j.at = Looked(h) /\ j.hash = h
    BY <2>1, <2>2 DEF Job
  <2> HIDE DEF j
  <2> QED
    BY <2>1, <2>3
<1>2. job' = [job EXCEPT ![Web] = j] /\ UNCHANGED <<spill, swept, blobs, toolResults, attached, crossed, torn>>
  BY DEF Upload
<1>3. Web \in Processes /\ Web \notin Archivers /\ ~At(Web, "writing") /\ torn \subseteq Contents
  BY <1>0, WhoIsWho DEF Upload, At, BlobTypes
<1> HIDE DEF j
<1> QED
  BY <1>1, <1>2, <1>3, JobKeeps

LEMMA CrashKeeps ==
    ASSUME BlobInv, NEW p \in Processes, Crash(p)
    PROVE  BlobInv'
<1>0. BlobTypes /\ StageInv
  BY DEF BlobInv
<1>1. job' = [job EXCEPT ![p] = AtRest] /\ UNCHANGED <<spill, swept, blobs, toolResults, attached, crossed>>
  BY DEF Crash
<1>2. torn \subseteq torn' /\ torn' \subseteq Contents /\ (At(p, "writing") => job[p].hash \in torn')
  BY <1>0 DEF Crash, BlobTypes, StageInv, At
<1>3. AtRest \in Job /\ AtRest.at = "rest"
  BY WhoIsWho DEF AtRest, Job, JobStages
<1> QED
  BY <1>1, <1>2, <1>3, JobKeeps

LEMMA CountKeeps ==
    ASSUME BlobInv, CountHolders
    PROVE  BlobInv'
<1>0. BlobTypes /\ StageInv /\ SizeInv /\ HolderInv /\ OwnerInv
  BY DEF BlobInv
<1>1. /\ At(Web, "count") /\ Web \in Processes /\ Web \notin Archivers /\ job[Web] \in Job /\ job[Web].hash \in Contents
      /\ UNCHANGED <<spill, swept, blobs, toolResults, attached, crossed, torn>>
  BY <1>0, WhoIsWho DEF CountHolders, BlobTypes, StageInv, At
<1>2. CASE job' = [job EXCEPT ![Web] = AtRest]
  <2>1. AtRest \in Job /\ AtRest.at = "rest" /\ torn \subseteq Contents
    BY <1>0, WhoIsWho DEF AtRest, Job, JobStages, BlobTypes
  <2> QED
    BY <1>1, <1>2, <2>1, JobKeeps DEF At
<1>3. CASE HoldersOf(job[Web].hash) = 0 /\ job' = [job EXCEPT ![Web].at = "unlink"]
  <2>1. /\ job' \in [Processes -> Job] /\ \A p \in Archivers : job'[p] = job[p]
        /\ job'[Web].at = "unlink" /\ job'[Web].hash = job[Web].hash
        /\ \A p \in Processes : p # Web => job'[p] = job[p]
    <3>1. "unlink" \in JobStages /\ \A p \in Archivers : p \in Processes /\ p # Web
      BY <1>1 DEF JobStages, Processes
    <3> QED
      BY <1>0, <1>1, <1>3, <3>1, JobMoves
  <2>2. attached[job[Web].hash] = 0 /\ \A f \in Spills : toolResults[f].hash # job[Web].hash
    BY <1>0, <1>1, <1>3, NobodyHolds
  <2>3. BlobTypes'
    BY <1>0, <1>1, <2>1 DEF BlobTypes
  <2>4. StageInv'
    BY <1>0, <1>1, <2>1, WhoIsWho DEF StageInv, At
  <2>5. SizeInv'
    BY <1>0, <1>1, <2>1 DEF SizeInv, At
  <2>6. HolderInv'
    BY <1>0, <1>1, <2>1, <2>2 DEF HolderInv, HoldersKeepBlobs, Exists, At
  <2>7. OwnerInv'
    BY <1>0, <1>1, <2>1 DEF OwnerInv, At
  <2> QED
    BY <2>3, <2>4, <2>5, <2>6, <2>7 DEF BlobInv
<1> QED
  BY <1>2, <1>3 DEF CountHolders

LEMMA OpenKeeps ==
    ASSUME BlobInv, NEW p \in Processes, OpenBlob(p)
    PROVE  BlobInv'
<1> DEFINE h == job[p].hash
<1>0. BlobTypes /\ StageInv /\ SizeInv /\ HolderInv /\ OwnerInv
  BY DEF BlobInv
<1>1. /\ At(p, "open") /\ h \in Contents /\ p \in Processes
      /\ blobs' = [blobs EXCEPT ![h] = [is |-> "partial", by |-> p]]
      /\ UNCHANGED <<spill, swept, toolResults, attached, torn, crossed>>
  BY <1>0 DEF OpenBlob, StageInv, At
<1>2. /\ job' \in [Processes -> Job] /\ \A q \in Processes : q # p => job'[q] = job[q]
      /\ job'[p].at = "writing" /\ job'[p].hash = h
      /\ job'[p].size = job[p].size /\ job'[p].file = job[p].file
  BY <1>0, JobMoves DEF OpenBlob, JobStages
<1>3. /\ blobs' \in [Contents -> [is : {"absent", "partial", "whole"}, by : Processes \cup {Nobody}]]
      /\ blobs'[h].is = "partial" /\ blobs'[h].by = p
      /\ \A g \in Contents : g # h => blobs'[g] = blobs[g]
  BY <1>0, <1>1 DEF BlobTypes
<1>4. \A g \in Contents : blobs[g].is # "absent" => blobs'[g].is # "absent"
  BY <1>3
<1>p. Web \in Processes /\ \A q \in Archivers : q \in Processes
  BY DEF Processes
<1> HIDE DEF h
<1>5. BlobTypes'
  BY <1>0, <1>1, <1>2, <1>3 DEF BlobTypes
<1>6. StageInv'
  BY <1>0, <1>1, <1>2, <1>p DEF StageInv, At, h
<1>7. SizeInv'
  <2>1. ASSUME NEW q \in Archivers
        PROVE  /\ job'[q].at = "read" => job'[q].file \in swept \/ job'[q].size <= spill[job'[q].file]
               /\ job'[q].at \in {"open", "writing", "row"} =>
                    job'[q].size <= job'[q].hash /\ (job'[q].file \in swept \/ job'[q].hash <= spill[job'[q].file])
    BY <1>0, <1>1, <1>2, <1>p DEF SizeInv, At, h
  <2> QED
    BY <1>0, <1>1, <2>1 DEF SizeInv, At
<1>8. HolderInv'
  <2>1. HoldersKeepBlobs'
    <3>1. \A g \in Contents : attached[g] > 0 => blobs'[g].is # "absent"
      BY <1>0, <1>4 DEF HolderInv, HoldersKeepBlobs, Exists
    <3>2. ASSUME NEW f \in Spills
          PROVE  toolResults[f].hash = 0 \/ blobs'[toolResults[f].hash].is # "absent" \/ toolResults[f].hash \in crossed
      <4>1. toolResults[f].hash = 0 \/ toolResults[f].hash \in Contents
        BY <1>0, WhoIsWho DEF BlobTypes, Contents
      <4> QED
        BY <1>0, <1>4, <4>1 DEF HolderInv, HoldersKeepBlobs, Exists
    <3> QED
      BY <1>1, <3>1, <3>2 DEF HoldersKeepBlobs, Exists
  <2>2. \A q \in Processes : job'[q].at \in {"writing", "row"} =>
           job'[q].hash \in Contents /\ (q = p \/ job'[q] = job[q])
    BY <1>0, <1>1, <1>2 DEF StageInv, At, h
  <2>3. job'[Web].at \in {"writing", "row"} => blobs'[job'[Web].hash].is # "absent"
    BY <1>0, <1>2, <1>3, <1>4, <1>p, <2>2 DEF HolderInv, Exists
  <2>4. \A q \in Archivers : job'[q].at \in {"writing", "row"} =>
            blobs'[job'[q].hash].is # "absent" \/ job'[q].hash \in crossed
    BY <1>0, <1>2, <1>3, <1>4, <1>p, <2>2 DEF HolderInv, Exists
  <2>5. job'[Web].at = "unlink" => job'[Web] = job[Web]
    BY <1>2, <1>p
  <2> QED
    BY <1>0, <1>1, <2>1, <2>3, <2>4, <2>5 DEF HolderInv, Exists, At
<1>9. OwnerInv'
  <2>1. ASSUME NEW g \in Contents, blobs'[g].is = "partial"
        PROVE  g \in torn \/ (blobs'[g].by \in Processes /\ job'[blobs'[g].by].at = "writing" /\ job'[blobs'[g].by].hash = g)
    BY <1>0, <1>1, <1>2, <1>3, <2>1 DEF OwnerInv, At
  <2> QED
    BY <1>1, <2>1 DEF OwnerInv, At
<1> QED
  BY <1>5, <1>6, <1>7, <1>8, <1>9 DEF BlobInv

LEMMA CloseKeeps ==
    ASSUME BlobInv, NEW p \in Processes, CloseBlob(p)
    PROVE  BlobInv'
<1> DEFINE h == job[p].hash
<1>0. BlobTypes /\ StageInv /\ SizeInv /\ HolderInv /\ OwnerInv
  BY DEF BlobInv
<1>1. /\ At(p, "writing") /\ h \in Contents /\ p \in Processes
      /\ UNCHANGED <<spill, swept, toolResults, attached, crossed>>
  BY <1>0 DEF CloseBlob, StageInv, At
<1>b. PICK is \in {"absent", "partial", "whole"} :
         /\ is \in IF blobs[h].by = p THEN {"whole"} ELSE IF Exists(h) THEN {blobs[h].is, "whole"} ELSE {"absent"}
         /\ blobs' = [blobs EXCEPT ![h] = [is |-> is, by |-> IF is = "partial" THEN @.by ELSE Nobody]]
         /\ torn' = IF is = "whole" THEN torn \ {h} ELSE torn
  <2>1. blobs[h].is \in {"absent", "partial", "whole"}
    BY <1>0, <1>1 DEF BlobTypes
  <2> QED
    BY <2>1 DEF CloseBlob
<1>2. /\ job' \in [Processes -> Job] /\ \A q \in Processes : q # p => job'[q] = job[q]
      /\ job'[p].at = "row" /\ job'[p].hash = h
      /\ job'[p].size = job[p].size /\ job'[p].file = job[p].file
  BY <1>0, JobMoves DEF CloseBlob, JobStages
<1>p. Web \in Processes /\ \A q \in Archivers : q \in Processes
  BY DEF Processes
<1> HIDE DEF h
<1>3. /\ blobs' \in [Contents -> [is : {"absent", "partial", "whole"}, by : Processes \cup {Nobody}]]
      /\ blobs'[h].is = is /\ (is = "partial" => blobs'[h].by = blobs[h].by)
      /\ \A g \in Contents : g # h => blobs'[g] = blobs[g]
  BY <1>0, <1>1, <1>b DEF BlobTypes
<1>4. \A g \in Contents : blobs[g].is # "absent" => blobs'[g].is # "absent"
  BY <1>1, <1>3, <1>b DEF Exists
<1>5. BlobTypes'
  BY <1>0, <1>1, <1>2, <1>3, <1>b DEF BlobTypes
<1>6. StageInv'
  BY <1>0, <1>1, <1>2, <1>p DEF StageInv, At, h
<1>7. SizeInv'
  <2>1. ASSUME NEW q \in Archivers
        PROVE  /\ job'[q].at = "read" => job'[q].file \in swept \/ job'[q].size <= spill[job'[q].file]
               /\ job'[q].at \in {"open", "writing", "row"} =>
                    job'[q].size <= job'[q].hash /\ (job'[q].file \in swept \/ job'[q].hash <= spill[job'[q].file])
    BY <1>0, <1>1, <1>2, <1>p DEF SizeInv, At, h
  <2> QED
    BY <1>0, <1>1, <2>1 DEF SizeInv, At
<1>8. HolderInv'
  <2>1. HoldersKeepBlobs'
    <3>1. \A g \in Contents : attached[g] > 0 => blobs'[g].is # "absent"
      BY <1>0, <1>4 DEF HolderInv, HoldersKeepBlobs, Exists
    <3>2. ASSUME NEW f \in Spills
          PROVE  toolResults[f].hash = 0 \/ blobs'[toolResults[f].hash].is # "absent" \/ toolResults[f].hash \in crossed
      <4>1. toolResults[f].hash = 0 \/ toolResults[f].hash \in Contents
        BY <1>0, WhoIsWho DEF BlobTypes, Contents
      <4> QED
        BY <1>0, <1>4, <4>1 DEF HolderInv, HoldersKeepBlobs, Exists
    <3> QED
      BY <1>1, <3>1, <3>2 DEF HoldersKeepBlobs, Exists
  <2>2. \A q \in Processes : job'[q].at \in {"writing", "row"} =>
           /\ job'[q].hash \in Contents /\ job'[q].hash = job[q].hash
           /\ job[q].at \in {"writing", "row"}
    BY <1>0, <1>1, <1>2 DEF StageInv, At, h
  <2>3. job'[Web].at \in {"writing", "row"} => blobs'[job'[Web].hash].is # "absent"
    BY <1>0, <1>4, <1>p, <2>2 DEF HolderInv, Exists
  <2>4. \A q \in Archivers : job'[q].at \in {"writing", "row"} =>
            blobs'[job'[q].hash].is # "absent" \/ job'[q].hash \in crossed
    BY <1>0, <1>4, <1>p, <2>2 DEF HolderInv, Exists
  <2>5. job'[Web].at = "unlink" => job'[Web] = job[Web]
    BY <1>2, <1>p
  <2> QED
    BY <1>0, <1>1, <2>1, <2>3, <2>4, <2>5 DEF HolderInv, Exists, At
<1>9. OwnerInv'
  <2>1. ASSUME NEW g \in Contents, blobs'[g].is = "partial"
        PROVE  g \in torn' \/ (blobs'[g].by \in Processes /\ job'[blobs'[g].by].at = "writing" /\ job'[blobs'[g].by].hash = g)
    <3>1. blobs[g].is = "partial" /\ blobs'[g].by = blobs[g].by /\ (g = h => blobs[g].by # p)
      BY <1>1, <1>3, <1>b, <2>1 DEF Exists
    <3>2. g \in torn => g \in torn'
      BY <1>b, <1>3, <2>1
    <3>3. \A q \in Processes : q = p => job[q].hash = h
      BY DEF h
    <3> QED
      BY <1>0, <1>2, <3>1, <3>2, <3>3 DEF OwnerInv, At
  <2> QED
    BY <2>1 DEF OwnerInv, At
<1> QED
  BY <1>5, <1>6, <1>7, <1>8, <1>9 DEF BlobInv

LEMMA AttachKeeps ==
    ASSUME BlobInv, Attach
    PROVE  BlobInv'
<1>0. BlobTypes /\ StageInv /\ SizeInv /\ HolderInv /\ OwnerInv
  BY DEF BlobInv
<1>1. /\ At(Web, "row") /\ Web \in Processes /\ Web \notin Archivers /\ job[Web].hash \in Contents
      /\ UNCHANGED <<spill, swept, blobs, toolResults, crossed, torn>>
      /\ attached' = [attached EXCEPT ![job[Web].hash] = @ + 1] /\ Exists(job[Web].hash)
  BY <1>0, WhoIsWho DEF Attach, StageInv, HolderInv, At
<1>2. /\ job' \in [Processes -> Job] /\ job'[Web].at = "rest" /\ \A q \in Archivers : job'[q] = job[q]
      /\ \A q \in Processes : q # Web => job'[q] = job[q]
  BY <1>0, <1>1, JobEnds DEF Attach, Processes
<1>3. attached' \in [Contents -> Nat]
      /\ \A g \in Contents : attached'[g] > 0 => g = job[Web].hash \/ attached[g] > 0
  BY <1>0, <1>1 DEF BlobTypes
<1>4. BlobTypes'
  BY <1>0, <1>1, <1>2, <1>3 DEF BlobTypes
<1>5. StageInv' /\ SizeInv'
  BY <1>0, <1>1, <1>2 DEF StageInv, SizeInv, At
<1>6. HolderInv'
  BY <1>0, <1>1, <1>2, <1>3 DEF HolderInv, HoldersKeepBlobs, Exists, At
<1>7. OwnerInv'
  BY <1>0, <1>1, <1>2 DEF OwnerInv, At
<1> QED
  BY <1>4, <1>5, <1>6, <1>7 DEF BlobInv

LEMMA DetachKeeps ==
    ASSUME BlobInv, NEW h \in Contents, Detach(h)
    PROVE  BlobInv'
<1>0. BlobTypes /\ StageInv /\ SizeInv /\ HolderInv /\ OwnerInv
  BY DEF BlobInv
<1>1. /\ At(Web, "rest") /\ Web \in Processes /\ Web \notin Archivers /\ attached[h] > 0
      /\ UNCHANGED <<spill, swept, blobs, toolResults, crossed, torn>>
      /\ attached' = [attached EXCEPT ![h] = @ - 1]
  BY WhoIsWho DEF Detach
<1>2. /\ job' \in [Processes -> Job] /\ job'[Web].at = "count" /\ job'[Web].hash = h
      /\ \A q \in Archivers : job'[q] = job[q]
      /\ \A q \in Processes : q # Web => job'[q] = job[q]
  <2>1. AtRest \in Job /\ "count" \in JobStages /\ h \in 0..MaxSize
    BY WhoIsWho DEF AtRest, Job, JobStages
  <2>2. PICK j \in Job : j = [AtRest EXCEPT !.at = "count", !.hash = h]
    BY <2>1 DEF Job
  <2>3. j.at = "count" /\ j.hash = h
    BY <2>1, <2>2 DEF Job
  <2>4. job' = [job EXCEPT ![Web] = j]
    BY <2>2 DEF Detach
  <2> QED
    BY <1>0, <1>1, <2>3, <2>4 DEF BlobTypes, Processes
<1>3. attached' \in [Contents -> Nat]
      /\ \A g \in Contents : attached'[g] > 0 => attached[g] > 0
  BY <1>0, <1>1 DEF BlobTypes
<1>4. BlobTypes'
  BY <1>0, <1>1, <1>2, <1>3 DEF BlobTypes
<1>5. StageInv' /\ SizeInv'
  BY <1>0, <1>1, <1>2 DEF StageInv, SizeInv, At
<1>6. HolderInv'
  BY <1>0, <1>1, <1>2, <1>3 DEF HolderInv, HoldersKeepBlobs, Exists, At
<1>7. OwnerInv'
  BY <1>0, <1>1, <1>2 DEF OwnerInv, At
<1> QED
  BY <1>4, <1>5, <1>6, <1>7 DEF BlobInv

LEMMA RecordKeeps ==
    ASSUME BlobInv, NEW p \in Archivers, RecordSpill(p)
    PROVE  BlobInv'
<1> DEFINE f == job[p].file
           h == job[p].hash
<1>0. BlobTypes /\ StageInv /\ SizeInv /\ HolderInv /\ OwnerInv
  BY DEF BlobInv
<1>1. /\ At(p, "row") /\ p \in Processes /\ p # Web /\ Web \in Processes /\ h \in Contents /\ f \in Spills
      /\ UNCHANGED <<spill, swept, blobs, attached, torn>>
      /\ toolResults' = [toolResults EXCEPT ![f] = [size |-> job[p].size, hash |-> h]]
      /\ crossed' = IF At(Web, "unlink") /\ job[Web].hash = h THEN crossed \cup {h} ELSE crossed
      /\ \A q \in Archivers : q \in Processes
  BY <1>0, WhoIsWho DEF RecordSpill, StageInv, At, Processes
<1>2. /\ job' \in [Processes -> Job] /\ job'[p].at = "rest"
      /\ \A q \in Processes : q # p => job'[q] = job[q]
  BY <1>0, <1>1, JobEnds DEF RecordSpill
<1>3. /\ job[p].size \in 0..MaxBytes /\ h \in 0..MaxSize /\ job[p].size <= h
      /\ f \in swept \/ h <= spill[f]
      /\ blobs[h].is # "absent" \/ h \in crossed
  BY <1>0, <1>1 DEF BlobTypes, Job, SizeInv, HolderInv, Exists, At
<1> HIDE DEF f, h
<1>4. /\ toolResults' \in [Spills -> [size : 0..MaxBytes, hash : 0..MaxSize]]
      /\ toolResults'[f].size = job[p].size /\ toolResults'[f].hash = h
      /\ \A g \in Spills : g # f => toolResults'[g] = toolResults[g]
  BY <1>0, <1>1, <1>3 DEF BlobTypes
<1>5. crossed \subseteq crossed' /\ crossed' \subseteq Contents
  BY <1>0, <1>1 DEF BlobTypes
<1>6. BlobTypes'
  BY <1>0, <1>1, <1>2, <1>4, <1>5 DEF BlobTypes
<1>7. StageInv'
  BY <1>0, <1>1, <1>2 DEF StageInv, At
<1>8. SizeInv'
  <2>1. \A g \in Spills : /\ toolResults'[g].size <= toolResults'[g].hash
                          /\ g \in swept \/ toolResults'[g].hash <= spill[g]
    BY <1>0, <1>3, <1>4 DEF SizeInv
  <2>2. ASSUME NEW q \in Archivers
        PROVE  /\ job'[q].at = "read" => job'[q].file \in swept \/ job'[q].size <= spill[job'[q].file]
               /\ job'[q].at \in {"open", "writing", "row"} =>
                    job'[q].size <= job'[q].hash /\ (job'[q].file \in swept \/ job'[q].hash <= spill[job'[q].file])
    BY <1>0, <1>1, <1>2 DEF SizeInv, At
  <2> QED
    BY <1>0, <1>1, <2>1, <2>2 DEF SizeInv, At
<1>9. HolderInv'
  <2>1. \A g \in Spills : LET k == toolResults'[g].hash IN k = 0 \/ blobs[k].is # "absent" \/ k \in crossed'
    BY <1>0, <1>3, <1>4, <1>5 DEF HolderInv, HoldersKeepBlobs, Exists
  <2>2. HoldersKeepBlobs'
    BY <1>0, <1>1, <2>1 DEF HolderInv, HoldersKeepBlobs, Exists
  <2>3. job'[Web] = job[Web]
    BY <1>1, <1>2
  <2>4. \A q \in Archivers : job'[q].at \in {"writing", "row"} =>
            blobs[job'[q].hash].is # "absent" \/ job'[q].hash \in crossed'
    BY <1>0, <1>1, <1>2, <1>5 DEF HolderInv, Exists
  <2>5. job[Web].at = "unlink" =>
            \A g \in Spills : toolResults'[g].hash = job[Web].hash => job[Web].hash \in crossed'
    BY <1>0, <1>1, <1>4, <1>5 DEF HolderInv, At
  <2> QED
    BY <1>0, <1>1, <2>2, <2>3, <2>4, <2>5 DEF HolderInv, Exists, At
<1>10. OwnerInv'
  BY <1>0, <1>1, <1>2 DEF OwnerInv, At
<1> QED
  BY <1>6, <1>7, <1>8, <1>9, <1>10 DEF BlobInv

LEMMA UnlinkKeeps ==
    ASSUME BlobInv, Unlink
    PROVE  BlobInv'
<1> DEFINE h == job[Web].hash
<1>0. BlobTypes /\ StageInv /\ SizeInv /\ HolderInv /\ OwnerInv
  BY DEF BlobInv
<1>1. /\ At(Web, "unlink") /\ Web \in Processes /\ Web \notin Archivers /\ h \in Contents
      /\ UNCHANGED <<spill, swept, toolResults, attached>>
      /\ blobs' = [blobs EXCEPT ![h] = NoBlob] /\ torn' = torn \ {h}
      /\ crossed' = IF \E p \in Archivers : job[p].hash = h /\ job[p].at \in {"row", "writing"}
                    THEN crossed \cup {h} ELSE crossed
      /\ \A q \in Archivers : q \in Processes
  BY <1>0, WhoIsWho DEF Unlink, StageInv, At, Processes
<1>2. /\ job' \in [Processes -> Job] /\ job'[Web].at = "rest"
      /\ \A q \in Processes : q # Web => job'[q] = job[q]
  BY <1>0, <1>1, JobEnds DEF Unlink
<1>a. \A q \in Archivers : job'[q] = job[q]
  BY <1>1, <1>2
<1>3. attached[h] = 0 /\ \A f \in Spills : toolResults[f].hash = h => h \in crossed
  BY <1>0, <1>1 DEF HolderInv
<1> HIDE DEF h
<1>4. /\ blobs' \in [Contents -> [is : {"absent", "partial", "whole"}, by : Processes \cup {Nobody}]]
      /\ blobs'[h].is = "absent"
      /\ \A g \in Contents : g # h => blobs'[g] = blobs[g]
  <2>1. NoBlob \in [is : {"absent", "partial", "whole"}, by : Processes \cup {Nobody}] /\ NoBlob.is = "absent"
    BY DEF NoBlob
  <2> QED
    BY <1>0, <1>1, <2>1 DEF BlobTypes
<1>5. crossed \subseteq crossed' /\ crossed' \subseteq Contents /\ torn' \subseteq Contents
  BY <1>0, <1>1 DEF BlobTypes
<1>6. BlobTypes'
  BY <1>0, <1>1, <1>2, <1>4, <1>5 DEF BlobTypes
<1>7. StageInv' /\ SizeInv'
  BY <1>0, <1>1, <1>2, <1>a DEF StageInv, SizeInv, At
<1>9. HolderInv'
  <2>1. \A g \in Contents : attached[g] > 0 => blobs'[g].is # "absent"
    BY <1>0, <1>3, <1>4 DEF HolderInv, HoldersKeepBlobs, Exists, BlobTypes
  <2>2. ASSUME NEW f \in Spills
        PROVE  toolResults[f].hash = 0 \/ blobs'[toolResults[f].hash].is # "absent" \/ toolResults[f].hash \in crossed'
    <3>1. toolResults[f].hash = 0 \/ toolResults[f].hash \in Contents
      BY <1>0, WhoIsWho DEF BlobTypes, Contents
    <3> QED
      BY <1>0, <1>3, <1>4, <1>5, <3>1 DEF HolderInv, HoldersKeepBlobs, Exists
  <2>3. HoldersKeepBlobs'
    BY <1>1, <2>1, <2>2 DEF HoldersKeepBlobs, Exists
  <2>4. ASSUME NEW q \in Archivers, job[q].at \in {"writing", "row"}
        PROVE  blobs'[job[q].hash].is # "absent" \/ job[q].hash \in crossed'
    <3>1. job[q].hash \in Contents
      BY <1>0, <1>1, <2>4 DEF StageInv, At
    <3>2. CASE job[q].hash = h
      BY <1>1, <2>4, <3>2
    <3>3. CASE job[q].hash # h
      BY <1>0, <1>4, <1>5, <2>4, <3>1, <3>3 DEF HolderInv, Exists
    <3> QED
      BY <3>2, <3>3
  <2> QED
    BY <1>a, <1>2, <2>3, <2>4 DEF HolderInv, Exists, At
<1>10. OwnerInv'
  <2>1. ASSUME NEW g \in Contents, blobs'[g].is = "partial"
        PROVE  g \in torn' \/ (blobs'[g].by \in Processes /\ job'[blobs'[g].by].at = "writing" /\ job'[blobs'[g].by].hash = g)
    BY <1>0, <1>1, <1>2, <1>4, <2>1 DEF OwnerInv, At
  <2> QED
    BY <2>1 DEF OwnerInv, At
<1> QED
  BY <1>6, <1>7, <1>9, <1>10 DEF BlobInv

-------------------------------------------------------------------------------
(* The inductive invariant: beside the three promises of PayloadsKept, who   *)
(* may be at which step with what in hand.                                   *)
THEOREM BlobInductive == BlobSpec => []BlobInv
<1>1. BlobInit => BlobInv
  BY BlobStart
<1>2. BlobInv /\ [BlobNext]_blobVars => BlobInv'
  <2> SUFFICES ASSUME BlobInv, [BlobNext]_blobVars PROVE BlobInv'
    OBVIOUS
  <2>1. ASSUME NEW f \in Spills, Grow(f) \/ SweepSpill(f) PROVE BlobInv'
    BY <2>1, HarnessKeeps
  <2>2. ASSUME NEW p \in Archivers, NEW f \in Spills, StatSpill(p, f) PROVE BlobInv'
    BY <2>2, StatKeeps
  <2>3. ASSUME NEW p \in Archivers, ReadSpill(p) \/ RecordSpill(p) PROVE BlobInv'
    BY <2>3, ReadSpillKeeps, RecordKeeps
  <2>4. ASSUME NEW p \in Processes, OpenBlob(p) \/ CloseBlob(p) \/ Crash(p) PROVE BlobInv'
    BY <2>4, OpenKeeps, CloseKeeps, CrashKeeps
  <2>5. ASSUME NEW h \in Contents, Upload(h) \/ Detach(h) PROVE BlobInv'
    BY <2>5, UploadKeeps, DetachKeeps
  <2>6. CASE Attach \/ CountHolders \/ Unlink
    BY <2>6, AttachKeeps, CountKeeps, UnlinkKeeps
  <2>7. CASE UNCHANGED blobVars
    <3>1. BlobTypes'
      BY <2>7 DEF BlobInv, BlobTypes, blobVars
    <3>2. StageInv' /\ SizeInv'
      BY <2>7 DEF BlobInv, StageInv, SizeInv, At, blobVars
    <3>3. HolderInv' /\ OwnerInv'
      BY <2>7 DEF BlobInv, HolderInv, HoldersKeepBlobs, OwnerInv, At, Exists, blobVars
    <3> QED
      BY <3>1, <3>2, <3>3 DEF BlobInv
  <2> QED
    BY <2>1, <2>2, <2>3, <2>4, <2>5, <2>6, <2>7 DEF BlobNext
<1> QED
  BY <1>1, <1>2, PTL DEF BlobSpec

(* The archive holds what its rows say: no file goes while a row of either   *)
(* table holds it (but where the web server crossed a pass), a row whose size *)
(* is its spill's names the spill's content, and a file that is not whole is  *)
(* being written or its writer died at it.                                   *)
THEOREM PayloadsSafe == BlobSpec => []PayloadsKept
<1>1. BlobInv => PayloadsKept
  <2> SUFFICES ASSUME BlobInv PROVE PayloadsKept
    OBVIOUS
  <2>0. BlobTypes /\ SizeInv /\ HolderInv /\ OwnerInv
    BY DEF BlobInv
  <2>1. HoldersKeepBlobs
    BY <2>0 DEF HolderInv
  <2>2. SizeVouchesForContent
    <3>1. ASSUME NEW f \in Spills, spill[f] # 0, toolResults[f].size = spill[f] PROVE toolResults[f].hash = spill[f]
      <4>1. /\ f \notin swept /\ toolResults[f].size <= toolResults[f].hash /\ toolResults[f].hash <= spill[f]
            /\ toolResults[f].hash \in Nat /\ spill[f] \in Nat
        BY <2>0, <3>1, WhoIsWho DEF SizeInv, BlobTypes
      <4> QED
        BY <3>1, <4>1
    <3> QED
      BY <3>1 DEF SizeVouchesForContent
  <2>3. TornOnlyByDeath
    BY <2>0 DEF OwnerInv, TornOnlyByDeath, Writing
  <2> QED
    BY <2>1, <2>2, <2>3 DEF PayloadsKept
<1> QED
  BY <1>1, BlobInductive, PTL

-------------------------------------------------------------------------------
(***************************************************************************)
(* Alerts.  A pass reads its thresholds and the latest alert before it     *)
(* raises one, and others may come between: what it had seen of a rule stays*)
(* outside the window, because the clock only runs on.                     *)
(***************************************************************************)
Check == [rules : SUBSET Rules, began : Nat, read : [Rules -> Levels] \cup {<<>>}, breach : SUBSET Rules, seen : Nat]

AlertTypes ==
    /\ AlertTypeOK
    /\ check \in [Checkers -> Check]

(* A pass in the middle of its rules has read the thresholds, and ids are    *)
(* given in order.                                                           *)
PassInv ==
    /\ \A c \in Checkers : check[c].rules # {} \/ check[c].breach # {} => check[c].read \in [Rules -> Levels]
    /\ \A a \in alerts : a.id <= inserted
    /\ \A c \in Checkers : check[c].seen <= inserted

(* What a pass that is about to raise an alert had seen of the rule lies     *)
(* before the window, and stays there.                                       *)
LookInv ==
    \A c \in Checkers : \A r \in check[c].breach : \A a \in alerts :
        a.rule = r /\ a.id <= check[c].seen => a.at < minute - Window[r]

AlertInv == AlertTypes /\ PassInv /\ LookInv /\ NoSpam /\ OpenAgainstCurrent

-------------------------------------------------------------------------------
LEMMA AlertFacts ==
    /\ \A r \in Rules : Window[r] \in Nat
    /\ Levels \subseteq Nat /\ Amounts \subseteq Nat /\ MaxMinute \in Nat
BY AlertConstantsOK

(* One pass moves at a time. *)
LEMMA PassMoves ==
    ASSUME AlertInv, NEW c \in Checkers, NEW k \in Check, check' = [check EXCEPT ![c] = Rest(k)],
           k.rules # {} \/ k.breach # {} => k.read \in [Rules -> Levels],
           UNCHANGED <<minute, usage, threshold, enabled, moving, requests>>,
           alerts' \subseteq Alert, inserted' \in Nat, inserted <= inserted', k.seen <= inserted', \A a \in alerts' : a.id <= inserted',
           \A d \in Checkers \ {c} : \A r \in check[d].breach : \A a \in alerts' \ alerts : a.rule = r => a.id > check[d].seen,
           \A r \in k.breach : \A a \in alerts' : a.rule = r /\ a.id <= k.seen => a.at < minute - Window[r],
           NoSpam', OpenAgainstCurrent'
    PROVE  AlertInv'
<1>1. NoCheck \in Check
  BY DEF NoCheck, Check
<1>2. Rest(k) \in Check /\ (Rest(k) = k \/ Rest(k) = NoCheck) /\ NoCheck.breach = {} /\ NoCheck.rules = {}
  BY <1>1 DEF Rest, NoCheck
<1>3. check' \in [Checkers -> Check] /\ check'[c] = Rest(k) /\ \A d \in Checkers \ {c} : check'[d] = check[d]
  BY <1>2 DEF AlertInv, AlertTypes
<1>4. AlertTypes'
  BY <1>3 DEF AlertInv, AlertTypes, AlertTypeOK
<1>5. PassInv'
  <2>1. NoCheck.seen = 0
    BY DEF NoCheck
  <2>2. inserted \in Nat /\ \A d \in Checkers : check[d].seen \in Nat
    BY DEF AlertInv, AlertTypes, AlertTypeOK, Check
  <2> QED
    BY <1>2, <1>3, <2>1, <2>2 DEF AlertInv, PassInv
<1>6. LookInv'
  <2> SUFFICES ASSUME NEW d \in Checkers, NEW r \in check'[d].breach, NEW a \in alerts', a.rule = r, a.id <= check'[d].seen
               PROVE  a.at < minute - Window[r]
    BY DEF LookInv
  <2>1. CASE d = c
    BY <2>1, <1>2, <1>3
  <2>2. CASE d # c
    <3>1. check'[d] = check[d] /\ d \in Checkers \ {c}
      BY <2>2, <1>3
    <3>2. a.id \in Nat /\ check[d].seen \in Nat
      BY DEF AlertInv, AlertTypes, Check, Alert
    <3>3. a \in alerts
      BY <3>1, <3>2
    <3> QED
      BY <3>1, <3>3 DEF AlertInv, LookInv
  <2> QED
    BY <2>1, <2>2
<1> QED
  BY <1>4, <1>5, <1>6 DEF AlertInv

(* Requests take alerts away or acknowledge them, and leave the passes alone. *)
LEMMA RequestMoves ==
    ASSUME AlertInv, UNCHANGED <<minute, usage, check, inserted>>,
           \A a \in alerts' : \E o \in alerts : \/ a = o
                                                \/ a = [o EXCEPT !.acked = TRUE],
           threshold' \in [Rules -> Levels], enabled' \in [Rules -> BOOLEAN], moving' \subseteq Rules, requests' \in Nat,
           OpenAgainstCurrent'
    PROVE  AlertInv'
<1>1. \A a \in alerts' : a \in Alert /\ \E o \in alerts : /\ a.id = o.id /\ a.rule = o.rule /\ a.at = o.at
                                                          /\ a.blind = o.blind
  <2> SUFFICES ASSUME NEW a \in alerts', NEW o \in alerts, a = o \/ a = [o EXCEPT !.acked = TRUE]
               PROVE  a \in Alert /\ a.id = o.id /\ a.rule = o.rule /\ a.at = o.at /\ a.blind = o.blind
    OBVIOUS
  <2>1. o \in Alert
    BY DEF AlertInv, AlertTypes, AlertTypeOK
  <2> QED
    BY <2>1 DEF Alert
<1>2. AlertTypes'
  BY <1>1 DEF AlertInv, AlertTypes, AlertTypeOK
<1>3. PassInv'
  BY <1>1 DEF AlertInv, PassInv
<1>4. LookInv'
  BY <1>1 DEF AlertInv, LookInv
<1>5. NoSpam'
  <2> SUFFICES ASSUME NEW a \in alerts', NEW b \in alerts', a.rule = b.rule, a.id < b.id, b.at - a.at <= Window[b.rule]
               PROVE  b.blind
    BY DEF NoSpam
  <2>1. PICK o \in alerts : a.id = o.id /\ a.rule = o.rule /\ a.at = o.at /\ a.blind = o.blind
    BY <1>1
  <2>2. PICK p \in alerts : b.id = p.id /\ b.rule = p.rule /\ b.at = p.at /\ b.blind = p.blind
    BY <1>1
  <2> QED
    BY <2>1, <2>2 DEF AlertInv, NoSpam
<1> QED
  BY <1>2, <1>3, <1>4, <1>5 DEF AlertInv

LEMMA InsertKeeps ==
    ASSUME AlertInv, NEW c \in Checkers, NEW r \in Rules, Insert(c, r)
    PROVE  AlertInv'
<1> DEFINE k   == [check[c] EXCEPT !.breach = {}]
           new == [id |-> inserted + 1, rule |-> r, at |-> minute, against |-> check[c].read[r], acked |-> FALSE,
                   blind |-> \E a \in alerts : a.rule = r /\ a.id > check[c].seen,
                   moved |-> threshold[r] # check[c].read[r]]
<1>1. /\ inserted' = inserted + 1 /\ alerts' = alerts \cup {new}
      /\ check' = [check EXCEPT ![c] = Rest(k)]
      /\ UNCHANGED <<minute, usage, threshold, enabled, moving, requests>>
      /\ r \in check[c].breach
  BY DEF Insert
<1>2. /\ check[c] \in Check /\ check[c].read \in [Rules -> Levels] /\ check[c].seen \in Nat
      /\ inserted \in Nat /\ minute \in Nat /\ alerts \subseteq Alert
      /\ \A a \in alerts : a.id <= inserted /\ a.id \in Nat /\ a.at \in Nat /\ a.rule \in Rules
  <2>1. check[c] \in Check /\ check[c].seen \in Nat
    BY AlertFacts DEF AlertInv, AlertTypes, AlertTypeOK, Check
  <2>2. check[c].read \in [Rules -> Levels]
    BY <1>1 DEF AlertInv, PassInv
  <2>3. inserted \in Nat /\ minute \in Nat /\ alerts \subseteq Alert /\ \A a \in alerts : a.id <= inserted
    BY AlertFacts DEF AlertInv, AlertTypes, AlertTypeOK, PassInv
  <2>4. \A a \in alerts : a.id \in Nat /\ a.at \in Nat /\ a.rule \in Rules
    BY <2>3 DEF Alert
  <2> QED
    BY <2>1, <2>2, <2>3, <2>4
<1>3. k \in Check /\ k.breach = {} /\ k.read = check[c].read /\ k.seen = check[c].seen
  <2>1. \A x \in Check : [x EXCEPT !.breach = {}] \in Check
    BY SMTT(30) DEF Check
  <2>2. k \in Check
    BY <1>2, <2>1
  <2>3. \A x \in Check : LET y == [x EXCEPT !.breach = {}] IN y.breach = {} /\ y.read = x.read /\ y.seen = x.seen
    BY SMTT(30) DEF Check
  <2>4. k.breach = {} /\ k.read = check[c].read /\ k.seen = check[c].seen
    BY <1>2, <2>3
  <2> QED
    BY <2>2, <2>4
<1>4. new \in Alert /\ new.id = inserted + 1 /\ new.rule = r /\ new.at = minute
  BY <1>2 DEF Alert
<1>5. inserted' \in Nat /\ \A a \in alerts' : a.id <= inserted'
  BY <1>1, <1>2, <1>4
<1>6. \A d \in Checkers : \A a \in alerts' \ alerts : a.id > check[d].seen
  <2> SUFFICES ASSUME NEW d \in Checkers PROVE inserted + 1 > check[d].seen
    BY <1>1, <1>4
  <2>1. check[d].seen <= inserted /\ check[d].seen \in Nat
    BY DEF AlertInv, AlertTypes, PassInv, Check
  <2> QED
    BY <1>2, <2>1
<1>7. NoSpam'
  <2> SUFFICES ASSUME NEW a \in alerts', NEW b \in alerts', a.rule = b.rule, a.id < b.id, b.at - a.at <= Window[b.rule]
               PROVE  b.blind
    BY DEF NoSpam
  <2>1. a \in alerts
    BY <1>1, <1>2, <1>4, <1>5
  <2>2. CASE b \in alerts
    BY <2>1, <2>2 DEF AlertInv, NoSpam
  <2>3. CASE b = new
    <3>1. ~(a.at < minute - Window[r])
      BY <1>2, <1>4, <2>1, <2>3, AlertFacts
    <3>2. ~(a.id <= check[c].seen)
      BY <1>1, <1>4, <2>1, <2>3, <3>1 DEF AlertInv, LookInv
    <3>3. a.rule = r /\ a.id > check[c].seen
      BY <1>2, <1>4, <2>1, <2>3, <3>2
    <3> QED
      BY <2>1, <2>3, <3>3
  <2> QED
    BY <1>1, <2>2, <2>3
<1>8. OpenAgainstCurrent'
  <2>1. new.moved = (threshold[r] # new.against)
    OBVIOUS
  <2> QED
    BY <1>1, <1>4, <2>1 DEF AlertInv, OpenAgainstCurrent
<1> HIDE DEF k, new
<1>9. /\ k.rules # {} \/ k.breach # {} => k.read \in [Rules -> Levels]
      /\ alerts' \subseteq Alert /\ inserted' \in Nat /\ inserted <= inserted' /\ k.seen <= inserted'
      /\ \A a \in alerts' : a.id <= inserted'
      /\ \A d \in Checkers \ {c} : \A o \in check[d].breach : \A a \in alerts' \ alerts : a.rule = o => a.id > check[d].seen
      /\ \A o \in k.breach : \A a \in alerts' : a.rule = o /\ a.id <= k.seen => a.at < minute - Window[o]
  BY <1>1, <1>2, <1>3, <1>4, <1>5, <1>6 DEF AlertInv, PassInv
<1> QED
  BY <1>1, <1>3, <1>7, <1>8, <1>9, PassMoves

LEMMA WeighKeeps ==
    ASSUME AlertInv, NEW c \in Checkers, NEW r \in Rules, Weigh(c, r)
    PROVE  AlertInv'
<1> DEFINE over == {o \in {r} : Spent(check[c].began - Window[o]) > check[c].read[o] /\ ~Recent(o)}
           k    == [check[c] EXCEPT !.rules = check[c].rules \ {r}, !.seen = inserted, !.breach = over]
<1>1. /\ check' = [check EXCEPT ![c] = Rest(k)] /\ r \in check[c].rules
      /\ UNCHANGED <<minute, usage, threshold, enabled, alerts, inserted, moving, requests>>
  BY DEF Weigh
<1>2. /\ check[c] \in Check /\ check[c].read \in [Rules -> Levels] /\ inserted \in Nat /\ minute \in Nat
      /\ alerts \subseteq Alert
  BY <1>1, AlertFacts DEF AlertInv, AlertTypes, AlertTypeOK, PassInv
<1>3. over \subseteq {r} /\ \A o \in over : ~Recent(r)
  OBVIOUS
<1> HIDE DEF over
<1>4. k \in Check /\ k.breach = over /\ k.seen = inserted /\ k.read = check[c].read
  BY <1>2, <1>3 DEF Check
<1>5. \A o \in k.breach : \A a \in alerts : a.rule = o => a.at < minute - Window[o]
  <2> SUFFICES ASSUME NEW o \in over, NEW a \in alerts, a.rule = o PROVE a.at < minute - Window[o]
    BY <1>4
  <2>1. o = r /\ ~Recent(r)
    BY <1>3
  <2>2. a.at \in Nat /\ Window[r] \in Nat
    BY <1>2, AlertFacts DEF Alert
  <2> QED
    BY <1>2, <2>1, <2>2 DEF Recent
<1>6. NoSpam' /\ OpenAgainstCurrent'
  BY <1>1 DEF AlertInv, NoSpam, OpenAgainstCurrent
<1> HIDE DEF k
<1>7. /\ k.rules # {} \/ k.breach # {} => k.read \in [Rules -> Levels]
      /\ alerts' \subseteq Alert /\ inserted' \in Nat /\ inserted <= inserted' /\ k.seen <= inserted'
      /\ \A a \in alerts' : a.id <= inserted'
      /\ \A d \in Checkers \ {c} : \A o \in check[d].breach : \A a \in alerts' \ alerts : a.rule = o => a.id > check[d].seen
      /\ \A o \in k.breach : \A a \in alerts' : a.rule = o /\ a.id <= k.seen => a.at < minute - Window[o]
  BY <1>1, <1>2, <1>4, <1>5 DEF AlertInv, PassInv
<1> QED
  BY <1>1, <1>4, <1>6, <1>7, PassMoves

LEMMA BeginKeeps ==
    ASSUME AlertInv, NEW c \in Checkers, BeginCheck(c)
    PROVE  AlertInv'
<1> DEFINE k == [NoCheck EXCEPT !.rules = {r \in Rules : enabled[r]}, !.began = minute, !.read = threshold]
<1>1. /\ check' = [check EXCEPT ![c] = Rest(k)]
      /\ UNCHANGED <<minute, usage, threshold, enabled, alerts, inserted, moving, requests>>
  BY DEF BeginCheck
<1>2. /\ inserted \in Nat /\ minute \in Nat /\ threshold \in [Rules -> Levels] /\ alerts \subseteq Alert
  BY AlertFacts DEF AlertInv, AlertTypes, AlertTypeOK
<1>3. k \in Check /\ k.breach = {} /\ k.seen = 0 /\ k.read = threshold
  BY <1>2 DEF Check, NoCheck
<1>4. NoSpam' /\ OpenAgainstCurrent'
  BY <1>1 DEF AlertInv, NoSpam, OpenAgainstCurrent
<1> HIDE DEF k
<1>5. /\ k.rules # {} \/ k.breach # {} => k.read \in [Rules -> Levels]
      /\ alerts' \subseteq Alert /\ inserted' \in Nat /\ inserted <= inserted' /\ k.seen <= inserted'
      /\ \A a \in alerts' : a.id <= inserted'
      /\ \A d \in Checkers \ {c} : \A o \in check[d].breach : \A a \in alerts' \ alerts : a.rule = o => a.id > check[d].seen
      /\ \A o \in k.breach : \A a \in alerts' : a.rule = o /\ a.id <= k.seen => a.at < minute - Window[o]
  BY <1>1, <1>2, <1>3 DEF AlertInv, PassInv
<1> QED
  BY <1>1, <1>3, <1>4, <1>5, PassMoves

LEMMA TimeKeeps ==
    ASSUME AlertInv, (\E n \in Amounts : Spend(n)) \/ AlertTick
    PROVE  AlertInv'
<1>1. /\ UNCHANGED <<threshold, enabled, alerts, inserted, check, moving, requests>>
      /\ minute' \in 0..MaxMinute /\ minute <= minute' /\ usage' \in [0..MaxMinute -> Nat]
  <2>1. AlertTypeOK
    BY DEF AlertInv, AlertTypes
  <2>2. ASSUME NEW n \in Amounts, Spend(n) PROVE <1>1!:
    BY <2>1, <2>2, AlertFacts DEF AlertTypeOK, Spend
  <2>3. CASE AlertTick
    BY <2>1, <2>3, AlertFacts DEF AlertTypeOK, AlertTick
  <2> QED
    BY <2>2, <2>3
<1>2. AlertTypes' /\ PassInv'
  BY <1>1 DEF AlertInv, AlertTypes, AlertTypeOK, PassInv
<1>3. LookInv'
  <2> SUFFICES ASSUME NEW c \in Checkers, NEW r \in check[c].breach, NEW a \in alerts, a.at < minute - Window[r]
               PROVE  a.at < minute' - Window[r]
    BY <1>1 DEF AlertInv, LookInv
  <2>1. a.at \in Nat /\ r \in Rules /\ minute \in Nat /\ minute' \in Nat
    BY <1>1, AlertFacts DEF AlertInv, AlertTypes, AlertTypeOK, Alert, Check
  <2> QED
    BY <1>1, <2>1, AlertFacts
<1>4. NoSpam' /\ OpenAgainstCurrent'
  BY <1>1 DEF AlertInv, NoSpam, OpenAgainstCurrent
<1> QED
  BY <1>2, <1>3, <1>4 DEF AlertInv

(* What acknowledging leaves open was open, and not meant. *)
LEMMA AckedFacts ==
    ASSUME alerts \subseteq Alert, NEW S
    PROVE  \A a \in Acked(S) : \E o \in alerts : \/ a = o /\ o \notin S
                                                 \/ a = [o EXCEPT !.acked = TRUE] /\ a.acked
BY DEF Acked, Alert

LEMMA AcknowledgeKeeps ==
    ASSUME AlertInv, NEW S, Acknowledge(S)
    PROVE  AlertInv'
<1>1. /\ alerts' = Acked(S) /\ alerts \subseteq Alert
      /\ UNCHANGED <<minute, usage, threshold, enabled, inserted, check, moving, requests>>
  BY DEF Acknowledge, AlertInv, AlertTypes, AlertTypeOK
<1>2. OpenAgainstCurrent'
  BY <1>1, AckedFacts DEF AlertInv, OpenAgainstCurrent
<1> QED
  BY <1>1, <1>2, AckedFacts, RequestMoves DEF AlertInv, AlertTypes, AlertTypeOK

LEMMA ClearKeeps ==
    ASSUME AlertInv, NEW all \in BOOLEAN, Clear(all)
    PROVE  AlertInv'
<1>1. /\ alerts' \subseteq alerts /\ requests' \in Nat
      /\ UNCHANGED <<minute, usage, threshold, enabled, inserted, check, moving>>
  BY DEF Clear, Request, AlertInv, AlertTypes, AlertTypeOK
<1>2. OpenAgainstCurrent'
  BY <1>1 DEF AlertInv, OpenAgainstCurrent
<1> QED
  BY <1>1, <1>2, RequestMoves DEF AlertInv, AlertTypes, AlertTypeOK

LEMMA UpdateKeeps ==
    ASSUME AlertInv, NEW r \in Rules, NEW value \in Levels, NEW on \in BOOLEAN, UpdateThreshold(r, value, on)
    PROVE  AlertInv'
<1>0. AlertTypeOK
  BY DEF AlertInv, AlertTypes
<1>1. /\ threshold' = [threshold EXCEPT ![r] = value] /\ enabled' = [enabled EXCEPT ![r] = on]
      /\ moving = {} /\ moving' = IF value # threshold[r] THEN {r} ELSE {}
      /\ UNCHANGED <<minute, usage, alerts, inserted, check>> /\ requests' \in Nat
  BY <1>0 DEF UpdateThreshold, Request, AlertTypeOK
<1>2. OpenAgainstCurrent'
  <2> SUFFICES ASSUME NEW a \in alerts, ~a.acked
               PROVE  a.against = threshold'[a.rule] \/ a.moved \/ a.rule \in moving'
    BY <1>1 DEF OpenAgainstCurrent
  <2>1. a.against = threshold[a.rule] \/ a.moved
    BY <1>1 DEF AlertInv, OpenAgainstCurrent
  <2>2. a.rule \in Rules
    BY <1>0 DEF AlertTypeOK, Alert
  <2>3. CASE a.rule = r
    BY <1>0, <1>1, <2>1, <2>3 DEF AlertTypeOK
  <2>4. CASE a.rule # r
    BY <1>0, <1>1, <2>1, <2>2, <2>4 DEF AlertTypeOK
  <2> QED
    BY <2>3, <2>4
<1>3. threshold' \in [Rules -> Levels] /\ enabled' \in [Rules -> BOOLEAN] /\ moving' \subseteq Rules
  BY <1>0, <1>1 DEF AlertTypeOK
<1> QED
  BY <1>1, <1>2, <1>3, RequestMoves

LEMMA MovedKeeps ==
    ASSUME AlertInv, AcknowledgeMoved
    PROVE  AlertInv'
<1> DEFINE S == {a \in alerts : a.rule \in moving}
<1>0. AlertTypeOK
  BY DEF AlertInv, AlertTypes
<1>1. /\ alerts' = Acked(S) /\ moving' = {} /\ alerts \subseteq Alert
      /\ UNCHANGED <<minute, usage, threshold, enabled, inserted, check, requests>>
  BY <1>0 DEF AcknowledgeMoved, AlertTypeOK
<1>2. \A a \in alerts' : \E o \in alerts : \/ a = o /\ o \notin S
                                           \/ a = [o EXCEPT !.acked = TRUE] /\ a.acked
  BY <1>1, AckedFacts
<1>3. OpenAgainstCurrent'
  BY <1>1, <1>2 DEF AlertInv, OpenAgainstCurrent
<1> HIDE DEF S
<1> QED
  BY <1>0, <1>1, <1>2, <1>3, RequestMoves DEF AlertTypeOK

LEMMA CalibrateKeeps ==
    ASSUME AlertInv, NEW levels \in [Rules -> Levels], Calibrate(levels)
    PROVE  AlertInv'
<1>0. AlertTypeOK
  BY DEF AlertInv, AlertTypes
<1>1. /\ alerts' = Acked(Outdated(levels)) /\ threshold' = levels /\ moving = {} /\ alerts \subseteq Alert
      /\ UNCHANGED <<minute, usage, enabled, inserted, check, moving>> /\ requests' \in Nat
  BY <1>0 DEF Calibrate, Request, AlertTypeOK
<1>2. \A a \in alerts' : \E o \in alerts : \/ a = o /\ o \notin Outdated(levels)
                                           \/ a = [o EXCEPT !.acked = TRUE] /\ a.acked
  BY <1>1, AckedFacts
<1>3. OpenAgainstCurrent'
  BY <1>1, <1>2 DEF AlertInv, OpenAgainstCurrent, Outdated
<1> QED
  BY <1>0, <1>1, <1>2, <1>3, RequestMoves DEF AlertTypeOK

(* Every step of a check, of the user and of the clock keeps the invariant of *)
(* the alerts: what a check had seen of a rule is older than what it raises.  *)
THEOREM AlertInductive == AlertSpec => []AlertInv
<1>1. AlertInit => AlertInv
  <2> SUFFICES ASSUME AlertInit PROVE AlertInv
    OBVIOUS
  <2>1. NoCheck \in Check /\ NoCheck.breach = {} /\ NoCheck.rules = {} /\ NoCheck.seen = 0
    BY DEF NoCheck, Check
  <2>2. AlertTypes
    BY <2>1, AlertFacts DEF AlertInit, AlertTypes, AlertTypeOK
  <2>3. PassInv /\ LookInv
    BY <2>1 DEF AlertInit, PassInv, LookInv
  <2>4. NoSpam /\ OpenAgainstCurrent
    BY DEF AlertInit, NoSpam, OpenAgainstCurrent
  <2> QED
    BY <2>2, <2>3, <2>4 DEF AlertInv
<1>2. AlertInv /\ [AlertNext]_alertVars => AlertInv'
  <2> SUFFICES ASSUME AlertInv, [AlertNext]_alertVars PROVE AlertInv'
    OBVIOUS
  <2>1. ASSUME NEW c \in Checkers, BeginCheck(c) \/ \E r \in Rules : Weigh(c, r) \/ Insert(c, r) PROVE AlertInv'
    BY <2>1, BeginKeeps, WeighKeeps, InsertKeeps
  <2>2. CASE (\E n \in Amounts : Spend(n)) \/ AlertTick
    BY <2>2, TimeKeeps
  <2>3. ASSUME NEW S, Acknowledge(S) PROVE AlertInv'
    BY <2>3, AcknowledgeKeeps
  <2>4. ASSUME NEW all \in BOOLEAN, Clear(all) PROVE AlertInv'
    BY <2>4, ClearKeeps
  <2>5. ASSUME NEW r \in Rules, NEW value \in Levels, NEW on \in BOOLEAN, UpdateThreshold(r, value, on) PROVE AlertInv'
    BY <2>5, UpdateKeeps
  <2>6. CASE AcknowledgeMoved
    BY <2>6, MovedKeeps
  <2>7. ASSUME NEW levels \in [Rules -> Levels], Calibrate(levels) PROVE AlertInv'
    BY <2>7, CalibrateKeeps
  <2>8. CASE UNCHANGED alertVars
    <3>1. AlertTypes' /\ PassInv'
      BY <2>8 DEF AlertInv, AlertTypes, AlertTypeOK, PassInv, alertVars
    <3>2. LookInv'
      BY <2>8 DEF AlertInv, LookInv, alertVars
    <3>3. NoSpam' /\ OpenAgainstCurrent'
      BY <2>8 DEF AlertInv, NoSpam, OpenAgainstCurrent, alertVars
    <3> QED
      BY <3>1, <3>2, <3>3 DEF AlertInv
  <2> QED
    BY <2>1, <2>2, <2>3, <2>4, <2>5, <2>6, <2>7, <2>8 DEF AlertNext
<1> QED
  BY <1>1, <1>2, PTL DEF AlertSpec

(* What the alerts page shows is one alert a window, measured against the   *)
(* threshold in force.                                                      *)
THEOREM AlertsSafe == AlertSpec => []AlertsMatchRules
<1>1. AlertInv => AlertsMatchRules
  BY DEF AlertInv, AlertsMatchRules
<1> QED
  BY <1>1, AlertInductive, PTL

-------------------------------------------------------------------------------
(***************************************************************************)
(* Refusals.  Records are filed and texts are scanned by two processes; the*)
(* cursor is read before the transaction that moves it.                    *)
(***************************************************************************)
ScanState == [at : {"idle", "wiped", "begun", "batch"}, drain : BOOLEAN, from : Nat, to : Nat]
Event == [session : Sessions \cup {NoSession}, message : BOOLEAN]

(* A batch lies within the blocks there are. *)
ScanTypes ==
    /\ ScanTypeOK
    /\ \A p \in Scanners : scan[p].at = "batch" => scan[p].from <= scan[p].to /\ scan[p].to <= Len(blocks)

(* A block's session has a row.  What is filed of a record names its session, *)
(* which then has a row, or none; a record filed before ingestion came to it  *)
(* was filed from disk; and a Claude row that was ingested has been filed by  *)
(* its message.                                                               *)
FiledInv ==
    /\ \A i \in DOMAIN blocks : blocks[i].session \in known
    /\ \A r \in Records :
         /\ \A i \in DOMAIN reported[r] : LET s == reported[r][i].session IN s = NoSession \/ (s = r.session /\ s \in known)
         /\ r \notin ingested /\ reported[r] # <<>> => r \in early
         /\ r.api /\ r \in ingested => \E i \in DOMAIN reported[r] : reported[r][i].message

ScanInv == ScanTypes /\ FiledInv /\ NothingMissed /\ RecordWins /\ FiledOnce

-------------------------------------------------------------------------------
LEMMA ScanFacts ==
    /\ NoSession \notin Sessions /\ Batch \in Nat /\ Batch >= 1
    /\ Texts \subseteq [session : Sessions, minute : Nat, match : BOOLEAN]
    /\ Records \subseteq [session : Sessions, minute : Nat, api : BOOLEAN]
    /\ "web" \in Scanners /\ \A p \in Scanners : p \in {"worker", "web"}
BY ScanConstantsOK DEF Scanners

LEMMA AppendFacts ==
    ASSUME NEW S, NEW q \in Seq(S), NEW x \in S
    PROVE  /\ Append(q, x) \in Seq(S) /\ Len(q) \in Nat
           /\ DOMAIN q = 1..Len(q) /\ DOMAIN Append(q, x) = 1..(Len(q) + 1)
           /\ \A i \in DOMAIN q : i \in DOMAIN Append(q, x) /\ Append(q, x)[i] = q[i]
           /\ \A i \in DOMAIN Append(q, x) : i \in DOMAIN q \/ i = Len(q) + 1
           /\ Append(q, x)[Len(q) + 1] = x /\ Append(q, x) # <<>> /\ Len(Append(q, x)) = Len(q) + 1
           /\ q = <<>> <=> Len(q) = 0
<1>1. Append(q, x) \in Seq(S) /\ Len(q) \in Nat /\ DOMAIN q = 1..Len(q) /\ Len(Append(q, x)) = Len(q) + 1
  OBVIOUS
<1>2. \A i \in 1..(Len(q) + 1) : Append(q, x)[i] = IF i = Len(q) + 1 THEN x ELSE q[i]
  OBVIOUS
<1>3. q = <<>> <=> Len(q) = 0
  OBVIOUS
<1> QED
  BY <1>1, <1>2, <1>3

(* Records are filed: nothing that a block is covered by goes. *)
LEMMA FilingKeeps ==
    ASSUME ScanInv, NEW filed \in SUBSET Records, NEW row \in [Records -> Event],
           reported' = [r \in Records |-> IF r \in filed THEN Append(reported[r], row[r]) ELSE reported[r]],
           UNCHANGED <<blocks, scanned, cursor, scan, raced, deaths, rescans>>,
           disk' = disk, known \subseteq known', known' \subseteq Sessions,
           ingested \subseteq ingested', ingested' \subseteq disk,
           early \subseteq early', early' \subseteq Records, late \cup Preceded(filed) \subseteq late', late' \subseteq Records,
           \A r \in filed : row[r].session = SessionOf(r) \/ (row[r].session = r.session /\ r.session \in known'),
           \A r \in filed : r \in ingested' \/ r \in early',
           \A r \in ingested' \ ingested : r \in filed /\ (r.api => row[r].message),
           rereads \in Nat, rereads' \in Nat, rereads <= rereads', backfills' \in Nat,
           \A r \in filed : \/ reported[r] = <<>>
                            \/ r \in early'
                            \/ row[r].session = NoSession
                            \/ \E i \in DOMAIN reported[r] : reported[r][i].session = NoSession
                            \/ ~r.api /\ rereads' > 0
    PROVE  ScanInv'
<1>0. ScanTypeOK /\ reported \in [Records -> Seq(Event)]
  BY DEF ScanInv, ScanTypes, ScanTypeOK, Event
<1>1. \A r \in Records : /\ reported[r] \in Seq(Event) /\ row[r] \in Event
                         /\ r \notin filed => reported'[r] = reported[r]
                         /\ r \in filed => reported'[r] = Append(reported[r], row[r])
  BY <1>0
<1>2. \A r \in Records : /\ reported'[r] \in Seq(Event)
                         /\ \A i \in DOMAIN reported[r] : i \in DOMAIN reported'[r] /\ reported'[r][i] = reported[r][i]
                         /\ \A i \in DOMAIN reported'[r] \ DOMAIN reported[r] : r \in filed /\ reported'[r][i] = row[r]
                         /\ r \in filed => \E i \in DOMAIN reported'[r] : reported'[r][i] = row[r]
  <2> SUFFICES ASSUME NEW r \in Records, r \in filed
               PROVE  /\ reported'[r] \in Seq(Event)
                      /\ \A i \in DOMAIN reported[r] : i \in DOMAIN reported'[r] /\ reported'[r][i] = reported[r][i]
                      /\ \A i \in DOMAIN reported'[r] \ DOMAIN reported[r] : reported'[r][i] = row[r]
                      /\ \E i \in DOMAIN reported'[r] : reported'[r][i] = row[r]
    BY <1>1
  <2> DEFINE q == reported[r]
             x == row[r]
  <2>1. q \in Seq(Event) /\ x \in Event /\ reported'[r] = Append(q, x)
    BY <1>1
  <2> HIDE DEF q, x
  <2>2. /\ Append(q, x) \in Seq(Event)
        /\ \A i \in DOMAIN q : i \in DOMAIN Append(q, x) /\ Append(q, x)[i] = q[i]
        /\ \A i \in DOMAIN Append(q, x) \ DOMAIN q : Append(q, x)[i] = x
        /\ \E i \in DOMAIN Append(q, x) : Append(q, x)[i] = x
    BY <2>1, AppendFacts
  <2> QED
    BY <2>1, <2>2 DEF q, x
<1>3. ScanTypes'
  <2>1. reported' \in [Records -> Seq(Event)]
    BY <1>2
  <2> QED
    BY <1>0, <2>1 DEF ScanInv, ScanTypes, ScanTypeOK, Event
<1>4. FiledInv'
  <2>1. \A i \in DOMAIN blocks' : blocks'[i].session \in known'
    BY DEF ScanInv, FiledInv
  <2>2. ASSUME NEW r \in Records, NEW i \in DOMAIN reported'[r]
        PROVE  reported'[r][i].session = NoSession \/ (reported'[r][i].session = r.session /\ reported'[r][i].session \in known')
    <3>1. CASE i \in DOMAIN reported[r]
      BY <3>1, <1>2 DEF ScanInv, FiledInv
    <3>2. CASE i \notin DOMAIN reported[r]
      BY <3>2, <1>2 DEF SessionOf
    <3> QED
      BY <3>1, <3>2
  <2>3. ASSUME NEW r \in Records, r \notin ingested', reported'[r] # <<>> PROVE r \in early'
    BY <1>1, <2>3 DEF ScanInv, FiledInv
  <2>4. ASSUME NEW r \in Records, r.api, r \in ingested' PROVE \E i \in DOMAIN reported'[r] : reported'[r][i].message
    BY <1>2, <2>4 DEF ScanInv, FiledInv
  <2> QED
    BY <2>1, <2>2, <2>3, <2>4 DEF FiledInv
<1>5. NothingMissed'
  <2>1. \A t : NearbyReported(t) => NearbyReported(t)'
    BY <1>2 DEF NearbyReported, CoversText
  <2> QED
    BY <2>1 DEF ScanInv, NothingMissed
<1>6. RecordWins'
  <2> SUFFICES ASSUME NEW i \in scanned, NEW r \in Records, NEW k \in DOMAIN reported'[r],
                      CoversText(r, reported'[r][k], blocks[i])
               PROVE  r \in late'
    BY DEF RecordWins, CoversText, Close
  <2>1. CASE k \in DOMAIN reported[r]
    BY <1>2, <2>1 DEF ScanInv, RecordWins
  <2>2. CASE k \notin DOMAIN reported[r]
    <3>1. r \in filed /\ reported'[r][k] = row[r]
      BY <1>2, <2>2
    <3>2. row[r].session = blocks[i].session /\ Close(blocks[i], r)
      BY <3>1 DEF CoversText
    <3>3. blocks[i].session \in known
      BY <1>0 DEF ScanInv, FiledInv, ScanTypeOK
    <3>4. blocks[i].session = SessionOf(r)
      BY <3>1, <3>2, <3>3 DEF SessionOf
    <3>5. r \in Preceded(filed)
      BY <3>1, <3>2, <3>4 DEF Preceded
    <3> QED
      BY <3>5
  <2> QED
    BY <2>1, <2>2
<1>7. FiledOnce'
  <2> SUFFICES ASSUME NEW r \in Records, Len(reported'[r]) > 1
               PROVE  \/ r \in early'
                      \/ \E i \in DOMAIN reported'[r] : reported'[r][i].session = NoSession
                      \/ ~r.api /\ rereads' > 0
    BY DEF FiledOnce
  <2>1. CASE r \notin filed
    BY <1>1, <1>2, <2>1 DEF ScanInv, FiledOnce
  <2>2. CASE r \in filed
    <3>1. reported[r] # <<>>
      BY <1>1, <2>2, AppendFacts
    <3> QED
      BY <1>2, <2>2, <3>1
  <2> QED
    BY <2>1, <2>2
<1> QED
  BY <1>3, <1>4, <1>5, <1>6, <1>7 DEF ScanInv
LEMMA IngestRecordKeeps ==
    ASSUME ScanInv, NEW r \in Records, IngestRecord(r) PROVE ScanInv'
<1>0. ScanTypeOK /\ reported \in [Records -> Seq(Event)] /\ r.session \in Sessions /\ r.api \in BOOLEAN
  BY ScanFacts DEF ScanInv, ScanTypes, ScanTypeOK, Event
<1> DEFINE again == r.api /\ r \in ingested
           filed == IF again THEN {} ELSE {r}
           row == [s \in Records |-> Filed(IF r.api THEN r.session ELSE SessionOf(r), r.api)]
<1>1. row \in [Records -> Event]
  BY <1>0 DEF Filed, SessionOf, Event
<1>2. row[r] = Filed(IF r.api THEN r.session ELSE SessionOf(r), r.api) /\ filed \in SUBSET Records
  OBVIOUS
<1>3. reported' = [s \in Records |-> IF s \in filed THEN Append(reported[s], row[s]) ELSE reported[s]]
  <2>1. CASE again
    BY <1>0, <2>1 DEF IngestRecord
  <2>2. CASE ~again
    BY <1>0, <2>2 DEF IngestRecord
  <2> QED
    BY <2>1, <2>2
<1>4. /\ UNCHANGED <<blocks, scanned, cursor, scan, raced, deaths, rescans, disk, early, backfills>>
      /\ known' = (IF r.api THEN known \cup {r.session} ELSE known)
      /\ ingested' = ingested \cup {r} /\ r \in disk
      /\ rereads' = (IF r \in ingested THEN rereads + 1 ELSE rereads)
      /\ rereads \in Nat /\ backfills \in Nat
  BY <1>0 DEF IngestRecord, ScanTypeOK
<1>5. late \cup Preceded(filed) \subseteq late' /\ late' \subseteq Records
  BY <1>0 DEF IngestRecord, Preceded, ScanTypeOK
<1>6. r \in filed => \/ reported[r] = <<>>
                     \/ r \in early
                     \/ ~r.api /\ rereads' > 0
  BY <1>0, <1>4 DEF ScanInv, FiledInv
<1>7. /\ row[r].session = SessionOf(r) \/ (row[r].session = r.session /\ r.session \in known')
      /\ r.api => row[r].message
  BY <1>2, <1>4 DEF Filed
<1> HIDE DEF row
<1>8. known \subseteq known' /\ known' \subseteq Sessions /\ ingested \subseteq ingested' /\ ingested' \subseteq disk
      /\ early \subseteq early' /\ early' \subseteq Records /\ rereads' \in Nat /\ rereads <= rereads' /\ backfills' \in Nat
  BY <1>0, <1>4 DEF ScanTypeOK
<1>9. \A s \in filed : s = r
  OBVIOUS
<1>10. \A s \in ingested' \ ingested : s = r /\ s \in filed
  BY <1>4
<1>11. \A s \in filed : row[s].session = SessionOf(s) \/ (row[s].session = s.session /\ s.session \in known')
  BY <1>7, <1>9
<1>16. \A s \in filed : s \in ingested' \/ s \in early'
  BY <1>4, <1>9
<1>12. \A s \in ingested' \ ingested : s \in filed /\ (s.api => row[s].message)
  BY <1>7, <1>10
<1>13. \A s \in filed : \/ reported[s] = <<>>
                        \/ s \in early'
                        \/ row[s].session = NoSession
                        \/ \E i \in DOMAIN reported[s] : reported[s][i].session = NoSession
                        \/ ~s.api /\ rereads' > 0
  BY <1>4, <1>6, <1>9
<1>14. UNCHANGED <<blocks, scanned, cursor, scan, raced, deaths, rescans>> /\ disk' = disk /\ rereads \in Nat
  BY <1>4
<1>15. filed \in SUBSET Records
  BY <1>2
<1> HIDE DEF filed, again, IngestRecord
<1> QED
  BY <1>1, <1>3, <1>5, <1>8, <1>11, <1>12, <1>13, <1>14, <1>15, <1>16, FilingKeeps

LEMMA BackfillKeeps ==
    ASSUME ScanInv, Backfill PROVE ScanInv'
<1>0. ScanTypeOK /\ reported \in [Records -> Seq(Event)]
  BY DEF ScanInv, ScanTypes, ScanTypeOK, Event
<1> DEFINE filed == {r \in disk : Missing(r)}
           row == [r \in Records |-> Filed(SessionOf(r), r.api /\ r \in ingested)]
<1>1. filed \in SUBSET Records /\ row \in [Records -> Event]
  <2> SUFFICES ASSUME NEW r \in Records PROVE Filed(SessionOf(r), r.api /\ r \in ingested) \in Event
    BY <1>0 DEF ScanTypeOK
  <2> QED
    BY ScanFacts DEF Filed, SessionOf, Event
<1>2. \A r \in filed : row[r].session = SessionOf(r)
  BY <1>1 DEF Filed
<1>3. reported' = [r \in Records |-> IF r \in filed THEN Append(reported[r], row[r]) ELSE reported[r]]
  BY DEF Backfill
<1>4. /\ UNCHANGED <<disk, known, ingested, blocks, scanned, cursor, scan, raced, deaths, rescans, rereads>>
      /\ early' = early \cup (filed \ ingested) /\ late' = late \cup Preceded(filed)
      /\ backfills' = backfills + 1
  BY DEF Backfill, log
<1>5. ASSUME NEW r \in filed
      PROVE  reported[r] = <<>> \/ \E i \in DOMAIN reported[r] : reported[r][i].session = NoSession
  <2>1. r \in Records /\ Missing(r) /\ reported[r] \in Seq(Event)
    BY <1>0 DEF ScanTypeOK
  <2>2. ~(r.api /\ r \in ingested)
    BY <2>1 DEF Missing, ScanInv, FiledInv
  <2>3. \A i \in DOMAIN reported[r] : reported[r][i].session # SessionOf(r)
    BY <2>1, <2>2 DEF Missing
  <2>4. \A i \in DOMAIN reported[r] : reported[r][i].session = NoSession
    BY <2>1, <2>3 DEF ScanInv, FiledInv, SessionOf
  <2>5. reported[r] # <<>> => 1 \in DOMAIN reported[r]
    BY <2>1
  <2> QED
    BY <2>4, <2>5
<1> HIDE DEF filed, row
<1>6. /\ known' \subseteq Sessions /\ ingested' \subseteq disk /\ early' \subseteq Records /\ late' \subseteq Records
      /\ rereads \in Nat /\ rereads' \in Nat /\ backfills' \in Nat /\ rereads <= rereads'
  BY <1>0, <1>1, <1>4 DEF ScanTypeOK, Preceded
<1>7. /\ known \subseteq known' /\ ingested \subseteq ingested' /\ early \subseteq early' /\ disk' = disk
      /\ late \cup Preceded(filed) \subseteq late'
      /\ UNCHANGED <<blocks, scanned, cursor, scan, raced, deaths, rescans>>
  BY <1>4
<1>8. \A r \in filed : row[r].session = SessionOf(r) \/ (row[r].session = r.session /\ r.session \in known')
  BY <1>2
<1>9. \A r \in filed : r \in ingested' \/ r \in early'
  BY <1>4
<1>10. \A r \in ingested' \ ingested : r \in filed /\ (r.api => row[r].message)
  BY <1>4
<1>11. \A r \in filed : \/ reported[r] = <<>>
                        \/ r \in early'
                        \/ row[r].session = NoSession
                        \/ \E i \in DOMAIN reported[r] : reported[r][i].session = NoSession
                        \/ ~r.api /\ rereads' > 0
  BY <1>5
<1> HIDE DEF Backfill
<1> QED
  BY <1>1, <1>3, <1>6, <1>7, <1>8, <1>9, <1>10, <1>11, FilingKeeps
LEMMA WriteKeeps ==
    ASSUME ScanInv, NEW r \in Records, Write(r) PROVE ScanInv'
<1>1. /\ disk' = disk \cup {r}
      /\ UNCHANGED <<known, ingested, blocks, reported, scanned, cursor, scan, early, late, raced, rescans, deaths, rereads, backfills>>
  BY DEF Write, tally, history, bounds
<1>2. ScanTypes'
  BY <1>1 DEF ScanInv, ScanTypes, ScanTypeOK
<1>3. FiledInv' /\ NothingMissed' /\ RecordWins' /\ FiledOnce'
  BY <1>1 DEF ScanInv, FiledInv, NothingMissed, RecordWins, FiledOnce, NearbyReported, CoversText, Close
<1> QED
  BY <1>2, <1>3 DEF ScanInv

LEMMA IngestTextKeeps ==
    ASSUME ScanInv, NEW t \in Texts, IngestText(t) PROVE ScanInv'
<1>1. /\ blocks' = Append(blocks, t) /\ known' = known \cup {t.session}
      /\ UNCHANGED <<disk, ingested, reported, scanned, cursor, scan, early, late, raced, rescans, deaths, rereads, backfills>>
  BY DEF IngestText, tally, history, bounds
<1>2. ScanTypeOK /\ blocks \in Seq(Texts) /\ t.session \in Sessions
  BY ScanFacts DEF ScanInv, ScanTypes, ScanTypeOK
<1>3. /\ blocks' \in Seq(Texts) /\ Len(blocks) \in Nat /\ Len(blocks') = Len(blocks) + 1
      /\ DOMAIN blocks = 1..Len(blocks) /\ DOMAIN blocks' = 1..(Len(blocks) + 1)
      /\ \A i \in DOMAIN blocks : i \in DOMAIN blocks' /\ blocks'[i] = blocks[i]
      /\ \A i \in DOMAIN blocks' : i \in DOMAIN blocks \/ i = Len(blocks) + 1
      /\ blocks'[Len(blocks) + 1] = t
  BY <1>1, <1>2, AppendFacts
<1>4. ScanTypes'
  <2>1. scanned' \subseteq DOMAIN blocks' /\ cursor' \in 0..Len(blocks') /\ known' \subseteq Sessions
    BY <1>1, <1>2, <1>3 DEF ScanTypeOK
  <2>2. \A p \in Scanners : scan[p].at = "batch" => scan[p].from <= scan[p].to /\ scan[p].to <= Len(blocks')
    BY <1>2, <1>3 DEF ScanInv, ScanTypes, ScanTypeOK
  <2> QED
    BY <1>1, <1>2, <1>3, <2>1, <2>2 DEF ScanTypes, ScanTypeOK
<1>5. FiledInv'
  <2>1. \A i \in DOMAIN blocks' : blocks'[i].session \in known'
    BY <1>1, <1>3 DEF ScanInv, FiledInv
  <2> QED
    BY <1>1, <2>1 DEF ScanInv, FiledInv
<1>6. NothingMissed'
  <2>3. cursor \in 0..Len(blocks)
    BY <1>2 DEF ScanTypeOK
  <2>4. 1..cursor \subseteq DOMAIN blocks
    BY <1>3, <2>3
  <2>1. \A i \in 1..cursor : blocks'[i] = blocks[i]
    BY <1>3, <2>4
  <2>2. \A x : NearbyReported(x)' <=> NearbyReported(x)
    BY <1>1 DEF NearbyReported, CoversText, Close
  <2> QED
    BY <1>1, <2>1, <2>2 DEF ScanInv, NothingMissed
<1>7. RecordWins'
  <2>1. \A i \in scanned : blocks'[i] = blocks[i]
    BY <1>2, <1>3 DEF ScanTypeOK
  <2> QED
    BY <1>1, <2>1 DEF ScanInv, RecordWins, CoversText, Close
<1>8. FiledOnce'
  BY <1>1 DEF ScanInv, FiledOnce
<1> QED
  BY <1>4, <1>5, <1>6, <1>7, <1>8 DEF ScanInv

(* A process moves on in its scan, and neither a block nor a record changes. *)
LEMMA ScanningKeeps ==
    ASSUME ScanInv, UNCHANGED <<disk, known, ingested, blocks, reported, early, rereads, backfills>>,
           rescans' \in Nat, deaths' \in Nat, raced' \in BOOLEAN,
           scanned' \subseteq DOMAIN blocks, cursor' \in 0..Len(blocks), late' \subseteq Records,
           scan' \in [Scanners -> ScanState],
           \A p \in Scanners : scan'[p].at = "batch" => scan'[p].from <= scan'[p].to /\ scan'[p].to <= Len(blocks),
           NothingMissed', RecordWins'
    PROVE  ScanInv'
<1>1. ScanTypes'
  BY DEF ScanInv, ScanTypes, ScanTypeOK, ScanState
<1>2. FiledInv' /\ FiledOnce'
  BY DEF ScanInv, FiledInv, FiledOnce
<1> QED
  BY <1>1, <1>2 DEF ScanInv

LEMMA SameRecords ==
    ASSUME UNCHANGED reported PROVE \A x : NearbyReported(x)' <=> NearbyReported(x)
BY DEF NearbyReported, CoversText, Close

(* Where a process stands in its scan, and the rest of the scans. *)
LEMMA ScanStep ==
    ASSUME ScanTypes, NEW p \in Scanners, NEW x \in ScanState,
           x.at = "batch" => x.from <= x.to /\ x.to <= Len(blocks),
           scan' = [scan EXCEPT ![p] = x]
    PROVE  /\ scan' \in [Scanners -> ScanState]
           /\ \A q \in Scanners : scan'[q].at = "batch" => scan'[q].from <= scan'[q].to /\ scan'[q].to <= Len(blocks)
           /\ scan'["web"] = IF p = "web" THEN x ELSE scan["web"]
           /\ Scanners \in SUBSET {"worker", "web"}
<1>1. \A q \in Scanners : scan'[q] = IF q = p THEN x ELSE scan[q]
  BY DEF ScanTypes, ScanTypeOK
<1>2. scan' \in [Scanners -> ScanState]
  BY DEF ScanTypes, ScanTypeOK, ScanState
<1>3. \A q \in Scanners : scan'[q].at = "batch" => scan'[q].from <= scan'[q].to /\ scan'[q].to <= Len(blocks)
  BY <1>1 DEF ScanTypes
<1> QED
  BY <1>1, <1>2, <1>3, ScanFacts

LEMMA OutsideBatch ==
    ASSUME NEW at \in {"idle", "wiped", "begun"}, NEW drain \in BOOLEAN
    PROVE  /\ Scanning(at, drain) \in ScanState
           /\ Scanning(at, drain).at = at /\ at # "batch" /\ Scanning(at, drain).drain = drain
BY DEF Scanning, ScanState

LEMMA BeginScanKeeps ==
    ASSUME ScanInv, NEW p \in Scanners, NEW drain \in BOOLEAN, Begin(p, drain) PROVE ScanInv'
<1>1. /\ UNCHANGED <<disk, known, ingested, blocks, reported, scanned, cursor, early, late, raced, rescans, deaths, rereads, backfills>>
      /\ scan[p].at = "idle"
      /\ scan' = [scan EXCEPT ![p] = Scanning("begun", drain)]
  BY DEF Begin, log, tally, history, bounds
<1>2. ScanTypes /\ ScanTypeOK
  BY DEF ScanInv, ScanTypes
<1> DEFINE x == Scanning("begun", drain)
<1>3. x \in ScanState /\ x.at = "begun"
  BY OutsideBatch
<1> HIDE DEF x
<1>4. /\ scan' \in [Scanners -> ScanState]
      /\ \A q \in Scanners : scan'[q].at = "batch" => scan'[q].from <= scan'[q].to /\ scan'[q].to <= Len(blocks)
      /\ scan'["web"] = IF p = "web" THEN x ELSE scan["web"]
  BY <1>1, <1>2, <1>3, ScanStep DEF x
<1>5. scan["web"].at = "wiped" <=> scan'["web"].at = "wiped"
  BY <1>1, <1>3, <1>4
<1>6. NothingMissed' /\ RecordWins'
  BY <1>1, <1>5, SameRecords DEF ScanInv, NothingMissed, RecordWins, CoversText, Close
<1> QED
  BY <1>1, <1>2, <1>4, <1>6, ScanningKeeps DEF ScanTypeOK
LEMMA WipeKeeps ==
    ASSUME ScanInv, NEW drain \in BOOLEAN, Wipe(drain) PROVE ScanInv'
<1> DEFINE x == Scanning("wiped", drain)
<1>1. /\ UNCHANGED <<disk, known, ingested, blocks, reported, cursor, early, raced, deaths, rereads, backfills>>
      /\ scanned' = {} /\ late' = {} /\ rescans' = rescans + 1
      /\ scan' = [scan EXCEPT !["web"] = x]
  BY DEF Wipe, log
<1>2. ScanTypes /\ ScanTypeOK /\ "web" \in Scanners
  BY ScanFacts DEF ScanInv, ScanTypes
<1>3. x \in ScanState /\ x.at = "wiped"
  BY OutsideBatch
<1> HIDE DEF x
<1>4. /\ scan' \in [Scanners -> ScanState]
      /\ \A q \in Scanners : scan'[q].at = "batch" => scan'[q].from <= scan'[q].to /\ scan'[q].to <= Len(blocks)
      /\ scan'["web"] = x
  BY <1>1, <1>2, <1>3, ScanStep
<1>5. NothingMissed' /\ RecordWins'
  BY <1>1, <1>3, <1>4 DEF NothingMissed, RecordWins
<1> QED
  BY <1>1, <1>2, <1>4, <1>5, ScanningKeeps DEF ScanTypeOK

LEMMA ZeroCursorKeeps ==
    ASSUME ScanInv, ZeroCursor PROVE ScanInv'
<1> DEFINE x == Scanning("begun", scan["web"].drain)
<1>1. /\ UNCHANGED <<disk, known, ingested, blocks, reported, scanned, early, late, rescans, deaths, rereads, backfills>>
      /\ cursor' = 0 /\ raced' = FALSE
      /\ scan' = [scan EXCEPT !["web"] = x]
  BY DEF ZeroCursor, log, bounds
<1>2. ScanTypes /\ ScanTypeOK /\ "web" \in Scanners
  BY ScanFacts DEF ScanInv, ScanTypes
<1>3. x \in ScanState /\ x.at = "begun"
  BY <1>2, OutsideBatch DEF ScanTypeOK
<1> HIDE DEF x
<1>4. /\ scan' \in [Scanners -> ScanState]
      /\ \A q \in Scanners : scan'[q].at = "batch" => scan'[q].from <= scan'[q].to /\ scan'[q].to <= Len(blocks)
  BY <1>1, <1>2, <1>3, ScanStep
<1>5. NothingMissed' /\ RecordWins' /\ Len(blocks) \in Nat
  BY <1>1, <1>2 DEF ScanInv, NothingMissed, RecordWins, CoversText, Close, ScanTypeOK
<1>6. cursor' \in 0..Len(blocks) /\ scanned' \subseteq DOMAIN blocks /\ late' \subseteq Records
  BY <1>1, <1>2, <1>5 DEF ScanTypeOK
<1>7. rescans' \in Nat /\ deaths' \in Nat
  BY <1>1, <1>2 DEF ScanTypeOK
<1>8. raced' \in BOOLEAN
  BY <1>1
<1> QED
  BY <1>1, <1>4, <1>5, <1>6, <1>7, <1>8, ScanningKeeps

LEMMA LeastOfTwo ==
    ASSUME NEW a \in Nat, NEW b \in Nat
    PROVE  Min({a, b}) \in {a, b} /\ Min({a, b}) <= a /\ Min({a, b}) <= b
<1>1. \E x \in {a, b} : \A y \in {a, b} : x <= y
  OBVIOUS
<1> QED
  BY <1>1 DEF Min

LEMMA SelectKeeps ==
    ASSUME ScanInv, NEW p \in Scanners, Select(p) PROVE ScanInv'
<1> DEFINE to == Min({cursor + Batch, Len(blocks)})
           x == IF cursor >= Len(blocks) THEN Idle
                ELSE [at |-> "batch", drain |-> scan[p].drain, from |-> cursor, to |-> to]
<1>1. /\ UNCHANGED <<disk, known, ingested, blocks, reported, scanned, cursor, early, late, raced, rescans, deaths, rereads, backfills>>
      /\ scan[p].at = "begun"
      /\ scan' = [scan EXCEPT ![p] = x]
  BY DEF Select, log, tally, history, bounds
<1>2. ScanTypes /\ ScanTypeOK
  BY DEF ScanInv, ScanTypes
<1>3. cursor \in Nat /\ Len(blocks) \in Nat /\ Batch \in Nat /\ Batch >= 1 /\ cursor <= Len(blocks) /\ scan[p].drain \in BOOLEAN
  BY <1>2, ScanFacts DEF ScanTypeOK
<1>4. x \in ScanState /\ x.at # "wiped" /\ (x.at = "batch" => x.from <= x.to /\ x.to <= Len(blocks))
  <2>1. CASE cursor >= Len(blocks)
    BY <2>1, OutsideBatch DEF Idle
  <2>2. CASE ~(cursor >= Len(blocks))
    <3>1. to \in Nat /\ cursor <= to /\ to <= Len(blocks)
      BY <1>3, <2>2, LeastOfTwo
    <3> HIDE DEF to
    <3> QED
      BY <1>3, <2>2, <3>1 DEF ScanState
  <2> QED
    BY <2>1, <2>2
<1> HIDE DEF x
<1>5. /\ scan' \in [Scanners -> ScanState]
      /\ \A q \in Scanners : scan'[q].at = "batch" => scan'[q].from <= scan'[q].to /\ scan'[q].to <= Len(blocks)
      /\ scan'["web"] = IF p = "web" THEN x ELSE scan["web"]
  BY <1>1, <1>2, <1>4, ScanStep
<1>6. scan["web"].at = "wiped" <=> scan'["web"].at = "wiped"
  BY <1>1, <1>4, <1>5
<1>7. NothingMissed' /\ RecordWins'
  BY <1>1, <1>6, SameRecords DEF ScanInv, NothingMissed, RecordWins, CoversText, Close
<1> QED
  BY <1>1, <1>2, <1>5, <1>7, ScanningKeeps DEF ScanTypeOK

(* A scan that read its cursor before another one moved it behind the batch *)
(* leaves a gap, which `raced` records.                                     *)
LEMMA CommitKeeps ==
    ASSUME ScanInv, NEW p \in Scanners, Commit(p) PROVE ScanInv'
<1> DEFINE x == IF scan[p].drain THEN Scanning("begun", TRUE) ELSE Idle
           batch == (scan[p].from + 1)..scan[p].to
           found == {i \in batch : blocks[i].match /\ ~NearbyReported(blocks[i])}
<1>1. /\ UNCHANGED <<disk, known, ingested, blocks, reported, early, late, rescans, deaths, rereads, backfills>>
      /\ scan[p].at = "batch"
      /\ scanned' = scanned \cup found /\ cursor' = scan[p].to
      /\ raced' = (raced \/ cursor < scan[p].from)
      /\ scan' = [scan EXCEPT ![p] = x]
  BY DEF Commit, log, bounds, LastOfBatch
<1>2. ScanTypes /\ ScanTypeOK
  BY DEF ScanInv, ScanTypes
<1>3. /\ scan[p].from \in Nat /\ scan[p].to \in Nat /\ scan[p].from <= scan[p].to /\ scan[p].to <= Len(blocks)
      /\ Len(blocks) \in Nat /\ cursor \in Nat /\ DOMAIN blocks = 1..Len(blocks)
  BY <1>1, <1>2 DEF ScanTypes, ScanTypeOK, ScanState
<1>4. x \in ScanState /\ x.at # "wiped" /\ x.at # "batch"
  BY OutsideBatch DEF Idle
<1> HIDE DEF x
<1>5. /\ scan' \in [Scanners -> ScanState]
      /\ \A q \in Scanners : scan'[q].at = "batch" => scan'[q].from <= scan'[q].to /\ scan'[q].to <= Len(blocks)
      /\ scan'["web"] = IF p = "web" THEN x ELSE scan["web"]
  BY <1>1, <1>2, <1>4, ScanStep
<1>6. scan["web"].at = "wiped" <=> scan'["web"].at = "wiped"
  BY <1>1, <1>4, <1>5
<1>7. \A i \in batch : i \in DOMAIN blocks
  BY <1>3
<1>8. NothingMissed'
  <2> SUFFICES ASSUME ~raced', scan'["web"].at # "wiped", NEW i \in 1..scan[p].to, blocks[i].match
               PROVE  i \in scanned' \/ NearbyReported(blocks[i])
    BY <1>1, SameRecords DEF NothingMissed
  <2>1. CASE i \in batch
    BY <1>1, <2>1
  <2>2. CASE i \notin batch
    <3>2. ~(cursor < scan[p].from)
      BY <1>1
    <3>1. i \in 1..cursor
      BY <1>3, <2>2, <3>2
    <3> QED
      BY <1>1, <1>6, <3>1 DEF ScanInv, NothingMissed
  <2> QED
    BY <2>1, <2>2
<1>9. RecordWins'
  <2> SUFFICES ASSUME NEW i \in scanned', NEW r \in Records, NEW k \in DOMAIN reported[r], CoversText(r, reported[r][k], blocks[i])
               PROVE  r \in late
    BY <1>1 DEF RecordWins, CoversText, Close
  <2>1. i \notin found
    BY DEF NearbyReported
  <2> QED
    BY <1>1, <2>1 DEF ScanInv, RecordWins
<1>10. scanned' \subseteq DOMAIN blocks /\ cursor' \in 0..Len(blocks)
  BY <1>1, <1>2, <1>3, <1>7 DEF ScanTypeOK
<1>11. raced' \in BOOLEAN /\ rescans' \in Nat /\ deaths' \in Nat /\ late' \subseteq Records
  BY <1>1, <1>2 DEF ScanTypeOK
<1> HIDE DEF batch, found
<1> QED
  BY <1>1, <1>5, <1>8, <1>9, <1>10, <1>11, ScanningKeeps

LEMMA DieKeeps ==
    ASSUME ScanInv, NEW p \in Scanners, Die(p) PROVE ScanInv'
<1>1. /\ UNCHANGED <<disk, known, ingested, blocks, reported, scanned, cursor, early, late, rescans, rereads, backfills>>
      /\ deaths' = deaths + 1 /\ raced' = (raced \/ scan[p].at = "wiped")
      /\ scan' = [scan EXCEPT ![p] = Idle]
  BY DEF Die, log, tally
<1>2. ScanTypes /\ ScanTypeOK
  BY DEF ScanInv, ScanTypes
<1>3. Idle \in ScanState /\ Idle.at = "idle"
  BY OutsideBatch DEF Idle
<1>4. /\ scan' \in [Scanners -> ScanState]
      /\ \A q \in Scanners : scan'[q].at = "batch" => scan'[q].from <= scan'[q].to /\ scan'[q].to <= Len(blocks)
      /\ scan'["web"] = IF p = "web" THEN Idle ELSE scan["web"]
  BY <1>1, <1>2, <1>3, ScanStep
<1>5. scan["web"].at = "wiped" => raced' \/ scan'["web"].at = "wiped"
  BY <1>1, <1>4
<1>6. NothingMissed' /\ RecordWins'
  BY <1>1, <1>5, SameRecords DEF ScanInv, NothingMissed, RecordWins, CoversText, Close
<1> QED
  BY <1>1, <1>2, <1>4, <1>6, ScanningKeeps DEF ScanTypeOK

(* Without a step nothing changes. *)
LEMMA NoScanStep ==
    ASSUME ScanInv, UNCHANGED scanVars PROVE ScanInv'
<1>1. UNCHANGED <<disk, known, ingested, blocks, reported, scanned, cursor, scan, early, late, raced, rescans, deaths, rereads, backfills>>
  BY DEF scanVars, log, tally, history, bounds
<1> QED
  BY <1>1 DEF ScanInv, ScanTypes, ScanTypeOK, FiledInv, NothingMissed, RecordWins, FiledOnce, NearbyReported, CoversText, Close

LEMMA ScanInitially == ScanInit => ScanInv
<1> SUFFICES ASSUME ScanInit PROVE ScanInv
  OBVIOUS
<1>1. /\ disk = {} /\ known = {} /\ ingested = {} /\ blocks = <<>> /\ scanned = {} /\ cursor = 0
      /\ reported = [r \in Records |-> <<>>] /\ scan = [p \in Scanners |-> Idle]
      /\ early = {} /\ late = {} /\ raced = FALSE
      /\ rescans = 0 /\ deaths = 0 /\ rereads = 0 /\ backfills = 0
  BY DEF ScanInit
<1>2. Idle \in ScanState /\ Idle.at = "idle"
  BY OutsideBatch DEF Idle
<1>3. ScanTypes
  <2>1. scan \in [Scanners -> ScanState] /\ \A p \in Scanners : scan[p].at # "batch"
    BY <1>1, <1>2
  <2>2. /\ blocks \in Seq(Texts) /\ cursor \in 0..Len(blocks)
        /\ reported \in [Records -> Seq([session : Sessions \cup {NoSession}, message : BOOLEAN])]
    BY <1>1
  <2> QED
    <3>1. raced \in BOOLEAN
      BY <1>1
    <3>2. {rescans, deaths, rereads, backfills} \subseteq Nat /\ early \subseteq Records /\ late \subseteq Records
      BY <1>1
    <3>3. disk \subseteq Records /\ ingested \subseteq disk /\ known \subseteq Sessions /\ scanned \subseteq DOMAIN blocks
      BY <1>1
    <3> QED
      BY <2>1, <2>2, <3>1, <3>2, <3>3 DEF ScanTypes, ScanTypeOK, ScanState
<1>4. FiledInv /\ NothingMissed /\ RecordWins /\ FiledOnce
  BY <1>1 DEF FiledInv, NothingMissed, RecordWins, FiledOnce
<1> QED
  BY <1>3, <1>4 DEF ScanInv

(* Filing a record, writing a message and each step of a scan, a crash in it  *)
(* included, keep the invariant of the tally.                                 *)
THEOREM ScanInductive == ScanSpec => []ScanInv
<1>1. ScanInv /\ [ScanNext]_scanVars => ScanInv'
  <2> SUFFICES ASSUME ScanInv, [ScanNext]_scanVars PROVE ScanInv'
    OBVIOUS
  <2> USE DEF ScanNext
  <2>1. ASSUME NEW r \in Records, Write(r) PROVE ScanInv'
    BY <2>1, WriteKeeps
  <2>2. ASSUME NEW r \in Records, IngestRecord(r) PROVE ScanInv'
    BY <2>2, IngestRecordKeeps
  <2>3. ASSUME NEW t \in Texts, IngestText(t) PROVE ScanInv'
    BY <2>3, IngestTextKeeps
  <2>4. ASSUME NEW p \in Scanners, NEW drain \in BOOLEAN, Begin(p, drain) PROVE ScanInv'
    BY <2>4, BeginScanKeeps
  <2>5. ASSUME NEW p \in Scanners, Select(p) PROVE ScanInv'
    BY <2>5, SelectKeeps
  <2>6. ASSUME NEW p \in Scanners, Commit(p) PROVE ScanInv'
    BY <2>6, CommitKeeps
  <2>7. ASSUME NEW p \in Scanners, Die(p) PROVE ScanInv'
    BY <2>7, DieKeeps
  <2>8. ASSUME NEW drain \in BOOLEAN, Wipe(drain) PROVE ScanInv'
    BY <2>8, WipeKeeps
  <2>9. CASE ZeroCursor
    BY <2>9, ZeroCursorKeeps
  <2>10. CASE Backfill
    BY <2>10, BackfillKeeps
  <2>11. CASE UNCHANGED scanVars
    BY <2>11, NoScanStep
  <2> QED
    BY <2>1, <2>2, <2>3, <2>4, <2>5, <2>6, <2>7, <2>8, <2>9, <2>10, <2>11
<1> QED
  BY <1>1, ScanInitially, PTL DEF ScanSpec

(* One refusal is one event: every matching text that the cursor passed is    *)
(* counted or covered by a record, a record takes precedence over a text      *)
(* that was scanned after it, and a record is filed once.                     *)
THEOREM RefusalsSafe == ScanSpec => []OneEventEach
BY ScanInductive, PTL DEF ScanInv, OneEventEach

-------------------------------------------------------------------------------
(***************************************************************************)
(* Status polls.  A rollup folds what is older than everything it leaves, and*)
(* younger than everything that went before.                               *)
(***************************************************************************)
(* Every set of naturals that is not empty has a least one.  The library      *)
(* states that with an operator; here it comes from the finite sets 0..n.     *)
LEMMA LeastNatural ==
    ASSUME NEW T \in SUBSET Nat, T # {}
    PROVE  \E n \in T : \A m \in T : n <= m
<1> DEFINE below == {0..n : n \in T}
           R == StrictSubsetOrdering(Nat)
<1>1. below \subseteq FiniteSubsetsOf(Nat)
  <2> SUFFICES ASSUME NEW n \in T PROVE 0..n \in SUBSET Nat /\ IsFiniteSet(0..n)
    BY DEF FiniteSubsetsOf
  <2> QED
    BY FS_Interval
<1>2. below # {}
  OBVIOUS
<1>3. \E x \in below : \A y \in below : ~ (<<y, x>> \in R)
  <2>1. IsWellFoundedOn(R, FiniteSubsetsOf(Nat))
    BY FS_StrictSubsetOrderingWellFounded
  <2> HIDE DEF below, R
  <2> QED
    BY <1>1, <1>2, <2>1, WFMin
<1>4. PICK n \in T : \A m \in T : ~ (<<0..m, 0..n>> \in R)
  BY <1>3
<1>5. ASSUME NEW m \in T, ~(n <= m) PROVE FALSE
  <2>1. 0..m \in SUBSET Nat /\ 0..n \in SUBSET Nat /\ 0..m \subseteq 0..n
    BY <1>5
  <2>2. n \in 0..n /\ n \notin 0..m
    BY <1>5
  <2>3. <<0..m, 0..n>> \in R
    BY <2>1, <2>2 DEF StrictSubsetOrdering
  <2> QED
    BY <1>4, <2>3
<1> QED
  BY <1>5

-------------------------------------------------------------------------------
(* A poll that is no longer kept is older than 28 days and older than all     *)
(* that are kept.                                                             *)
PollInv ==
    /\ now \in 0..MaxInstant /\ polls \subseteq recorded /\ recorded \subseteq Poll /\ DOMAIN hourly = Hours \X Targets
    /\ \A p \in recorded : p.at <= now
    /\ \A p \in recorded \ polls : p.at < now - Keep /\ \A q \in polls : p.at < q.at

StatusInv == PollInv /\ RecentPollsKept /\ LastFoldStands

LEMMA StatusFacts ==
    /\ HourLength \in Nat /\ HourLength # 0 /\ Keep \in Nat /\ MaxInstant \in Nat
    /\ PollInv => now \in Nat /\ \A p \in recorded : p.at \in Nat /\ p.at <= now
BY StatusConstantsOK DEF PollInv, Poll

(* A new poll is the newest. *)
LEMMA PollAllKeeps ==
    ASSUME StatusInv, NEW lights \in [Targets -> Lights], PollAll(lights) PROVE StatusInv'
<1> DEFINE new == {[target |-> t, at |-> now, light |-> lights[t]] : t \in Targets}
<1>1. polls' = polls \cup new /\ recorded' = recorded \cup new /\ UNCHANGED <<now, hourly>>
      /\ ~ \E p \in recorded : p.at = now
  BY DEF PollAll
<1>2. PollInv /\ RecentPollsKept /\ LastFoldStands /\ now \in Nat /\ Keep \in Nat
  BY StatusFacts DEF StatusInv
<1>3. new \subseteq Poll /\ \A p \in new : p.at = now
  BY <1>2 DEF Poll
<1> HIDE DEF new
<1>4. new \cap recorded = {} /\ recorded' \ polls' = recorded \ polls
  BY <1>1, <1>2, <1>3 DEF PollInv
<1>5. PollInv'
  <2>1. \A p \in recorded' : p.at <= now
    BY <1>1, <1>2, <1>3 DEF PollInv
  <2>2. \A p \in recorded : p.at \in Nat
    BY <1>2, StatusFacts
  <2>3. ASSUME NEW p \in recorded \ polls PROVE p.at < now - Keep /\ \A q \in polls' : p.at < q.at
    <3>1. p.at < now - Keep /\ \A q \in polls : p.at < q.at
      BY <1>2 DEF PollInv
    <3>2. \A q \in new : p.at < q.at
      BY <1>2, <1>3, <2>2, <3>1
    <3> QED
      BY <1>1, <3>1, <3>2
  <2> QED
    BY <1>1, <1>2, <1>3, <1>4, <2>1, <2>3 DEF PollInv
<1>6. \A h, t : Gone(h, t)' = Gone(h, t)
  BY <1>4 DEF Gone
<1>7. RecentPollsKept' /\ LastFoldStands'
  <2>1. \A p \in recorded' : p.at >= now - Keep => p \in polls'
    BY <1>1, <1>2 DEF RecentPollsKept, LastFoldStands
  <2> QED
    BY <1>1, <1>2, <1>6, <2>1 DEF RecentPollsKept, LastFoldStands
<1> QED
  BY <1>5, <1>7 DEF StatusInv

LEMMA StatusTickKeeps ==
    ASSUME StatusInv, StatusTick PROVE StatusInv'
<1>1. now < MaxInstant /\ now' = now + 1 /\ UNCHANGED <<polls, hourly, recorded>>
  BY DEF StatusTick
<1>2. PollInv /\ RecentPollsKept /\ LastFoldStands /\ now \in Nat /\ Keep \in Nat /\ MaxInstant \in Nat /\ \A p \in recorded : p.at \in Nat /\ p.at <= now
  BY StatusFacts DEF StatusInv
<1>3. PollInv'
  <2>1. now' \in 0..MaxInstant /\ \A p \in recorded : p.at <= now'
    BY <1>1, <1>2
  <2>2. \A p \in recorded \ polls : p.at < now' - Keep
    BY <1>1, <1>2 DEF PollInv
  <2> QED
    BY <1>1, <1>2, <2>1, <2>2 DEF PollInv
<1>4. \A p \in recorded : p.at >= now' - Keep => p \in polls
  BY <1>1, <1>2 DEF RecentPollsKept, LastFoldStands
<1>5. \A h, t : Gone(h, t)' = Gone(h, t)
  BY <1>1 DEF Gone
<1>6. RecentPollsKept' /\ LastFoldStands'
  BY <1>1, <1>2, <1>4, <1>5 DEF RecentPollsKept, LastFoldStands
<1> QED
  BY <1>3, <1>6 DEF StatusInv

(* What a rollup folds of an hour is what is gone of it from the least instant *)
(* it folds: what went before is older than that.                              *)
LEMMA RollupKeeps ==
    ASSUME StatusInv, Rollup PROVE StatusInv'
<1> DEFINE Of(h, t) == {p \in Folded : HourOf(p) = h /\ p.target = t}
<1>1. /\ hourly' = [k \in Hours \X Targets |-> IF Of(k[1], k[2]) = {} THEN hourly[k] ELSE Fold(Of(k[1], k[2]))]
      /\ polls' = polls \ Deleted /\ UNCHANGED <<now, recorded>>
  BY DEF Rollup
<1>2. /\ PollInv /\ RecentPollsKept /\ LastFoldStands /\ now \in Nat /\ Keep \in Nat
      /\ \A p \in recorded : p.at \in Nat /\ p.at <= now
      /\ polls \subseteq recorded
  BY StatusFacts DEF StatusInv, PollInv
<1>3. /\ Deleted = Folded /\ Folded \subseteq polls /\ \A p \in polls : p \in Folded <=> p.at < now - Keep
  BY DEF Deleted, Folded
<1>4. recorded' \ polls' = (recorded \ polls) \cup Folded
  BY <1>1, <1>2, <1>3
<1>5. PollInv'
  <2>1. ASSUME NEW p \in recorded' \ polls' PROVE p.at < now - Keep
    BY <1>2, <1>3, <1>4 DEF PollInv
  <2>2. ASSUME NEW q \in polls' PROVE q.at \in Nat /\ ~(q.at < now - Keep)
    BY <1>1, <1>2, <1>3
  <2>3. \A p \in recorded' \ polls' : p.at \in Nat /\ p.at < now - Keep /\ \A q \in polls' : p.at < q.at
    BY <1>1, <1>2, <2>1, <2>2
  <2>4. DOMAIN hourly' = Hours \X Targets
    BY <1>1
  <2> QED
    BY <1>1, <1>2, <2>3, <2>4 DEF PollInv
<1>6. \A p \in recorded' : p.at >= now' - Keep => p \in polls'
  BY <1>1, <1>2, <1>3 DEF RecentPollsKept, LastFoldStands
<1>7. ASSUME NEW h \in Hours, NEW t \in Targets
      PROVE  IF Gone(h, t)' = {} THEN hourly'[<<h, t>>] = NoRow
             ELSE \E from \in {p.at : p \in Gone(h, t)'} : hourly'[<<h, t>>] = Fold({p \in Gone(h, t)' : p.at >= from})
  <2>1. Gone(h, t)' = Gone(h, t) \cup Of(h, t)
    BY <1>4 DEF Gone
  <2>2. hourly'[<<h, t>>] = IF Of(h, t) = {} THEN hourly[<<h, t>>] ELSE Fold(Of(h, t))
    BY <1>1
  <2>3. /\ \A p \in Of(h, t) : p \in polls /\ p.at \in Nat
        /\ \A p \in Gone(h, t) : p \in recorded \ polls /\ p.at \in Nat
    BY <1>2, <1>3 DEF Gone
  <2> HIDE DEF Of
  <2>4. CASE Of(h, t) = {}
    BY <1>2, <2>1, <2>2, <2>4 DEF RecentPollsKept, LastFoldStands
  <2>5. CASE Of(h, t) # {}
    <3>1. PICK from \in {p.at : p \in Of(h, t)} : \A m \in {p.at : p \in Of(h, t)} : from <= m
      <4> DEFINE T == {p.at : p \in Of(h, t)}
      <4>1. T \in SUBSET Nat /\ T # {}
        BY <2>3, <2>5
      <4> HIDE DEF T
      <4>2. \E n \in T : \A m \in T : n <= m
        BY <4>1, LeastNatural
      <4> QED
        BY <4>2 DEF T
    <3>2. PICK first \in Of(h, t) : first.at = from
      BY <3>1
    <3>3. from \in Nat /\ \A p \in Gone(h, t) : p.at < from
      BY <1>2, <2>3, <3>2 DEF PollInv
    <3>4. \A p \in Gone(h, t) : ~(p.at >= from)
      BY <2>3, <3>3
    <3>5. \A p \in Of(h, t) : p.at >= from
      BY <2>3, <3>1, <3>3
    <3>6. {p \in Gone(h, t)' : p.at >= from} = Of(h, t)
      BY <2>1, <3>4, <3>5
    <3>7. from \in {p.at : p \in Gone(h, t)'} /\ Gone(h, t)' # {}
      BY <2>1, <3>2
    <3> QED
      BY <2>2, <2>5, <3>6, <3>7
  <2> QED
    BY <2>4, <2>5
<1>8. RecentPollsKept' /\ LastFoldStands'
  BY <1>6, <1>7 DEF RecentPollsKept, LastFoldStands
<1> QED
  BY <1>5, <1>8 DEF StatusInv

(* Every step of the poller and of the rollup keeps the invariant of the two  *)
(* tiers: no poll lies in the future, what is gone is older than what is kept,*)
(* and each row is the fold of what its hour lost last.                       *)
THEOREM StatusInductive == StatusSpec => []StatusInv
<1>1. StatusInit => StatusInv
  <2> SUFFICES ASSUME StatusInit PROVE StatusInv
    OBVIOUS
  <2>1. now = 0 /\ polls = {} /\ recorded = {} /\ hourly = [k \in Hours \X Targets |-> NoRow]
    BY DEF StatusInit
  <2>2. PollInv
    BY <2>1, StatusFacts DEF PollInv
  <2>3. RecentPollsKept /\ LastFoldStands
    BY <2>1 DEF RecentPollsKept, LastFoldStands, Gone
  <2> QED
    BY <2>2, <2>3 DEF StatusInv
<1>2. StatusInv /\ [StatusNext]_statusVars => StatusInv'
  <2> SUFFICES ASSUME StatusInv, [StatusNext]_statusVars PROVE StatusInv'
    OBVIOUS
  <2>1. ASSUME NEW lights \in [Targets -> Lights], PollAll(lights) PROVE StatusInv'
    BY <2>1, PollAllKeeps
  <2>2. CASE Rollup
    BY <2>2, RollupKeeps
  <2>3. CASE StatusTick
    BY <2>3, StatusTickKeeps
  <2>4. CASE UNCHANGED statusVars
    <3>1. UNCHANGED <<now, polls, hourly, recorded>>
      BY <2>4 DEF statusVars
    <3>2. PollInv' /\ (\A h, t : Gone(h, t)' = Gone(h, t))
      BY <3>1 DEF StatusInv, PollInv, Gone
    <3> QED
      BY <3>1, <3>2 DEF StatusInv, RecentPollsKept, LastFoldStands
  <2> QED
    BY <2>1, <2>2, <2>3, <2>4 DEF StatusNext
<1> QED
  BY <1>1, <1>2, PTL DEF StatusSpec

(* No poll of the last 28 days is deleted, and an hourly row is the fold of   *)
(* the polls of its hour that went last, however many hours pass and whenever *)
(* the rollup runs.  The row of an hour that went in two parts tells of the   *)
(* second only: WorstLight, which asks for both, is refuted by TLC.           *)
THEOREM StatusSafe == StatusSpec => [](RecentPollsKept /\ LastFoldStands)
<1>1. StatusInv => RecentPollsKept /\ LastFoldStands
  BY DEF StatusInv
<1> QED
  BY <1>1, StatusInductive, PTL

-------------------------------------------------------------------------------
(***************************************************************************)
(* Mesh samples.  A bucket is folded whole, by a row of its own, once it has*)
(* ended before the retention.                                             *)
(***************************************************************************)
LEMMA MeshFacts ==
    /\ BucketLength \in Nat /\ BucketLength >= 1 /\ MaxPerCall \in Nat /\ HotRetention \in Nat /\ MaxTime \in Nat
BY MeshConstantsOK

LEMMA Products ==
    ASSUME NEW a \in Nat, NEW b \in Nat, a <= b, NEW c \in Nat
    PROVE  a * c \in Nat /\ b * c \in Nat /\ a * c <= b * c
OBVIOUS

(* An instant lies in the bucket that starts at its BucketStart, and in no     *)
(* other one.                                                                 *)
LEMMA Buckets ==
    ASSUME NEW t \in Nat
    PROVE  /\ BucketStart(t) \in Nat /\ BucketStart(t) <= t /\ t < BucketStart(t) + BucketLength
           /\ \A u \in Nat : BucketStart(t) <= u /\ u < BucketStart(t) + BucketLength => BucketStart(u) = BucketStart(t)
<1>1. ASSUME NEW x \in Nat
      PROVE  /\ x \div BucketLength \in Nat
             /\ BucketStart(x) \in Nat /\ BucketStart(x) <= x /\ x < BucketStart(x) + BucketLength
             /\ x < (x \div BucketLength + 1) * BucketLength
  BY MeshFacts DEF BucketStart
<1>2. ASSUME NEW u \in Nat, BucketStart(t) <= u, u < BucketStart(t) + BucketLength
      PROVE  BucketStart(u) = BucketStart(t)
  <2> DEFINE p == t \div BucketLength
             q == u \div BucketLength
  <2>1. p \in Nat /\ q \in Nat /\ BucketStart(t) = p * BucketLength /\ BucketStart(u) = q * BucketLength
    BY <1>1 DEF BucketStart
  <2> HIDE DEF p, q
  <2>2. p + 1 <= q => FALSE
    BY <1>1, <1>2, <2>1, Products, MeshFacts
  <2>3. q + 1 <= p => FALSE
    BY <1>1, <1>2, <2>1, Products, MeshFacts
  <2> QED
    BY <2>1, <2>2, <2>3
<1> QED
  BY <1>1, <1>2

-------------------------------------------------------------------------------
(* Sums of readings.  MapThenSumSet takes one element after another, so the   *)
(* sum over a set is defined by that of a smaller one.                        *)
One(s) == CHOOSE x \in s : TRUE
Small(S, n) == {s \in SUBSET S : Cardinality(s) <= n}
Sums(g, T) ==
    /\ DOMAIN g = T
    /\ \A s \in T : g[s] = IF s = {} THEN 0 ELSE One(s).value + g[s \ {One(s)}]

LEMMA Smaller ==
    ASSUME NEW S, IsFiniteSet(S), NEW s \in SUBSET S, s # {}
    PROVE  /\ One(s) \in s /\ s \ {One(s)} \in SUBSET S
           /\ Cardinality(s) \in Nat \ {0} /\ Cardinality(s \ {One(s)}) = Cardinality(s) - 1
<1>1. One(s) \in s
  BY DEF One
<1>2. IsFiniteSet(s)
  BY FS_Subset
<1>3. Cardinality(s \ {One(s)}) = Cardinality(s) - 1
  BY <1>1, <1>2, FS_RemoveElement
<1>4. Cardinality(s) \in Nat /\ Cardinality(s) # 0
  BY <1>1, <1>2, FS_CardinalityType, FS_EmptySet
<1> QED
  BY <1>1, <1>3, <1>4

LEMMA SumsExist == ASSUME NEW S, IsFiniteSet(S) PROVE \E g : Sums(g, SUBSET S)
<1> DEFINE without == {n \in Nat : ~ \E g : Sums(g, Small(S, n))}
<1>1. without = {}
  <2> SUFFICES ASSUME without # {} PROVE FALSE
    OBVIOUS
  <2>1. PICK n \in without : \A m \in without : n <= m
    <3>1. without \in SUBSET Nat
      OBVIOUS
    <3> HIDE DEF without
    <3> QED
      BY <3>1, LeastNatural
  <2>2. n \in Nat /\ ~ \E g : Sums(g, Small(S, n))
    OBVIOUS
  <2>3. CASE n = 0
    <3> DEFINE g == [s \in Small(S, n) |-> 0]
    <3>1. ASSUME NEW s \in Small(S, n) PROVE s = {}
      <4>1. s \in SUBSET S /\ Cardinality(s) <= 0
        BY <2>3 DEF Small
      <4>2. s # {} => Cardinality(s) \in Nat \ {0}
        BY <4>1, Smaller
      <4> QED
        BY <4>1, <4>2
    <3>2. Sums(g, Small(S, n))
      BY <3>1 DEF Sums
    <3> QED
      BY <2>2, <3>2
  <2>4. CASE n # 0
    <3>1. n - 1 \in Nat /\ n - 1 \notin without
      BY <2>1, <2>2, <2>4
    <3>2. PICK f : Sums(f, Small(S, n - 1))
      BY <3>1
    <3> DEFINE g == [s \in Small(S, n) |-> IF s \in Small(S, n - 1) THEN f[s] ELSE One(s).value + f[s \ {One(s)}]]
    <3>3. ASSUME NEW s \in Small(S, n), s # {} PROVE s \ {One(s)} \in Small(S, n - 1) /\ s \ {One(s)} \in Small(S, n)
      <4>1. s \in SUBSET S /\ Cardinality(s) <= n
        BY DEF Small
      <4> QED
        BY <2>2, <3>3, <4>1, Smaller DEF Small
    <3>4. ASSUME NEW s \in Small(S, n) PROVE g[s] = IF s = {} THEN 0 ELSE One(s).value + g[s \ {One(s)}]
      <4>1. CASE s = {}
        <5>1. s \in Small(S, n - 1)
          BY <3>1, <4>1, FS_EmptySet DEF Small
        <5>2. f[s] = 0
          BY <3>2, <4>1, <5>1 DEF Sums
        <5> QED
          BY <4>1, <5>1, <5>2
      <4>2. CASE s # {}
        <5> DEFINE r == s \ {One(s)}
        <5>1. g[r] = f[r] /\ r \in Small(S, n - 1)
          BY <3>3, <4>2
        <5>2. g[s] = One(s).value + f[r]
          BY <3>2, <4>2, <5>1 DEF Sums
        <5> QED
          BY <4>2, <5>1, <5>2
      <4> QED
        BY <4>1, <4>2
    <3>5. Sums(g, Small(S, n))
      <4>1. DOMAIN g = Small(S, n)
        OBVIOUS
      <4> HIDE DEF g
      <4> QED
        BY <3>4, <4>1 DEF Sums
    <3> QED
      BY <2>2, <3>5
  <2> QED
    BY <2>3, <2>4
<1>2. Cardinality(S) \in Nat /\ \E g : Sums(g, Small(S, Cardinality(S)))
  BY <1>1, FS_CardinalityType
<1>3. Small(S, Cardinality(S)) = SUBSET S
  BY FS_Subset DEF Small
<1> QED
  BY <1>2, <1>3

LEMMA SumOfValues ==
    ASSUME NEW S, IsFiniteSet(S)
    PROVE  \E g : Sums(g, SUBSET S) /\ MapThenSumSet(LAMBDA s : s.value, S) = g[S]
<1> DEFINE E(g) == g = [s \in SUBSET S |-> IF s = {} THEN 0 ELSE One(s).value + g[s \ {One(s)}]]
           sum  == CHOOSE g : E(g)
<1>1. \E g : E(g)
  <2>1. PICK g : Sums(g, SUBSET S)
    BY SumsExist
  <2>2. E([s \in SUBSET S |-> g[s]])
    BY <2>1, Smaller DEF Sums
  <2> QED
    BY <2>2
<1>2. E(sum)
  BY <1>1
<1>3. MapThenSumSet(LAMBDA s : s.value, S) = sum[S]
  BY DEF MapThenSumSet, MapThenFoldSet, One
<1>4. Sums(sum, SUBSET S)
  <2> HIDE DEF sum
  <2> QED
    BY <1>2 DEF Sums
<1> QED
  BY <1>3, <1>4

(* A sum of natural numbers lies between the least of them and the greatest,  *)
(* as often as there are elements.                                            *)
LEMMA SumsBetween ==
    ASSUME NEW S, IsFiniteSet(S), \A x \in S : x.value \in Nat, NEW g, Sums(g, SUBSET S)
    PROVE  \A s \in SUBSET S : s # {} =>
               /\ g[s] \in Nat
               /\ \E x, y \in s : x.value * Cardinality(s) <= g[s] /\ g[s] <= y.value * Cardinality(s)
<1> DEFINE Bounded(s) == /\ g[s] \in Nat
                         /\ \E x, y \in s : x.value * Cardinality(s) <= g[s] /\ g[s] <= y.value * Cardinality(s)
           failing == {Cardinality(s) : s \in {u \in SUBSET S : u # {} /\ ~Bounded(u)}}
<1>1. CASE failing = {}
  BY <1>1
<1>2. CASE failing # {}
  <2>1. PICK n \in failing : \A m \in failing : n <= m
    <3>1. failing \in SUBSET Nat
      <4> HIDE DEF Bounded
      <4>1. \A u \in SUBSET S : u # {} => Cardinality(u) \in Nat
        BY Smaller
      <4> QED
        BY <4>1
    <3> HIDE DEF failing
    <3> QED
      BY <1>2, <3>1, LeastNatural
  <2>2. PICK s \in SUBSET S : s # {} /\ ~Bounded(s) /\ n = Cardinality(s)
    BY <2>1
  <2> DEFINE p == One(s)
             r == s \ {p}
             v == p.value
             c == Cardinality(s)
  <2>3. p \in s /\ r \in SUBSET S /\ c \in Nat \ {0} /\ Cardinality(r) = c - 1 /\ v \in Nat
    BY <2>2, Smaller
  <2>4. g[s] = v + g[r]
    BY <2>2 DEF Sums
  <2>5. CASE r = {}
    <3>1. g[r] = 0 /\ c = 1
      <4> HIDE DEF c, r
      <4>1. Cardinality(r) = 0
        BY <2>5, FS_EmptySet
      <4>2. c = 1
        BY <2>3, <4>1
      <4>3. g[{}] = 0
        BY DEF Sums
      <4> QED
        BY <2>5, <4>2, <4>3
    <3>2. v * 1 = v
      BY <2>3
    <3> QED
      BY <2>2, <2>3, <2>4, <3>1, <3>2
  <2>6. CASE r # {}
    <3>1. Bounded(r)
      <4>1. c - 1 \notin failing
        <5> HIDE DEF failing, c
        <5> QED
          BY <2>1, <2>2, <2>3 DEF c
      <4> HIDE DEF Bounded, r, c
      <4> QED
        BY <2>3, <2>6, <4>1
    <3>2. PICK x \in r, y \in r : x.value * (c - 1) <= g[r] /\ g[r] <= y.value * (c - 1) /\ g[r] \in Nat
      BY <2>3, <3>1
    <3> HIDE DEF p, c, v, failing, Bounded
    <3>3. x.value \in Nat /\ y.value \in Nat /\ c - 1 \in Nat
      BY <2>3
    <3>4. /\ \A a \in Nat : a * (c - 1) + a = a * c /\ a * (c - 1) \in Nat
          /\ \A a, b \in Nat : a <= b => a * (c - 1) <= b * (c - 1)
      BY <2>3, <3>3
    <3>5. \E z \in s : z.value * c <= g[s]
      <4>1. CASE v <= x.value
        <5>1. v * (c - 1) <= x.value * (c - 1) /\ v * (c - 1) + v = v * c /\ v * (c - 1) \in Nat /\ x.value * (c - 1) \in Nat
          BY <2>3, <3>3, <3>4, <4>1
        <5> QED
          BY <2>3, <2>4, <3>2, <5>1 DEF v
      <4>2. CASE x.value <= v
        <5>1. x.value * (c - 1) + x.value = x.value * c /\ x.value * (c - 1) \in Nat
          BY <3>3, <3>4
        <5> QED
          BY <2>3, <2>4, <3>2, <3>3, <4>2, <5>1
      <4> QED
        BY <2>3, <3>3, <4>1, <4>2
    <3>6. \E z \in s : g[s] <= z.value * c
      <4>1. CASE v <= y.value
        <5>1. y.value * (c - 1) + y.value = y.value * c /\ y.value * (c - 1) \in Nat
          BY <3>3, <3>4
        <5> QED
          BY <2>3, <2>4, <3>2, <3>3, <4>1, <5>1
      <4>2. CASE y.value <= v
        <5>1. y.value * (c - 1) <= v * (c - 1) /\ v * (c - 1) + v = v * c /\ v * (c - 1) \in Nat /\ y.value * (c - 1) \in Nat
          BY <2>3, <3>3, <3>4, <4>2
        <5> QED
          BY <2>3, <2>4, <3>2, <5>1 DEF v
      <4> QED
        BY <2>3, <3>3, <4>1, <4>2
    <3>7. g[s] \in Nat
      BY <2>3, <2>4, <3>2
    <3>8. Bounded(s)
      BY <3>5, <3>6, <3>7 DEF Bounded, c
    <3> QED
      BY <2>2, <3>8
  <2> QED
    BY <2>5, <2>6
<1> QED
  BY <1>1, <1>2

(* Averages. *)
Fraction(mean) == mean # NoMean => mean[1] \in Nat /\ mean[2] \in Nat \ {0}

LEMMA MeanWithin ==
    ASSUME NEW rows, IsFiniteSet(rows), \A s \in Readings(rows) : s.value \in Nat
    PROVE  Fraction(Mean(rows)) /\ Within(Mean(rows), {s.value : s \in Readings(rows)})
<1> DEFINE S == Readings(rows)
<1>1. IsFiniteSet(S)
  BY FS_Subset DEF Readings
<1>2. CASE S = {}
  BY <1>2 DEF Mean, Fraction, Within
<1>3. CASE S # {}
  <2>1. PICK g : Sums(g, SUBSET S) /\ MapThenSumSet(LAMBDA s : s.value, S) = g[S]
    <3> HIDE DEF S
    <3> QED
      BY <1>1, SumOfValues
  <2>2. Mean(rows) = <<g[S], Cardinality(S)>>
    BY <1>3, <2>1 DEF Mean
  <2>3. /\ g[S] \in Nat
        /\ \E x, y \in S : x.value * Cardinality(S) <= g[S] /\ g[S] <= y.value * Cardinality(S)
    <3> HIDE DEF S
    <3> QED
      BY <1>1, <1>3, <2>1, SumsBetween DEF S
  <2>4. Cardinality(S) \in Nat \ {0}
    BY <1>1, <1>3, Smaller
  <2> QED
    BY <2>2, <2>3, <2>4 DEF Fraction, Within
<1> QED
  BY <1>2, <1>3

(* A weighted sum of fractions that lie between readings lies between them.   *)
LEMMA Times == ASSUME NEW a \in Nat, NEW b \in Nat, a <= b, NEW c \in Nat
               PROVE  a * c \in Nat /\ b * c \in Nat /\ a * c <= b * c
OBVIOUS

LEMMA Scaled ==
    ASSUME NEW x \in Nat, NEW num \in Nat, NEW den \in Nat, NEW weight \in Nat, NEW w \in Nat, NEW n \in Nat, NEW d \in Nat
    PROVE  /\ num * d + w * n * den \in Nat
           /\ x * (den * weight) <= num /\ x * d <= n => x * ((den * d) * (weight + w)) <= num * d + w * n * den
           /\ num <= x * (den * weight) /\ n <= x * d => num * d + w * n * den <= x * ((den * d) * (weight + w))
<1>0. /\ den * weight \in Nat /\ x * (den * weight) \in Nat /\ x * d \in Nat /\ w * den \in Nat /\ num * d \in Nat
      /\ n * (w * den) \in Nat
  OBVIOUS
<1>1. (x * (den * weight)) * d + (x * d) * (w * den) = x * ((den * d) * (weight + w))
  OBVIOUS
<1>2. w * n * den = n * (w * den)
  OBVIOUS
<1>3. ASSUME x * (den * weight) <= num, x * d <= n PROVE x * ((den * d) * (weight + w)) <= num * d + w * n * den
  <2>1. (x * (den * weight)) * d <= num * d /\ (x * (den * weight)) * d \in Nat
    BY <1>0, <1>3, Times
  <2>2. (x * d) * (w * den) <= n * (w * den) /\ (x * d) * (w * den) \in Nat
    BY <1>0, <1>3, Times
  <2> QED
    BY <1>0, <1>1, <1>2, <2>1, <2>2
<1>4. ASSUME num <= x * (den * weight), n <= x * d PROVE num * d + w * n * den <= x * ((den * d) * (weight + w))
  <2>1. num * d <= (x * (den * weight)) * d /\ (x * (den * weight)) * d \in Nat
    BY <1>0, <1>4, Times
  <2>2. n * (w * den) <= (x * d) * (w * den) /\ (x * d) * (w * den) \in Nat
    BY <1>0, <1>4, Times
  <2> QED
    BY <1>0, <1>1, <1>2, <2>1, <2>2
<1>5. num * d + w * n * den \in Nat
  BY <1>0, <1>2
<1> QED
  BY <1>3, <1>4, <1>5

Between(sum, values) ==
    /\ sum.num \in Nat /\ sum.den \in Nat \ {0} /\ sum.weight \in Nat
    /\ IF sum.weight = 0 THEN sum.num = 0
       ELSE \E low, high \in values : low * (sum.den * sum.weight) <= sum.num /\ sum.num <= high * (sum.den * sum.weight)

LEMMA PlusKeeps ==
    ASSUME NEW values \in SUBSET Nat, NEW sum, Between(sum, values), NEW w \in Nat \ {0},
           NEW mean, Fraction(mean), Within(mean, values)
    PROVE  Between(Plus(sum, w, mean), values)
<1>1. CASE mean = NoMean
  BY <1>1 DEF Plus
<1>2. CASE mean # NoMean
  <2> DEFINE num    == sum.num
             den    == sum.den
             weight == sum.weight
             n      == mean[1]
             d      == mean[2]
  <2>1. num \in Nat /\ den \in Nat \ {0} /\ weight \in Nat /\ n \in Nat /\ d \in Nat \ {0}
    BY <1>2 DEF Between, Fraction
  <2>2. Plus(sum, w, mean) = [num |-> num * d + w * n * den, den |-> den * d, weight |-> weight + w]
    BY <1>2 DEF Plus
  <2>3. PICK low1 \in values, high1 \in values : low1 * d <= n /\ n <= high1 * d
    BY <1>2 DEF Within
  <2>4. \E low2, high2 \in values : low2 * (den * weight) <= num /\ num <= high2 * (den * weight)
    <3>1. CASE weight = 0
      <4>1. num = 0 /\ \A x \in Nat : x * (den * weight) = 0
        BY <2>1, <3>1 DEF Between
      <4> QED
        BY <2>3, <4>1
    <3>2. CASE weight # 0
      BY <3>2 DEF Between
    <3> QED
      BY <3>1, <3>2
  <2>5. PICK low2 \in values, high2 \in values : low2 * (den * weight) <= num /\ num <= high2 * (den * weight)
    BY <2>4
  <2> HIDE DEF num, den, weight, n, d
  <2>6. \E low \in values : low * d <= n /\ low * (den * weight) <= num
    <3>1. CASE low1 <= low2
      BY <2>1, <2>3, <2>5, <3>1, Times
    <3>2. CASE low2 <= low1
      BY <2>1, <2>3, <2>5, <3>2, Times
    <3> QED
      BY <3>1, <3>2
  <2>7. \E high \in values : n <= high * d /\ num <= high * (den * weight)
    <3>1. CASE high1 <= high2
      BY <2>1, <2>3, <2>5, <3>1, Times
    <3>2. CASE high2 <= high1
      BY <2>1, <2>3, <2>5, <3>2, Times
    <3> QED
      BY <3>1, <3>2
  <2>8. PICK low \in values, high \in values : /\ low * d <= n /\ low * (den * weight) <= num
                                             /\ n <= high * d /\ num <= high * (den * weight)
    BY <2>6, <2>7
  <2> DEFINE total == num * d + w * n * den
  <2>9. /\ total \in Nat /\ low * ((den * d) * (weight + w)) <= total /\ total <= high * ((den * d) * (weight + w))
    BY <2>1, <2>8, Scaled
  <2>10. den * d \in Nat \ {0} /\ weight + w \in Nat \ {0}
    BY <2>1
  <2> HIDE DEF total
  <2> QED
    BY <2>2, <2>9, <2>10 DEF Between, total
<1> QED
  BY <1>1, <1>2

LEMMA WeightedWithin ==
    ASSUME NEW values \in SUBSET Nat, NEW a, NEW b, NEW c, NEW d, NEW e,
           \A mean \in {a, b, c, d, e} : Fraction(mean) /\ Within(mean, values)
    PROVE  Fraction(Weighted(a, b, c, d, e)) /\ Within(Weighted(a, b, c, d, e), values)
<1> DEFINE sum0  == Nothing
           sum1  == Plus(sum0, 3, a)
           sum2  == Plus(sum1, 8, b)
           sum3  == Plus(sum2, 5, c)
           sum4  == Plus(sum3, 3, d)
           sum == Plus(sum4, 1, e)
<1>1. Between(sum0, values)
  BY DEF Between, Nothing
<1> HIDE DEF sum0
<1>2. Between(sum1, values)
  BY <1>1, PlusKeeps
<1> HIDE DEF sum1
<1>3. Between(sum2, values)
  BY <1>2, PlusKeeps
<1> HIDE DEF sum2
<1>4. Between(sum3, values)
  BY <1>3, PlusKeeps
<1> HIDE DEF sum3
<1>5. Between(sum4, values)
  BY <1>4, PlusKeeps
<1> HIDE DEF sum4
<1>6. Between(sum, values)
  BY <1>5, PlusKeeps
<1>7. Weighted(a, b, c, d, e) = IF sum.weight = 0 THEN NoMean ELSE <<sum.num, sum.den * sum.weight>>
  BY DEF Weighted, WeightOf, sum0, sum1, sum2, sum3, sum4
<1> HIDE DEF sum
<1>8. sum.weight # 0 => sum.den * sum.weight \in Nat \ {0} /\ sum.num \in Nat
  BY <1>6 DEF Between
<1>9. CASE sum.weight = 0
  BY <1>7, <1>9 DEF Fraction, Within
<1>10. CASE sum.weight # 0
  <2> DEFINE w == Weighted(a, b, c, d, e)
  <2>1. w = <<sum.num, sum.den * sum.weight>>
    BY <1>7, <1>10
  <2>2. w[1] = sum.num /\ w[2] = sum.den * sum.weight
    BY <2>1
  <2> HIDE DEF w
  <2>3. Fraction(w)
    BY <1>8, <1>10, <2>2 DEF Fraction
  <2>4. Within(w, values)
    BY <1>6, <1>10, <2>2 DEF Between, Within
  <2> QED
    BY <2>3, <2>4 DEF w
<1> QED
  BY <1>9, <1>10

-------------------------------------------------------------------------------
RowsOf(c, s) == {r \in c : r.host = s.host /\ r.bucket = BucketStart(s.at)}
AllOf(s)     == InBucket(taken, s.host, BucketStart(s.at))

SamplesInv ==
    /\ time \in 0..MaxTime /\ taken \subseteq Sample /\ IsFiniteSet(taken)
    /\ \A s \in taken : s.at <= time

(* The tiers h and c hold the samples between them: a bucket without a row is *)
(* still whole, one with a row is gone and the row is of all of it.  A row's  *)
(* bucket had ended before the retention, and what is hot is younger.         *)
Tiered(h, c) ==
    /\ h \subseteq taken
    /\ \A s \in taken :
         /\ RowsOf(c, s) = {} => AllOf(s) \subseteq h
         /\ RowsOf(c, s) # {} =>
              /\ AllOf(s) \cap h = {} /\ Cardinality(RowsOf(c, s)) = 1
              /\ \A r \in RowsOf(c, s) : r.count = Cardinality(AllOf(s)) /\ r.max = MaxOf(AllOf(s))
    /\ \A r \in c :
         /\ r.host \in Hosts /\ r.bucket \in Nat /\ r.bucket + BucketLength < time - HotRetention
         /\ InBucket(taken, r.host, r.bucket) # {}
         /\ \A s \in h : s.host = r.host => s.at >= r.bucket + BucketLength

(* The smoothed readings of a tier are averages of what was read, of a finite *)
(* number of samples.                                                         *)
Averaged(c) ==
    \A r \in c : r.count \in Nat /\ Fraction(r.smoothed) /\ Within(r.smoothed, ReadUpTo(r.host, r.bucket + 4 * BucketLength))

MeshInv == SamplesInv /\ Tiered(hot, cold) /\ Averaged(cold)

LEMMA SampleFacts ==
    ASSUME SamplesInv
    PROVE  /\ time \in Nat
           /\ \A s \in taken : /\ s.at \in Nat /\ s.at <= time /\ s.host \in Hosts
                               /\ BucketStart(s.at) \in Nat /\ BucketStart(s.at) <= s.at
                               /\ s.at < BucketStart(s.at) + BucketLength /\ s \in AllOf(s)
<1>1. \A s \in taken : s.at \in Nat /\ s.at <= time /\ s.host \in Hosts
  BY DEF SamplesInv, Sample
<1>2. \A s \in taken : /\ BucketStart(s.at) \in Nat /\ BucketStart(s.at) <= s.at /\ s.at < BucketStart(s.at) + BucketLength
  BY <1>1, Buckets
<1>3. time \in Nat
  BY MeshFacts DEF SamplesInv
<1> QED
  BY <1>1, <1>2, <1>3 DEF AllOf, InBucket

(* Two samples share all of their bucket or none of it. *)
LEMMA SameBucket ==
    ASSUME SamplesInv, NEW s \in taken, NEW o \in taken
    PROVE  o \in AllOf(s) <=> (o.host = s.host /\ BucketStart(o.at) = BucketStart(s.at))
<1>1. o.at \in Nat /\ s.at \in Nat
  BY SampleFacts
<1>2. /\ BucketStart(o.at) <= o.at /\ o.at < BucketStart(o.at) + BucketLength
      /\ BucketStart(s.at) <= o.at /\ o.at < BucketStart(s.at) + BucketLength => BucketStart(o.at) = BucketStart(s.at)
  BY <1>1, Buckets
<1> QED
  BY <1>1, <1>2 DEF AllOf, InBucket

(* Folding the bucket of the oldest aged sample: it is whole, it has ended,    *)
(* and what stays hot of its host lies behind it.                             *)
LEMMA RolledKeeps ==
    ASSUME SamplesInv, NEW h, NEW c, Tiered(h, c), NEW s \in Oldest(h),
           NEW sm, NEW row, row = [host |-> s.host, bucket |-> BucketStart(s.at),
                                   count |-> Cardinality(InBucket(h, s.host, BucketStart(s.at))),
                                   max |-> MaxOf(InBucket(h, s.host, BucketStart(s.at))), smoothed |-> sm]
    PROVE  Tiered(h \ InBucket(h, s.host, BucketStart(s.at)), c \cup {row})
<1> DEFINE b == BucketStart(s.at)
           samples == InBucket(h, s.host, b)
           hh == h \ samples
           cc == c \cup {row}
<1>1. s \in h /\ s \in taken /\ s.at < time - HotRetention - BucketLength /\ \A o \in h : s.at <= o.at
  BY DEF Oldest, Aged, Tiered
<1>2. /\ time \in Nat /\ s.at \in Nat /\ s.host \in Hosts /\ b \in Nat /\ b <= s.at /\ s.at < b + BucketLength /\ s \in AllOf(s)
      /\ HotRetention \in Nat /\ BucketLength \in Nat
  BY <1>1, SampleFacts, MeshFacts
<1>3. RowsOf(c, s) = {} /\ AllOf(s) \subseteq h
  BY <1>1, <1>2 DEF Tiered
<1>4. samples = AllOf(s)
  BY <1>3 DEF Tiered, AllOf, InBucket
<1>5. row.host = s.host /\ row.bucket = b /\ row.count = Cardinality(AllOf(s)) /\ row.max = MaxOf(AllOf(s))
  BY <1>4
<1>6. \A o \in samples : o.host = s.host /\ o \in taken
  BY DEF InBucket, Tiered
<1>7. \A o \in hh : o \in h /\ (o.host = s.host => o.at >= b + BucketLength)
  <2> SUFFICES ASSUME NEW o \in hh, o.host = s.host PROVE o.at >= b + BucketLength
    OBVIOUS
  <2>1. o \in taken /\ o.at \in Nat /\ s.at <= o.at
    BY <1>1, SampleFacts DEF Tiered
  <2>2. ~(o.at >= b /\ o.at < b + BucketLength)
    BY DEF InBucket
  <2> QED
    BY <1>2, <2>1, <2>2
<1> HIDE DEF b, samples
<1>8. ASSUME NEW o \in taken
      PROVE  /\ RowsOf(cc, o) = {} => AllOf(o) \subseteq hh
             /\ RowsOf(cc, o) # {} =>
                  /\ AllOf(o) \cap hh = {} /\ Cardinality(RowsOf(cc, o)) = 1
                  /\ \A r \in RowsOf(cc, o) : r.count = Cardinality(AllOf(o)) /\ r.max = MaxOf(AllOf(o))
  <2>1. CASE o.host = s.host /\ BucketStart(o.at) = b
    <3>1. AllOf(o) = AllOf(s)
      BY <2>1 DEF AllOf, b
    <3>2. RowsOf(cc, o) = {row}
      BY <1>3, <1>5, <2>1 DEF RowsOf, b
    <3>3. Cardinality({row}) = 1
      BY FS_Singleton
    <3> QED
      BY <1>4, <1>5, <3>1, <3>2, <3>3
  <2>2. CASE ~(o.host = s.host /\ BucketStart(o.at) = b)
    <3>1. RowsOf(cc, o) = RowsOf(c, o)
      BY <1>5, <2>2 DEF RowsOf
    <3>2. AllOf(o) \cap samples = {}
      <4> SUFFICES ASSUME NEW x \in taken, x \in AllOf(o), x \in AllOf(s) PROVE FALSE
        BY <1>4, <1>6
      <4> QED
        BY <1>1, <2>2, SameBucket DEF b
    <3> QED
      BY <3>1, <3>2 DEF Tiered
  <2> QED
    BY <2>1, <2>2
<1>9. ASSUME NEW r \in cc
      PROVE  /\ r.host \in Hosts /\ r.bucket \in Nat /\ r.bucket + BucketLength < time - HotRetention
             /\ InBucket(taken, r.host, r.bucket) # {}
             /\ \A o \in hh : o.host = r.host => o.at >= r.bucket + BucketLength
  <2>1. CASE r \in c
    BY <2>1, <1>7 DEF Tiered
  <2>2. CASE r = row
    <3>1. b + BucketLength < time - HotRetention
      BY <1>1, <1>2
    <3>2. InBucket(taken, s.host, b) # {}
      BY <1>2 DEF AllOf, b
    <3> QED
      BY <1>2, <1>5, <1>7, <2>2, <3>1, <3>2
  <2> QED
    BY <2>1, <2>2
<1>10. hh \subseteq taken
  BY DEF Tiered
<1>11. Tiered(hh, cc)
  BY <1>8, <1>9, <1>10 DEF Tiered
<1> QED
  BY <1>11 DEF b, samples

LEMMA WithinMore ==
    ASSUME NEW mean, NEW some, NEW more, some \subseteq more, Within(mean, some) PROVE Within(mean, more)
BY DEF Within

(* What a bucket is smoothed with was read before the look-ahead ends: the     *)
(* samples of the four buckets, and by the row before it what that was        *)
(* smoothed with.                                                             *)
LEMMA SmoothedAverages ==
    ASSUME SamplesInv, NEW h, NEW c, Tiered(h, c), Averaged(c), NEW host \in Hosts, NEW b \in Nat
    PROVE  /\ Fraction(Smoothed(host, b, h, c))
           /\ Within(Smoothed(host, b, h, c), ReadUpTo(host, b + 4 * BucketLength))
<1> DEFINE values == ReadUpTo(host, b + 4 * BucketLength)
           of(n)  == Mean(InBucket(h, host, b + n * BucketLength))
           before == {r \in c : r.host = host /\ r.bucket < b}
           last   == IF before = {} THEN NoMean ELSE Latest(before).smoothed
<1>1. BucketLength \in Nat /\ \A o \in taken : o.at \in Nat /\ (o.value # Null => o.value \in Nat)
  BY MeshFacts, SampleFacts, MeshConstantsOK DEF SamplesInv, Sample
<1>2. values \in SUBSET Nat
  BY <1>1 DEF ReadUpTo, Readings
<1>3. ASSUME NEW n \in 0..3 PROVE Fraction(of(n)) /\ Within(of(n), values)
  <2> DEFINE rows == InBucket(h, host, b + n * BucketLength)
  <2>1. rows \subseteq taken /\ IsFiniteSet(rows)
    <3>1. rows \subseteq taken
      BY DEF InBucket, Tiered
    <3> QED
      BY <3>1, FS_Subset DEF SamplesInv
  <2>2. \A s \in Readings(rows) : s.value \in Nat
    BY <1>1, <2>1 DEF Readings
  <2>3. {s.value : s \in Readings(rows)} \subseteq values
    <3> SUFFICES ASSUME NEW s \in Readings(rows) PROVE s \in Readings(taken) /\ s.host = host /\ s.at < b + 4 * BucketLength
      BY DEF ReadUpTo
    <3>1. s \in taken /\ s.host = host /\ s.at < b + n * BucketLength + BucketLength /\ s.value # Null
      BY <2>1 DEF Readings, InBucket
    <3>2. n * BucketLength + BucketLength <= 4 * BucketLength /\ n * BucketLength \in Nat
      BY <1>1
    <3> QED
      BY <1>1, <3>1, <3>2 DEF Readings
  <2> HIDE DEF rows, values
  <2>4. Fraction(Mean(rows)) /\ Within(Mean(rows), {s.value : s \in Readings(rows)})
    BY <2>1, <2>2, MeanWithin
  <2>5. Within(Mean(rows), values)
    BY <2>3, <2>4, WithinMore
  <2> QED
    BY <2>4, <2>5 DEF rows
<1>4. Fraction(last) /\ Within(last, values)
  <2>1. CASE before = {}
    BY <2>1 DEF Fraction, Within
  <2>2. CASE before # {}
    <3>1. Latest(before) \in before
      <4> DEFINE gaps == {b - r.bucket : r \in before}
      <4>1. \A r \in before : r.bucket \in Nat /\ b - r.bucket \in Nat
        BY DEF Tiered
      <4>2. PICK g \in gaps : \A o \in gaps : g <= o
        <5>1. gaps \in SUBSET Nat /\ gaps # {}
          BY <2>2, <4>1
        <5> HIDE DEF gaps
        <5> QED
          BY <5>1, LeastNatural
      <4>3. PICK top \in before : \A o \in before : b - top.bucket <= b - o.bucket
        BY <4>2
      <4>4. \A o \in before : o.bucket <= top.bucket
        BY <4>1, <4>3
      <4> HIDE DEF before
      <4> QED
        BY <4>4 DEF Latest
    <3> DEFINE r == Latest(before)
    <3>2. r \in c /\ r.host = host /\ r.bucket < b /\ r.bucket \in Nat /\ last = r.smoothed
      BY <2>2, <3>1 DEF Tiered
    <3> HIDE DEF r, last, values
    <3>3. Fraction(last) /\ Within(last, ReadUpTo(host, r.bucket + 4 * BucketLength))
      BY <3>2 DEF Averaged
    <3>4. ReadUpTo(host, r.bucket + 4 * BucketLength) \subseteq values
      <4>1. \A o \in taken : o.at < r.bucket + 4 * BucketLength => o.at < b + 4 * BucketLength
        BY <1>1, <3>2
      <4> QED
        BY <4>1 DEF ReadUpTo, Readings, values
    <3> QED
      BY <3>3, <3>4, WithinMore
  <2> QED
    BY <2>1, <2>2
<1>5. Smoothed(host, b, h, c) = Weighted(last, of(0), of(1), of(2), of(3))
  BY DEF Smoothed
<1> HIDE DEF last, of, values
<1>6. \A mean \in {last, of(0), of(1), of(2), of(3)} : Fraction(mean) /\ Within(mean, values)
  BY <1>3, <1>4
<1> QED
  BY <1>2, <1>5, <1>6, WeightedWithin DEF values
-------------------------------------------------------------------------------
(* The recursion of After: one more bucket of any state that n leave.          *)
Start        == {[hot |-> hot, cold |-> cold]}
NextTiers(T) == UNION {IF Oldest(tiers.hot) = {} THEN {tiers} ELSE {Rolled(tiers, s) : s \in Oldest(tiers.hot)} : tiers \in T}
Unrolls(g, k)  == DOMAIN g = 0..k /\ g[0] = Start /\ \A n \in 1..k : g[n] = NextTiers(g[n - 1])

(* Two chains agree as far as both go. *)
LEMMA ChainsAgree ==
    ASSUME NEW g, NEW h, NEW k \in Nat, NEW l \in Nat, k <= l, Unrolls(g, k), Unrolls(h, l)
    PROVE  \A n \in 0..k : g[n] = h[n]
<1> DEFINE apart == {n \in 0..k : g[n] # h[n]}
<1>1. CASE apart = {}
  BY <1>1
<1>2. CASE apart # {}
  <2>1. PICK n \in apart : \A m \in apart : n <= m
    <3>1. apart \in SUBSET Nat
      OBVIOUS
    <3> HIDE DEF apart
    <3> QED
      BY <1>2, <3>1, LeastNatural
  <2>2. n \in 0..k /\ g[n] # h[n] /\ n \in Nat
    OBVIOUS
  <2>3. n # 0
    BY <2>2 DEF Unrolls
  <2>4. n - 1 \in 0..k /\ n - 1 \notin apart /\ n \in 1..k /\ n \in 1..l
    BY <2>1, <2>2, <2>3
  <2>5. g[n - 1] = h[n - 1]
    BY <2>4
  <2>6. g[n] = NextTiers(g[n - 1]) /\ h[n] = NextTiers(h[n - 1])
    BY <2>4 DEF Unrolls
  <2> QED
    BY <2>2, <2>5, <2>6
<1> QED
  BY <1>1, <1>2

(* There is a chain of every length. *)
LEMMA ChainsExist == \A k \in Nat : \E g : Unrolls(g, k)
<1> DEFINE without == {k \in Nat : ~ \E g : Unrolls(g, k)}
<1>1. CASE without = {}
  BY <1>1
<1>2. CASE without # {}
  <2>1. PICK k \in without : \A m \in without : k <= m
    <3>1. without \in SUBSET Nat
      OBVIOUS
    <3> HIDE DEF without
    <3> QED
      BY <1>2, <3>1, LeastNatural
  <2>2. CASE k = 0
    <3> DEFINE g == [n \in 0..0 |-> Start]
    <3>1. Unrolls(g, 0)
      BY DEF Unrolls
    <3> QED
      BY <2>2, <3>1
  <2>3. CASE k # 0
    <3>1. k - 1 \in Nat /\ k - 1 \notin without
      BY <2>1, <2>3
    <3>2. PICK f : Unrolls(f, k - 1)
      BY <3>1
    <3> DEFINE g == [n \in 0..k |-> IF n = k THEN NextTiers(f[k - 1]) ELSE f[n]]
    <3>3. DOMAIN g = 0..k /\ g[0] = Start
      BY <2>3, <3>1, <3>2 DEF Unrolls
    <3>4. ASSUME NEW n \in 1..k PROVE g[n] = NextTiers(g[n - 1])
      <4>1. g[n - 1] = f[n - 1]
        BY <3>1
      <4>2. CASE n = k
        BY <3>1, <4>1, <4>2
      <4>3. CASE n # k
        <5>1. n \in 1..(k - 1) /\ g[n] = f[n]
          BY <3>1, <4>3
        <5> QED
          BY <3>2, <4>1, <5>1 DEF Unrolls
      <4> QED
        BY <4>2, <4>3
    <3>5. Unrolls(g, k)
      BY <3>3, <3>4 DEF Unrolls
    <3> QED
      BY <3>5
  <2> QED
    BY <2>2, <2>3
<1> QED
  BY <1>1, <1>2

LEMMA AfterEquation == After = [n \in Nat |-> IF n = 0 THEN Start ELSE NextTiers(After[n - 1])]
<1> DEFINE chain(k) == CHOOSE g : Unrolls(g, k)
           f == [n \in Nat |-> chain(n)[n]]
<1>1. \A k \in Nat : Unrolls(chain(k), k)
  BY ChainsExist
<1>2. ASSUME NEW n \in Nat PROVE f[n] = IF n = 0 THEN Start ELSE NextTiers(f[n - 1])
  <2>1. f[n] = chain(n)[n] /\ (n # 0 => f[n - 1] = chain(n - 1)[n - 1])
    OBVIOUS
  <2>2. Unrolls(chain(n), n) /\ (n # 0 => Unrolls(chain(n - 1), n - 1))
    BY <1>1
  <2> HIDE DEF f, chain
  <2>3. CASE n = 0
    BY <2>1, <2>2, <2>3 DEF Unrolls
  <2>4. CASE n # 0
    <3>1. chain(n - 1)[n - 1] = chain(n)[n - 1]
      <4>1. n - 1 \in Nat /\ n - 1 <= n /\ n - 1 \in 0..(n - 1)
        BY <2>4
      <4> QED
        BY <2>2, <2>4, <4>1, ChainsAgree
    <3>2. chain(n)[n] = NextTiers(chain(n)[n - 1])
      BY <2>2, <2>4 DEF Unrolls
    <3> QED
      BY <2>1, <2>4, <3>1, <3>2
  <2> QED
    BY <2>3, <2>4
<1>3. f = [n \in Nat |-> IF n = 0 THEN Start ELSE NextTiers(f[n - 1])]
  <2>1. f = [n \in Nat |-> f[n]]
    OBVIOUS
  <2> HIDE DEF f
  <2> QED
    BY <1>2, <2>1
<1> HIDE DEF f
<1>4. \E a : a = [n \in Nat |-> IF n = 0 THEN Start ELSE NextTiers(a[n - 1])]
  BY <1>3
<1>5. After = CHOOSE a : a = [n \in Nat |-> IF n = 0 THEN Start ELSE NextTiers(a[n - 1])]
  BY DEF After, NextTiers, Start
<1> QED
  BY <1>4, <1>5
(* Folding keeps the tiers, however many buckets it takes. *)
LEMMA AfterKeeps ==
    ASSUME MeshInv
    PROVE  \A n \in Nat : \A tiers \in After[n] : Tiered(tiers.hot, tiers.cold) /\ Averaged(tiers.cold)
<1> DEFINE bad == {n \in Nat : ~ \A tiers \in After[n] : Tiered(tiers.hot, tiers.cold) /\ Averaged(tiers.cold)}
<1>1. CASE bad = {}
  BY <1>1
<1>2. CASE bad # {}
  <2>1. PICK n \in bad : \A m \in bad : n <= m
    <3>1. bad \in SUBSET Nat
      OBVIOUS
    <3> HIDE DEF bad
    <3> QED
      BY <1>2, <3>1, LeastNatural
  <2>2. PICK tiers \in After[n] : ~(Tiered(tiers.hot, tiers.cold) /\ Averaged(tiers.cold))
    OBVIOUS
  <2>3. CASE n = 0
    <3>1. After[n] = Start
      BY <2>3, AfterEquation
    <3>2. tiers.hot = hot /\ tiers.cold = cold
      BY <2>2, <3>1 DEF Start
    <3> QED
      BY <2>2, <3>2 DEF MeshInv
  <2>4. CASE n # 0
    <3>1. n - 1 \in Nat /\ n - 1 \notin bad
      BY <2>1, <2>4
    <3>2. \A t \in After[n - 1] : Tiered(t.hot, t.cold) /\ Averaged(t.cold)
      BY <3>1
    <3>3. After[n] = NextTiers(After[n - 1])
      <4>1. n \in Nat
        OBVIOUS
      <4> HIDE DEF bad
      <4> QED
        BY <2>4, <4>1, AfterEquation
    <3>4. PICK t \in After[n - 1] : tiers \in IF Oldest(t.hot) = {} THEN {t} ELSE {Rolled(t, s) : s \in Oldest(t.hot)}
      BY <2>2, <3>3 DEF NextTiers
    <3>5. PICK s \in Oldest(t.hot) : tiers = Rolled(t, s)
      BY <2>2, <3>2, <3>4
    <3> DEFINE samples == InBucket(t.hot, s.host, BucketStart(s.at))
               sm == Smoothed(s.host, BucketStart(s.at), t.hot, t.cold)
               row == [host |-> s.host, bucket |-> BucketStart(s.at), count |-> Cardinality(samples),
                       max |-> MaxOf(samples), smoothed |-> sm]
    <3>6. tiers.hot = t.hot \ samples /\ tiers.cold = t.cold \cup {row}
      BY <3>5 DEF Rolled
    <3>7. Tiered(t.hot \ samples, t.cold \cup {row})
      <4> HIDE DEF sm
      <4> QED
        BY <3>2, RolledKeeps DEF MeshInv
    <3>8. Averaged(t.cold \cup {row})
      <4>1. SamplesInv /\ Tiered(t.hot, t.cold) /\ Averaged(t.cold)
        BY <3>2 DEF MeshInv
      <4>2. s \in taken
        BY <4>1 DEF Oldest, Aged, Tiered
      <4>3. s.host \in Hosts /\ BucketStart(s.at) \in Nat
        BY <4>1, <4>2, SampleFacts
      <4>4. Fraction(sm) /\ Within(sm, ReadUpTo(s.host, BucketStart(s.at) + 4 * BucketLength))
        BY <4>1, <4>3, SmoothedAverages
      <4>5. row.smoothed = sm /\ row.host = s.host /\ row.bucket = BucketStart(s.at) /\ row.count = Cardinality(samples)
        OBVIOUS
      <4>6. Cardinality(samples) \in Nat
        <5>1. samples \subseteq taken
          BY <4>1 DEF InBucket, Tiered
        <5> QED
          BY <4>1, <5>1, FS_Subset, FS_CardinalityType DEF SamplesInv
      <4> HIDE DEF sm, row, samples
      <4> QED
        BY <4>1, <4>4, <4>5, <4>6 DEF Averaged
    <3> QED
      BY <2>2, <3>6, <3>7, <3>8
  <2> QED
    BY <2>3, <2>4
<1> QED
  BY <1>1, <1>2

(* Samples of now are in no bucket that has a row. *)
LEMMA SnapshotKeeps ==
    ASSUME MeshInv, NEW up \in SUBSET Hosts, NEW readings \in [up -> Values \cup {Null}], Snapshot(readings)
    PROVE  MeshInv'
<1> DEFINE rows == {[host |-> h, at |-> time, value |-> readings[h]] : h \in DOMAIN readings}
<1>1. hot' = hot \cup rows /\ taken' = taken \cup rows /\ UNCHANGED <<time, cold>> /\ ~ \E s \in taken : s.at = time
  BY DEF Snapshot
<1>2. SamplesInv /\ Tiered(hot, cold) /\ time \in Nat /\ HotRetention \in Nat /\ BucketLength \in Nat
  BY SampleFacts, MeshFacts DEF MeshInv
<1>3. rows \subseteq Sample /\ \A s \in rows : s.at = time
  BY <1>2 DEF Sample
<1> HIDE DEF rows
<1>4. SamplesInv'
  <2>1. IsFiniteSet(rows)
    <3>1. IsFiniteSet(up)
      BY FS_Subset, MeshConstantsOK
    <3>2. IsFiniteSet({[host |-> h, at |-> time, value |-> readings[h]] : h \in up})
      <4> DEFINE f == [h \in up |-> [host |-> h, at |-> time, value |-> readings[h]]]
                 T == {f[h] : h \in up}
      <4>1. f \in Surjection(up, T)
        BY DEF Surjection
      <4>2. IsFiniteSet(T)
        <5> HIDE DEF T, f
        <5> QED
          BY <3>1, <4>1, FS_Surjection
      <4> QED
        BY <4>2
    <3> QED
      BY <3>2 DEF rows
  <2>2. IsFiniteSet(taken')
    BY <1>1, <1>2, <2>1, FS_Union DEF SamplesInv
  <2> QED
    BY <1>1, <1>2, <1>3, <2>2 DEF SamplesInv
<1>5. \A s \in taken' : /\ s.at \in Nat /\ s.at <= time /\ s.host \in Hosts
                        /\ BucketStart(s.at) \in Nat /\ BucketStart(s.at) <= s.at
                        /\ s.at < BucketStart(s.at) + BucketLength
  <2>1. \A s \in taken' : s.at \in Nat /\ s.at <= time /\ s.host \in Hosts
    BY <1>1, <1>4 DEF SamplesInv, Sample
  <2> QED
    BY <2>1, Buckets
<1>6. \A s : AllOf(s) \subseteq AllOf(s)' /\ AllOf(s)' \subseteq AllOf(s) \cup rows
  BY <1>1 DEF AllOf, InBucket
<1>7. \A r \in cold : r.bucket \in Nat /\ r.bucket + BucketLength < time - HotRetention /\ ~(time < r.bucket + BucketLength)
  BY <1>2 DEF Tiered
<1>8. ASSUME NEW s \in taken', RowsOf(cold, s) # {} PROVE s \in taken /\ AllOf(s)' = AllOf(s)
  <2>1. PICK r \in cold : r.bucket = BucketStart(s.at)
    BY <1>8 DEF RowsOf
  <2>2. ~(time < BucketStart(s.at) + BucketLength)
    BY <1>7, <2>1
  <2>3. s.at # time
    BY <1>5, <2>2
  <2>4. \A o \in rows : o \notin AllOf(s)'
    BY <1>3, <2>2 DEF AllOf, InBucket
  <2> QED
    BY <1>1, <1>3, <1>6, <2>3, <2>4
<1>9. ASSUME NEW s \in taken', RowsOf(cold, s) = {} PROVE AllOf(s)' \subseteq hot'
  <2> SUFFICES ASSUME NEW o \in taken, o \in AllOf(s)' PROVE o \in hot
    BY <1>1, <1>6 DEF AllOf, InBucket
  <2>1. o.host = s.host /\ BucketStart(o.at) = BucketStart(s.at)
    <3>1. o.host = s.host /\ BucketStart(s.at) <= o.at /\ o.at < BucketStart(s.at) + BucketLength
      BY <1>1, <1>5 DEF AllOf, InBucket
    <3>2. o.at \in Nat /\ s.at \in Nat
      BY <1>1, <1>5
    <3> QED
      BY <3>1, <3>2, Buckets
  <2>2. RowsOf(cold, o) = {}
    BY <1>9, <2>1 DEF RowsOf
  <2>3. AllOf(o) \subseteq hot /\ o \in AllOf(o)
    BY <1>2, <2>2, SampleFacts DEF Tiered
  <2> QED
    BY <2>3
<1>10. ASSUME NEW s \in taken', RowsOf(cold, s) # {}
       PROVE  /\ AllOf(s)' \cap hot' = {} /\ Cardinality(RowsOf(cold, s)) = 1
              /\ \A r \in RowsOf(cold, s) : r.count = Cardinality(AllOf(s)') /\ r.max = MaxOf(AllOf(s)')
  <2>1. s \in taken /\ AllOf(s)' = AllOf(s)
    BY <1>8, <1>10
  <2>2. AllOf(s) \cap rows = {}
    BY <1>1, <1>3 DEF AllOf, InBucket
  <2> QED
    BY <1>1, <1>2, <1>10, <2>1, <2>2 DEF Tiered
<1>11. ASSUME NEW r \in cold
       PROVE  /\ InBucket(taken', r.host, r.bucket) # {}
              /\ \A s \in hot' : s.host = r.host => s.at >= r.bucket + BucketLength
  <2>1. InBucket(taken, r.host, r.bucket) \subseteq InBucket(taken', r.host, r.bucket)
    BY <1>1 DEF InBucket
  <2>2. \A s \in rows : s.at >= r.bucket + BucketLength
    BY <1>2, <1>3, <1>7
  <2> QED
    BY <1>1, <1>2, <2>1, <2>2 DEF Tiered
<1>12. Tiered(hot, cold)'
  <2>1. hot' \subseteq taken'
    BY <1>1, <1>2 DEF Tiered
  <2>2. \A s : RowsOf(cold, s)' = RowsOf(cold, s)
    BY <1>1 DEF RowsOf
  <2>3. \A r \in cold : r.host \in Hosts
    BY <1>2 DEF Tiered
  <2> QED
    BY <1>1, <1>7, <1>9, <1>10, <1>11, <2>1, <2>2, <2>3 DEF Tiered
<1>13. Averaged(cold)'
  <2>1. \A h, b : ReadUpTo(h, b) \subseteq ReadUpTo(h, b)'
    BY <1>1 DEF ReadUpTo, Readings
  <2>2. \A r \in cold : Within(r.smoothed, ReadUpTo(r.host, r.bucket + 4 * BucketLength)')
    BY <2>1, WithinMore DEF MeshInv, Averaged
  <2> QED
    BY <1>1, <2>2 DEF MeshInv, Averaged
<1> QED
  BY <1>4, <1>12, <1>13 DEF MeshInv

LEMMA RollupDrainKeeps ==
    ASSUME MeshInv, RollupDrain PROVE MeshInv'
<1>1. PICK tiers \in After[MaxPerCall] : hot' = tiers.hot /\ cold' = tiers.cold
  BY DEF RollupDrain
<1>2. UNCHANGED <<time, taken>>
  BY DEF RollupDrain
<1>3. Tiered(tiers.hot, tiers.cold) /\ Averaged(tiers.cold)
  BY AfterKeeps, MeshFacts
<1>4. Tiered(hot, cold)' /\ Averaged(cold)'
  <2>1. Tiered(hot, cold)'
    BY <1>1, <1>2, <1>3 DEF Tiered, RowsOf, AllOf
  <2>2. Averaged(cold)'
    BY <1>1, <1>2, <1>3 DEF Averaged, ReadUpTo
  <2> QED
    BY <2>1, <2>2
<1> QED
  BY <1>2, <1>4 DEF MeshInv, SamplesInv

LEMMA MeshTickKeeps ==
    ASSUME MeshInv, MeshTick PROVE MeshInv'
<1>1. time < MaxTime /\ time' = time + 1 /\ UNCHANGED <<hot, cold, taken>>
  BY DEF MeshTick
<1>2. SamplesInv /\ Tiered(hot, cold) /\ time \in Nat /\ HotRetention \in Nat /\ BucketLength \in Nat /\ MaxTime \in Nat
  BY SampleFacts, MeshFacts DEF MeshInv
<1>3. SamplesInv'
  <2>1. \A s \in taken : s.at \in Nat /\ s.at <= time'
    BY <1>1, <1>2, SampleFacts
  <2> QED
    BY <1>1, <1>2, <2>1 DEF SamplesInv
<1>4. \A r \in cold : r.bucket \in Nat /\ r.bucket + BucketLength < time' - HotRetention
  BY <1>1, <1>2 DEF Tiered
<1>5. Tiered(hot, cold)'
  BY <1>1, <1>2, <1>4 DEF Tiered, RowsOf, AllOf
<1>6. Averaged(cold)'
  BY <1>1 DEF MeshInv, Averaged, ReadUpTo
<1> QED
  BY <1>3, <1>5, <1>6 DEF MeshInv

(* Samples, rollups, retries and the clock keep the two tiers consistent: a   *)
(* bucket is in the hot tier or in the cold one, and a cold row stands for    *)
(* the samples of its own bucket.                                             *)
THEOREM MeshInductive == MeshSpec => []MeshInv
<1>1. MeshInit => MeshInv
  BY MeshFacts, FS_EmptySet DEF MeshInit, MeshInv, SamplesInv, Tiered, Averaged
<1>2. MeshInv /\ [MeshNext]_meshVars => MeshInv'
  <2> SUFFICES ASSUME MeshInv, [MeshNext]_meshVars PROVE MeshInv'
    OBVIOUS
  <2>1. ASSUME NEW up \in SUBSET Hosts, NEW readings \in [up -> Values \cup {Null}], Snapshot(readings) PROVE MeshInv'
    BY <2>1, SnapshotKeeps
  <2>2. CASE RollupDrain
    BY <2>2, RollupDrainKeeps
  <2>3. CASE MeshTick
    BY <2>3, MeshTickKeeps
  <2>4. CASE UNCHANGED meshVars
    BY <2>4 DEF meshVars, MeshInv, SamplesInv, Tiered, RowsOf, AllOf, Averaged, ReadUpTo
  <2> QED
    BY <2>1, <2>2, <2>3, <2>4 DEF MeshNext
<1> QED
  BY <1>1, <1>2, PTL DEF MeshSpec

(* Every sample is in one tier, and the cold tier of a host grows in time      *)
(* order and holds averages of what was read.                                  *)
THEOREM TiersHold == MeshSpec => []TiersAgree
<1>1. MeshInv => TiersAgree
  <2> SUFFICES ASSUME MeshInv PROVE TiersAgree
    OBVIOUS
  <2>1. SamplesInv /\ Tiered(hot, cold) /\ time \in Nat /\ HotRetention \in Nat /\ BucketLength \in Nat
    BY SampleFacts, MeshFacts DEF MeshInv
  <2>2. ASSUME NEW s \in taken, s.at >= time - HotRetention PROVE s \in hot
    <3>1. RowsOf(cold, s) = {}
      <4> SUFFICES ASSUME NEW r \in cold, r.bucket = BucketStart(s.at) PROVE FALSE
        BY DEF RowsOf
      <4>1. r.bucket \in Nat /\ r.bucket + BucketLength < time - HotRetention
        BY <2>1 DEF Tiered
      <4>2. s.at \in Nat /\ s.at < r.bucket + BucketLength
        BY <2>1, SampleFacts
      <4> QED
        BY <2>1, <2>2, <4>1, <4>2
    <3> QED
      BY <2>1, <3>1, SampleFacts DEF Tiered
  <2>3. OneTier
    BY <2>1, <2>2 DEF OneTier, Tiered, RowsOf, AllOf
  <2>4. ColdInOrder
    BY <2>1 DEF ColdInOrder, Tiered
  <2>5. SmoothedWithinReadings
    BY DEF MeshInv, Averaged, SmoothedWithinReadings
  <2> QED
    BY <2>3, <2>4, <2>5 DEF TiersAgree
<1> QED
  BY <1>1, MeshInductive, PTL
-------------------------------------------------------------------------------
(***************************************************************************)
(* The tables beside each other.  Each is left alone or moves as it does on *)
(* its own, so what holds of each holds of all.                            *)
(***************************************************************************)
Row == [polls : Nat, worst : Lights, unreachable : Nat]

LEMMA WorstLights == \A lights : Worst(lights) \in Lights
BY DEF Worst, Lights

LEMMA StatusTypes == StatusSpec => [](StatusTypeOK /\ IsFiniteSet(recorded))
<1> DEFINE I == StatusTypeOK /\ IsFiniteSet(recorded)
<1>1. StatusInit => I
  <2> SUFFICES ASSUME StatusInit PROVE I
    OBVIOUS
  <2>1. NoRow \in Row
    BY DEF NoRow, Row, Lights
  <2> QED
    BY <2>1, StatusFacts, FS_EmptySet DEF StatusInit, StatusTypeOK, Row
<1>2. I /\ [StatusNext]_statusVars => I'
  <2> SUFFICES ASSUME I, [StatusNext]_statusVars PROVE I'
    OBVIOUS
  <2>1. ASSUME NEW lights \in [Targets -> Lights], PollAll(lights) PROVE I'
    <3> DEFINE row == [t \in Targets |-> [target |-> t, at |-> now, light |-> lights[t]]]
               new == {row[t] : t \in Targets}
    <3>1. polls' = polls \cup new /\ recorded' = recorded \cup new /\ UNCHANGED <<now, hourly>>
      BY <2>1 DEF PollAll
    <3>2. IsFiniteSet(new)
      <4>1. row \in Surjection(Targets, new)
        BY DEF Surjection
      <4> HIDE DEF row, new
      <4> QED
        BY <4>1, FS_Surjection, StatusConstantsOK
    <3>3. new \subseteq Poll
      BY StatusFacts DEF StatusTypeOK, Poll
    <3> HIDE DEF new
    <3>4. IsFiniteSet(recorded')
      BY <3>1, <3>2, FS_Union
    <3> QED
      BY <3>1, <3>3, <3>4 DEF StatusTypeOK
  <2>2. CASE Rollup
    <3> DEFINE Of(h, t) == {p \in Folded : HourOf(p) = h /\ p.target = t}
    <3>1. /\ hourly' = [k \in Hours \X Targets |-> IF Of(k[1], k[2]) = {} THEN hourly[k] ELSE Fold(Of(k[1], k[2]))]
          /\ polls' = polls \ Deleted /\ UNCHANGED <<now, recorded>>
      BY <2>2 DEF Rollup
    <3>2. ASSUME NEW rows \in SUBSET recorded PROVE Fold(rows) \in Row
      <4>1. Cardinality(rows) \in Nat
        BY FS_Subset, FS_CardinalityType
      <4>2. Cardinality({p \in rows : p.light = "unreachable"}) \in Nat
        BY FS_Subset, FS_CardinalityType
      <4> QED
        BY <4>1, <4>2, WorstLights DEF Fold, Row
    <3>3. \A h, t : Of(h, t) \in SUBSET recorded
      BY DEF Folded, StatusTypeOK
    <3>4. hourly \in [Hours \X Targets -> Row]
      BY DEF StatusTypeOK, Row
    <3> HIDE DEF Of
    <3>5. hourly' \in [Hours \X Targets -> Row]
      BY <3>1, <3>2, <3>3, <3>4
    <3> QED
      BY <3>1, <3>5 DEF StatusTypeOK, Row
  <2>3. CASE StatusTick
    <3>1. now' \in 0..MaxInstant
      BY <2>3, StatusFacts DEF StatusTick, StatusTypeOK
    <3> QED
      BY <2>3, <3>1 DEF StatusTick, StatusTypeOK
  <2>4. CASE UNCHANGED statusVars
    BY <2>4 DEF statusVars, StatusTypeOK
  <2> QED
    BY <2>1, <2>2, <2>3, <2>4 DEF StatusNext
<1> QED
  BY <1>1, <1>2, PTL DEF StatusSpec

LEMMA CrashesBounded == BlobSpec => [](crashes \in 0..MaxCrashes)
<1>1. BlobInit => crashes \in 0..MaxCrashes
  BY BlobConstantsOK DEF BlobInit
<1>2. crashes \in 0..MaxCrashes /\ [BlobNext]_blobVars => (crashes \in 0..MaxCrashes)'
  <2> SUFFICES ASSUME crashes \in 0..MaxCrashes, [BlobNext]_blobVars PROVE crashes' \in 0..MaxCrashes
    OBVIOUS
  <2>1. CASE UNCHANGED crashes
    BY <2>1
  <2>2. ASSUME NEW p \in Processes, Crash(p) PROVE crashes' \in 0..MaxCrashes
    BY <2>2, BlobConstantsOK DEF Crash
  <2>3. UNCHANGED crashes \/ \E p \in Processes : Crash(p)
    BY DEF BlobNext, blobVars, Grow, SweepSpill, StatSpill, ReadSpill, RecordSpill, OpenBlob, CloseBlob, Upload, Attach,
           Detach, CountHolders, Unlink
  <2> QED
    BY <2>1, <2>2, <2>3
<1> QED
  BY <1>1, <1>2, PTL DEF BlobSpec

LEMMA TablesApart == Spec => PriceSpec /\ StatusSpec /\ MeshSpec /\ ScanSpec /\ AlertSpec /\ BlobSpec
<1>1. Init => PriceInit /\ StatusInit /\ MeshInit /\ ScanInit /\ AlertInit /\ BlobInit
  BY DEF Init
<1>2. [Next]_vars => /\ [PriceNext]_priceVars /\ [StatusNext]_statusVars /\ [MeshNext]_meshVars
                     /\ [ScanNext]_scanVars /\ [AlertNext]_alertVars /\ [BlobNext]_blobVars
  BY DEF Next, vars
<1> QED
  BY <1>1, <1>2, PTL DEF Spec, PriceSpec, StatusSpec, MeshSpec, ScanSpec, AlertSpec, BlobSpec

(* Every table keeps its type, whichever of them moves. *)
THEOREM TablesTypeCorrect == Spec => []TypeOK
<1>1. MeshInv => MeshTypeOK
  BY DEF MeshInv, SamplesInv, Tiered, Averaged, MeshTypeOK
<1>2. BlobInv /\ crashes \in 0..MaxCrashes => BlobTypeOK
  BY DEF BlobInv, BlobTypes, BlobTypeOK, Job, JobStages
<1>3. ScanInv => ScanTypeOK
  BY DEF ScanInv, ScanTypes
<1>4. AlertInv => AlertTypeOK
  BY DEF AlertInv, AlertTypes
<1> QED
  BY <1>1, <1>2, <1>3, <1>4, TablesApart, PriceTypeCorrect, StatusTypes, MeshInductive, ScanInductive, AlertInductive,
     BlobInductive, CrashesBounded, PTL DEF TypeOK

(* No poll is deleted before the retention has passed, and the cold tier of   *)
(* samples counts each once, keeps the peaks, and averages what was read.     *)
THEOREM RollupsSafe == Spec => []RollupsFaithful
BY TablesApart, StatusSafe, TiersHold, PTL DEF RollupsFaithful
==============================================================================
