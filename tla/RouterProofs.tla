----------------------------- MODULE RouterProofs -----------------------------
(***************************************************************************)
(* What the router daemon does with every number of files, lines, retries, *)
(* faults and every batch size.                                            *)
(*                                                                         *)
(* The proofs look at one sequence, the lines being sent followed by the   *)
(* lines that wait.  A scan extends it, a finished send takes off its      *)
(* front, an exit empties it, and every other step leaves it alone, a      *)
(* flush and a failed flush included.                                      *)
(***************************************************************************)
EXTENDS Router, SequenceTheorems, TLAPS

(* The lines being sent, then the lines that wait. *)
Queue == batch \o pending

(* Piece x holds byte b of file f in its epoch e. *)
Covers(x, f, e, b) == x.file = f /\ x.epoch = e /\ x.from <= b /\ b < x.to

(* A process that is down holds nothing and its cursors are those on disk;  *)
(* flush is where its attempt says it is.                                   *)
ProcessInv ==
    /\ ~Up => scanning = {} /\ pending = <<>> /\ attempt = 0 /\ cursors = saved
    /\ attempt = 0 => post = "idle" /\ batch = <<>>
    /\ post = "idle" => attempt = 0
    /\ post = "backoff" => attempt < MaxRetries

(* What was saved is not ahead of the cursors; what is held is behind them,  *)
(* and on one side of the saved ones.                                       *)
CursorInv ==
    /\ \A f \in Files : saved[f] <= cursors[f]
    /\ \A i \in 1..Len(Queue) :
          LET x == Queue[i]
          IN  x.to <= cursors[x.file] /\ (x.to <= saved[x.file] \/ saved[x.file] <= x.from)

(* The queue holds the pieces of a file in order, without overlap. *)
QueueInv ==
    \A i, j \in 1..Len(Queue) : i < j /\ Queue[i].file = Queue[j].file => Queue[i].to <= Queue[j].from

(* Before a piece in the queue, everything is settled or further ahead in it. *)
OrderInv ==
    \A j \in 1..Len(Queue) : \A x \in Pieces : x = Queue[j] /\ x.epoch = 1 =>
        \A b \in 0..(x.from - 1) :
            \/ Settled(x.file, 1, b)
            \/ \E i \in 1..(j - 1) : Covers(Queue[i], x.file, 1, b)

(* A piece that may still be dealt with without another fault: it waits, or *)
(* it is being sent, or a scan can meet it again.                           *)
Exposed(x) ==
    \/ x \in Elements(pending)
    \/ x \in Elements(batch) /\ post # "stored"
    \/ x.from >= cursors[x.file]

(* How often a piece was dealt with: each time it was stored, and once if it *)
(* was given up on.                                                         *)
Times(x) == received[x] + (IF x \in dropped THEN 1 ELSE 0)

(* When stop() has thrown, the process may end without another fault, and     *)
(* read again what lies before the cursor file: it took one already.          *)
RetiredInv ==
    stage = "retired" => \A x \in Pieces :
        x.from >= saved[x.file] /\ ~(x \in Elements(batch) /\ post = "stored") => Times(x) <= faults

CopyInv == \A x \in Pieces : Times(x) <= 1 + faults /\ (Exposed(x) => Times(x) <= faults)

(* Before a piece that was stored or given up on, everything is settled. *)
DealtInOrder ==
    \A x \in Pieces : (received[x] > 0 \/ x \in dropped) /\ x.epoch = 1 =>
        \A b \in 0..(x.from - 1) : Settled(x.file, 1, b)

IInv ==
    /\ TypeOK
    /\ ProcessInv
    /\ CursorInv
    /\ QueueInv
    /\ BytesAccounted
    /\ OrderInv
    /\ DealtInOrder
    /\ CopyInv
    /\ RetiredInv
-------------------------------------------------------------------------------
(* Sequences of pieces *)

(* Concatenation keeps the elements of both, in place. *)
LEMMA Joined ==
    ASSUME NEW s \in Seq(Pieces), NEW t \in Seq(Pieces)
    PROVE  /\ s \o t \in Seq(Pieces)
           /\ Len(s \o t) = Len(s) + Len(t)
           /\ Len(s) \in Nat /\ Len(t) \in Nat
           /\ \A i \in 1..Len(s) : (s \o t)[i] = s[i]
           /\ \A i \in 1..Len(t) : (s \o t)[Len(s) + i] = t[i]
           /\ Elements(s \o t) = Elements(s) \cup Elements(t)
<1>1. /\ s \o t \in Seq(Pieces) /\ Len(s \o t) = Len(s) + Len(t)
      /\ \A i \in 1..(Len(s) + Len(t)) : (s \o t)[i] = IF i <= Len(s) THEN s[i] ELSE t[i - Len(s)]
  BY ConcatProperties
<1>2. Len(s) \in Nat /\ Len(t) \in Nat
  OBVIOUS
<1>3. \A i \in 1..Len(s) : (s \o t)[i] = s[i]
  BY <1>1, <1>2
<1>4. \A i \in 1..Len(t) : (s \o t)[Len(s) + i] = t[i]
  BY <1>1, <1>2
<1>5. Elements(s \o t) \subseteq Elements(s) \cup Elements(t)
  <2> SUFFICES ASSUME NEW k \in 1..(Len(s) + Len(t))
               PROVE  (s \o t)[k] \in Elements(s) \cup Elements(t)
    BY <1>1 DEF Elements
  <2>1. CASE k <= Len(s)
    BY <2>1, <1>2, <1>3 DEF Elements
  <2>2. CASE k > Len(s)
    <3>1. k - Len(s) \in 1..Len(t) /\ k = Len(s) + (k - Len(s))
      BY <2>2, <1>2
    <3> QED
      BY <3>1, <2>2, <1>1, <1>2 DEF Elements
  <2> QED
    BY <2>1, <2>2, <1>2
<1>6. Elements(s) \subseteq Elements(s \o t)
  BY <1>1, <1>2, <1>3 DEF Elements
<1>7. Elements(t) \subseteq Elements(s \o t)
  <2> SUFFICES ASSUME NEW k \in 1..Len(t) PROVE t[k] \in Elements(s \o t)
    BY DEF Elements
  <2>1. Len(s) + k \in 1..Len(s \o t) /\ (s \o t)[Len(s) + k] = t[k]
    BY <1>1, <1>2, <1>4
  <2> QED
    BY <2>1 DEF Elements
<1> QED
  BY <1>1, <1>2, <1>3, <1>4, <1>5, <1>6, <1>7

LEMMA EmptyFacts == /\ <<>> \in Seq(Pieces) /\ Len(<<>>) = 0 /\ Elements(<<>>) = {}
                    /\ \A s \in Seq(Pieces) : s \o <<>> = s /\ <<>> \o s = s
<1>1. <<>> \in Seq(Pieces) /\ Len(<<>>) = 0
  BY EmptySeq
<1>2. Elements(<<>>) = {}
  BY <1>1 DEF Elements
<1>3. \A s \in Seq(Pieces) : s \o <<>> = s /\ <<>> \o s = s
  BY ConcatEmptySeq
<1> QED
  BY <1>1, <1>2, <1>3

(* What flush() takes off the queue and what it leaves make up the queue. *)
LEMMA Split ==
    ASSUME NEW q \in Seq(Pieces)
    PROVE  LET first == SubSeq(q, 1, Least(BatchSize, Len(q)))
               rest  == SubSeq(q, BatchSize + 1, Len(q))
           IN  /\ first \in Seq(Pieces) /\ Len(first) <= BatchSize
               /\ rest \in Seq(Pieces)
               /\ first \o rest = q
<1> DEFINE n     == Len(q)
           cut   == Least(BatchSize, n)
           first == SubSeq(q, 1, cut)
           rest  == SubSeq(q, BatchSize + 1, n)
<1>1. n \in Nat /\ BatchSize \in Nat /\ BatchSize >= 1 /\ \A i \in 1..n : q[i] \in Pieces
  BY BoundAssumption, ElementOfSeq
<1>2. cut \in 0..n /\ cut <= BatchSize /\ (cut = BatchSize \/ cut = n)
  BY <1>1 DEF Least
<1> HIDE DEF n, cut
<1>3. first \in Seq(Pieces) /\ Len(first) = cut
  BY <1>1, <1>2, SubSeqProperties
<1>4. rest \in Seq(Pieces)
  BY <1>1, SubSeqProperties
<1>5. CASE cut = n
  <2>1. first = q
    BY <1>5, SubSeqFull DEF n
  <2>2. rest = <<>>
    BY <1>5, <1>1, <1>2, SubSeqEmpty
  <2> QED
    BY <2>1, <2>2, <1>3, <1>4, <1>2, <1>1, EmptyFacts DEF n, cut
<1>6. CASE cut = BatchSize
  <2>1. 1 \in 1..(n + 1) /\ BatchSize \in 0..n /\ n \in BatchSize..n
    BY <1>6, <1>1, <1>2
  <2>2. first \o rest = SubSeq(q, 1, n)
    BY <2>1, <1>6, ConcatAdjacentSubSeq, 1 - 1 = 0 DEF n
  <2>3. SubSeq(q, 1, n) = q
    BY SubSeqFull DEF n
  <2> QED
    BY <2>2, <2>3, <1>3, <1>4, <1>2, <1>1 DEF n, cut
<1> QED
  BY <1>2, <1>5, <1>6

-------------------------------------------------------------------------------
(* The pieces that a scan reads *)

LEMMA Halves ==
    ASSUME NEW n \in Nat
    PROVE  n \div 2 \in Nat /\ 2 * (n \div 2) <= n /\ n <= 2 * (n \div 2) + 1
OBVIOUS

(* The pieces between two positions lie between them, follow one another, and *)
(* leave no byte out.                                                         *)
LEMMA PiecesFacts ==
    ASSUME TypeOK, NEW f \in Files, NEW c \in Bytes, NEW s \in Bytes, c < s
    PROVE  LET p == PiecesBetween(f, c, s)
           IN  /\ p \in Seq(Pieces)
               /\ \A k \in 1..Len(p) : p[k].file = f /\ p[k].epoch = epoch[f] /\ c <= p[k].from /\ p[k].to <= s
               /\ \A i, j \in 1..Len(p) : i < j => p[i].to <= p[j].from
               /\ \A b \in c..(s - 1) : \E k \in 1..Len(p) : p[k].from <= b /\ b < p[k].to
<1> DEFINE n       == (s + 1) \div 2 - c \div 2
           line(k) == c \div 2 + k
           e(k)    == [file |-> f, epoch |-> epoch[f],
                       from |-> Greatest(c, 2 * (line(k) - 1)), to |-> Least(s, 2 * line(k))]
           p       == PiecesBetween(f, c, s)
<1>1. c \in Nat /\ s \in Nat /\ MaxLines \in Nat /\ s <= 2 * MaxLines /\ c <= 2 * MaxLines /\ epoch[f] \in Epochs
  BY BoundAssumption DEF Bytes, TypeOK
<1>2. /\ c \div 2 \in Nat /\ 2 * (c \div 2) <= c /\ c <= 2 * (c \div 2) + 1
      /\ (s + 1) \div 2 \in Nat /\ 2 * ((s + 1) \div 2) <= s + 1 /\ s + 1 <= 2 * ((s + 1) \div 2) + 1
  BY <1>1, Halves
<1>3. p = [k \in 1..n |-> e(k)]
  BY DEF PiecesBetween
<1>4. \A k \in 1..n :
        /\ e(k).from \in Nat /\ c <= e(k).from /\ 2 * (line(k) - 1) <= e(k).from /\ e(k).from = Greatest(c, 2 * (line(k) - 1))
        /\ e(k).to \in Nat /\ e(k).to <= s /\ e(k).to <= 2 * line(k) /\ e(k).to = Least(s, 2 * line(k))
        /\ e(k).from < e(k).to
  <2> SUFFICES ASSUME NEW k \in 1..n
               PROVE  LET a == Greatest(c, 2 * (line(k) - 1))
                          z == Least(s, 2 * line(k))
                      IN  /\ a \in Nat /\ c <= a /\ 2 * (line(k) - 1) <= a
                          /\ z \in Nat /\ z <= s /\ z <= 2 * line(k)
                          /\ a < z
    OBVIOUS
  <2>1. line(k) \in Nat /\ line(k) >= c \div 2 + 1 /\ line(k) <= (s + 1) \div 2
    BY <1>2
  <2>2. c < 2 * line(k) /\ 2 * (line(k) - 1) < s
    BY <2>1, <1>1, <1>2
  <2> HIDE DEF line
  <2> QED
    BY <2>1, <2>2, <1>1 DEF Greatest, Least
<1>5. \A k \in 1..n : e(k) \in Pieces
  <2> SUFFICES ASSUME NEW k \in 1..n PROVE e(k) \in Pieces
    OBVIOUS
  <2>1. e(k).from \in Bytes /\ e(k).to \in Bytes
    BY <1>1, <1>4 DEF Bytes
  <2>2. e(k).from \div 2 \in Nat /\ e(k).from <= 2 * (e(k).from \div 2) + 1
    BY <1>4, Halves
  <2>3. line(k) - 1 <= e(k).from \div 2
    BY <2>2, <1>4, <1>2
  <2>4. e(k).to <= 2 * (e(k).from \div 2 + 1)
    BY <2>2, <2>3, <1>2, <1>4
  <2> QED
    BY <2>1, <2>4, <1>1, <1>4 DEF Pieces
<1>6. p \in Seq(Pieces) /\ Len(p) = IF n \in Nat THEN n ELSE 0
  <2>1. CASE n \in Nat
    BY <2>1, <1>3, <1>5
  <2>2. CASE n \notin Nat
    <3>1. 1..n = {}
      BY <2>2, <1>2
    <3>2. p = <<>>
      BY <3>1, <1>3
    <3> QED
      BY <3>2, <2>2, EmptyFacts
  <2> QED
    BY <2>1, <2>2
<1>n. n \in Int
  BY <1>2
<1> HIDE DEF n
<1>7. \A k \in 1..Len(p) : k \in 1..n /\ p[k] = e(k)
  <2> SUFFICES ASSUME NEW k \in 1..Len(p) PROVE k \in 1..n /\ p[k] = e(k)
    OBVIOUS
  <2>1. n \in Nat /\ Len(p) = n
    BY <1>6, <1>n
  <2> HIDE DEF p
  <2> QED
    BY <2>1, <1>3
<1>8. \A i, j \in 1..Len(p) : i < j => p[i].to <= p[j].from
  <2> SUFFICES ASSUME NEW i \in 1..Len(p), NEW j \in 1..Len(p), i < j PROVE p[i].to <= p[j].from
    OBVIOUS
  <2>1. i \in 1..n /\ j \in 1..n /\ p[i] = e(i) /\ p[j] = e(j)
    BY <1>7
  <2>2. e(i).to <= 2 * line(i) /\ 2 * (line(j) - 1) <= e(j).from /\ e(i).to \in Nat /\ e(j).from \in Nat
    BY <2>1, <1>4
  <2>3. 2 * line(i) <= 2 * (line(j) - 1)
    BY <1>2, <2>1, <1>n, SMTT(30)
  <2> QED
    BY <2>1, <2>2, <2>3, <1>2, SMTT(60)
<1>9. \A b \in c..(s - 1) : \E k \in 1..Len(p) : p[k].from <= b /\ b < p[k].to
  <2> SUFFICES ASSUME NEW b \in c..(s - 1) PROVE \E k \in 1..Len(p) : p[k].from <= b /\ b < p[k].to
    OBVIOUS
  <2>1. b \in Nat /\ b \div 2 \in Nat /\ 2 * (b \div 2) <= b /\ b <= 2 * (b \div 2) + 1
    BY <1>1, Halves
  <2> DEFINE k == b \div 2 + 1 - c \div 2
  <2>2. k \in 1..n /\ n \in Nat
    BY <2>1, <1>1, <1>2 DEF n
  <2>3. line(k) = b \div 2 + 1
    BY <2>1, <1>2
  <2>4. e(k).from <= b /\ b < e(k).to
    BY <2>1, <2>2, <2>3, <1>1, <1>4 DEF Greatest, Least
  <2>5. k \in 1..Len(p) /\ p[k] = e(k)
    BY <2>2, <1>6, <1>3
  <2> QED
    BY <2>4, <2>5
<1>10. \A k \in 1..Len(p) : p[k].file = f /\ p[k].epoch = epoch[f] /\ c <= p[k].from /\ p[k].to <= s
  <2> SUFFICES ASSUME NEW k \in 1..Len(p)
               PROVE  p[k].file = f /\ p[k].epoch = epoch[f] /\ c <= p[k].from /\ p[k].to <= s
    OBVIOUS
  <2>1. k \in 1..n /\ p[k] = e(k)
    BY <1>7
  <2> QED
    BY <2>1, <1>4
<1> QED
  BY <1>6, <1>8, <1>9, <1>10

(* What a scan reads of one file extends the queue: it lies behind the new   *)
(* cursor, before the old one, in order, and without a gap.                  *)
LEMMA FreshFacts ==
    ASSUME TypeOK, NEW f \in Files
    PROVE  /\ Fresh(f) \in Seq(Pieces)
           /\ NextCursor(f) \in Bytes /\ cursors[f] <= NextCursor(f)
           /\ \A k \in 1..Len(Fresh(f)) :
                 /\ Fresh(f)[k] \in Pieces
                 /\ Fresh(f)[k].file = f /\ Fresh(f)[k].epoch = epoch[f]
                 /\ cursors[f] <= Fresh(f)[k].from /\ Fresh(f)[k].to <= NextCursor(f)
           /\ \A i, j \in 1..Len(Fresh(f)) : i < j => Fresh(f)[i].to <= Fresh(f)[j].from
           /\ \A b \in cursors[f]..(NextCursor(f) - 1) :
                 \E k \in 1..Len(Fresh(f)) : Fresh(f)[k].from <= b /\ b < Fresh(f)[k].to
<1>1. cursors[f] \in Bytes /\ size[f] \in Bytes /\ cursors[f] \in Nat /\ size[f] \in Nat
  BY BoundAssumption DEF TypeOK, Bytes
<1>2. CASE size[f] > cursors[f]
  <2>1. NextCursor(f) = size[f] /\ Fresh(f) = PiecesBetween(f, cursors[f], size[f])
    BY <1>2 DEF NextCursor, Fresh
  <2>2. cursors[f] < size[f]
    BY <1>2, <1>1
  <2> DEFINE p == PiecesBetween(f, cursors[f], size[f])
  <2>3. /\ p \in Seq(Pieces)
        /\ \A k \in 1..Len(p) : p[k].file = f /\ p[k].epoch = epoch[f] /\ cursors[f] <= p[k].from /\ p[k].to <= size[f]
        /\ \A i, j \in 1..Len(p) : i < j => p[i].to <= p[j].from
        /\ \A b \in cursors[f]..(size[f] - 1) : \E k \in 1..Len(p) : p[k].from <= b /\ b < p[k].to
    BY <1>1, <2>2, PiecesFacts
  <2>4. \A k \in 1..Len(p) : p[k] \in Pieces
    BY <2>3, ElementOfSeq
  <2> HIDE DEF p
  <2>5. Fresh(f) = p
    BY <2>1 DEF p
  <2> QED
    BY <1>1, <2>1, <2>2, <2>3, <2>4, <2>5
<1>3. CASE ~(size[f] > cursors[f])
  <2>1. NextCursor(f) = cursors[f] /\ Fresh(f) = <<>>
    BY <1>3 DEF NextCursor, Fresh
  <2>2. 1..Len(<<>>) = {} /\ cursors[f]..(cursors[f] - 1) = {} /\ <<>> \in Seq(Pieces)
    BY <1>1, EmptyFacts
  <2> QED
    BY <2>1, <2>2, <1>1
<1> QED
  BY <1>2, <1>3

-------------------------------------------------------------------------------
(* What is common to the steps *)

LEMMA PieceBounds ==
    ASSUME NEW x \in Pieces
    PROVE  x.from \in Nat /\ x.to \in Nat /\ x.from < x.to /\ x.file \in Files /\ x.epoch \in Epochs
           /\ x.from \in Bytes /\ x.to \in Bytes
BY BoundAssumption DEF Pieces, Bytes

LEMMA QueueFacts ==
    ASSUME TypeOK
    PROVE  /\ Queue \in Seq(Pieces) /\ Len(Queue) \in Nat
           /\ \A i \in 1..Len(Queue) : Queue[i] \in Pieces
           /\ Elements(Queue) = Held
           /\ Elements(pending) \subseteq Pieces /\ Elements(batch) \subseteq Pieces
<1>1. batch \in Seq(Pieces) /\ pending \in Seq(Pieces)
  BY DEF TypeOK
<1>2. Queue \in Seq(Pieces) /\ Elements(Queue) = Elements(batch) \cup Elements(pending)
  BY <1>1, Joined DEF Queue
<1>3. \A i \in 1..Len(Queue) : Queue[i] \in Pieces
  BY <1>2, ElementOfSeq
<1>4. Elements(pending) \subseteq Pieces /\ Elements(batch) \subseteq Pieces
  BY <1>1, ElementOfSeq DEF Elements
<1> QED
  BY <1>2, <1>3, <1>4 DEF Held

LEMMA QueueAfter ==
    ASSUME TypeOK'
    PROVE  /\ Queue' \in Seq(Pieces) /\ Len(Queue') \in Nat
           /\ \A i \in 1..Len(Queue') : Queue'[i] \in Pieces
           /\ Held' = Elements(Queue')
<1>1. batch' \in Seq(Pieces) /\ pending' \in Seq(Pieces)
  BY DEF TypeOK
<1>2. Queue' \in Seq(Pieces) /\ Elements(Queue') = Elements(batch') \cup Elements(pending')
  BY <1>1, Joined DEF Queue
<1>3. \A i \in 1..Len(Queue') : Queue'[i] \in Pieces
  BY <1>2, ElementOfSeq
<1>4. Held' = Elements(batch') \cup Elements(pending')
  BY DEF Held, Elements
<1> QED
  BY <1>2, <1>3, <1>4

(* A flush takes nothing out of the queue. *)
LEMMA FlushKeeps ==
    ASSUME NEW q \in Seq(Pieces), StartFlush(q)
    PROVE  /\ batch' \in Seq(Pieces) /\ Len(batch') <= BatchSize /\ pending' \in Seq(Pieces)
           /\ Queue' = q
           /\ attempt' = 1 /\ post' = "sent"
BY Split DEF StartFlush, Queue

LEMMA EndFlushKeeps ==
    ASSUME NEW q \in Seq(Pieces), EndFlush(q)
    PROVE  /\ batch' \in Seq(Pieces) /\ Len(batch') <= BatchSize /\ pending' \in Seq(Pieces)
           /\ Queue' = q
           /\ \/ attempt' = 1 /\ post' = "sent"
              \/ attempt' = 0 /\ post' = "idle" /\ batch' = <<>>
<1>1. CASE Len(q) >= BatchSize
  BY <1>1, FlushKeeps DEF EndFlush
<1>2. CASE ~(Len(q) >= BatchSize)
  <2>1. pending' = q /\ batch' = <<>> /\ attempt' = 0 /\ post' = "idle"
    BY <1>2 DEF EndFlush
  <2> QED
    BY <2>1, EmptyFacts, BoundAssumption DEF Queue
<1> QED
  BY <1>1, <1>2

(* The steps that end the process: with its cursors saved, retired, or by a   *)
(* fault.                                                                     *)
ExitStep ==
    \/ ExitWith(cursors) /\ faults' = faults
    \/ Drained
    \/ faults < MaxFaults /\ faults' = faults + 1 /\ \E stored \in {saved, Blank} : ExitWith(stored)

(* The steps that take up flush() again when its last attempt is over. *)
Resumes ==
    /\ AfterSend
    /\ Free /\ post \in {"sent", "stored"}
    /\ UNCHANGED <<disk, cursors, scanning, received>>
    /\ UNCHANGED watch \/ (PutsBack /\ stage' = "retired" /\ watching' = {} /\ changed' = FALSE)

(* An attempt that is followed by another. *)
BacksOff ==
    /\ AttemptsLeft /\ post' = "backoff"
    /\ UNCHANGED <<disk, saved, watch, cursors, scanning, pending, batch, attempt, received, dropped, faults>>

LEMMA SendersResume ==
    /\ ReplyArrives => Resumes
    /\ AttemptFails => Resumes \/ BacksOff
    /\ Unauthorized => Resumes \/ ExitStep
    /\ Signal \/ Killed \/ Drained => ExitStep
<1>1. ReplyArrives => Resumes
  BY DEF ReplyArrives, Resumes
<1>2. AttemptFails => Resumes \/ BacksOff
  BY DEF AttemptFails, Resumes, BacksOff
<1>3. Unauthorized => Resumes \/ ExitStep
  BY DEF Unauthorized, Resumes, ExitStep, AfterSend
<1>4. Signal => ExitStep
  <2> SUFFICES ASSUME SaveFails, ExitWith(saved') PROVE \E stored \in {saved, Blank} : ExitWith(stored)
    BY DEF Signal, ExitStep, SaveFails
  <2>1. PICK stored \in {saved, Blank} : saved' = stored
    BY DEF SaveFails
  <2> QED
    BY <2>1
<1>5. Killed \/ Drained => ExitStep
  BY DEF Killed, ExitStep
<1> QED
  BY <1>1, <1>2, <1>3, <1>4, <1>5

(* What an exit stores. *)
LEMMA ExitStores ==
    ASSUME ExitStep
    PROVE  \E stored \in {saved, cursors, Blank} : ExitWith(stored)
BY DEF ExitStep, Drained

-------------------------------------------------------------------------------
(* The type invariant *)

LEMMA TypeInit == Init => TypeOK
<1> SUFFICES ASSUME Init PROVE TypeOK
  OBVIOUS
<1>1. 0 \in Bytes /\ 1 \in Epochs /\ 0 \in 0..MaxCopies /\ 0 \in 0..MaxFaults /\ 0 \in 0..MaxRetries /\ 0 <= BatchSize
  BY BoundAssumption DEF Bytes, Epochs, MaxCopies
<1> QED
  BY <1>1, EmptyFacts DEF Init, TypeOK

(* A queue that was flushed, or put back, is a sequence of pieces. *)
LEMMA ResumeType ==
    ASSUME TypeOK, Resumes
    PROVE  TypeOK'
<1> USE DEF TypeOK
<1>0. Elements(batch) \subseteq Pieces /\ pending \in Seq(Pieces) /\ PutBack \in Seq(Pieces)
  BY QueueFacts, Joined DEF PutBack
<1>1. 1 \in 0..MaxRetries /\ 0 \in 0..MaxRetries /\ Blank \in [Files -> Bytes]
  BY BoundAssumption DEF Bytes, Blank
<1>2. /\ size' = size /\ epoch' = epoch /\ cursors' = cursors /\ scanning' = scanning /\ received' = received
      /\ stage' \in {"down", "starting", "serving", "retired"} /\ watching' \subseteq Files /\ changed' \in BOOLEAN
  BY DEF Resumes, disk, watch
<1>3. CASE saved' = cursors /\ EndFlush(pending) /\ UNCHANGED faults
           /\ dropped' = dropped \cup {x \in Elements(batch) : received[x] = 0}
  BY <1>0, <1>1, <1>2, <1>3, EndFlushKeeps
<1>4. CASE SaveFails /\ EndFlush(PutBack) /\ UNCHANGED dropped
  <2>1. faults' \in 0..MaxFaults /\ saved' \in [Files -> Bytes]
    BY <1>1, <1>4, BoundAssumption DEF SaveFails
  <2> QED
    BY <1>0, <1>1, <1>2, <1>4, <2>1, EndFlushKeeps
<1> QED
  BY <1>3, <1>4 DEF Resumes, AfterSend, PutsBack

LEMMA TypeStep == TypeOK /\ ProcessInv /\ [Next]_vars => TypeOK'
<1> SUFFICES ASSUME TypeOK, ProcessInv, [Next]_vars PROVE TypeOK'
  OBVIOUS
<1> USE DEF TypeOK, disk, sender, watch
<1>0. 1 \in 0..MaxRetries /\ 0 \in 0..MaxRetries /\ Elements(batch) \subseteq Pieces /\ <<>> \in Seq(Pieces) /\ 0 <= BatchSize /\ 0 \in Bytes /\ Len(<<>>) = 0
  BY QueueFacts, EmptyFacts, BoundAssumption DEF Bytes
<1>1. ASSUME NEW f \in Files, HarnessWrites(f) PROVE TypeOK'
  <2>1. size' \in [Files -> Bytes]
    BY <1>1, BoundAssumption DEF HarnessWrites, Bytes
  <2> QED
    BY <1>1, <2>1 DEF HarnessWrites
<1>2. ASSUME NEW f \in Files, HarnessTruncates(f) PROVE TypeOK'
  <2>1. epoch' \in [Files -> Epochs] /\ size' \in [Files -> Bytes]
    BY <1>0, <1>2, BoundAssumption DEF HarnessTruncates, Epochs
  <2> QED
    BY <1>2, <2>1 DEF HarnessTruncates
<1>3. ASSUME NEW f \in Files, ScanFile(f) PROVE TypeOK'
  <2>1. pending \o Fresh(f) \in Seq(Pieces) /\ cursors' \in [Files -> Bytes]
    BY <1>3, FreshFacts, Joined DEF ScanFile
  <2>2. CASE StartFlush(pending \o Fresh(f))
    BY <1>0, <1>3, <2>1, <2>2, FlushKeeps DEF ScanFile
  <2>3. CASE pending' = pending \o Fresh(f) /\ UNCHANGED sender
    BY <1>3, <2>1, <2>3 DEF ScanFile
  <2> QED
    BY <1>3, <2>2, <2>3 DEF ScanFile
<1>4. CASE Start
  BY <1>4 DEF Start, Loaded
<1>5. CASE Watch \/ WatchEvent
  BY <1>5 DEF Watch, WatchEvent
<1>6. CASE FlushTimer
  BY <1>0, <1>6, FlushKeeps DEF FlushTimer
<1>7. CASE EndpointStores
  <2>1. received' \in [Pieces -> 0..MaxCopies]
    BY <1>7, BoundAssumption DEF EndpointStores, MaxCopies
  <2> QED
    BY <1>7, <2>1 DEF EndpointStores
<1>8. CASE Resumes
  BY <1>8, ResumeType
<1>9. CASE BacksOff
  BY <1>9 DEF BacksOff
<1>10. CASE ReplyLost
  BY <1>10, BoundAssumption DEF ReplyLost
<1>11. CASE Retry
  BY <1>11, BoundAssumption DEF Retry, ProcessInv
<1>12. CASE ExitStep
  <2>1. faults' \in 0..MaxFaults
    BY <1>12, BoundAssumption DEF ExitStep, Drained
  <2>2. PICK stored \in {saved, cursors, Blank} : ExitWith(stored)
    BY <1>12, ExitStores
  <2>4. stored \in [Files -> Bytes]
    BY <1>0, <2>2 DEF Blank
  <2>3. Held \subseteq Pieces
    BY QueueFacts DEF Held
  <2> QED
    BY <1>0, <2>1, <2>2, <2>3, <2>4 DEF ExitWith
<1>13. CASE UNCHANGED vars
  BY <1>13 DEF vars
<1> QED
  BY <1>1, <1>2, <1>3, <1>4, <1>5, <1>6, <1>7, <1>8, <1>9, <1>10, <1>11, <1>12, <1>13, SendersResume DEF Next

-------------------------------------------------------------------------------
(* The process *)

LEMMA ProcessStep == TypeOK /\ ProcessInv /\ [Next]_vars => ProcessInv'
<1> SUFFICES ASSUME TypeOK, ProcessInv, [Next]_vars PROVE ProcessInv'
  OBVIOUS
<1> USE DEF ProcessInv, Up, disk, sender, watch
<1>0. pending \in Seq(Pieces) /\ PutBack \in Seq(Pieces) /\ MaxRetries \in Nat \ {0} /\ attempt \in Nat
  BY Joined, BoundAssumption DEF TypeOK, PutBack
<1>1. ASSUME NEW f \in Files, HarnessWrites(f) \/ HarnessTruncates(f) PROVE ProcessInv'
  BY <1>1 DEF HarnessWrites, HarnessTruncates
<1>3. ASSUME NEW f \in Files, ScanFile(f) PROVE ProcessInv'
  <2>1. pending \o Fresh(f) \in Seq(Pieces)
    BY FreshFacts, Joined DEF TypeOK
  <2>2. stage' # "down" /\ saved' = saved
    BY <1>3 DEF ScanFile, TypeOK
  <2>3. CASE StartFlush(pending \o Fresh(f))
    <3>1. attempt' = 1 /\ post' = "sent"
      BY <2>3 DEF StartFlush
    <3> QED
      BY <2>2, <3>1
  <2>4. CASE UNCHANGED sender
    BY <2>2, <2>4
  <2> QED
    BY <1>3, <2>3, <2>4 DEF ScanFile
<1>4. CASE Start
  BY <1>4 DEF Start, Loaded
<1>5. CASE Watch \/ WatchEvent
  BY <1>5 DEF Watch, WatchEvent, Free
<1>6. CASE FlushTimer
  BY <1>6 DEF FlushTimer, StartFlush
<1>7. CASE EndpointStores
  BY <1>7 DEF EndpointStores
<1>8. CASE Resumes
  <2>1. stage # "down" /\ stage' # "down"
    BY <1>8 DEF Resumes, Free
  <2>2. \E q \in Seq(Pieces) : EndFlush(q)
    BY <1>0, <1>8 DEF Resumes, AfterSend, PutsBack
  <2>3. \/ attempt' = 1 /\ post' = "sent"
        \/ attempt' = 0 /\ post' = "idle" /\ batch' = <<>>
    BY <2>2, EndFlushKeeps
  <2> QED
    BY <2>1, <2>3
<1>9. CASE AttemptFails /\ BacksOff
  BY <1>9 DEF AttemptFails, BacksOff, AttemptsLeft
<1>10. CASE ReplyLost
  BY <1>10 DEF ReplyLost, AttemptsLeft
<1>11. CASE Retry
  BY <1>11, <1>0 DEF Retry
<1>12. CASE ExitStep
  <2>1. PICK stored \in {saved, cursors, Blank} : ExitWith(stored)
    BY <1>12, ExitStores
  <2> QED
    BY <2>1 DEF ExitWith
<1>13. CASE UNCHANGED vars
  BY <1>13 DEF vars
<1> QED
  BY <1>1, <1>3, <1>4, <1>5, <1>6, <1>7, <1>8, <1>9, <1>10, <1>11, <1>12, <1>13, SendersResume DEF Next

(* A stored cursor moves back only when the whole file is lost. *)
LEMMA SavedStep ==
    ASSUME TypeOK, CursorInv, [Next]_vars, NEW f \in Files, saved'[f] < saved[f]
    PROVE  faults' > faults /\ saved' = Blank
<1>1. saved[f] \in Nat /\ cursors[f] \in Nat /\ saved[f] <= cursors[f] /\ faults \in Nat
  BY BoundAssumption DEF TypeOK, Bytes, CursorInv
<1>2. ~(saved'[f] = saved[f]) /\ ~(saved'[f] = cursors[f])
  BY <1>1
<1>3. CASE Resumes
  <2>1. faults' = faults + 1 /\ saved' = Blank
    BY <1>2, <1>3 DEF Resumes, AfterSend, PutsBack, SaveFails
  <2> QED
    BY <1>1, <2>1
<1>4. CASE ExitStep
  <2>1. faults' = faults + 1 /\ saved' = Blank
    BY <1>2, <1>4 DEF ExitStep, Drained, ExitWith
  <2> QED
    BY <1>1, <2>1
<1>5. CASE ~Resumes /\ ~ExitStep
  <2>1. saved' = saved
    BY <1>5, SendersResume DEF Next, vars, BacksOff, HarnessWrites, HarnessTruncates, ScanFile, Start, Watch, WatchEvent,
       FlushTimer, EndpointStores, ReplyLost, Retry
  <2> QED
    BY <1>2, <2>1
<1> QED
  BY <1>3, <1>4, <1>5

-------------------------------------------------------------------------------
(* What is settled stays settled *)

LEMMA Grows ==
    ASSUME TypeOK, [Next]_vars
    PROVE  /\ dropped \subseteq dropped'
           /\ \A x \in Pieces : received[x] <= received'[x]
           /\ \A f \in Files : epoch'[f] = 1 => epoch[f] = 1
<1> USE DEF TypeOK, disk, sender, watch
<1>1. dropped \subseteq dropped'
  BY DEF Next, vars, HarnessWrites, HarnessTruncates, ScanFile, Start, Watch, WatchEvent, FlushTimer, EndpointStores, ReplyArrives,
     AttemptFails, ReplyLost, Retry, Unauthorized, Drained, Signal, Killed, AfterSend, PutsBack, ExitWith
<1>2. \A x \in Pieces : received[x] <= received'[x]
  <2>0. \A x \in Pieces : received[x] \in Nat
    BY BoundAssumption DEF MaxCopies
  <2>1. CASE EndpointStores
    BY <2>0, <2>1 DEF EndpointStores
  <2>2. CASE ~EndpointStores
    <3>1. received' = received
      BY <2>2 DEF Next, vars, HarnessWrites, HarnessTruncates, ScanFile, Start, Watch, WatchEvent, FlushTimer, ReplyArrives,
         AttemptFails, ReplyLost, Retry, Unauthorized, Drained, Signal, Killed, ExitWith
    <3> QED
      BY <2>0, <3>1
  <2> QED
    BY <2>1, <2>2
<1>3. \A f \in Files : epoch'[f] = 1 => epoch[f] = 1
  <2>1. CASE \E g \in Files : HarnessTruncates(g)
    BY <2>1, BoundAssumption DEF HarnessTruncates, Epochs
  <2>2. CASE ~(\E g \in Files : HarnessTruncates(g))
    <3>1. epoch' = epoch
      BY <2>2 DEF Next, vars, HarnessWrites, ScanFile, Start, Watch, WatchEvent, FlushTimer, EndpointStores, ReplyArrives,
         AttemptFails, ReplyLost, Retry, Unauthorized, Drained, Signal, Killed, ExitWith
    <3> QED
      BY <3>1
  <2> QED
    BY <2>1, <2>2
<1> QED
  BY <1>1, <1>2, <1>3

LEMMA SettledStays ==
    ASSUME TypeOK, TypeOK', [Next]_vars
    PROVE  \A f, e, b : Settled(f, e, b) => Settled(f, e, b)'
<1>1. \A x \in Pieces : received[x] > 0 => received'[x] > 0
  <2> SUFFICES ASSUME NEW x \in Pieces, received[x] > 0 PROVE received'[x] > 0
    OBVIOUS
  <2>1. received[x] \in Nat /\ received'[x] \in Nat /\ received[x] <= received'[x]
    BY Grows, BoundAssumption DEF TypeOK, MaxCopies
  <2> QED
    BY <2>1
<1>2. dropped \subseteq dropped'
  BY Grows
<1> QED
  BY <1>1, <1>2 DEF Settled, Holds

(* A piece that was received or given up on settles its bytes. *)
LEMMA PieceSettles ==
    ASSUME NEW x \in Pieces, NEW f, NEW e, NEW b, Covers(x, f, e, b)
    PROVE  /\ received[x] > 0 \/ x \in dropped => Settled(f, e, b)
           /\ received'[x] > 0 \/ x \in dropped' => Settled(f, e, b)'
BY DEF Covers, Settled, Holds

-------------------------------------------------------------------------------
(* Most steps leave the queue or take settled pieces off its front. *)

LEMMA Advance ==
    ASSUME TypeOK, TypeOK', CursorInv, QueueInv, BytesAccounted, OrderInv, [Next]_vars,
           NEW n \in Nat, n <= Len(Queue), Len(Queue') = Len(Queue) - n,
           \A j \in 1..Len(Queue') : Queue'[j] = Queue[n + j],
           \A i \in 1..n : received'[Queue[i]] > 0 \/ Queue[i] \in dropped',
           cursors' = cursors,
           saved' \in {saved, cursors, Blank}
    PROVE  CursorInv' /\ QueueInv' /\ BytesAccounted' /\ OrderInv'
<1> DEFINE m == Len(Queue)
<1>0. /\ m \in Nat /\ Queue \in Seq(Pieces) /\ \A i \in 1..m : Queue[i] \in Pieces
      /\ \A j \in 1..Len(Queue') : n + j \in 1..m /\ n + j > n
      /\ \A i \in 1..m : i > n => i - n \in 1..Len(Queue') /\ Queue'[i - n] = Queue[i]
  <2>1. m \in Nat /\ Queue \in Seq(Pieces) /\ \A i \in 1..m : Queue[i] \in Pieces
    BY QueueFacts
  <2>2. \A i \in 1..m : i > n => i - n \in 1..Len(Queue') /\ Queue'[i - n] = Queue[i]
    <3> SUFFICES ASSUME NEW i \in 1..m, i > n PROVE i - n \in 1..Len(Queue') /\ Queue'[i - n] = Queue[i]
      OBVIOUS
    <3>1. i - n \in 1..Len(Queue') /\ n + (i - n) = i
      BY <2>1
    <3> QED
      BY <3>1
  <2> QED
    BY <2>1, <2>2
<1>1. CursorInv'
  <2>1. \A f \in Files : saved[f] \in Nat /\ cursors[f] \in Nat /\ saved[f] <= cursors[f]
    BY BoundAssumption DEF TypeOK, Bytes, CursorInv
  <2>2. \A f \in Files : saved'[f] <= cursors'[f]
    BY <2>1 DEF Blank
  <2> SUFFICES ASSUME NEW j \in 1..Len(Queue')
               PROVE  LET x == Queue'[j]
                      IN  x.to <= cursors'[x.file] /\ (x.to <= saved'[x.file] \/ saved'[x.file] <= x.from)
    BY <2>2 DEF CursorInv
  <2>3. PICK x \in Pieces : x = Queue[n + j] /\ x = Queue'[j]
    BY <1>0
  <2>4. x.to <= cursors[x.file] /\ (x.to <= saved[x.file] \/ saved[x.file] <= x.from)
    BY <1>0, <2>3 DEF CursorInv
  <2>5. x.from \in Nat /\ x.file \in Files
    BY PieceBounds
  <2> QED
    BY <2>3, <2>4, <2>5 DEF Blank
<1>2. QueueInv'
  <2> SUFFICES ASSUME NEW i \in 1..Len(Queue'), NEW j \in 1..Len(Queue'), i < j, Queue'[i].file = Queue'[j].file
               PROVE  Queue'[i].to <= Queue'[j].from
    BY DEF QueueInv
  <2>1. n + i \in 1..m /\ n + j \in 1..m /\ n + i < n + j /\ Queue'[i] = Queue[n + i] /\ Queue'[j] = Queue[n + j]
    BY <1>0
  <2> QED
    BY <2>1 DEF QueueInv
<1>3. ASSUME NEW i \in 1..m, NEW f, NEW e, NEW b, Covers(Queue[i], f, e, b)
      PROVE  Settled(f, e, b)' \/ (i > n /\ Covers(Queue'[i - n], f, e, b))
  <2>1. CASE i <= n
    <3>1. received'[Queue[i]] > 0 \/ Queue[i] \in dropped'
      BY <2>1
    <3>2. PICK x \in Pieces : x = Queue[i]
      BY <1>0
    <3> QED
      BY <3>1, <3>2, <1>3, PieceSettles
  <2>2. CASE i > n
    BY <2>2, <1>0, <1>3
  <2> QED
    BY <2>1, <2>2
<1>4. BytesAccounted'
  <2> SUFFICES ASSUME NEW f \in Files, epoch'[f] = 1, NEW b \in 0..(cursors'[f] - 1) \cup 0..(saved'[f] - 1)
               PROVE  Settled(f, 1, b)' \/ Holds(Held, f, 1, b)'
    BY DEF BytesAccounted
  <2>1. epoch[f] = 1
    BY Grows
  <2>2. b \in 0..(cursors[f] - 1) \cup 0..(saved[f] - 1)
    BY DEF Blank
  <2>3. Settled(f, 1, b) \/ Holds(Held, f, 1, b)
    BY <2>1, <2>2 DEF BytesAccounted
  <2>4. CASE Settled(f, 1, b)
    BY <2>4, SettledStays
  <2>5. CASE Holds(Held, f, 1, b)
    <3>1. PICK i \in 1..m : Covers(Queue[i], f, 1, b)
      BY <2>5, QueueFacts DEF Holds, Elements, Covers
    <3>2. CASE Settled(f, 1, b)'
      BY <3>2
    <3>3. CASE i > n /\ Covers(Queue'[i - n], f, 1, b)
      <4>1. Queue'[i - n] \in Held'
        BY <3>3, <1>0, QueueAfter DEF Elements
      <4> QED
        BY <3>3, <4>1 DEF Holds, Covers
    <3> QED
      BY <1>3, <3>1, <3>2, <3>3
  <2> QED
    BY <2>3, <2>4, <2>5
<1>5. OrderInv'
  <2> SUFFICES ASSUME NEW j \in 1..Len(Queue'), NEW x \in Pieces, x = Queue'[j], x.epoch = 1, NEW b \in 0..(x.from - 1)
               PROVE  Settled(x.file, 1, b)' \/ \E i \in 1..(j - 1) : Covers(Queue'[i], x.file, 1, b)
    BY DEF OrderInv, Covers
  <2>1. n + j \in 1..m /\ Queue[n + j] = x
    BY <1>0
  <2>2. Settled(x.file, 1, b) \/ \E i \in 1..(n + j - 1) : Covers(Queue[i], x.file, 1, b)
    <3>1. PICK k \in 1..m : k = n + j /\ x = Queue[k]
      BY <2>1
    <3>2. Settled(x.file, 1, b) \/ \E i \in 1..(k - 1) : Covers(Queue[i], x.file, 1, b)
      BY <3>1 DEF OrderInv
    <3> QED
      BY <3>1, <3>2
  <2>3. CASE Settled(x.file, 1, b)
    BY <2>3, SettledStays
  <2>4. CASE \E i \in 1..(n + j - 1) : Covers(Queue[i], x.file, 1, b)
    <3>1. PICK i \in 1..(n + j - 1) : Covers(Queue[i], x.file, 1, b)
      BY <2>4
    <3>2. i \in 1..m /\ (i > n => i - n \in 1..(j - 1))
      BY <2>1, <1>0
    <3> QED
      BY <3>1, <3>2, <1>3
  <2> QED
    BY <2>2, <2>3, <2>4
<1> QED
  BY <1>1, <1>2, <1>4, <1>5

-------------------------------------------------------------------------------
(* A scan puts what it read behind the queue, whether or not it also starts a *)
(* flush.                                                                     *)

LEMMA ScanAppends ==
    ASSUME TypeOK, ProcessInv, NEW f \in Files, ScanFile(f)
    PROVE  Queue' = Queue \o Fresh(f)
<1>1. batch \in Seq(Pieces) /\ pending \in Seq(Pieces) /\ Fresh(f) \in Seq(Pieces) /\ pending \o Fresh(f) \in Seq(Pieces)
  BY FreshFacts, Joined DEF TypeOK
<1>2. CASE attempt = 0 /\ StartFlush(pending \o Fresh(f))
  <2>1. batch = <<>>
    BY <1>2 DEF ProcessInv
  <2>2. Queue = pending
    BY <2>1, <1>1, EmptyFacts DEF Queue
  <2> QED
    BY <1>1, <1>2, <2>2, FlushKeeps
<1>3. CASE pending' = pending \o Fresh(f) /\ UNCHANGED sender
  <2>1. Queue' = batch \o (pending \o Fresh(f))
    BY <1>3 DEF Queue, sender
  <2> QED
    BY <1>1, <2>1, ConcatAssociative, SMTT(30) DEF Queue
<1> QED
  BY <1>2, <1>3 DEF ScanFile, MayFlush

LEMMA ScanStep ==
    ASSUME TypeOK, TypeOK', ProcessInv, CursorInv, QueueInv, BytesAccounted, OrderInv, [Next]_vars,
           NEW f \in Files, ScanFile(f)
    PROVE  CursorInv' /\ QueueInv' /\ BytesAccounted' /\ OrderInv'
<1> DEFINE m == Len(Queue)
           k == Len(Fresh(f))
<1>0. /\ m \in Nat /\ k \in Nat /\ Len(Queue') = m + k
      /\ \A i \in 1..m : Queue[i] \in Pieces /\ Queue'[i] = Queue[i]
      /\ \A i \in 1..k : Queue'[m + i] = Fresh(f)[i]
      /\ Held \subseteq Held' /\ Elements(Fresh(f)) \subseteq Held'
  <2>1. Queue \in Seq(Pieces) /\ Fresh(f) \in Seq(Pieces) /\ Queue' = Queue \o Fresh(f)
    BY ScanAppends, QueueFacts, FreshFacts
  <2>2. Elements(Queue \o Fresh(f)) = Elements(Queue) \cup Elements(Fresh(f))
    BY <2>1, Joined
  <2>3. Held = Elements(Queue) /\ Held' = Elements(Queue')
    BY QueueFacts, QueueAfter
  <2>4. Elements(Queue') = Elements(Queue) \cup Elements(Fresh(f))
    BY <2>1, <2>2
  <2>5. /\ m \in Nat /\ k \in Nat /\ Len(Queue \o Fresh(f)) = m + k
        /\ \A i \in 1..m : (Queue \o Fresh(f))[i] = Queue[i]
        /\ \A i \in 1..k : (Queue \o Fresh(f))[m + i] = Fresh(f)[i]
    BY <2>1, Joined
  <2> QED
    BY <2>1, <2>3, <2>4, <2>5, QueueFacts
<1>1. /\ saved' = saved /\ epoch' = epoch /\ cursors' = [cursors EXCEPT ![f] = NextCursor(f)]
      /\ received' = received /\ dropped' = dropped
  BY DEF ScanFile, disk
<1>2. \A i \in 1..Len(Queue') : i \in 1..m \/ (i > m /\ i - m \in 1..k /\ Queue'[i] = Fresh(f)[i - m])
  <2> SUFFICES ASSUME NEW i \in 1..Len(Queue'), i > m PROVE i - m \in 1..k /\ Queue'[i] = Fresh(f)[i - m]
    BY <1>0
  <2>1. i - m \in 1..k /\ m + (i - m) = i
    BY <1>0
  <2> QED
    BY <1>0, <2>1
<1>c. cursors'[f] = NextCursor(f) /\ \A g \in Files : g # f => cursors'[g] = cursors[g]
  BY <1>1 DEF TypeOK
<1>3. \A g \in Files : /\ saved[g] \in Nat /\ cursors[g] \in Nat /\ cursors'[g] \in Nat
                       /\ saved[g] <= cursors[g] /\ cursors[g] <= cursors'[g]
  <2>1. \A g \in Files : saved[g] \in Nat /\ cursors[g] \in Nat /\ cursors'[g] \in Nat /\ saved[g] <= cursors[g]
    BY BoundAssumption DEF TypeOK, Bytes, CursorInv
  <2>2. cursors[f] <= NextCursor(f)
    BY FreshFacts
  <2> QED
    BY <1>c, <2>1, <2>2
<1>4. \A i \in 1..k : /\ Fresh(f)[i] \in Pieces
                      /\ Fresh(f)[i].file = f /\ Fresh(f)[i].epoch = epoch[f]
                      /\ cursors[f] <= Fresh(f)[i].from /\ Fresh(f)[i].to <= NextCursor(f)
  BY FreshFacts
<1>5. CursorInv'
  <2> SUFFICES ASSUME NEW i \in 1..Len(Queue')
               PROVE  LET x == Queue'[i]
                      IN  x.to <= cursors'[x.file] /\ (x.to <= saved[x.file] \/ saved[x.file] <= x.from)
    BY <1>1, <1>3 DEF CursorInv
  <2>1. CASE i \in 1..m
    <3>1. PICK x \in Pieces : x = Queue[i] /\ x = Queue'[i]
      BY <1>0, <2>1
    <3>2. x.to <= cursors[x.file] /\ (x.to <= saved[x.file] \/ saved[x.file] <= x.from)
      BY <2>1, <3>1 DEF CursorInv
    <3>3. x.file \in Files /\ x.to \in Nat
      BY PieceBounds
    <3> QED
      BY <1>3, <3>1, <3>2, <3>3
  <2>2. CASE i - m \in 1..k /\ Queue'[i] = Fresh(f)[i - m]
    <3>1. PICK x \in Pieces : x = Queue'[i] /\ x.file = f /\ cursors[f] <= x.from /\ x.to <= NextCursor(f)
      BY <1>4, <2>2
    <3>2. x.from \in Nat
      BY PieceBounds
    <3> QED
      BY <1>3, <1>c, <3>1, <3>2
  <2> QED
    BY <1>2, <2>1, <2>2
<1>6. QueueInv'
  <2> SUFFICES ASSUME NEW i \in 1..Len(Queue'), NEW j \in 1..Len(Queue'), i < j, Queue'[i].file = Queue'[j].file
               PROVE  Queue'[i].to <= Queue'[j].from
    BY DEF QueueInv
  <2>1. CASE j \in 1..m
    <3>1. i \in 1..m
      BY <1>0, <2>1
    <3> QED
      BY <1>0, <2>1, <3>1 DEF QueueInv
  <2>2. CASE i \in 1..m /\ j - m \in 1..k /\ Queue'[j] = Fresh(f)[j - m]
    <3>1. Queue'[i].to <= cursors[f]
      <4>1. PICK x \in Pieces : x = Queue[i] /\ x = Queue'[i]
        BY <1>0, <2>2
      <4>2. x.file = f
        BY <1>4, <2>2, <4>1
      <4>3. x.to <= cursors[x.file]
        BY <2>2, <4>1 DEF CursorInv
      <4> QED
        BY <4>1, <4>2, <4>3
    <3>2. cursors[f] <= Queue'[j].from /\ Queue'[j] \in Pieces /\ Queue'[i] \in Pieces
      BY <1>0, <1>4, <2>2
    <3>3. Queue'[j].from \in Nat /\ Queue'[i].to \in Nat
      BY <3>2, PieceBounds
    <3> QED
      BY <1>3, <3>1, <3>2, <3>3
  <2>3. CASE i > m /\ i - m \in 1..k /\ j - m \in 1..k /\ Queue'[i] = Fresh(f)[i - m] /\ Queue'[j] = Fresh(f)[j - m]
    <3>1. i - m < j - m
      BY <1>0
    <3> QED
      BY <2>3, <3>1, FreshFacts
  <2> QED
    BY <1>0, <1>2, <2>1, <2>2, <2>3
<1>7. ASSUME NEW b \in Int, cursors[f] <= b, b < NextCursor(f)
      PROVE  \E i \in 1..k : Covers(Fresh(f)[i], f, epoch[f], b)
  <2>1. b \in cursors[f]..(NextCursor(f) - 1)
    BY <1>3, <1>c, <1>7
  <2>2. PICK i \in 1..k : Fresh(f)[i].from <= b /\ b < Fresh(f)[i].to
    BY <2>1, FreshFacts
  <2> QED
    BY <1>4, <2>2 DEF Covers
<1>8. BytesAccounted'
  <2> SUFFICES ASSUME NEW g \in Files, epoch[g] = 1, NEW b \in 0..(cursors'[g] - 1) \cup 0..(saved[g] - 1)
               PROVE  Settled(g, 1, b)' \/ Holds(Held, g, 1, b)'
    BY <1>1 DEF BytesAccounted
  <2>1. CASE b < cursors[g]
    <3>1. Settled(g, 1, b) \/ Holds(Held, g, 1, b)
      BY <1>3, <2>1 DEF BytesAccounted
    <3>2. Holds(Held, g, 1, b) => Holds(Held, g, 1, b)'
      BY <1>0 DEF Holds
    <3> QED
      BY <3>1, <3>2, SettledStays
  <2>2. CASE ~(b < cursors[g])
    <3>1. g = f /\ cursors[f] <= b /\ b < NextCursor(f) /\ b \in Int
      BY <1>3, <1>c, <2>2
    <3>2. PICK i \in 1..k : Covers(Fresh(f)[i], f, epoch[f], b)
      BY <1>7, <3>1
    <3>3. Fresh(f)[i] \in Held'
      BY <1>0 DEF Elements
    <3> QED
      BY <3>1, <3>2, <3>3 DEF Holds, Covers
  <2> QED
    BY <2>1, <2>2
<1>9. OrderInv'
  <2> SUFFICES ASSUME NEW j \in 1..Len(Queue'), NEW x \in Pieces, x = Queue'[j], x.epoch = 1, NEW b \in 0..(x.from - 1)
               PROVE  Settled(x.file, 1, b)' \/ \E i \in 1..(j - 1) : Covers(Queue'[i], x.file, 1, b)
    BY DEF OrderInv, Covers
  <2>0. x.from \in Nat /\ x.to \in Nat /\ x.from < x.to /\ x.file \in Files
    BY PieceBounds
  <2>1. CASE j \in 1..m
    <3>1. Settled(x.file, 1, b) \/ \E i \in 1..(j - 1) : Covers(Queue[i], x.file, 1, b)
      <4>1. \A h \in 1..m : x = Queue[h] =>
              Settled(x.file, 1, b) \/ \E i \in 1..(h - 1) : Covers(Queue[i], x.file, 1, b)
        BY DEF OrderInv
      <4> QED
        BY <1>0, <2>1, <4>1
    <3>2. \A i \in 1..(j - 1) : Queue'[i] = Queue[i]
      BY <1>0, <2>1
    <3> QED
      BY <3>1, <3>2, SettledStays
  <2>2. CASE j > m /\ j - m \in 1..k /\ x = Fresh(f)[j - m]
    <3>1. x.file = f /\ epoch[f] = 1 /\ cursors[f] <= x.from /\ x.to <= NextCursor(f)
      BY <1>4, <2>2
    <3>2. CASE b < cursors[f]
      <4>1. Settled(f, 1, b) \/ Holds(Held, f, 1, b)
        BY <1>3, <3>1, <3>2 DEF BytesAccounted
      <4>2. CASE Holds(Held, f, 1, b)
        <5>1. PICK i \in 1..m : Covers(Queue[i], f, 1, b)
          BY <4>2, QueueFacts DEF Holds, Elements, Covers
        <5>2. i \in 1..(j - 1) /\ Queue'[i] = Queue[i]
          BY <1>0, <2>2
        <5> QED
          BY <3>1, <5>1, <5>2
      <4> QED
        BY <3>1, <4>1, <4>2, SettledStays
    <3>3. CASE ~(b < cursors[f])
      <4>1. cursors[f] <= b /\ b < NextCursor(f) /\ b \in Int
        BY <1>3, <1>c, <2>0, <3>1, <3>3
      <4>2. PICK i \in 1..k : Covers(Fresh(f)[i], f, epoch[f], b)
        BY <1>7, <4>1
      <4>3. i < j - m
        <5>1. CASE i = j - m
          BY <2>0, <2>2, <4>2, <5>1 DEF Covers
        <5>2. CASE j - m < i
          <6>1. x.to <= Fresh(f)[i].from
            BY <2>2, <5>2, FreshFacts
          <6>2. Fresh(f)[i].from <= b /\ Fresh(f)[i].from \in Nat
            BY <1>4, <4>2, PieceBounds DEF Covers
          <6> QED
            BY <2>0, <6>1, <6>2
        <5> QED
          BY <1>0, <5>1, <5>2
      <4>4. m + i \in 1..(j - 1) /\ Queue'[m + i] = Fresh(f)[i]
        BY <1>0, <4>3
      <4> QED
        BY <3>1, <4>2, <4>4
    <3> QED
      BY <3>2, <3>3
  <2> QED
    BY <1>2, <2>1, <2>2
<1> QED
  BY <1>5, <1>6, <1>8, <1>9

-------------------------------------------------------------------------------
(* An exit forgets the queue.  A piece of it lies on one side of the cursors  *)
(* that are stored: before them it is given up on, behind them it is read     *)
(* again.                                                                     *)

LEMMA ExitSafe ==
    ASSUME TypeOK, TypeOK', CursorInv, BytesAccounted, [Next]_vars, NEW stored \in {saved, cursors, Blank}, ExitWith(stored)
    PROVE  CursorInv' /\ QueueInv' /\ BytesAccounted' /\ OrderInv'
<1>1. /\ saved' = stored /\ cursors' = stored /\ epoch' = epoch /\ received' = received
      /\ dropped' = dropped \cup {x \in Held : x.to <= stored[x.file] /\ received[x] = 0}
  BY DEF ExitWith, disk
<1>2. Queue' = <<>> /\ 1..Len(Queue') = {}
  BY EmptyFacts DEF ExitWith, Queue
<1>3. \A f \in Files : /\ stored[f] \in Nat /\ saved[f] \in Nat /\ cursors[f] \in Nat
                       /\ saved[f] <= cursors[f] /\ stored[f] <= cursors[f]
  <2>1. \A f \in Files : saved[f] \in Nat /\ cursors[f] \in Nat /\ Blank[f] = 0
    BY BoundAssumption DEF TypeOK, Bytes, Blank
  <2>2. \A f \in Files : saved[f] <= cursors[f]
    BY DEF CursorInv
  <2>3. QED
    BY <2>1, <2>2
<1>4. CursorInv'
  BY <1>1, <1>2, <1>3 DEF CursorInv
<1>5. QueueInv' /\ OrderInv'
  BY <1>2 DEF QueueInv, OrderInv
<1>6. BytesAccounted'
  <2> SUFFICES ASSUME NEW f \in Files, epoch[f] = 1, NEW b \in 0..(stored[f] - 1)
               PROVE  Settled(f, 1, b)'
    BY <1>1 DEF BytesAccounted
  <2>1. Settled(f, 1, b) \/ Holds(Held, f, 1, b)
    BY <1>3 DEF BytesAccounted
  <2>2. CASE Holds(Held, f, 1, b)
    <3>1. PICK i \in 1..Len(Queue) : Covers(Queue[i], f, 1, b)
      BY <2>2, QueueFacts DEF Holds, Elements, Covers
    <3>2. PICK x \in Pieces : x = Queue[i] /\ x \in Held /\ Covers(x, f, 1, b)
      BY <3>1, QueueFacts DEF Elements
    <3>3. x.to <= cursors[f] /\ (x.to <= saved[f] \/ saved[f] <= x.from)
      BY <3>2 DEF CursorInv, Covers
    <3>4. x.from \in Nat /\ x.to \in Nat /\ x.from <= b
      BY <3>2, PieceBounds DEF Covers
    <3>5. x.to <= stored[x.file]
      BY <1>3, <3>2, <3>3, <3>4 DEF Covers, Blank
    <3>6. received[x] > 0 \/ received[x] = 0
      BY BoundAssumption DEF TypeOK, MaxCopies
    <3>7. received'[x] > 0 \/ x \in dropped'
      BY <1>1, <3>2, <3>5, <3>6
    <3> QED
      BY <3>2, <3>7, PieceSettles
  <2> QED
    BY <2>1, <2>2, SettledStays
<1> QED
  BY <1>4, <1>5, <1>6

(* The steps that neither read a file, nor end a send, nor end the process.   *)
Quiet == Queue' = Queue /\ cursors' = cursors /\ saved' = saved

LEMMA QuietStep ==
    ASSUME TypeOK, ProcessInv, [Next]_vars, ~Resumes, ~ExitStep, \A f \in Files : ~ScanFile(f)
    PROVE  Quiet
<1>0. Queue' = batch' \o pending'
  BY DEF Queue
<1>1. CASE Start
  BY <1>0, <1>1 DEF Start, Loaded, ProcessInv, sender, Queue, Quiet
<1>2. CASE FlushTimer
  <2>1. pending \in Seq(Pieces) /\ batch = <<>>
    BY <1>2 DEF FlushTimer, MayFlush, ProcessInv, TypeOK
  <2>2. Queue = pending /\ Queue' = pending
    BY <1>2, <2>1, FlushKeeps, EmptyFacts DEF FlushTimer, Queue
  <2> QED
    BY <1>2, <2>2 DEF FlushTimer, Quiet
<1>3. CASE ~Start /\ ~FlushTimer
  <2>1. UNCHANGED <<batch, pending, cursors, saved>>
    BY <1>3, SendersResume DEF Next, vars, sender, BacksOff, HarnessWrites, HarnessTruncates, Watch, WatchEvent, EndpointStores,
       ReplyLost, Retry
  <2> QED
    BY <1>0, <2>1 DEF Queue, Quiet
<1> QED
  BY <1>1, <1>2, <1>3

(* The cursors, the queue and the order, through every step. *)
LEMMA QueueStep ==
    ASSUME TypeOK, TypeOK', ProcessInv, CursorInv, QueueInv, BytesAccounted, OrderInv, [Next]_vars
    PROVE  CursorInv' /\ QueueInv' /\ BytesAccounted' /\ OrderInv'
<1>0. Queue \in Seq(Pieces) /\ Len(Queue) \in Nat /\ batch \in Seq(Pieces) /\ pending \in Seq(Pieces)
  BY QueueFacts DEF TypeOK
<1>1. CASE \E f \in Files : ScanFile(f)
  BY <1>1, ScanStep
<1>2. CASE ExitStep
  <2>1. PICK stored \in {saved, cursors, Blank} : ExitWith(stored)
    BY <1>2, ExitStores
  <2> QED
    BY <2>1, ExitSafe
<1>3. CASE Resumes
  <2>0. cursors' = cursors /\ received' = received
    BY <1>3 DEF Resumes
  <2>1. CASE saved' = cursors /\ EndFlush(pending) /\ dropped' = dropped \cup {x \in Elements(batch) : received[x] = 0}
    <3> DEFINE n == Len(batch)
    <3>1. Queue' = pending
      BY <1>0, <2>1, EndFlushKeeps
    <3>2. /\ n \in Nat /\ Len(Queue) = n + Len(pending) /\ Len(pending) \in Nat
          /\ \A i \in 1..n : Queue[i] = batch[i]
          /\ \A j \in 1..Len(pending) : Queue[n + j] = pending[j]
      BY <1>0, Joined DEF Queue
    <3>3. \A i \in 1..n : received'[Queue[i]] > 0 \/ Queue[i] \in dropped'
      <4> SUFFICES ASSUME NEW i \in 1..n PROVE received[batch[i]] > 0 \/ batch[i] \in dropped'
        BY <2>0, <3>2
      <4>1. batch[i] \in Pieces /\ batch[i] \in Elements(batch)
        BY <1>0, ElementOfSeq DEF Elements
      <4>2. received[batch[i]] \in Nat
        BY <4>1, BoundAssumption DEF TypeOK, MaxCopies
      <4> QED
        BY <2>1, <4>1, <4>2
    <3>4. n \in Nat /\ n <= Len(Queue) /\ Len(Queue') = Len(Queue) - n /\ \A j \in 1..Len(Queue') : Queue'[j] = Queue[n + j]
      BY <3>1, <3>2
    <3>5. saved' \in {saved, cursors, Blank}
      BY <2>1
    <3> HIDE DEF n
    <3> QED
      BY <2>0, <3>3, <3>4, <3>5, Advance
  <2>2. CASE SaveFails /\ EndFlush(PutBack)
    <3>1. Queue' = Queue
      BY <1>0, <2>2, EndFlushKeeps DEF PutBack, Queue
    <3>2. saved' \in {saved, cursors, Blank}
      BY <2>2 DEF SaveFails
    <3>3. 0 \in Nat /\ 0 <= Len(Queue) /\ Len(Queue') = Len(Queue) - 0
          /\ (\A j \in 1..Len(Queue') : Queue'[j] = Queue[0 + j]) /\ 1..0 = {}
      BY <1>0, <3>1
    <3> QED
      BY <2>0, <3>2, <3>3, Advance
  <2> QED
    BY <1>3, <2>1, <2>2 DEF Resumes, AfterSend, PutsBack
<1>4. CASE ~Resumes /\ ~ExitStep /\ ~(\E f \in Files : ScanFile(f))
  <2>1. Quiet
    BY <1>4, QuietStep
  <2>2. 0 \in Nat /\ 0 <= Len(Queue) /\ Len(Queue') = Len(Queue) - 0
        /\ (\A j \in 1..Len(Queue') : Queue'[j] = Queue[0 + j]) /\ 1..0 = {}
    BY <1>0, <2>1 DEF Quiet
  <2>3. cursors' = cursors /\ saved' \in {saved, cursors, Blank}
    BY <2>1 DEF Quiet
  <2> QED
    BY <2>2, <2>3, Advance
<1> QED
  BY <1>1, <1>2, <1>3, <1>4

-------------------------------------------------------------------------------
(* What the endpoint gets *)

(* Only the endpoint changes what was received. *)
LEMMA ReceivedStays ==
    ASSUME [Next]_vars, ~EndpointStores
    PROVE  received' = received
BY DEF Next, vars, HarnessWrites, HarnessTruncates, ScanFile, Start, Watch, WatchEvent, FlushTimer, ReplyArrives,
   AttemptFails, ReplyLost, Retry, Unauthorized, Drained, Signal, Killed, ExitWith

LEMMA StoreFacts ==
    ASSUME TypeOK, EndpointStores
    PROVE  /\ \A x \in Pieces : x \notin Elements(batch) => received'[x] = received[x]
           /\ \A x \in Elements(batch) : x \in Pieces /\ received'[x] > 0 /\ received'[x] <= received[x] + 1
<1>1. \A x \in Pieces : received[x] \in Nat
  BY BoundAssumption DEF TypeOK, MaxCopies
<1>2. Elements(batch) \subseteq Pieces /\ MaxCopies \in Nat /\ MaxCopies > 0
  BY QueueFacts, BoundAssumption DEF MaxCopies
<1>3. received' = [x \in Pieces |->
           IF x \in Elements(batch) /\ received[x] < MaxCopies THEN received[x] + 1 ELSE received[x]]
  BY DEF EndpointStores
<1> QED
  BY <1>1, <1>2, <1>3

(* A piece of the queue that is settled, with all that stand before it in the *)
(* queue, is dealt with in its turn.                                          *)
LEMMA DealtInTurn ==
    ASSUME TypeOK, TypeOK', OrderInv, [Next]_vars,
           NEW x \in Pieces, x.epoch = 1, NEW j \in 1..Len(Queue), x = Queue[j], NEW b \in 0..(x.from - 1),
           \A i \in 1..(j - 1) : Covers(Queue[i], x.file, 1, b) => received'[Queue[i]] > 0 \/ Queue[i] \in dropped'
    PROVE  Settled(x.file, 1, b)'
<1>1. Len(Queue) \in Nat /\ \A i \in 1..(j - 1) : Queue[i] \in Pieces
  BY QueueFacts
<1>2. Settled(x.file, 1, b) \/ \E i \in 1..(j - 1) : Covers(Queue[i], x.file, 1, b)
  BY DEF OrderInv
<1>3. ASSUME NEW i \in 1..(j - 1), Covers(Queue[i], x.file, 1, b) PROVE Settled(x.file, 1, b)'
  <2>1. PICK y \in Pieces : y = Queue[i]
    BY <1>1
  <2> QED
    BY <1>3, <2>1, PieceSettles
<1>4. Settled(x.file, 1, b) => Settled(x.file, 1, b)'
  BY SettledStays
<1> QED
  BY <1>2, <1>3, <1>4

(* What gives up on a piece: the end of a send, or of the process. *)
LEMMA GivenUp ==
    ASSUME TypeOK, [Next]_vars, NEW x \in dropped', x \notin dropped
    PROVE  /\ received[x] = 0 /\ received' = received
           /\ \/ Resumes /\ x \in Elements(batch) /\ EndFlush(pending)
                 /\ dropped' = dropped \cup {y \in Elements(batch) : received[y] = 0} /\ saved' = cursors
              \/ \E stored \in {saved, cursors, Blank} :
                    /\ ExitWith(stored) /\ x \in Held /\ x.to <= stored[x.file]
                    /\ dropped' = dropped \cup {y \in Held : y.to <= stored[y.file] /\ received[y] = 0}
<1>1. CASE Resumes
  BY <1>1 DEF Resumes, AfterSend, PutsBack
<1>2. CASE ExitStep
  BY <1>2, ExitStores DEF ExitWith
<1>3. CASE ~Resumes /\ ~ExitStep
  <2>1. dropped' = dropped
    BY <1>3, SendersResume DEF Next, vars, BacksOff, HarnessWrites, HarnessTruncates, ScanFile, Start, Watch, WatchEvent, FlushTimer,
       EndpointStores, ReplyLost, Retry
  <2> QED
    BY <2>1
<1> QED
  BY <1>1, <1>2, <1>3

LEMMA DeliveryStep ==
    ASSUME TypeOK, TypeOK', QueueInv, OrderInv, DealtInOrder, [Next]_vars
    PROVE  DealtInOrder'
<1> SUFFICES ASSUME NEW x \in Pieces, received'[x] > 0 \/ x \in dropped', x.epoch = 1, NEW b \in 0..(x.from - 1)
             PROVE  Settled(x.file, 1, b)'
  BY DEF DealtInOrder
<1>0. /\ Len(batch) \in Nat /\ Len(batch) <= Len(Queue) /\ Len(Queue) \in Nat
      /\ \A i \in 1..Len(batch) : Queue[i] = batch[i]
      /\ \A i \in 1..Len(Queue) : Queue[i] \in Pieces /\ Queue[i] \in Held
      /\ \A y \in Pieces : received[y] \in Nat
  <2>1. Len(batch) \in Nat /\ Len(batch) <= Len(Queue) /\ Len(Queue) \in Nat /\ \A i \in 1..Len(batch) : Queue[i] = batch[i]
    BY Joined, QueueFacts DEF TypeOK, Queue
  <2>2. \A i \in 1..Len(Queue) : Queue[i] \in Pieces /\ Queue[i] \in Held
    BY QueueFacts DEF Elements
  <2>3. \A y \in Pieces : received[y] \in Nat
    BY BoundAssumption DEF TypeOK, MaxCopies
  <2> QED
    BY <2>1, <2>2, <2>3
<1>1. CASE received[x] > 0 \/ x \in dropped
  BY <1>1, SettledStays DEF DealtInOrder
<1>2. CASE ~(received[x] > 0) /\ received'[x] > 0
  <2>1. EndpointStores
    BY <1>2, ReceivedStays
  <2>2. x \in Elements(batch)
    BY <1>2, <2>1, StoreFacts
  <2>3. PICK j \in 1..Len(batch) : x = batch[j]
    BY <2>2 DEF Elements
  <2>4. j \in 1..Len(Queue) /\ x = Queue[j]
    BY <1>0, <2>3
  <2>5. ASSUME NEW i \in 1..(j - 1) PROVE received'[Queue[i]] > 0
    <3>1. Queue[i] \in Elements(batch)
      BY <1>0, <2>3 DEF Elements
    <3> QED
      BY <2>1, <3>1, StoreFacts
  <2> QED
    BY <2>4, <2>5, DealtInTurn
<1>3. CASE x \in dropped' /\ x \notin dropped
  <2>1. CASE /\ x \in Elements(batch) /\ received' = received
             /\ dropped' = dropped \cup {y \in Elements(batch) : received[y] = 0}
    <3>1. PICK j \in 1..Len(batch) : x = batch[j]
      BY <2>1 DEF Elements
    <3>2. j \in 1..Len(Queue) /\ x = Queue[j]
      BY <1>0, <3>1
    <3>3. ASSUME NEW i \in 1..(j - 1) PROVE received'[Queue[i]] > 0 \/ Queue[i] \in dropped'
      <4>1. Queue[i] \in Elements(batch) /\ received[Queue[i]] \in Nat
        BY <1>0, <3>1 DEF Elements
      <4> QED
        BY <2>1, <4>1
    <3> QED
      BY <3>2, <3>3, DealtInTurn
  <2>2. ASSUME NEW stored \in {saved, cursors, Blank}, x \in Held, x.to <= stored[x.file], received' = received,
               dropped' = dropped \cup {y \in Held : y.to <= stored[y.file] /\ received[y] = 0}
        PROVE  Settled(x.file, 1, b)'
    <3>1. PICK j \in 1..Len(Queue) : x = Queue[j]
      BY <2>2, QueueFacts DEF Elements
    <3>2. ASSUME NEW i \in 1..(j - 1), Covers(Queue[i], x.file, 1, b) PROVE received'[Queue[i]] > 0 \/ Queue[i] \in dropped'
      <4>1. PICK y \in Pieces : y = Queue[i] /\ y \in Held /\ y.file = x.file /\ received[y] \in Nat
        BY <1>0, <3>2 DEF Covers
      <4>2. y.to <= x.from
        <5>1. i \in 1..Len(Queue) /\ i < j /\ Queue[i].file = Queue[j].file
          BY <1>0, <3>1, <4>1
        <5>2. Queue[i].to <= Queue[j].from
          BY <5>1 DEF QueueInv
        <5> QED
          BY <3>1, <4>1, <5>2
      <4>3. stored[x.file] \in Nat
        <5>0. 0 \in Bytes
          BY BoundAssumption DEF Bytes
        <5>1. stored \in [Files -> Bytes] /\ x.file \in Files
          BY <2>2, <5>0, PieceBounds DEF TypeOK, Blank
        <5>2. stored[x.file] \in Bytes
          BY <5>1
        <5> QED
          BY <5>2, BoundAssumption DEF Bytes
      <4>4. y.to <= stored[y.file]
        BY <2>2, <4>1, <4>2, <4>3, PieceBounds
      <4> QED
        BY <2>2, <4>1, <4>4
    <3> QED
      BY <3>1, <3>2, DealtInTurn
  <2> QED
    BY <1>3, <2>1, <2>2, GivenUp
<1> QED
  BY <1>1, <1>2, <1>3

(* What is being sent was read. *)
LEMMA BatchIsRead ==
    ASSUME TypeOK, CursorInv, NEW x \in Elements(batch)
    PROVE  x.to <= cursors[x.file]
<1>1. PICK i \in 1..Len(batch) : x = batch[i]
  BY DEF Elements
<1>2. i \in 1..Len(Queue) /\ Queue[i] = x
  BY <1>1, Joined DEF TypeOK, Queue
<1> QED
  BY <1>2 DEF CursorInv

(* A batch that has just been stored is neither waiting nor in front of a     *)
(* cursor, so that it takes a fault to send a piece of it again.              *)
LEMMA StoredIsSafe ==
    ASSUME TypeOK, CursorInv, QueueInv, EndpointStores, NEW x \in Elements(batch)
    PROVE  ~Exposed(x)'
<1>1. /\ Len(batch) \in Nat /\ Len(pending) \in Nat /\ Len(Queue) = Len(batch) + Len(pending)
      /\ \A i \in 1..Len(batch) : Queue[i] = batch[i]
      /\ \A i \in 1..Len(pending) : Queue[Len(batch) + i] = pending[i]
  BY Joined DEF TypeOK, Queue
<1>2. PICK i \in 1..Len(batch) : x = batch[i] /\ x = Queue[i] /\ i \in 1..Len(Queue)
  BY <1>1 DEF Elements
<1>3. x \in Pieces /\ x.from \in Nat /\ x.to \in Nat /\ x.from < x.to /\ x.file \in Files
  BY QueueFacts, PieceBounds
<1>4. x.to <= cursors[x.file] /\ cursors[x.file] \in Nat
  BY <1>2, <1>3, BoundAssumption DEF CursorInv, TypeOK, Bytes
<1>5. x \notin Elements(pending)
  <2> SUFFICES ASSUME NEW k \in 1..Len(pending), x = pending[k] PROVE FALSE
    BY DEF Elements
  <2>1. Len(batch) + k \in 1..Len(Queue) /\ i < Len(batch) + k /\ Queue[Len(batch) + k] = x
    BY <1>1
  <2>2. x.to <= x.from
    BY <1>2, <2>1 DEF QueueInv
  <2> QED
    BY <1>3, <2>2
<1>6. post' = "stored" /\ cursors' = cursors /\ pending' = pending
  BY DEF EndpointStores
<1> QED
  BY <1>3, <1>4, <1>5, <1>6 DEF Exposed, Elements

(* No step but the loss of a reply, of the process or of a saved cursor       *)
(* exposes a piece again.                                                     *)
LEMMA ExposedStep ==
    ASSUME TypeOK, TypeOK', ProcessInv, CursorInv, [Next]_vars, faults' = faults, ~Drained, NEW x \in Pieces, Exposed(x)'
    PROVE  Exposed(x)
<1> USE DEF disk, sender, watch
<1>0. pending \in Seq(Pieces) /\ batch \in Seq(Pieces) /\ faults \in Nat
  BY BoundAssumption DEF TypeOK
<1>1. x \in Elements(pending') \/ (x \in Elements(batch') /\ post' # "stored") \/ x.from >= cursors'[x.file]
  BY DEF Exposed, Elements
<1>2. ASSUME NEW f \in Files, ScanFile(f) PROVE Exposed(x)
  <2>1. x.file \in Files /\ x.from \in Nat /\ cursors[x.file] \in Nat /\ cursors'[x.file] \in Nat
    BY PieceBounds, BoundAssumption DEF TypeOK, Bytes
  <2>2. cursors[x.file] <= cursors'[x.file]
    BY <1>2, <2>1, FreshFacts DEF ScanFile, TypeOK
  <2>3. ASSUME x \in Elements(Fresh(f)) PROVE Exposed(x)
    BY <2>3, FreshFacts DEF Elements, Exposed
  <2>4. Elements(pending \o Fresh(f)) = Elements(pending) \cup Elements(Fresh(f)) /\ pending \o Fresh(f) \in Seq(Pieces)
    BY <1>0, FreshFacts, Joined
  <2>5. CASE StartFlush(pending \o Fresh(f))
    <3>1. batch' \in Seq(Pieces) /\ pending' \in Seq(Pieces) /\ batch' \o pending' = pending \o Fresh(f)
      BY <2>4, <2>5, FlushKeeps DEF Queue
    <3>2. Elements(batch') \cup Elements(pending') = Elements(pending) \cup Elements(Fresh(f))
      BY <2>4, <3>1, Joined
    <3> QED
      BY <1>1, <2>1, <2>2, <2>3, <3>2 DEF Exposed
  <2>6. CASE pending' = pending \o Fresh(f) /\ UNCHANGED sender
    BY <1>1, <2>1, <2>2, <2>3, <2>4, <2>6 DEF Exposed
  <2> QED
    BY <1>2, <2>5, <2>6 DEF ScanFile
<1>3. CASE Start
  BY <1>1, <1>3 DEF Start, Loaded, ProcessInv, Exposed
<1>4. CASE FlushTimer
  <2>1. batch' \in Seq(Pieces) /\ pending' \in Seq(Pieces) /\ batch' \o pending' = pending
    BY <1>0, <1>4, FlushKeeps DEF FlushTimer, Queue
  <2>2. Elements(batch') \cup Elements(pending') = Elements(pending)
    BY <2>1, Joined
  <2> QED
    BY <1>1, <1>4, <2>2 DEF FlushTimer, Exposed
<1>5. CASE Resumes
  <2>1. EndFlush(pending)
    BY <1>0, <1>5 DEF Resumes, AfterSend, PutsBack, SaveFails
  <2>2. batch' \in Seq(Pieces) /\ pending' \in Seq(Pieces) /\ batch' \o pending' = pending
    BY <1>0, <2>1, EndFlushKeeps DEF Queue
  <2>3. Elements(batch') \cup Elements(pending') = Elements(pending)
    BY <2>2, Joined
  <2> QED
    BY <1>1, <1>5, <2>3 DEF Resumes, Exposed
<1>6. CASE ExitWith(cursors)
  <2>1. Elements(<<>>) = {}
    BY EmptyFacts
  <2> QED
    BY <1>1, <1>6, <2>1 DEF ExitWith, Exposed
<1>7. CASE Retry \/ EndpointStores
  BY <1>1, <1>7 DEF Retry, EndpointStores, Exposed
<1>8. CASE AttemptFails /\ BacksOff
  BY <1>1, <1>8 DEF AttemptFails, BacksOff, Exposed
<1>9. CASE (\E f \in Files : HarnessWrites(f) \/ HarnessTruncates(f)) \/ Watch \/ WatchEvent \/ UNCHANGED vars
  BY <1>1, <1>9 DEF HarnessWrites, HarnessTruncates, Watch, WatchEvent, vars, Exposed
<1>10. ~ReplyLost /\ (ExitStep => ExitWith(cursors))
  BY <1>0 DEF ReplyLost, ExitStep
<1> QED
  BY <1>2, <1>3, <1>4, <1>5, <1>6, <1>7, <1>8, <1>9, <1>10, SendersResume DEF Next

LEMMA FaultsGrow ==
    ASSUME TypeOK, [Next]_vars
    PROVE  faults' = faults \/ (faults' = faults + 1 /\ ~EndpointStores)
BY DEF Next, vars, HarnessWrites, HarnessTruncates, ScanFile, Start, Watch, WatchEvent, FlushTimer, EndpointStores, ReplyArrives,
   AttemptFails, ReplyLost, Retry, Unauthorized, Drained, Signal, Killed, AfterSend, PutsBack, SaveFails

(* What was given up on is not dealt with again by itself. *)
LEMMA GivenUpIsSafe ==
    ASSUME TypeOK, TypeOK', CursorInv, QueueInv, [Next]_vars, faults' = faults,
           NEW x \in dropped', x \notin dropped
    PROVE  ~Exposed(x)'
<1>1. x \in Pieces /\ faults \in Nat /\ pending \in Seq(Pieces) /\ batch \in Seq(Pieces)
  BY BoundAssumption DEF TypeOK
<1>2. x.from \in Nat /\ x.to \in Nat /\ x.from < x.to /\ cursors[x.file] \in Nat
  BY <1>1, PieceBounds, BoundAssumption DEF TypeOK, Bytes
<1>3. CASE Resumes /\ x \in Elements(batch) /\ EndFlush(pending)
  <2>1. /\ Len(batch) \in Nat /\ Len(pending) \in Nat /\ Len(Queue) = Len(batch) + Len(pending)
        /\ \A i \in 1..Len(batch) : Queue[i] = batch[i]
        /\ \A i \in 1..Len(pending) : Queue[Len(batch) + i] = pending[i]
    BY <1>1, Joined DEF Queue
  <2>2. PICK i \in 1..Len(batch) : x = batch[i] /\ x = Queue[i] /\ i \in 1..Len(Queue)
    BY <1>3, <2>1 DEF Elements
  <2>3. x \notin Elements(pending)
    <3> SUFFICES ASSUME NEW k \in 1..Len(pending), x = pending[k] PROVE FALSE
      BY DEF Elements
    <3>1. Len(batch) + k \in 1..Len(Queue) /\ i < Len(batch) + k /\ Queue[Len(batch) + k] = x
      BY <2>1
    <3>2. x.to <= x.from
      BY <2>2, <3>1 DEF QueueInv
    <3> QED
      BY <1>2, <3>2
  <2>4. batch' \in Seq(Pieces) /\ pending' \in Seq(Pieces) /\ batch' \o pending' = pending
    BY <1>1, <1>3, EndFlushKeeps DEF Queue
  <2>5. Elements(batch') \cup Elements(pending') = Elements(pending)
    BY <2>4, Joined
  <2>6. x.to <= cursors[x.file] /\ cursors' = cursors
    BY <1>3, <2>2 DEF CursorInv, Resumes
  <2>7. Exposed(x)' => x \in Elements(pending') \cup Elements(batch') \/ x.from >= cursors'[x.file]
    BY DEF Exposed, Elements
  <2> QED
    BY <1>2, <2>3, <2>5, <2>6, <2>7
<1>4. ASSUME NEW stored \in {saved, cursors, Blank}, ExitWith(stored), x.to <= stored[x.file] PROVE ~Exposed(x)'
  <2>1. cursors' = stored /\ pending' = <<>> /\ batch' = <<>> /\ cursors'[x.file] \in Nat
    BY <1>1, <1>4, PieceBounds, BoundAssumption DEF ExitWith, TypeOK, Bytes
  <2> QED
    BY <1>2, <1>4, <2>1, EmptyFacts DEF Exposed, Elements
<1> QED
  BY <1>1, <1>3, <1>4, GivenUp

(* What a retired process leaves for the next one took a fault already. *)
LEMMA DrainedIsSafe ==
    ASSUME TypeOK, ProcessInv, RetiredInv, Drained, NEW x \in Pieces
    PROVE  faults' = faults /\ (Exposed(x)' => Times(x) <= faults)
<1>1. stage = "retired" /\ post = "idle"
  BY DEF Drained, ProcessInv
<1>2. cursors' = saved /\ pending' = <<>> /\ batch' = <<>> /\ faults' = faults
  BY DEF Drained, ExitWith
<1>3. Exposed(x)' => x.from >= saved[x.file]
  BY <1>2, EmptyFacts DEF Exposed, Elements
<1> QED
  BY <1>1, <1>2, <1>3 DEF RetiredInv

(* A batch that is stored stays so until flush() is taken up again. *)
LEMMA StoredStays ==
    ASSUME TypeOK, ProcessInv, [Next]_vars, ~Resumes, ~ExitStep, faults' = faults, post = "stored"
    PROVE  batch' = batch /\ post' = "stored"
<1>1. attempt # 0 /\ faults \in Nat
  BY BoundAssumption DEF ProcessInv, TypeOK
<1>2. ~FlushTimer /\ ~Start
  BY <1>1 DEF FlushTimer, MayFlush, Start, ProcessInv, Up
<1>3. ASSUME NEW f \in Files, ScanFile(f) PROVE UNCHANGED sender
  BY <1>1, <1>3 DEF ScanFile, MayFlush
<1>4. ~EndpointStores /\ ~AttemptFails /\ ~Retry /\ ~ReplyLost /\ ~Unauthorized
  BY <1>1 DEF EndpointStores, AttemptFails, Retry, ReplyLost, Unauthorized
<1> QED
  BY <1>2, <1>3, <1>4, SendersResume DEF Next, vars, sender, HarnessWrites, HarnessTruncates, Watch, WatchEvent

LEMMA RetiredStep ==
    ASSUME TypeOK, TypeOK', ProcessInv, CursorInv, CopyInv, RetiredInv, [Next]_vars
    PROVE  RetiredInv'
<1>0. faults \in Nat /\ faults' \in Nat /\ \A x \in Pieces : received[x] \in Nat /\ received'[x] \in Nat
  BY BoundAssumption DEF TypeOK, MaxCopies
<1> SUFFICES ASSUME stage' = "retired", NEW x \in Pieces, x.from >= saved'[x.file],
                    ~(x \in Elements(batch') /\ post' = "stored")
             PROVE  Times(x)' <= faults'
  BY DEF RetiredInv, Elements
<1>1. /\ x.file \in Files /\ x.from \in Nat /\ x.to \in Nat /\ x.from < x.to
      /\ saved[x.file] \in Nat /\ saved'[x.file] \in Nat /\ cursors[x.file] \in Nat
  BY PieceBounds, BoundAssumption DEF TypeOK, Bytes
<1>t. Times(x) \in Nat /\ Times(x) <= 1 + faults
  BY <1>0 DEF CopyInv, Times
<1>2. CASE faults' = faults + 1
  <2>1. Times(x)' = Times(x) \/ Times(x)' = 1
    <3>1. received' = received
      BY <1>0, <1>2, FaultsGrow, ReceivedStays
    <3>2. CASE x \in dropped' /\ x \notin dropped
      BY <3>2, GivenUp DEF Times
    <3>3. CASE x \in dropped' <=> x \in dropped
      BY <3>1, <3>3 DEF Times
    <3> QED
      BY <3>2, <3>3, Grows
  <2> QED
    BY <1>0, <1>t, <1>2, <2>1
<1>3. CASE faults' = faults
  <2>1. ~ExitStep
    BY ExitStores DEF ExitWith
  <2>2. stage = "retired"
    BY <1>0, <1>3, <2>1, SendersResume DEF Next, vars, watch, BacksOff, HarnessWrites, HarnessTruncates, ScanFile, Start, Watch,
       WatchEvent, FlushTimer, EndpointStores, ReplyLost, Retry, Resumes, PutsBack, SaveFails
  <2>3. saved[x.file] <= saved'[x.file]
    BY <1>0, <1>1, <1>3, SavedStep
  <2>4. CASE Resumes
    <3>1. saved' = cursors /\ dropped' = dropped \cup {y \in Elements(batch) : received[y] = 0} /\ received' = received
      BY <1>0, <1>3, <2>4 DEF Resumes, AfterSend, PutsBack, SaveFails
    <3>2. x \notin Elements(batch)
      <4> SUFFICES ASSUME x \in Elements(batch) PROVE FALSE
        OBVIOUS
      <4>1. x.to <= cursors[x.file]
        BY BatchIsRead
      <4> QED
        BY <1>1, <3>1, <4>1
    <3>3. Times(x)' = Times(x)
      BY <3>1, <3>2 DEF Times
    <3> QED
      BY <1>1, <1>3, <2>2, <2>3, <3>2, <3>3 DEF RetiredInv
  <2>5. CASE EndpointStores
    <3>1. batch' = batch /\ post' = "stored" /\ dropped' = dropped /\ post = "sent"
      BY <2>5 DEF EndpointStores
    <3>2. x \notin Elements(batch)
      BY <3>1
    <3>3. Times(x)' = Times(x)
      BY <2>5, <3>1, <3>2, StoreFacts DEF Times
    <3> QED
      BY <1>1, <1>3, <2>2, <2>3, <3>2, <3>3 DEF RetiredInv
  <2>6. CASE ~Resumes /\ ~EndpointStores
    <3>1. Times(x)' = Times(x)
      <4>1. received' = received
        BY <2>6, ReceivedStays
      <4>2. x \in dropped' => x \in dropped
        BY <2>1, <2>6, GivenUp DEF ExitWith
      <4> QED
        BY <4>1, <4>2, Grows DEF Times
    <3>2. ~(x \in Elements(batch) /\ post = "stored")
      BY <1>3, <2>1, <2>6, StoredStays
    <3> QED
      BY <1>1, <1>3, <2>2, <2>3, <3>1, <3>2 DEF RetiredInv
  <2> QED
    BY <2>4, <2>5, <2>6
<1> QED
  BY <1>2, <1>3, FaultsGrow

LEMMA CopyStep ==
    ASSUME TypeOK, TypeOK', ProcessInv, CursorInv, QueueInv, CopyInv, RetiredInv, [Next]_vars
    PROVE  CopyInv'
<1>0. faults \in Nat /\ faults' \in Nat /\ \A x \in Pieces : received[x] \in Nat /\ received'[x] \in Nat
  BY BoundAssumption DEF TypeOK, MaxCopies
<1> SUFFICES ASSUME NEW x \in Pieces
             PROVE  Times(x)' <= 1 + faults' /\ (Exposed(x)' => Times(x)' <= faults')
  BY DEF CopyInv
<1>1. Times(x) <= 1 + faults /\ (Exposed(x) => Times(x) <= faults) /\ Times(x) \in Nat
  BY <1>0 DEF CopyInv, Times
<1>2. CASE x \in dropped' /\ x \notin dropped
  <2>1. Times(x)' = 1
    BY <1>2, GivenUp DEF Times
  <2>2. CASE faults' = faults
    <3>1. ~Exposed(x)'
      BY <1>2, <2>2, GivenUpIsSafe
    <3>2. 1 <= 1 + faults'
      BY <1>0
    <3>3. Times(x)' <= 1 + faults'
      BY <2>1, <3>2
    <3> QED
      BY <3>1, <3>3
  <2>3. CASE faults' = faults + 1
    BY <1>0, <2>1, <2>3
  <2> QED
    BY <2>2, <2>3, FaultsGrow
<1>3. CASE (x \in dropped' <=> x \in dropped) /\ ~EndpointStores
  <2>1. Times(x)' = Times(x)
    BY <1>3, ReceivedStays DEF Times
  <2>2. CASE faults' = faults + 1
    BY <1>0, <1>1, <2>1, <2>2
  <2>3. CASE faults' = faults /\ ~Drained
    BY <1>0, <1>1, <2>1, <2>3, ExposedStep
  <2>4. CASE Drained
    BY <1>0, <1>1, <2>1, <2>4, DrainedIsSafe
  <2> QED
    BY <2>2, <2>3, <2>4, FaultsGrow
<1>4. CASE EndpointStores
  <2>1. faults' = faults /\ dropped' = dropped /\ ~Drained
    BY <1>4 DEF EndpointStores, Drained, ExitWith
  <2>2. CASE x \in Elements(batch)
    <3>1. Exposed(x)
      BY <1>4, <2>2 DEF EndpointStores, Exposed
    <3>2. received'[x] <= received[x] + 1
      BY <1>4, <2>2, StoreFacts
    <3>3. Times(x)' <= Times(x) + 1 /\ Times(x)' \in Nat
      BY <1>0, <2>1, <3>2 DEF Times
    <3> QED
      BY <1>0, <1>1, <1>4, <2>1, <2>2, <3>1, <3>3, StoredIsSafe
  <2>3. CASE x \notin Elements(batch)
    <3>1. Times(x)' = Times(x)
      BY <1>4, <2>1, <2>3, StoreFacts DEF Times
    <3> QED
      BY <1>0, <1>1, <2>1, <3>1, ExposedStep
  <2> QED
    BY <2>2, <2>3
<1>5. dropped \subseteq dropped'
  BY Grows
<1> QED
  BY <1>2, <1>3, <1>4, <1>5

-------------------------------------------------------------------------------
(* The inductive invariant *)

LEMMA IInvInit == Init => IInv
<1> SUFFICES ASSUME Init PROVE IInv
  OBVIOUS
<1>1. TypeOK
  BY TypeInit
<1>2. Queue = <<>> /\ 1..Len(Queue) = {} /\ \A s \in Nat : 1..Len(Queue) = {}
  BY EmptyFacts DEF Init, Queue
<1>3. ProcessInv
  BY BoundAssumption DEF Init, ProcessInv
<1>4. CursorInv /\ QueueInv /\ OrderInv
  BY <1>2 DEF Init, CursorInv, QueueInv, OrderInv
<1>5. BytesAccounted
  <2>1. \A f \in Files : 0..(cursors[f] - 1) = {} /\ 0..(saved[f] - 1) = {}
    <3> SUFFICES ASSUME NEW f \in Files PROVE 0..(cursors[f] - 1) = {} /\ 0..(saved[f] - 1) = {}
      OBVIOUS
    <3>1. cursors[f] = 0 /\ saved[f] = 0
      BY DEF Init
    <3> QED
      BY <3>1
  <2> QED
    BY <2>1 DEF BytesAccounted
<1>6. DealtInOrder /\ CopyInv /\ RetiredInv
  BY DEF Init, DealtInOrder, CopyInv, RetiredInv, Times
<1> QED
  BY <1>1, <1>3, <1>4, <1>5, <1>6 DEF IInv

LEMMA IInvStep == IInv /\ [Next]_vars => IInv'
<1> SUFFICES ASSUME IInv, [Next]_vars PROVE IInv'
  OBVIOUS
<1>1. TypeOK' /\ ProcessInv'
  BY TypeStep, ProcessStep DEF IInv
<1>2. CursorInv' /\ QueueInv' /\ BytesAccounted' /\ OrderInv'
  BY <1>1, QueueStep DEF IInv
<1>3. DealtInOrder' /\ CopyInv' /\ RetiredInv'
  BY <1>1, DeliveryStep, CopyStep, RetiredStep DEF IInv
<1> QED
  BY <1>1, <1>2, <1>3 DEF IInv

THEOREM RouterInductive == Spec => []IInv
  BY IInvInit, IInvStep, PTL DEF Spec

(* The daemon's variables keep their types: the attempts stay within          *)
(* MAX_RETRIES and a batch within batch_size (sender.ts, router.ts flush).    *)
THEOREM RouterTypeCorrect == Spec => []TypeOK
<1>1. IInv => TypeOK
  BY DEF IInv
<1> QED
  BY RouterInductive, <1>1, PTL

(* However scans, timers, replies, failed saves and exits interleave, a byte  *)
(* behind a cursor, in memory or on disk, is stored, held, or given up on     *)
(* where the daemon gives up.                                                 *)
THEOREM BytesSafe == Spec => []BytesAccounted
<1>1. IInv => BytesAccounted
  BY DEF IInv
<1> QED
  BY RouterInductive, <1>1, PTL

(* The order of the channel is the invariant's. *)
LEMMA ChannelOrder == ASSUME TypeOK', DealtInOrder' PROVE Channel!InOrder'
<1> SUFFICES ASSUME NEW x \in Channel!DealtWith', x.epoch = 1, NEW b \in 0..(x.from - 1)
             PROVE  \E y \in Channel!DealtWith' : y.file = x.file /\ y.epoch = 1 /\ y.from <= b /\ b < y.to
  BY DEF Channel!InOrder
<1>1. x \in Pieces /\ (received'[x] > 0 \/ x \in dropped')
  BY DEF Channel!DealtWith, TypeOK
<1>2. Settled(x.file, 1, b)'
  BY <1>1 DEF DealtInOrder
<1> QED
  BY <1>2 DEF Settled, Holds, Channel!DealtWith

(* A batch that is stored is handed over: none of it was dealt with more      *)
(* often than there were faults, so that no count is at its bound.            *)
LEMMA StoringHandsOver == ASSUME IInv, IInv', EndpointStores PROVE Channel!HandOver
<1>1. faults \in Nat /\ faults <= MaxFaults /\ \A x \in Pieces : received[x] \in Nat
  BY BoundAssumption DEF IInv, TypeOK, MaxCopies
<1>2. received' \in [Pieces -> Nat]
  BY BoundAssumption DEF IInv, TypeOK, MaxCopies
<1>3. ASSUME NEW x \in Pieces, received'[x] # received[x]
      PROVE  received'[x] = received[x] + 1 /\ Channel!Times(x) <= faults
  <2>1. x \in Elements(batch) /\ received'[x] = received[x] + 1
    BY <1>3 DEF EndpointStores
  <2>2. Exposed(x)
    BY <2>1 DEF EndpointStores, Exposed
  <2> QED
    BY <2>1, <2>2 DEF IInv, CopyInv, Times, Channel!Times
<1> QED
  BY <1>2, <1>3 DEF Channel!HandOver, EndpointStores

LEMMA OthersGiveUp == ASSUME IInv, IInv', [Next]_vars, ~EndpointStores PROVE Channel!GiveUp
<1>1. TypeOK /\ TypeOK'
  BY DEF IInv
<1>2. received' = received
  BY ReceivedStays
<1>3. dropped \subseteq dropped' /\ dropped' \subseteq Pieces
  BY <1>1, Grows DEF TypeOK
<1>4. \A x \in dropped' \ dropped : received[x] = 0
  BY <1>1, GivenUp
<1>5. faults' \in {faults, faults + 1}
  BY <1>1, FaultsGrow
<1> QED
  BY <1>2, <1>3, <1>4, <1>5 DEF Channel!GiveUp

(* The daemon implements the channel: unshift() in flush puts a failed batch  *)
(* back in front of what came later, so the lines of a file are stored, or    *)
(* given up on, in the order they were written, and a line comes up again     *)
(* only after a fault.                                                        *)
THEOREM KeepsChannel == Spec => ChannelKept
<1>1. Init => Channel!ChannelInit
  BY DEF Init, Channel!ChannelInit
<1>2. IInv /\ IInv' /\ [Next]_vars => [Channel!ChannelNext]_(Channel!channelVars)
  <2> SUFFICES ASSUME IInv, IInv', [Next]_vars PROVE Channel!ChannelNext
    OBVIOUS
  <2>1. Channel!InOrder'
    BY ChannelOrder DEF IInv
  <2>2. Channel!HandOver \/ Channel!GiveUp
    BY StoringHandsOver, OthersGiveUp
  <2> QED
    BY <2>1, <2>2 DEF Channel!ChannelNext
<1>3. Spec => Init /\ [][Next]_vars
  BY DEF Spec
<1> QED
  BY <1>1, <1>2, <1>3, RouterInductive, PTL DEF ChannelKept, Channel!ChannelSpec

(* A piece is stored twice only after a reply, the process or a saved cursor  *)
(* was lost, and once more for each of them: the flag `sending`, splice() and *)
(* the cursors never send one twice by themselves.                            *)
THEOREM DuplicatesSafe == Spec => []DuplicatesAreFaults
<1>1. IInv => DuplicatesAreFaults
  <2> SUFFICES ASSUME IInv, NEW x \in Pieces PROVE received[x] <= 1 + faults
    BY DEF DuplicatesAreFaults
  <2>1. received[x] \in Nat /\ faults \in Nat /\ Times(x) <= 1 + faults
    BY BoundAssumption DEF IInv, CopyInv, TypeOK, MaxCopies
  <2> QED
    BY <2>1 DEF Times
<1> QED
  BY RouterInductive, <1>1, PTL

(* Whatever the exits, the 401 and the kills do, loadCursors and saveCursors  *)
(* never store a position behind the one on disk: the cursor file moves back  *)
(* only when saving it failed or was cut short, and then to nothing at all.   *)
THEOREM SavedMonotone == Spec => SavedNeverRetreats
<1>1. IInv /\ [Next]_vars => [(\E f \in Files : saved'[f] < saved[f]) => faults' > faults /\ saved' = Blank]_vars
  BY SavedStep DEF IInv
<1>2. Spec => [][Next]_vars
  BY DEF Spec
<1> QED
  BY RouterInductive, <1>1, <1>2, PTL DEF SavedNeverRetreats
===============================================================================
