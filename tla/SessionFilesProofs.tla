-------------------------- MODULE SessionFilesProofs --------------------------
(***************************************************************************)
(* Safety of IngestTail for every set of files and passes, every content,  *)
(* every bound.  The argument is one inductive invariant, IInv: a pass     *)
(* that streams from byte `pos` knows that every line before `pos` is      *)
(* settled, because it started at a stored offset and an offset is stored  *)
(* only after everything before it was committed.  Being settled is        *)
(* stable, so what other passes do meanwhile, and where they die, does     *)
(* not matter.                                                             *)
(***************************************************************************)
EXTENDS MCSessionFiles, WellFoundedInduction, TLAPS

\* The line needs no further visit, and a session_end that needs none has
\* closed the session or was preceded by one that did.
Settled(f, i) ==
    /\ Handled(f, i)
    /\ IsEnd(f, i) => \/ i \in cut[f]
                      \/ closed[f] # 0 /\ closed[f] <= i

\* Every line that begins before byte b is settled (b may be its middle).
SettledFrom(f, b) == \A i \in LineNos : 2 * i - 1 <= b => Settled(f, i)

\* Every line that ends at or before byte b is settled.
SettledTo(f, b) == \A i \in LineNos : 2 * i <= b => Settled(f, i)

VisitInv(p) ==
    LET v == visit[p]
    IN  /\ v.seen <= size[v.on]
        /\ v.at \in {"stream", "tail"} => SettledFrom(v.on, v.pos)
        /\ v.at = "tail" => v.seen <= v.eof
        /\ v.at \in {"link", "save"} => SettledTo(v.on, v.seen)

OrderInv ==
    \A f \in Files, i, j \in LineNos :
        j < i /\ (rows[f][i] > 0 \/ closed[f] = i) => Settled(f, j)

\* One message row per uuid, and tokens are booked only with a row.
RowInv ==
    /\ \A f \in Files, i \in LineNos : booked[f][i] <= rows[f][i]
    /\ \A f \in Files, i \in LineNos :
          booked[f][i] > 0 => Kind(f, i) = "assistant"
    /\ \A f \in Files, i \in LineNos :
          rows[f][i] > 0 /\ IsMessage(f, i) /\ Id(f, i) # NoId =>
              rows[f][i] = 1 /\ Id(f, i) \in index
    /\ \A f, g \in Files, i, j \in LineNos :
          /\ rows[f][i] > 0 /\ IsMessage(f, i) /\ Id(f, i) # NoId
          /\ rows[g][j] > 0 /\ IsMessage(g, j) /\ Id(g, j) = Id(f, i)
          => f = g /\ i = j

IInv ==
    /\ TypeOK
    /\ \A f \in Files : SettledFrom(f, offset[f])
    /\ \A p \in Passes : VisitInv(p)
    /\ OrderInv
    /\ RowInv

-------------------------------------------------------------------------------
(* Lemmas about one transaction *)

\* A non-empty set of naturals has a least element.
LEMMA LeastNat ==
    ASSUME NEW S \in SUBSET Nat, S # {}
    PROVE  \E x \in S : \A y \in S : x <= y
<1> DEFINE R == {ss \in Nat \X Nat : ss[1] < ss[2]}
<1>1. IsWellFoundedOn(R, Nat)
  BY NatLessThanWellFounded DEF OpToRel
<1> HIDE DEF R
<1>2. PICK x \in S : \A y \in S : ~ (<<y, x>> \in R)
  BY <1>1, WFMin
<1>3. \A y \in S : ~ (y < x)
  BY <1>2 DEF R
<1>4. QED BY <1>3

LEMMA ContentType ==
    ASSUME TypeOK
    PROVE  \A f \in Files, i \in LineNos :
              /\ content[f][i] \in Line
              /\ Kind(f, i) \in Kinds
              /\ Id(f, i) \in Uuids \cup {NoId}
<1>1. \A f \in Files : content[f] \in [LineNos -> Line]
  BY ContentAssumption DEF TypeOK
<1>2. QED
  BY <1>1 DEF Kind, Id, Line

\* The line that closes the session is the first session_end of the batch.
LEMMA ClosedByFirst ==
    ASSUME TypeOK, NEW f \in Files, NEW batch \in SUBSET LineNos
    PROVE  /\ ClosedBy(f, batch) \in 0..MaxLines
           /\ closed[f] # 0 => ClosedBy(f, batch) = closed[f]
           /\ closed[f] = 0 /\ ClosedBy(f, batch) # 0 => ClosedBy(f, batch) \in batch
           /\ \A i \in batch : IsEnd(f, i) =>
                 ClosedBy(f, batch) # 0 /\ (ClosedBy(f, batch) <= i \/ closed[f] # 0)
<1> DEFINE ends == {i \in batch : IsEnd(f, i)}
<1>1. closed[f] \in 0..MaxLines
  BY DEF TypeOK
<1>2. CASE closed[f] # 0 \/ ends = {}
  <2>1. ClosedBy(f, batch) = closed[f]
    BY <1>2 DEF ClosedBy
  <2>2. QED
    BY <1>1, <1>2, <2>1
<1>3. CASE closed[f] = 0 /\ ends # {}
  <2> DEFINE c == CHOOSE i \in ends : \A j \in ends : i <= j
  <2>1. ends \in SUBSET Nat
    <3>1. LineNos \subseteq Nat
      BY BoundAssumption DEF LineNos
    <3>2. QED
      BY <3>1
  <2>2. \E i \in ends : \A j \in ends : i <= j
    BY <1>3, <2>1, LeastNat
  <2>3. c \in ends /\ \A j \in ends : c <= j
    BY <2>2
  <2>4. ClosedBy(f, batch) = c
    BY <1>3 DEF ClosedBy
  <2>5. c \in 1..MaxLines
    BY <2>3 DEF LineNos
  <2>6. QED
    BY <1>3, <2>3, <2>4, <2>5
<1>4. QED
  BY <1>2, <1>3

\* What one transaction does to the tables, seen from any line.
LEMMA CommitEffect ==
    ASSUME TypeOK, OrderInv,
           NEW f \in Files, NEW batch \in SUBSET LineNos, NEW b \in BOOLEAN,
           Commit(f, batch, b), UNCHANGED <<content, cut>>
    PROVE  /\ \A g \in Files, i \in LineNos : Settled(g, i) => Settled(g, i)'
           /\ \A i \in batch : Settled(f, i)'
           /\ \A g \in Files, i \in LineNos :
                 rows'[g][i] > 0 /\ ~(rows[g][i] > 0) => g = f /\ i \in batch
           /\ \A g \in Files, i \in LineNos :
                 closed'[g] = i /\ closed[g] # i => g = f /\ i \in batch
<1> DEFINE c == ClosedBy(f, batch)
<1>1. /\ c \in 0..MaxLines
      /\ closed[f] # 0 => c = closed[f]
      /\ closed[f] = 0 /\ c # 0 => c \in batch
      /\ \A i \in batch : IsEnd(f, i) => c # 0 /\ (c <= i \/ closed[f] # 0)
  BY ClosedByFirst
<1> HIDE DEF c
<1>2. closed' = [closed EXCEPT ![f] = c]
  BY DEF Commit, c
<1>3. /\ closed \in [Files -> 0..MaxLines]
      /\ rows \in [Files -> [LineNos -> 0..MaxCopies]]
  BY DEF TypeOK
<1>4. \A n \in 0..MaxCopies : Bump(n) \in 0..MaxCopies /\ Bump(n) >= n /\ Bump(n) > 0
  BY BoundAssumption DEF Bump
<1>5. /\ \A g \in Files, i \in LineNos : g # f => rows'[g][i] = rows[g][i]
      /\ \A i \in LineNos : i \notin batch => rows'[f][i] = rows[f][i]
      /\ \A i \in batch : Inserted(f, i, batch) \/ IsThrottle(f, i) => rows'[f][i] > 0
      /\ \A g \in Files, i \in LineNos : rows[g][i] > 0 => rows'[g][i] > 0
  BY <1>3, <1>4 DEF Commit
<1>6. /\ index \subseteq index'
      /\ \A i \in batch : IsMessage(f, i) /\ Id(f, i) # NoId => Id(f, i) \in index'
  BY DEF Commit
<1>7. \A g \in Files, i \in LineNos :
          /\ IsMessage(g, i)' = IsMessage(g, i) /\ IsThrottle(g, i)' = IsThrottle(g, i)
          /\ IsEnd(g, i)' = IsEnd(g, i) /\ Id(g, i)' = Id(g, i)
  BY DEF IsMessage, IsThrottle, IsEnd, Id, Kind
<1>8. ASSUME NEW g \in Files, NEW i \in LineNos, Settled(g, i)
      PROVE  Settled(g, i)'
  <2>1. Handled(g, i)'
    BY <1>5, <1>6, <1>7, <1>8 DEF Settled, Handled
  <2>2. IsEnd(g, i)' => i \in cut'[g] \/ (closed'[g] # 0 /\ closed'[g] <= i)
    BY <1>1, <1>2, <1>3, <1>7, <1>8 DEF Settled
  <2>3. QED
    BY <2>1, <2>2 DEF Settled
<1>9. ASSUME NEW i \in batch
      PROVE  Settled(f, i)'
  <2>1. Handled(f, i)'
    <3>1. IsMessage(f, i) /\ Id(f, i) = NoId => Inserted(f, i, batch)
      BY IdAssumption DEF Inserted, TypeOK
    <3>2. QED
      BY <1>5, <1>6, <1>7, <3>1 DEF Handled
  <2>2. IsEnd(f, i)' => i \in cut'[f] \/ (closed'[f] # 0 /\ closed'[f] <= i)
    <3>1. closed[f] \in 0..MaxLines /\ i \in 1..MaxLines
      BY <1>3 DEF LineNos
    <3>2. CASE closed[f] # 0 /\ i < closed[f]
      BY <1>7, <3>1, <3>2 DEF OrderInv, Settled, LineNos
    <3>3. CASE ~(closed[f] # 0 /\ i < closed[f])
      BY <1>1, <1>2, <1>3, <1>7, <3>1, <3>3, BoundAssumption
    <3>4. QED
      BY <3>2, <3>3
  <2>3. QED
    BY <2>1, <2>2 DEF Settled
<1>10. \A g \in Files, i \in LineNos :
          closed'[g] = i /\ closed[g] # i => g = f /\ i \in batch
  BY <1>1, <1>2, <1>3, BoundAssumption DEF LineNos
<1>11. QED
  BY <1>5, <1>8, <1>9, <1>10

\* One transaction keeps the tables typed and the rows of a uuid unique.
LEMMA CommitRows ==
    ASSUME TypeOK, RowInv,
           NEW f \in Files, NEW batch \in SUBSET LineNos, NEW b \in BOOLEAN,
           Commit(f, batch, b), UNCHANGED content
    PROVE  /\ index' \subseteq Uuids
           /\ rows' \in [Files -> [LineNos -> 0..MaxCopies]]
           /\ booked' \in [Files -> [LineNos -> 0..MaxCopies]]
           /\ closed' \in [Files -> 0..MaxLines]
           /\ RowInv'
<1>1. /\ index \subseteq Uuids
      /\ rows \in [Files -> [LineNos -> 0..MaxCopies]]
      /\ booked \in [Files -> [LineNos -> 0..MaxCopies]]
      /\ closed \in [Files -> 0..MaxLines]
  BY DEF TypeOK
<1>2. /\ \A n \in 0..MaxCopies : Bump(n) \in 0..MaxCopies
      /\ Bump(0) = 1
      /\ \A m, n \in 0..MaxCopies : m <= n => Bump(m) <= Bump(n)
      /\ \A n \in 0..MaxCopies : n <= Bump(n) /\ Bump(n) > 0
  BY BoundAssumption DEF Bump
<1> DEFINE R(i) == i \in batch /\ (Inserted(f, i, batch) \/ IsThrottle(f, i))
           B(i) == i \in batch /\ Books(f, i, batch, b)
<1>3. /\ rows' = [rows EXCEPT ![f] = [i \in LineNos |->
                    IF R(i) THEN Bump(rows[f][i]) ELSE rows[f][i]]]
      /\ booked' = [booked EXCEPT ![f] = [i \in LineNos |->
                    IF B(i) THEN Bump(booked[f][i]) ELSE booked[f][i]]]
  BY DEF Commit
<1>4. \A i \in LineNos : B(i) => R(i) /\ Kind(f, i) = "assistant"
  BY DEF Books
<1> HIDE DEF R, B
<1>5. /\ rows' \in [Files -> [LineNos -> 0..MaxCopies]]
      /\ booked' \in [Files -> [LineNos -> 0..MaxCopies]]
  BY <1>1, <1>2, <1>3
<1>6. closed' \in [Files -> 0..MaxLines]
  BY <1>1, ClosedByFirst DEF Commit
<1>7. /\ index' \subseteq Uuids
      /\ index \subseteq index'
      /\ \A i \in batch : IsMessage(f, i) /\ Id(f, i) # NoId => Id(f, i) \in index'
  BY <1>1, ContentType DEF Commit
<1>8. \A g \in Files, i \in LineNos :
          /\ IsMessage(g, i)' = IsMessage(g, i) /\ IsThrottle(g, i)' = IsThrottle(g, i)
          /\ Id(g, i)' = Id(g, i) /\ Kind(g, i)' = Kind(g, i)
  BY DEF IsMessage, IsThrottle, IsEnd, Id, Kind
<1>9. \A g \in Files, i \in LineNos : booked'[g][i] <= rows'[g][i]
  <2> SUFFICES ASSUME NEW g \in Files, NEW i \in LineNos
               PROVE  booked'[g][i] <= rows'[g][i]
    OBVIOUS
  <2>1. booked[g][i] <= rows[g][i] /\ booked[g][i] \in 0..MaxCopies /\ rows[g][i] \in 0..MaxCopies
    BY <1>1 DEF RowInv
  <2>2. CASE g # f
    BY <1>1, <1>3, <2>1, <2>2
  <2>3. CASE g = f /\ B(i)
    BY <1>1, <1>2, <1>3, <1>4, <2>1, <2>3
  <2>4. CASE g = f /\ ~B(i)
    <3>1. booked'[g][i] = booked[g][i] /\ rows'[g][i] \in {rows[g][i], Bump(rows[g][i])}
      BY <1>1, <1>3, <2>4
    <3>2. Bump(rows[g][i]) \in 0..MaxCopies /\ rows[g][i] <= Bump(rows[g][i])
      BY <1>2, <2>1
    <3>3. QED
      BY <2>1, <3>1, <3>2, BoundAssumption
  <2>5. QED
    BY <2>2, <2>3, <2>4
<1>10. \A g \in Files, i \in LineNos : booked'[g][i] > 0 => Kind(g, i)' = "assistant"
  BY <1>1, <1>3, <1>4, <1>8 DEF RowInv
\* A message with a uuid that is inserted had no row, nor had any namesake.
<1>11. ASSUME NEW i \in LineNos, R(i), IsMessage(f, i), Id(f, i) # NoId
       PROVE  /\ i \in batch /\ Inserted(f, i, batch)
              /\ \A g \in Files, j \in LineNos :
                    IsMessage(g, j) /\ Id(g, j) = Id(f, i) => ~(rows[g][j] > 0)
              /\ rows'[f][i] = 1
  <2>1. i \in batch /\ Inserted(f, i, batch)
    BY <1>11 DEF R, IsThrottle, IsMessage
  <2>2. \A g \in Files, j \in LineNos :
           IsMessage(g, j) /\ Id(g, j) = Id(f, i) => ~(rows[g][j] > 0)
    BY <1>11, <2>1 DEF Inserted, RowInv
  <2>3. rows[f][i] = 0
    BY <1>1, <1>11, <2>2, BoundAssumption
  <2>4. QED
    BY <1>1, <1>2, <1>3, <1>11, <2>1, <2>2, <2>3
<1>12. \A g \in Files, i \in LineNos :
          rows'[g][i] > 0 /\ IsMessage(g, i) /\ Id(g, i) # NoId =>
              rows'[g][i] = 1 /\ Id(g, i) \in index'
  <2> SUFFICES ASSUME NEW g \in Files, NEW i \in LineNos,
                      rows'[g][i] > 0, IsMessage(g, i), Id(g, i) # NoId
               PROVE  rows'[g][i] = 1 /\ Id(g, i) \in index'
    OBVIOUS
  <2>1. CASE g = f /\ R(i)
    BY <1>7, <1>11, <2>1
  <2>2. CASE ~(g = f /\ R(i))
    BY <1>1, <1>3, <1>7, <2>2 DEF RowInv
  <2>3. QED
    BY <2>1, <2>2
<1>13. ASSUME NEW g \in Files, NEW h \in Files, NEW i \in LineNos, NEW j \in LineNos,
              rows'[g][i] > 0, IsMessage(g, i), Id(g, i) # NoId,
              rows'[h][j] > 0, IsMessage(h, j), Id(h, j) = Id(g, i)
       PROVE  g = h /\ i = j
  <2>1. CASE g = f /\ R(i) /\ h = f /\ R(j)
    <3>1. /\ i \in batch /\ Inserted(f, i, batch)
          /\ j \in batch /\ Inserted(f, j, batch)
      BY <1>11, <1>13, <2>1
    <3>2. ~(i < j) /\ ~(j < i)
      BY <1>13, <2>1, <3>1 DEF Inserted
    <3>3. QED
      BY <2>1, <3>2, BoundAssumption DEF LineNos
  <2>2. CASE g = f /\ R(i) /\ ~(h = f /\ R(j))
    <3>1. rows[h][j] > 0
      BY <1>1, <1>3, <1>13, <2>2
    <3>2. QED
      BY <1>11, <1>13, <2>2, <3>1
  <2>3. CASE ~(g = f /\ R(i)) /\ h = f /\ R(j)
    <3>1. rows[g][i] > 0
      BY <1>1, <1>3, <1>13, <2>3
    <3>2. QED
      BY <1>11, <1>13, <2>3, <3>1
  <2>4. CASE ~(g = f /\ R(i)) /\ ~(h = f /\ R(j))
    <3>1. rows[g][i] > 0 /\ rows[h][j] > 0
      BY <1>1, <1>3, <1>13, <2>4
    <3>2. QED
      BY <1>13, <3>1 DEF RowInv
  <2>5. QED
    BY <2>1, <2>2, <2>3, <2>4
<1>14. RowInv'
  BY <1>8, <1>9, <1>10, <1>12, <1>13 DEF RowInv
<1>15. QED
  BY <1>5, <1>6, <1>7, <1>14

-------------------------------------------------------------------------------
(* Every step preserves the invariant *)

LEMMA IdleVisit == Idle \in Visit /\ Idle.at = "idle" /\ Idle.seen = 0
<1>1. (CHOOSE f \in Files : TRUE) \in Files
  BY FilesAssumption
<1>2. 0 \in Bytes
  BY BoundAssumption DEF Bytes
<1>3. QED
  BY <1>1, <1>2 DEF Idle, Visit, Stages

\* The invariant holds initially: nothing is written, nothing is stored.
LEMMA InitInv == Init => IInv
<1> SUFFICES ASSUME Init PROVE IInv
  OBVIOUS
<1> USE DEF Init
<1>1. 0 \in Bytes /\ 0 \in 0..MaxCopies /\ 0 \in 0..MaxLines /\ 0 \in 0..MaxAborts
  BY BoundAssumption DEF Bytes
<1>2. TypeOK
  BY <1>1, IdleVisit DEF TypeOK
<1>3. \A f \in Files : SettledFrom(f, offset[f])
  BY BoundAssumption DEF SettledFrom, LineNos
<1>4. \A p \in Passes : VisitInv(p)
  BY IdleVisit DEF VisitInv, Visit
<1>5. OrderInv /\ RowInv
  BY BoundAssumption DEF OrderInv, RowInv, LineNos
<1>6. QED
  BY <1>2, <1>3, <1>4, <1>5 DEF IInv

\* What a step must keep for the settled lines to stay settled.
LEMMA SettledStable ==
    ASSUME UNCHANGED <<content, index, rows, closed>>,
           \A f \in Files : cut[f] \subseteq cut'[f]
    PROVE  \A f \in Files, i \in LineNos : Settled(f, i) => Settled(f, i)'
BY DEF Settled, Handled, IsMessage, IsThrottle, IsEnd, Id, Kind

LEMMA RowsStable ==
    ASSUME RowInv, UNCHANGED <<content, index, rows, booked>>
    PROVE  RowInv'
BY DEF RowInv, IsMessage, IsEnd, Id, Kind

\* A step that leaves the tables alone, whatever it does to the visits.
LEMMA QuietStep ==
    ASSUME IInv, UNCHANGED <<content, db, cut>>
    PROVE  /\ \A f \in Files : SettledFrom(f, offset[f])'
           /\ OrderInv'
           /\ RowInv'
           /\ \A f \in Files, i \in LineNos : Settled(f, i)' = Settled(f, i)
           /\ \A f \in Files, b \in Bytes :
                 /\ SettledFrom(f, b)' = SettledFrom(f, b)
                 /\ SettledTo(f, b)' = SettledTo(f, b)
<1> USE DEF db
<1>1. \A f \in Files, i \in LineNos : Settled(f, i)' = Settled(f, i)
  BY DEF Settled, Handled, IsMessage, IsThrottle, IsEnd, Id, Kind
<1>2. RowInv'
  BY RowsStable DEF IInv
<1>3. QED
  BY <1>1, <1>2 DEF IInv, OrderInv, SettledFrom, SettledTo

\* The order in which lines take effect survives a transaction of a visit.
LEMMA CommitStep ==
    ASSUME IInv, NEW f \in Files, NEW batch \in SUBSET LineNos, NEW b \in BOOLEAN,
           Commit(f, batch, b), UNCHANGED <<content, cut>>,
           \A i \in batch, j \in LineNos : j < i => j \in batch \/ Settled(f, j)
    PROVE  /\ \A g \in Files, i \in LineNos : Settled(g, i) => Settled(g, i)'
           /\ \A i \in batch : Settled(f, i)'
           /\ OrderInv'
<1>1. /\ \A g \in Files, i \in LineNos : Settled(g, i) => Settled(g, i)'
      /\ \A i \in batch : Settled(f, i)'
      /\ \A g \in Files, i \in LineNos :
            rows'[g][i] > 0 /\ ~(rows[g][i] > 0) => g = f /\ i \in batch
      /\ \A g \in Files, i \in LineNos :
            closed'[g] = i /\ closed[g] # i => g = f /\ i \in batch
  <2>1. TypeOK /\ OrderInv
    BY DEF IInv
  <2>2. QED
    <3>1. \A g \in Files, i \in LineNos : Settled(g, i) => Settled(g, i)'
      BY <2>1, CommitEffect
    <3>2. \A i \in batch : Settled(f, i)'
      BY <2>1, CommitEffect
    <3>3. \A g \in Files, i \in LineNos :
            rows'[g][i] > 0 /\ ~(rows[g][i] > 0) => g = f /\ i \in batch
      BY <2>1, CommitEffect
    <3>4. \A g \in Files, i \in LineNos :
            closed'[g] = i /\ closed[g] # i => g = f /\ i \in batch
      BY <2>1, CommitEffect
    <3>5. QED
      BY <3>1, <3>2, <3>3, <3>4
<1>2. OrderInv'
  <2> SUFFICES ASSUME NEW g \in Files, NEW i \in LineNos, NEW j \in LineNos, j < i,
                      rows'[g][i] > 0 \/ closed'[g] = i
               PROVE  Settled(g, j)'
    BY DEF OrderInv
  <2>1. CASE rows[g][i] > 0 \/ closed[g] = i
    BY <1>1, <2>1 DEF IInv, OrderInv
  <2>2. CASE ~(rows[g][i] > 0 \/ closed[g] = i)
    BY <1>1, <2>2
  <2>3. QED
    BY <2>1, <2>2
<1>3. QED
  BY <1>1, <1>2

\* A transaction keeps the whole state typed.
LEMMA CommitTyped ==
    ASSUME IInv, NEW f \in Files, NEW batch \in SUBSET LineNos, NEW b \in BOOLEAN,
           Commit(f, batch, b), UNCHANGED <<content, size, aborts, cut>>,
           NEW p \in Passes, NEW w \in Visit, visit' = [visit EXCEPT ![p] = w]
    PROVE  TypeOK' /\ RowInv'
<1>1. TypeOK /\ RowInv
  BY DEF IInv
<1>2. /\ index' \subseteq Uuids
      /\ rows' \in [Files -> [LineNos -> 0..MaxCopies]]
      /\ booked' \in [Files -> [LineNos -> 0..MaxCopies]]
      /\ closed' \in [Files -> 0..MaxLines]
      /\ RowInv'
  BY <1>1, CommitRows
<1>3. offset' = offset /\ delegated' = delegated
  BY DEF Commit
<1>4. QED
  BY <1>1, <1>2, <1>3 DEF TypeOK

\* A visit hands a transaction nothing whose predecessors are not settled.
LEMMA BatchOrdered ==
    ASSUME NEW f \in Files, NEW pos \in Bytes, NEW end \in Bytes, SettledFrom(f, pos)
    PROVE  /\ \A i \in Whole(pos, end), j \in LineNos :
                 j < i => j \in Whole(pos, end) \/ Settled(f, j)
           /\ \A i \in LineNos : 2 * i <= end => i \in Whole(pos, end) \/ Settled(f, i)
BY BoundAssumption DEF SettledFrom, Whole, LineNos, Bytes

\* The other passes are not disturbed by what pass p does, as long as settled
\* lines stay settled.
LEMMA OthersKeep ==
    ASSUME IInv, NEW p \in Passes, NEW w,
           visit' = [visit EXCEPT ![p] = w],
           UNCHANGED size,
           \A f \in Files, i \in LineNos : Settled(f, i) => Settled(f, i)',
           VisitInv(p)'
    PROVE  \A q \in Passes : VisitInv(q)'
<1> SUFFICES ASSUME NEW q \in Passes, q # p PROVE VisitInv(q)'
  OBVIOUS
<1>1. visit \in [Passes -> Visit] /\ VisitInv(q)
  BY DEF IInv, TypeOK
<1>2. visit'[q] = visit[q] /\ visit[q].on \in Files
  BY <1>1 DEF Visit
<1>3. QED
  BY <1>1, <1>2 DEF VisitInv, SettledFrom, SettledTo

LEMMA StepInv == IInv /\ [Next]_vars => IInv'
<1> SUFFICES ASSUME IInv, [Next]_vars PROVE IInv'
  OBVIOUS
<1>1. TypeOK
  BY DEF IInv
<1>2. ASSUME NEW f \in Files, HarnessWrites(f)
      PROVE  IInv'
  <2>1. PICK n \in 1..2 : /\ size[f] + n <= 2 * MaxLines
                          /\ size' = [size EXCEPT ![f] = @ + n]
    BY <1>2 DEF HarnessWrites
  <2>2. UNCHANGED <<content, db, visit, aborts, cut>>
    BY <1>2 DEF HarnessWrites
  <2>3. size \in [Files -> Bytes] /\ \A g \in Files : size'[g] \in Bytes /\ size'[g] >= size[g]
    BY <1>1, <2>1, BoundAssumption DEF TypeOK, Bytes
  <2>4. TypeOK'
    BY <1>1, <2>1, <2>2, <2>3 DEF TypeOK, db
  <2>5. \A p \in Passes : VisitInv(p)'
    <3> SUFFICES ASSUME NEW p \in Passes PROVE VisitInv(p)'
      OBVIOUS
    <3>1. visit[p] \in Visit /\ visit'[p] = visit[p] /\ VisitInv(p)
      BY <1>1, <2>2 DEF TypeOK, IInv
    <3>2. visit[p].on \in Files /\ visit[p].seen \in Bytes /\ visit[p].pos \in Bytes
      BY <3>1 DEF Visit
    <3>3. visit[p].seen <= size'[visit[p].on]
      BY <2>3, <3>1, <3>2, BoundAssumption DEF VisitInv, Bytes
    <3>4. QED
      BY <2>2, <3>1, <3>2, <3>3, QuietStep DEF VisitInv
  <2>6. QED
    BY <2>2, <2>4, <2>5, QuietStep DEF IInv
<1>3. ASSUME NEW p \in Passes, NEW f \in Files, Stat(p, f)
      PROVE  IInv'
  <2> DEFINE w == [Idle EXCEPT !.at = "stated", !.on = f, !.seen = size[f]]
  <2>1. visit' = [visit EXCEPT ![p] = w] /\ UNCHANGED <<content, size, db, aborts, cut>>
    BY <1>3 DEF Stat, file
  <2>2. w \in Visit /\ w.at = "stated" /\ w.on = f /\ w.seen = size[f]
    BY <1>1, IdleVisit DEF Visit, Stages, TypeOK
  <2> HIDE DEF w
  <2>3. TypeOK'
    BY <1>1, <2>1, <2>2 DEF TypeOK, db
  <2>4. VisitInv(p)'
    <3>1. visit'[p] = w /\ size'[f] = size[f] /\ size[f] \in Bytes
      BY <1>1, <2>1 DEF TypeOK
    <3>2. QED
      BY <2>2, <3>1, BoundAssumption DEF VisitInv, Bytes
  <2>5. QED
    BY <2>1, <2>3, <2>4, QuietStep, OthersKeep DEF IInv
<1>4. ASSUME NEW p \in Passes, ReadOffset(p)
      PROVE  IInv'
  <2>1. PICK v \in Visit : v = visit[p]
    BY <1>1 DEF TypeOK
  <2>2. PICK start \in Bytes : start = offset[v.on]
    BY <1>1 DEF TypeOK, Visit
  <2>3. PICK w : /\ visit' = [visit EXCEPT ![p] = w]
                 /\ w = IF v.seen <= start THEN Idle
                        ELSE [v EXCEPT !.at = "stream", !.pos = start]
    BY <1>4, <2>1, <2>2 DEF ReadOffset, NothingNew
  <2>4. UNCHANGED <<content, size, db, aborts, cut>>
    BY <1>4 DEF ReadOffset, file
  <2>5. w \in Visit /\ v.on \in Files /\ v.seen \in Bytes
    BY <2>1, <2>2, <2>3, IdleVisit DEF Visit, Stages
  <2>6. \/ w.at = "idle" /\ w.seen = 0
        \/ w.at = "stream" /\ w.on = v.on /\ w.seen = v.seen /\ w.pos = start
    BY <2>1, <2>3, IdleVisit DEF Visit
  <2>7. SettledFrom(v.on, start)'
    BY <2>2, <2>4, <2>5, QuietStep DEF IInv
  <2>8. TypeOK'
    BY <1>1, <2>3, <2>4, <2>5 DEF TypeOK, db
  <2>9. VisitInv(p)'
    <3>1. visit'[p] = w /\ size' = size /\ size \in [Files -> Bytes] /\ w.on \in Files
      BY <1>1, <2>3, <2>4, <2>5 DEF TypeOK, Visit
    <3>2. v.seen <= size[v.on]
      BY <2>1 DEF IInv, VisitInv
    <3>3. w.seen <= size'[w.on]
      BY <2>5, <2>6, <3>1, <3>2, BoundAssumption DEF Bytes
    <3>4. w.at = "stream" => SettledFrom(w.on, w.pos)'
      BY <2>6, <2>7
    <3>5. QED
      BY <2>6, <3>1, <3>3, <3>4 DEF VisitInv
  <2>10. QED
    BY <2>3, <2>4, <2>8, <2>9, QuietStep, OthersKeep DEF IInv
<1>5. ASSUME NEW p \in Passes, CommitFull(p)
      PROVE  IInv'
  <2>1. PICK v \in Visit : v = visit[p]
    BY <1>1 DEF TypeOK
  <2>2. PICK end : end = BatchEnd(v.pos)
    OBVIOUS
  <2>3. PICK batch : batch = Whole(v.pos, end)
    OBVIOUS
  <2>4. PICK parent \in BOOLEAN : parent = KnowsParent(p, batch)
    BY <2>1 DEF KnowsParent, Visit
  <2>5. PICK w : /\ visit' = [visit EXCEPT ![p] = w]
                 /\ w = [v EXCEPT !.pos = end, !.parent = parent]
    BY <1>5, <2>1, <2>2, <2>3, <2>4 DEF CommitFull
  <2>6. /\ v.at = "stream" /\ end <= size[v.on]
        /\ Commit(v.on, batch, v.parent)
        /\ UNCHANGED <<content, size, aborts, cut>>
    BY <1>5, <2>1, <2>2, <2>3 DEF CommitFull, file
  <2>7. /\ v.on \in Files /\ v.parent \in BOOLEAN /\ v.pos \in Bytes
        /\ batch \in SUBSET LineNos /\ size[v.on] \in Bytes
    BY <1>1, <2>1, <2>3 DEF Visit, Whole, TypeOK
  <2>8. end \in Bytes /\ \A i \in LineNos : 2 * i - 1 <= end => 2 * i <= end
    BY <2>2, <2>6, <2>7, BoundAssumption DEF BatchEnd, Bytes, LineNos
  <2>9. w \in Visit /\ w.at = "stream" /\ w.on = v.on /\ w.seen = v.seen /\ w.pos = end
    BY <2>5, <2>6, <2>8 DEF Visit
  <2>10. /\ \A i \in batch, j \in LineNos : j < i => j \in batch \/ Settled(v.on, j)
         /\ \A i \in LineNos : 2 * i <= end => i \in batch \/ Settled(v.on, i)
    BY <2>1, <2>3, <2>6, <2>7, <2>8, BatchOrdered DEF IInv, VisitInv
  <2>11. /\ \A f \in Files, i \in LineNos : Settled(f, i) => Settled(f, i)'
         /\ \A i \in batch : Settled(v.on, i)'
         /\ OrderInv'
    BY <2>6, <2>7, <2>10, CommitStep
  <2>12. SettledFrom(v.on, end)'
    BY <2>7, <2>8, <2>10, <2>11 DEF SettledFrom
  <2>13. TypeOK' /\ RowInv'
    BY <2>5, <2>6, <2>7, <2>9, CommitTyped
  <2>14. VisitInv(p)'
    <3>1. visit'[p] = w /\ v.seen <= size'[v.on]
      BY <1>1, <2>1, <2>5, <2>6 DEF TypeOK, IInv, VisitInv
    <3>2. QED
      BY <2>9, <2>12, <3>1 DEF VisitInv
  <2>15. \A f \in Files : SettledFrom(f, offset[f])'
    BY <2>6, <2>11 DEF IInv, SettledFrom, Commit
  <2>16. QED
    BY <2>5, <2>6, <2>11, <2>13, <2>14, <2>15, OthersKeep DEF IInv
<1>6. ASSUME NEW p \in Passes, ReachEof(p)
      PROVE  IInv'
  <2>1. PICK v \in Visit : v = visit[p]
    BY <1>1 DEF TypeOK
  <2>2. PICK w : /\ visit' = [visit EXCEPT ![p] = w]
                 /\ w = [v EXCEPT !.at = "tail", !.eof = size[v.on]]
    BY <1>6, <2>1 DEF ReachEof
  <2>3. v.at = "stream" /\ UNCHANGED <<content, size, db, aborts, cut>>
    BY <1>6, <2>1 DEF ReachEof, file
  <2>4. v.on \in Files /\ v.pos \in Bytes /\ size[v.on] \in Bytes
    BY <1>1 DEF Visit, TypeOK
  <2>5. /\ w \in Visit /\ w.at = "tail" /\ w.on = v.on /\ w.seen = v.seen
        /\ w.pos = v.pos /\ w.eof = size[v.on]
    BY <2>2, <2>4 DEF Visit, Stages
  <2>6. SettledFrom(v.on, v.pos) /\ v.seen <= size[v.on]
    BY <2>1, <2>3 DEF IInv, VisitInv
  <2>7. SettledFrom(v.on, v.pos)'
    BY <2>3, <2>4, <2>6, QuietStep
  <2>8. VisitInv(p)'
    <3>1. visit'[p] = w
      BY <1>1, <2>2 DEF TypeOK
    <3>2. QED
      BY <2>3, <2>5, <2>6, <2>7, <3>1 DEF VisitInv
  <2>9. TypeOK'
    BY <1>1, <2>2, <2>3, <2>5 DEF TypeOK, db
  <2>10. QED
    BY <2>2, <2>3, <2>8, <2>9, QuietStep, OthersKeep DEF IInv
<1>7. ASSUME NEW p \in Passes, CommitTail(p)
      PROVE  IInv'
  <2>1. PICK v \in Visit : v = visit[p]
    BY <1>1 DEF TypeOK
  <2>2. PICK batch : batch = Whole(v.pos, v.eof)
    OBVIOUS
  <2>3. PICK parent \in BOOLEAN : parent = KnowsParent(p, batch)
    BY <2>1 DEF KnowsParent, Visit
  <2>4. PICK next \in {"link", "save"} : next = IF Harness[v.on] = "claude" THEN "link" ELSE "save"
    OBVIOUS
  <2>5. PICK w : /\ visit' = [visit EXCEPT ![p] = w]
                 /\ w = [v EXCEPT !.at = next, !.pos = v.eof, !.parent = parent]
    BY <1>7, <2>1, <2>2, <2>3, <2>4 DEF CommitTail
  <2>6. /\ v.at = "tail"
        /\ Commit(v.on, batch, v.parent)
        /\ UNCHANGED <<content, size, aborts, cut>>
    BY <1>7, <2>1, <2>2 DEF CommitTail, file
  <2>7. /\ v.on \in Files /\ v.parent \in BOOLEAN /\ v.pos \in Bytes /\ v.eof \in Bytes
        /\ v.seen \in Bytes /\ batch \in SUBSET LineNos
    BY <2>2 DEF Visit, Whole
  <2>8. w \in Visit /\ w.at = next /\ w.on = v.on /\ w.seen = v.seen
    BY <2>5, <2>7 DEF Visit, Stages
  <2>9. SettledFrom(v.on, v.pos) /\ v.seen <= v.eof /\ v.seen <= size[v.on]
    BY <2>1, <2>6 DEF IInv, VisitInv
  <2>10. /\ \A i \in batch, j \in LineNos : j < i => j \in batch \/ Settled(v.on, j)
         /\ \A i \in LineNos : 2 * i <= v.eof => i \in batch \/ Settled(v.on, i)
    BY <2>2, <2>7, <2>9, BatchOrdered
  <2>11. /\ \A f \in Files, i \in LineNos : Settled(f, i) => Settled(f, i)'
         /\ \A i \in batch : Settled(v.on, i)'
         /\ OrderInv'
    BY <2>6, <2>7, <2>10, CommitStep
  <2>12. SettledTo(v.on, v.seen)'
    <3>1. \A i \in LineNos : 2 * i <= v.seen => 2 * i <= v.eof
      BY <2>7, <2>9, BoundAssumption DEF LineNos, Bytes
    <3>2. QED
      BY <2>7, <2>10, <2>11, <3>1 DEF SettledTo
  <2>13. TypeOK' /\ RowInv'
    BY <2>5, <2>6, <2>7, <2>8, CommitTyped
  <2>14. VisitInv(p)'
    <3>1. visit'[p] = w
      BY <1>1, <2>5 DEF TypeOK
    <3>2. QED
      BY <2>6, <2>8, <2>9, <2>12, <3>1 DEF VisitInv
  <2>15. \A f \in Files : SettledFrom(f, offset[f])'
    BY <2>6, <2>11 DEF IInv, SettledFrom, Commit
  <2>16. QED
    BY <2>5, <2>6, <2>11, <2>13, <2>14, <2>15, OthersKeep DEF IInv
<1>8. ASSUME NEW p \in Passes, LinkDelegation(p)
      PROVE  IInv'
  <2>1. PICK v \in Visit : v = visit[p]
    BY <1>1 DEF TypeOK
  <2>2. PICK w : /\ visit' = [visit EXCEPT ![p] = w]
                 /\ w = [v EXCEPT !.at = "save"]
    BY <1>1, <1>8, <2>1 DEF LinkDelegation, TypeOK
  <2>3. /\ v.at = "link"
        /\ delegated' = [delegated EXCEPT ![v.on] = @ \/ v.parent]
        /\ UNCHANGED <<content, size, offset, index, rows, booked, closed, aborts, cut>>
    BY <1>8, <2>1 DEF LinkDelegation, file
  <2>4. v.on \in Files /\ v.seen \in Bytes /\ v.parent \in BOOLEAN
    BY DEF Visit
  <2>5. w \in Visit /\ w.at = "save" /\ w.on = v.on /\ w.seen = v.seen
    BY <2>2, <2>4 DEF Visit, Stages
  <2>6. SettledTo(v.on, v.seen) /\ v.seen <= size[v.on]
    BY <2>1, <2>3 DEF IInv, VisitInv
  <2>7. \A f \in Files, i \in LineNos : Settled(f, i) => Settled(f, i)'
    BY <2>3, SettledStable
  <2>8. VisitInv(p)'
    <3>1. visit'[p] = w
      BY <1>1, <2>2 DEF TypeOK
    <3>2. SettledTo(v.on, v.seen)'
      BY <2>4, <2>6, <2>7 DEF SettledTo
    <3>3. QED
      BY <2>3, <2>5, <2>6, <3>1, <3>2 DEF VisitInv
  <2>9. TypeOK'
    <3>1. delegated' \in [Files -> BOOLEAN]
      BY <1>1, <2>3, <2>4 DEF TypeOK
    <3>2. QED
      BY <1>1, <2>2, <2>3, <2>5, <3>1 DEF TypeOK
  <2>10. OrderInv' /\ RowInv' /\ \A f \in Files : SettledFrom(f, offset[f])'
    BY <2>3, <2>7, RowsStable DEF IInv, OrderInv, SettledFrom
  <2>11. QED
    BY <2>2, <2>3, <2>7, <2>8, <2>9, <2>10, OthersKeep DEF IInv
<1>9. ASSUME NEW p \in Passes, SaveOffset(p)
      PROVE  IInv'
  <2>1. PICK v \in Visit : v = visit[p]
    BY <1>1 DEF TypeOK
  <2>2. /\ v.at = "save"
        /\ offset' = [offset EXCEPT ![v.on] = v.seen]
        /\ cut' = [cut EXCEPT ![v.on] = @ \cup {i \in LineNos : 2 * i - 1 = v.seen}]
        /\ visit' = [visit EXCEPT ![p] = Idle]
        /\ UNCHANGED <<content, size, index, rows, booked, closed, delegated, aborts>>
    BY <1>9, <2>1 DEF SaveOffset, NewOffset, file
  <2>3. v.on \in Files /\ v.seen \in Bytes
    BY DEF Visit
  <2>4. /\ \A f \in Files : cut[f] \subseteq cut'[f]
        /\ \A i \in LineNos : 2 * i - 1 = v.seen => i \in cut'[v.on]
        /\ cut' \in [Files -> SUBSET LineNos]
    BY <1>1, <2>2, <2>3 DEF TypeOK
  <2>5. \A f \in Files, i \in LineNos : Settled(f, i) => Settled(f, i)'
    BY <2>2, <2>4, SettledStable
  <2>6. SettledFrom(v.on, v.seen)'
    <3>1. SettledTo(v.on, v.seen)
      BY <2>1, <2>2 DEF IInv, VisitInv
    <3>2. \A i \in LineNos : i \in cut'[v.on] => Settled(v.on, i)'
      BY DEF Settled, Handled
    <3>3. \A i \in LineNos : 2 * i - 1 <= v.seen => 2 * i <= v.seen \/ 2 * i - 1 = v.seen
      BY <2>3, BoundAssumption DEF LineNos, Bytes
    <3>4. QED
      BY <2>3, <2>4, <2>5, <3>1, <3>2, <3>3 DEF SettledFrom, SettledTo
  <2>7. \A f \in Files : SettledFrom(f, offset[f])'
    <3> SUFFICES ASSUME NEW f \in Files PROVE SettledFrom(f, offset[f])'
      OBVIOUS
    <3>1. CASE f = v.on
      BY <1>1, <2>2, <2>6, <3>1 DEF TypeOK
    <3>2. CASE f # v.on
      BY <1>1, <2>2, <2>5, <3>2 DEF TypeOK, IInv, SettledFrom
    <3>3. QED
      BY <3>1, <3>2
  <2>8. TypeOK'
    BY <1>1, <2>2, <2>3, <2>4, IdleVisit DEF TypeOK
  <2>9. VisitInv(p)'
    BY <1>1, <2>2, IdleVisit, BoundAssumption DEF VisitInv, TypeOK, Visit, Bytes
  <2>10. OrderInv' /\ RowInv'
    BY <2>2, <2>5, RowsStable DEF IInv, OrderInv
  <2>11. QED
    BY <2>2, <2>5, <2>7, <2>8, <2>9, <2>10, OthersKeep DEF IInv
<1>10. ASSUME NEW p \in Passes, Abort(p)
       PROVE  IInv'
  <2>1. /\ visit' = [visit EXCEPT ![p] = Idle]
        /\ aborts' = aborts + 1 /\ aborts < MaxAborts
        /\ UNCHANGED <<content, size, db, cut>>
    BY <1>10 DEF Abort, file
  <2>2. TypeOK'
    <3>1. aborts' \in 0..MaxAborts
      BY <1>1, <2>1, BoundAssumption DEF TypeOK
    <3>2. QED
      BY <1>1, <2>1, <3>1, IdleVisit DEF TypeOK, db
  <2>3. VisitInv(p)'
    BY <1>1, <2>1, IdleVisit, BoundAssumption DEF VisitInv, TypeOK, Visit, Bytes
  <2>4. QED
    BY <2>1, <2>2, <2>3, QuietStep, OthersKeep DEF IInv
<1>11. CASE UNCHANGED vars
  <2>1. UNCHANGED <<content, size, db, visit, aborts, cut>>
    BY <1>11 DEF vars, db
  <2>2. TypeOK'
    BY <1>1, <2>1 DEF TypeOK, db
  <2>3. \A p \in Passes : VisitInv(p)'
    BY <1>1, <2>1, QuietStep DEF IInv, VisitInv, TypeOK, Visit
  <2>4. QED
    BY <2>1, <2>2, <2>3, QuietStep DEF IInv
<1>12. QED
  BY <1>2, <1>3, <1>4, <1>5, <1>6, <1>7, <1>8, <1>9, <1>10, <1>11 DEF Next

-------------------------------------------------------------------------------
(* Theorems *)

\* The inductive invariant holds in every reachable state.
THEOREM Invariance == Spec => []IInv
<1>1. QED
  BY InitInv, StepInv, PTL DEF Spec

\* Every variable keeps its type: in particular offsets and positions never
\* pass the longest file, and the counters stay within their bound.
THEOREM TypeCorrect == Spec => []TypeOK
<1>1. IInv => TypeOK
  BY DEF IInv
<1>2. QED
  BY <1>1, Invariance, PTL

\* A stored byte_offset never runs ahead of what ingestion stored, with any
\* number of passes and any number of visits that die.
THEOREM OffsetSafe == Spec => []OffsetCoversHandled
<1>1. IInv => OffsetCoversHandled
  <2> SUFFICES ASSUME IInv, NEW f \in Files, NEW i \in LineNos, 2 * i <= offset[f]
               PROVE  Handled(f, i)
    BY DEF OffsetCoversHandled
  <2>1. 2 * i - 1 <= offset[f]
    BY BoundAssumption DEF IInv, TypeOK, LineNos, Bytes
  <2>2. QED
    BY <2>1 DEF IInv, SettledFrom, Settled
<1>2. QED
  BY <1>1, Invariance, PTL

\* With a single pass a stored offset only grows: between the read and the
\* write of a visit nobody else stores one, and a visit that goes on saw more
\* bytes than the offset it started from.
Ahead(p) == visit[p].at \notin {"idle", "stated"} => offset[visit[p].on] < visit[p].seen

LEMMA AheadStep ==
    ASSUME NEW p, Passes = {p}, TypeOK, Ahead(p), [Next]_vars
    PROVE  Ahead(p)' /\ \A f \in Files : offset'[f] >= offset[f]
<1>1. /\ visit \in [Passes -> Visit] /\ visit[p] \in Visit /\ visit[p].on \in Files
      /\ offset \in [Files -> Bytes] /\ visit[p].seen \in Bytes /\ size \in [Files -> Bytes]
  BY DEF TypeOK, Visit
<1>2. \A f \in Files : offset[f] >= offset[f]
  BY <1>1, BoundAssumption DEF Bytes
<1>3. CASE UNCHANGED vars \/ \E f \in Files : HarnessWrites(f)
  BY <1>2, <1>3 DEF Ahead, vars, HarnessWrites, db
<1>4. CASE \E f \in Files : Stat(p, f)
  <2>1. offset' = offset /\ visit'[p].at = "stated"
    BY <1>1, <1>4, IdleVisit DEF Stat, db, Visit
  <2>2. QED
    BY <1>2, <2>1 DEF Ahead
<1>5. CASE ReadOffset(p)
  <2>1. offset' = offset
    BY <1>5 DEF ReadOffset, db
  <2>2. \/ visit'[p].at = "idle"
        \/ /\ visit'[p].on = visit[p].on /\ visit'[p].seen = visit[p].seen
           /\ ~(visit[p].seen <= offset[visit[p].on])
    BY <1>1, <1>5, IdleVisit DEF ReadOffset, NothingNew, Visit
  <2>3. QED
    BY <1>1, <1>2, <2>1, <2>2, BoundAssumption DEF Ahead, Bytes
<1>6. CASE CommitFull(p) \/ ReachEof(p) \/ CommitTail(p) \/ LinkDelegation(p)
  <2>1. offset' = offset
    BY <1>6 DEF CommitFull, ReachEof, CommitTail, LinkDelegation, Commit, db
  <2>2. visit[p].at \in {"stream", "tail", "link"}
    BY <1>6 DEF CommitFull, ReachEof, CommitTail, LinkDelegation
  <2>3. visit'[p].on = visit[p].on /\ visit'[p].seen = visit[p].seen
    <3>1. CASE CommitFull(p)
      BY <1>1, <3>1 DEF CommitFull, Visit
    <3>2. CASE ReachEof(p)
      BY <1>1, <3>2 DEF ReachEof, Visit
    <3>3. CASE CommitTail(p)
      BY <1>1, <3>3 DEF CommitTail, Visit
    <3>4. CASE LinkDelegation(p)
      BY <1>1, <3>4 DEF LinkDelegation, Visit
    <3>5. QED
      BY <1>6, <3>1, <3>2, <3>3, <3>4
  <2>4. QED
    BY <1>2, <2>1, <2>2, <2>3 DEF Ahead
<1>7. CASE SaveOffset(p)
  <2>1. /\ offset' = [offset EXCEPT ![visit[p].on] = visit[p].seen]
        /\ visit[p].at = "save" /\ visit'[p].at = "idle"
    BY <1>1, <1>7, IdleVisit DEF SaveOffset, NewOffset
  <2>2. offset[visit[p].on] < visit[p].seen
    BY <2>1 DEF Ahead
  <2>3. QED
    BY <1>1, <1>2, <2>1, <2>2, BoundAssumption DEF Ahead, Bytes
<1>8. CASE Abort(p)
  <2>1. offset' = offset /\ visit'[p].at = "idle"
    BY <1>1, <1>8, IdleVisit DEF Abort, db
  <2>2. QED
    BY <1>2, <2>1 DEF Ahead
<1>9. QED
  BY <1>3, <1>4, <1>5, <1>6, <1>7, <1>8 DEF Next

\* One pass at a time never moves a stored offset back.
THEOREM SinglePassProgress ==
    ASSUME NEW p, Passes = {p}
    PROVE  Spec => OffsetNeverRetreats
<1>1. Init => Ahead(p)
  BY IdleVisit DEF Init, Ahead
<1>2. TypeOK /\ Ahead(p) /\ [Next]_vars => Ahead(p)'
  BY AheadStep
<1>3. TypeOK /\ Ahead(p) /\ [Next]_vars => [\A f \in Files : offset'[f] >= offset[f]]_vars
  BY AheadStep
<1>4. QED
  BY <1>1, <1>2, <1>3, TypeCorrect, PTL DEF Spec, OffsetNeverRetreats

\* Lines of a file take effect in the order they were written.
THEOREM OrderSafe == Spec => []AppliedInOrder
<1>1. IInv => AppliedInOrder
  BY DEF IInv, OrderInv, AppliedInOrder, Settled
<1>2. QED
  BY <1>1, Invariance, PTL

\* The tokens of a message are booked to usage_minutes at most once, across
\* files, passes and re-reads.
THEOREM BookingSafe == Spec => []UsageBookedOnce
<1>1. IInv => UsageBookedOnce
  <2> SUFFICES ASSUME IInv, NEW f \in Files, NEW g \in Files,
                      NEW i \in LineNos, NEW j \in LineNos,
                      booked[f][i] > 0, Id(f, i) # NoId
               PROVE  /\ booked[f][i] = 1 /\ rows[f][i] = 1
                      /\ booked[g][j] > 0 /\ Id(g, j) = Id(f, i) => f = g /\ i = j
    BY DEF UsageBookedOnce
  <2>1. \A h \in Files, k \in LineNos : booked[h][k] > 0 => rows[h][k] > 0 /\ IsMessage(h, k)
    <3> SUFFICES ASSUME NEW h \in Files, NEW k \in LineNos, booked[h][k] > 0
                 PROVE  rows[h][k] > 0 /\ IsMessage(h, k)
      OBVIOUS
    <3>1. booked[h][k] \in 0..MaxCopies /\ rows[h][k] \in 0..MaxCopies
      BY DEF IInv, TypeOK
    <3>2. booked[h][k] <= rows[h][k] /\ Kind(h, k) = "assistant"
      BY DEF IInv, RowInv
    <3>3. QED
      BY <3>1, <3>2, BoundAssumption DEF IsMessage
  <2>2. rows[f][i] = 1 /\ booked[f][i] <= rows[f][i] /\ booked[f][i] \in 0..MaxCopies
    BY <2>1 DEF IInv, RowInv, TypeOK
  <2>3. QED
    BY <2>1, <2>2, BoundAssumption DEF IInv, RowInv
<1>2. QED
  BY <1>1, Invariance, PTL

\* The session is closed by its first session_end that was not lost.
THEOREM CloseSafe == Spec => []ClosedAtFirstEnd
<1>1. IInv => ClosedAtFirstEnd
  <2> SUFFICES ASSUME IInv, NEW f \in Files, NEW i \in LineNos,
                      closed[f] # 0, IsEnd(f, i), i < closed[f]
               PROVE  i \in cut[f]
    BY DEF ClosedAtFirstEnd
  <2>1. closed[f] \in 0..MaxLines
    BY DEF IInv, TypeOK
  <2>2. closed[f] \in LineNos /\ ~(closed[f] <= i)
    BY <2>1, BoundAssumption DEF LineNos
  <2>3. Settled(f, i)
    BY <2>2 DEF IInv, OrderInv
  <2>4. QED
    BY <2>2, <2>3 DEF Settled
<1>2. QED
  BY <1>1, Invariance, PTL

-------------------------------------------------------------------------------
(***************************************************************************)
(* The live feed.  A read begins at the cursor and is sent before the cursor*)
(* moves to the size found before it, so a line behind the cursor was sent or*)
(* split by one.                                                           *)
(***************************************************************************)
Cursors == Positions \cup {Unseen}

(* What a connection holds. *)
FeedTypes ==
    /\ feedSize \in [LiveFiles -> Positions]
    /\ fileSizes \in [LiveFiles -> Cursors] /\ since \in [LiveFiles -> Cursors]
    /\ split \in [LiveFiles -> SUBSET (1..FeedLines)] /\ shown \in [LiveFiles -> Seq(1..FeedLines)]
    /\ DOMAIN scanning \subseteq LiveFiles /\ \A f \in DOMAIN scanning : scanning[f] \in Positions
    /\ reading \in [file : SUBSET LiveFiles, from : Positions, to : Positions] /\ reading.file \subseteq DOMAIN scanning
    /\ connected \in BOOLEAN /\ gone \in BOOLEAN /\ released \in BOOLEAN
    /\ watchers \subseteq watchedDirs /\ watchedDirs \subseteq LiveFiles
    /\ stalls \in Nat

(* The server notices an absence only when there is one.  A cursor is put     *)
(* where the connection first saw the file or later, and a cursor within a    *)
(* line splits it.                                                            *)
CursorInv ==
    /\ gone => ~connected
    /\ \A f \in LiveFiles :
         /\ since[f] = Unseen <=> fileSizes[f] = Unseen
         /\ fileSizes[f] # Unseen /\ fileSizes[f] % 2 = 1 => (fileSizes[f] + 1) \div 2 \in split[f]

(* A read begins at the cursor, and the size that it found is there to read. *)
ReadInv ==
    \A f \in reading.file : /\ reading.to <= feedSize[f]
                            /\ fileSizes[f] # Unseen => reading.from = fileSizes[f]

FeedInv == FeedTypes /\ CursorInv /\ ReadInv /\ NothingSkipped

-------------------------------------------------------------------------------
LEMMA PositionFacts ==
    /\ FeedLines \in Nat /\ ContextBytes \in Nat /\ ContextLines \in Nat
    /\ \A x \in Positions : x \in Nat /\ x <= 2 * FeedLines /\ x # Unseen
    /\ \A x \in Nat : x <= 2 * FeedLines => x \in Positions
    /\ Unseen \notin Positions
BY LiveConstantsOK DEF Positions, Unseen

(* Everything that is ever read is read from a position. *)
LEMMA FromIsAPosition ==
    ASSUME FeedTypes, NEW f \in DOMAIN scanning PROVE From(f) \in Positions
<1>1. scanning[f] \in Nat /\ scanning[f] <= 2 * FeedLines /\ ContextBytes \in Nat /\ FeedLines \in Nat
  BY PositionFacts DEF FeedTypes
<1>2. fileSizes[f] # Unseen => fileSizes[f] \in Positions
  BY DEF FeedTypes, Cursors
<1> QED
  BY <1>1, <1>2, PositionFacts DEF From

(* The lines that a read hands over, of a file that is known: all whole lines *)
(* behind its place, up to where it ended.                                    *)
LEMMA LinesReadFacts ==
    ASSUME NEW f \in LiveFiles, FeedTypes, NEW end \in Positions
    PROVE  /\ LinesRead(f, end) \in Seq(1..FeedLines)
           /\ fileSizes[f] # Unseen =>
                \A i \in 1..FeedLines : 2 * (i - 1) >= reading.from /\ 2 * i <= end => Contains(LinesRead(f, end), i)
<1> DEFINE first   == (reading.from + 1) \div 2 + 1
           last    == end \div 2
           context == (end + 1) \div 2 - ContextLines + 1
           begin   == IF fileSizes[f] = Unseen /\ context > first THEN context ELSE first
           n       == IF last >= begin THEN last - begin + 1 ELSE 0
<1>1. reading.from \in Nat /\ end \in Nat /\ end <= 2 * FeedLines /\ FeedLines \in Nat /\ ContextLines \in Nat
  BY PositionFacts DEF FeedTypes
<1>2. first \in Nat /\ first >= 1 /\ last \in Nat /\ last <= FeedLines /\ context \in Int
  BY <1>1
<1>3. begin \in Nat /\ begin >= 1 /\ (fileSizes[f] # Unseen => begin = first)
  <2> HIDE DEF first, context
  <2> QED
    BY <1>2
<1>4. \A i \in 1..FeedLines : 2 * (i - 1) >= reading.from /\ 2 * i <= end => i >= first /\ i <= last
  BY <1>1
<1>5. LinesRead(f, end) = [i \in 1..n |-> begin + i - 1]
  BY DEF LinesRead
<1> HIDE DEF first, last, context, begin
<1>6. n \in Nat /\ \A i \in 1..n : begin + i - 1 \in 1..FeedLines
  BY <1>1, <1>2, <1>3
<1>7. \A i \in Nat : begin <= i /\ i <= last => i - begin + 1 \in 1..n /\ begin + (i - begin + 1) - 1 = i
  BY <1>2, <1>3
<1> HIDE DEF n
<1>8. LinesRead(f, end) \in Seq(1..FeedLines) /\ Len(LinesRead(f, end)) = n
  BY <1>5, <1>6
<1>9. ASSUME fileSizes[f] # Unseen, NEW i \in 1..FeedLines, 2 * (i - 1) >= reading.from, 2 * i <= end
      PROVE  Contains(LinesRead(f, end), i)
  <2>1. i - begin + 1 \in 1..n /\ begin + (i - begin + 1) - 1 = i
    BY <1>1, <1>3, <1>4, <1>7, <1>9
  <2>2. LinesRead(f, end)[i - begin + 1] = i
    BY <1>5, <2>1
  <2> QED
    BY <1>8, <2>1, <2>2 DEF Contains
<1> QED
  BY <1>8, <1>9

LEMMA ElementsOf ==
    ASSUME NEW S, NEW q \in Seq(S) PROVE ToSet(q) \subseteq S
<1>1. Len(q) \in Nat /\ DOMAIN q = 1..Len(q) /\ \A i \in 1..Len(q) : q[i] \in S
  OBVIOUS
<1> QED
  BY <1>1 DEF ToSet

(* What was shown stays shown when more is, and so is what came. *)
LEMMA ShownStays ==
    ASSUME NEW S, NEW q \in Seq(S), NEW r \in Seq(S), NEW i
    PROVE  /\ q \o r \in Seq(S)
           /\ Contains(q, i) \/ Contains(r, i) => Contains(q \o r, i)
<1>1. q \o r \in Seq(S) /\ Len(q \o r) = Len(q) + Len(r) /\ Len(q) \in Nat /\ Len(r) \in Nat
  OBVIOUS
<1>2. ASSUME NEW k \in 1..Len(q), q[k] = i PROVE Contains(q \o r, i)
  <2>1. k \in 1..Len(q \o r) /\ (q \o r)[k] = i
    BY <1>1, <1>2
  <2> QED
    BY <2>1 DEF Contains
<1>3. ASSUME NEW k \in 1..Len(r), r[k] = i PROVE Contains(q \o r, i)
  <2>1. Len(q) + k \in 1..Len(q \o r) /\ (q \o r)[Len(q) + k] = i
    BY <1>1, <1>3
  <2> QED
    BY <2>1 DEF Contains
<1> QED
  BY <1>1, <1>2, <1>3 DEF Contains
(* A cursor is put: within a line it splits that line. *)
LEMMA CursorPut ==
    ASSUME FeedTypes, CursorInv, NEW f \in LiveFiles, NEW pos \in Positions, PutCursor(f, pos)
    PROVE  /\ fileSizes' \in [LiveFiles -> Cursors] /\ since' \in [LiveFiles -> Cursors]
           /\ split' \in [LiveFiles -> SUBSET (1..FeedLines)]
           /\ \A g \in LiveFiles : g # f => fileSizes'[g] = fileSizes[g] /\ since'[g] = since[g] /\ split'[g] = split[g]
           /\ fileSizes'[f] = pos /\ pos # Unseen
           /\ since'[f] = (IF fileSizes[f] = Unseen THEN pos ELSE since[f]) /\ since'[f] # Unseen
           /\ split[f] \subseteq split'[f]
           /\ pos % 2 = 1 => (pos + 1) \div 2 \in split'[f]
<1>1. /\ fileSizes' = [fileSizes EXCEPT ![f] = pos]
      /\ since' = [since EXCEPT ![f] = IF since[f] = Unseen THEN pos ELSE since[f]]
      /\ split' = [split EXCEPT ![f] = IF pos % 2 = 1 THEN split[f] \cup {(pos + 1) \div 2} ELSE split[f]]
  BY DEF PutCursor
<1>2. pos \in Nat /\ pos <= 2 * FeedLines /\ FeedLines \in Nat /\ pos \in Cursors /\ pos # Unseen
  BY PositionFacts DEF Cursors
<1>3. pos % 2 = 1 => (pos + 1) \div 2 \in 1..FeedLines
  BY <1>2
<1>4. fileSizes' \in [LiveFiles -> Cursors] /\ since' \in [LiveFiles -> Cursors]
  BY <1>1, <1>2 DEF FeedTypes
<1>5. split' \in [LiveFiles -> SUBSET (1..FeedLines)]
  BY <1>1, <1>3 DEF FeedTypes
<1> DEFINE odd == pos % 2 = 1
           mid == (pos + 1) \div 2
<1>6. /\ \A g \in LiveFiles : g # f => fileSizes'[g] = fileSizes[g] /\ since'[g] = since[g] /\ split'[g] = split[g]
      /\ fileSizes'[f] = pos
      /\ since'[f] = (IF since[f] = Unseen THEN pos ELSE since[f])
      /\ split'[f] = (IF odd THEN split[f] \cup {mid} ELSE split[f])
  BY <1>1 DEF FeedTypes
<1>7. since[f] = Unseen <=> fileSizes[f] = Unseen
  BY DEF CursorInv
<1> HIDE DEF odd, mid
<1>8. split[f] \subseteq split'[f] /\ (odd => mid \in split'[f])
  BY <1>6
<1>9. /\ since'[f] = (IF fileSizes[f] = Unseen THEN pos ELSE since[f]) /\ since'[f] # Unseen
  BY <1>2, <1>6, <1>7
<1> QED
  BY <1>2, <1>4, <1>5, <1>6, <1>8, <1>9 DEF odd, mid

(* The scan is done with a file. *)
LEMMA ScanGoesOn ==
    ASSUME FeedTypes, NEW f \in DOMAIN scanning, Done(f)
    PROVE  /\ DOMAIN scanning' \subseteq LiveFiles /\ \A g \in DOMAIN scanning' : scanning'[g] \in Positions
           /\ reading' \in [file : SUBSET LiveFiles, from : Positions, to : Positions] /\ reading'.file = {}
           /\ watchers' \subseteq watchedDirs' /\ watchedDirs' \subseteq LiveFiles
<1>1. scanning' = [g \in DOMAIN scanning \ {f} |-> scanning[g]] /\ reading' = Nothing
  BY DEF Done
<1>2. DOMAIN scanning' \subseteq LiveFiles /\ \A g \in DOMAIN scanning' : scanning'[g] \in Positions
  BY <1>1 DEF FeedTypes
<1>3. Nothing \in [file : SUBSET LiveFiles, from : Positions, to : Positions] /\ Nothing.file = {}
  BY PositionFacts DEF Nothing
<1>4. watchers' \subseteq watchedDirs' /\ watchedDirs' \subseteq LiveFiles
  BY DEF Done, FeedTypes
<1> QED
  BY <1>1, <1>2, <1>3, <1>4

LEMMA AppendHalfKeeps ==
    ASSUME FeedInv, NEW f \in LiveFiles, AppendHalf(f) PROVE FeedInv'
<1>1. /\ UNCHANGED <<fileSizes, scanning, reading, connected, gone, released, watchedDirs, watchers, shown, since, split, stalls>>
      /\ feedSize[f] + 1 \in Positions /\ feedSize' = [feedSize EXCEPT ![f] = feedSize[f] + 1]
  BY DEF AppendHalf
<1>2. FeedTypes'
  BY <1>1 DEF FeedInv, FeedTypes, Cursors
<1>3. ReadInv'
  <2>1. \A g \in reading.file : feedSize[g] <= feedSize'[g] /\ feedSize[g] \in Nat /\ feedSize'[g] \in Nat
    BY <1>1, PositionFacts DEF FeedInv, FeedTypes
  <2>2. reading.to \in Nat
    BY PositionFacts DEF FeedInv, FeedTypes
  <2> QED
    BY <1>1, <2>1, <2>2 DEF FeedInv, ReadInv
<1>4. CursorInv' /\ NothingSkipped'
  BY <1>1 DEF FeedInv, CursorInv, NothingSkipped, Contains
<1> QED
  BY <1>2, <1>3, <1>4 DEF FeedInv

LEMMA StartScanKeeps ==
    ASSUME FeedInv, NEW hot \in SUBSET LiveFiles, StartScan(hot) PROVE FeedInv'
<1>1. /\ UNCHANGED <<feedSize, fileSizes, reading, connected, released, watchedDirs, watchers, shown, since, split, stalls>>
      /\ DOMAIN scanning = {} /\ scanning' = [g \in hot |-> feedSize[g]] /\ gone' = ~connected
  BY DEF StartScan
<1>2. FeedTypes'
  <2>1. DOMAIN scanning' \subseteq LiveFiles /\ \A g \in DOMAIN scanning' : scanning'[g] \in Positions
    BY <1>1 DEF FeedInv, FeedTypes
  <2>2. gone' \in BOOLEAN
    BY <1>1
  <2>3. reading.file \subseteq DOMAIN scanning'
    BY <1>1 DEF FeedInv, FeedTypes
  <2> QED
    BY <1>1, <2>1, <2>2, <2>3 DEF FeedInv, FeedTypes, Cursors
<1>3. CursorInv' /\ ReadInv' /\ NothingSkipped'
  BY <1>1 DEF FeedInv, CursorInv, ReadInv, NothingSkipped, Contains
<1> QED
  BY <1>2, <1>3 DEF FeedInv

LEMMA OpenFileKeeps ==
    ASSUME FeedInv, NEW f \in LiveFiles, OpenFile(f) PROVE FeedInv'
<1>1. /\ UNCHANGED <<feedSize, fileSizes, scanning, connected, gone, released, watchedDirs, watchers, shown, since, split, stalls>>
      /\ f \in DOMAIN scanning /\ reading' = [file |-> {f}, from |-> From(f), to |-> feedSize[f]]
  BY DEF OpenFile
<1>2. From(f) \in Positions /\ feedSize[f] \in Positions
  BY <1>1, FromIsAPosition DEF FeedInv, FeedTypes
<1>3. reading' \in [file : SUBSET LiveFiles, from : Positions, to : Positions] /\ reading'.file = {f}
      /\ reading'.from = From(f) /\ reading'.to = feedSize[f]
  BY <1>1, <1>2
<1>4. FeedTypes'
  BY <1>1, <1>3 DEF FeedInv, FeedTypes, Cursors
<1>5. ReadInv'
  BY <1>1, <1>2, <1>3, PositionFacts DEF ReadInv, From
<1>6. CursorInv' /\ NothingSkipped'
  BY <1>1 DEF FeedInv, CursorInv, NothingSkipped, Contains
<1> QED
  BY <1>4, <1>5, <1>6 DEF FeedInv

(* A cursor that is put where a new file was seen has nothing behind it. *)
LEMMA SkipFileKeeps ==
    ASSUME FeedInv, NEW f \in LiveFiles, SkipFile(f) PROVE FeedInv'
<1>1. /\ UNCHANGED <<feedSize, connected, gone, released, shown, stalls>> /\ f \in DOMAIN scanning /\ Done(f)
      /\ fileSizes[f] = Unseen => PutCursor(f, scanning[f])
      /\ fileSizes[f] # Unseen => UNCHANGED <<fileSizes, since, split>>
  BY DEF SkipFile
<1>2. FeedTypes /\ CursorInv /\ NothingSkipped /\ scanning[f] \in Positions
  BY <1>1 DEF FeedInv, FeedTypes
<1>3. /\ DOMAIN scanning' \subseteq LiveFiles /\ \A g \in DOMAIN scanning' : scanning'[g] \in Positions
      /\ reading' \in [file : SUBSET LiveFiles, from : Positions, to : Positions] /\ reading'.file = {}
      /\ watchers' \subseteq watchedDirs' /\ watchedDirs' \subseteq LiveFiles
  BY <1>1, <1>2, ScanGoesOn
<1>4. ReadInv'
  BY <1>3 DEF ReadInv
<1>5. CASE fileSizes[f] # Unseen
  <2>1. FeedTypes'
    BY <1>1, <1>2, <1>3, <1>5 DEF FeedTypes, Cursors
  <2>2. CursorInv' /\ NothingSkipped'
    BY <1>1, <1>2, <1>5 DEF CursorInv, NothingSkipped, Contains
  <2> QED
    BY <1>4, <2>1, <2>2 DEF FeedInv
<1>6. CASE fileSizes[f] = Unseen
  <2>1. /\ fileSizes' \in [LiveFiles -> Cursors] /\ since' \in [LiveFiles -> Cursors]
        /\ split' \in [LiveFiles -> SUBSET (1..FeedLines)]
        /\ \A g \in LiveFiles : g # f => fileSizes'[g] = fileSizes[g] /\ since'[g] = since[g] /\ split'[g] = split[g]
        /\ fileSizes'[f] = scanning[f] /\ scanning[f] # Unseen /\ since'[f] = scanning[f]
        /\ scanning[f] % 2 = 1 => (scanning[f] + 1) \div 2 \in split'[f]
    BY <1>1, <1>2, <1>6, CursorPut
  <2>2. FeedTypes'
    BY <1>1, <1>2, <1>3, <2>1 DEF FeedTypes, Cursors
  <2>3. CursorInv'
    BY <1>1, <1>2, <2>1 DEF CursorInv
  <2>4. NothingSkipped'
    <3>1. scanning[f] \in Nat /\ FeedLines \in Nat
      BY <1>2, PositionFacts
    <3>2. \A i \in 1..FeedLines : ~(2 * (i - 1) >= scanning[f] /\ 2 * i <= scanning[f])
      BY <3>1
    <3> QED
      BY <1>1, <1>2, <2>1, <3>2 DEF NothingSkipped, Contains
  <2> QED
    BY <1>4, <2>2, <2>3, <2>4 DEF FeedInv
<1> QED
  BY <1>5, <1>6
(* A read that came to its end has read every line up to the cursor, one that *)
(* was given up on leaves the cursor where it was.                            *)
LEMMA DeliverKeeps ==
    ASSUME FeedInv, NEW f \in LiveFiles, NEW end \in Positions, NEW stalled \in BOOLEAN,
           ~stalled => end = feedSize[f], stalls' \in Nat, Deliver(f, end, stalled)
    PROVE  FeedInv'
<1> DEFINE lines == LinesRead(f, end)
           pos == CursorAfter(f, reading.to, stalled)
<1>1. /\ UNCHANGED <<feedSize, connected, released>> /\ f \in reading.file
      /\ shown' = [shown EXCEPT ![f] = IF connected /\ ~gone THEN shown[f] \o lines ELSE shown[f]]
      /\ gone' = (gone \/ (~connected /\ lines # <<>>))
      /\ PutCursor(f, pos) /\ Done(f)
  BY DEF Deliver
<1>2. FeedTypes /\ CursorInv /\ ReadInv /\ NothingSkipped /\ f \in DOMAIN scanning
  BY <1>1 DEF FeedInv, FeedTypes
<1>3. /\ DOMAIN scanning' \subseteq LiveFiles /\ \A g \in DOMAIN scanning' : scanning'[g] \in Positions
      /\ reading' \in [file : SUBSET LiveFiles, from : Positions, to : Positions] /\ reading'.file = {}
      /\ watchers' \subseteq watchedDirs' /\ watchedDirs' \subseteq LiveFiles
  BY <1>1, <1>2, ScanGoesOn
<1>4. /\ lines \in Seq(1..FeedLines)
      /\ fileSizes[f] # Unseen =>
           \A i \in 1..FeedLines : 2 * (i - 1) >= reading.from /\ 2 * i <= end => Contains(lines, i)
  BY <1>2, LinesReadFacts
<1>5. pos \in Positions
  BY <1>2 DEF CursorAfter, FeedTypes
<1> HIDE DEF lines, pos
<1>6. /\ fileSizes' \in [LiveFiles -> Cursors] /\ since' \in [LiveFiles -> Cursors]
      /\ split' \in [LiveFiles -> SUBSET (1..FeedLines)]
      /\ \A g \in LiveFiles : g # f => fileSizes'[g] = fileSizes[g] /\ since'[g] = since[g] /\ split'[g] = split[g]
      /\ fileSizes'[f] = pos /\ pos # Unseen
      /\ since'[f] = (IF fileSizes[f] = Unseen THEN pos ELSE since[f]) /\ since'[f] # Unseen
      /\ split[f] \subseteq split'[f]
      /\ pos % 2 = 1 => (pos + 1) \div 2 \in split'[f]
  BY <1>1, <1>2, <1>5, CursorPut
<1>7. shown[f] \o lines \in Seq(1..FeedLines) /\ \A i : Contains(shown[f], i) \/ Contains(lines, i) => Contains(shown[f] \o lines, i)
  BY <1>2, <1>4, ShownStays DEF FeedTypes
<1>8. /\ \A g \in LiveFiles : g # f => shown'[g] = shown[g]
      /\ shown'[f] = IF connected /\ ~gone THEN shown[f] \o lines ELSE shown[f]
      /\ shown' \in [LiveFiles -> Seq(1..FeedLines)]
  BY <1>1, <1>2, <1>7 DEF FeedTypes
<1>9. gone' \in BOOLEAN
  BY <1>1, <1>2 DEF FeedTypes
<1>10. FeedTypes'
  BY <1>1, <1>2, <1>3, <1>6, <1>8, <1>9 DEF FeedTypes
<1>11. CursorInv'
  BY <1>1, <1>2, <1>6 DEF CursorInv
<1>12. ReadInv'
  BY <1>3 DEF ReadInv
<1>13. ASSUME connected, NEW i \in 1..FeedLines, 2 * (i - 1) >= since'[f], 2 * i <= pos
       PROVE  i \in split'[f] \/ Contains(shown'[f], i)
  <2>1. shown'[f] = shown[f] \o lines
    BY <1>2, <1>8, <1>13 DEF CursorInv
  <2>2. fileSizes[f] # Unseen
    <3>1. pos \in Nat
      BY <1>5, PositionFacts
    <3> QED
      BY <1>6, <1>13, <3>1
  <2>3. since[f] # Unseen /\ since'[f] = since[f] /\ fileSizes[f] \in Nat /\ reading.from = fileSizes[f]
    BY <1>1, <1>2, <1>6, <2>2, PositionFacts DEF CursorInv, ReadInv, FeedTypes, Cursors
  <2>4. CASE 2 * i <= fileSizes[f]
    <3>1. i \in split[f] \/ Contains(shown[f], i)
      BY <1>2, <1>13, <2>3, <2>4 DEF NothingSkipped
    <3> QED
      BY <1>6, <1>7, <2>1, <3>1
  <2>5. CASE ~(2 * i <= fileSizes[f])
    <3>1. ~stalled /\ pos = reading.to
      BY <1>13, <2>2, <2>3, <2>5 DEF pos, CursorAfter
    <3>2. pos <= end
      BY <1>1, <1>2, <3>1 DEF ReadInv
    <3>3. 2 * i <= end
      BY <1>5, <1>13, <3>2, PositionFacts
    <3>4. CASE 2 * (i - 1) >= fileSizes[f]
      BY <1>4, <1>7, <2>1, <2>2, <2>3, <3>3, <3>4
    <3>5. CASE ~(2 * (i - 1) >= fileSizes[f])
      <4>1. fileSizes[f] % 2 = 1 /\ (fileSizes[f] + 1) \div 2 = i
        BY <2>3, <2>5, <3>5
      <4>2. i \in split[f]
        BY <1>2, <2>2, <4>1 DEF CursorInv
      <4> QED
        BY <1>6, <4>2
    <3> QED
      BY <3>4, <3>5
  <2> QED
    BY <2>4, <2>5
<1>14. NothingSkipped'
  <2>1. ASSUME NEW g \in LiveFiles, g # f, connected, since'[g] # Unseen, NEW i \in 1..FeedLines,
               2 * (i - 1) >= since'[g], 2 * i <= fileSizes'[g]
        PROVE  i \in split'[g] \/ Contains(shown'[g], i)
    BY <1>2, <1>6, <1>8, <2>1 DEF NothingSkipped
  <2> SUFFICES ASSUME NEW g \in LiveFiles, connected', since'[g] # Unseen, NEW i \in 1..FeedLines,
                      2 * (i - 1) >= since'[g], 2 * i <= fileSizes'[g], i \notin split'[g]
               PROVE  Contains(shown'[g], i)
    BY DEF NothingSkipped, Contains
  <2>2. connected
    BY <1>1
  <2>3. CASE g = f
    BY <1>6, <1>13, <2>2, <2>3
  <2>4. CASE g # f
    BY <2>1, <2>2, <2>4
  <2> QED
    BY <2>3, <2>4
<1> QED
  BY <1>10, <1>11, <1>12, <1>14 DEF FeedInv

LEMMA ReadToEndKeeps ==
    ASSUME FeedInv, NEW f \in LiveFiles, ReadToEnd(f) PROVE FeedInv'
<1>1. Deliver(f, feedSize[f], FALSE) /\ feedSize[f] \in Positions /\ stalls' \in Nat
  BY DEF ReadToEnd, FeedInv, FeedTypes
<1> QED
  BY <1>1, DeliverKeeps

LEMMA GiveUpKeeps ==
    ASSUME FeedInv, NEW f \in LiveFiles, GiveUp(f) PROVE FeedInv'
<1>1. PICK end \in reading.from..feedSize[f] : Deliver(f, end, TRUE)
  BY DEF GiveUp
<1>2. end \in Positions
  BY PositionFacts DEF FeedInv, FeedTypes
<1>3. stalls' \in Nat
  BY DEF GiveUp, FeedInv, FeedTypes
<1> QED
  BY <1>1, <1>2, <1>3, DeliverKeeps

LEMMA LeaveKeeps ==
    ASSUME FeedInv, Leave PROVE FeedInv'
<1>1. connected' = FALSE /\ UNCHANGED <<feedSize, fileSizes, scanning, reading, gone, released, watchedDirs, watchers, shown, since, split, stalls>>
  BY DEF Leave
<1> QED
  BY <1>1 DEF FeedInv, FeedTypes, Cursors, CursorInv, ReadInv, NothingSkipped, Contains

LEMMA HeartbeatKeeps ==
    ASSUME FeedInv, Heartbeat PROVE FeedInv'
<1>1. /\ ~connected /\ gone' = TRUE /\ released' = TRUE /\ watchers' = {}
      /\ UNCHANGED <<feedSize, fileSizes, scanning, reading, connected, watchedDirs, shown, since, split, stalls>>
  BY DEF Heartbeat
<1>2. FeedTypes'
  BY <1>1 DEF FeedInv, FeedTypes, Cursors
<1>3. CursorInv' /\ ReadInv' /\ NothingSkipped'
  BY <1>1 DEF FeedInv, CursorInv, ReadInv, NothingSkipped, Contains
<1> QED
  BY <1>2, <1>3 DEF FeedInv

(* A connection begins with nothing seen. *)
LEMMA NewConnection ==
    ASSUME feedSize \in [LiveFiles -> Positions], stalls \in Nat,
           fileSizes = [f \in LiveFiles |-> Unseen], since = [f \in LiveFiles |-> Unseen],
           shown = [f \in LiveFiles |-> <<>>], split = [f \in LiveFiles |-> {}],
           watchedDirs = {}, watchers = {}, connected = TRUE, gone = FALSE, released = FALSE,
           DOMAIN scanning = {}, reading \in [file : SUBSET LiveFiles, from : Positions, to : Positions], reading.file = {}
    PROVE  FeedInv
<1>1. fileSizes \in [LiveFiles -> Cursors] /\ since \in [LiveFiles -> Cursors]
  BY DEF Cursors
<1>2. shown \in [LiveFiles -> Seq(1..FeedLines)] /\ split \in [LiveFiles -> SUBSET (1..FeedLines)]
  OBVIOUS
<1>3. connected \in BOOLEAN /\ gone \in BOOLEAN /\ released \in BOOLEAN
  OBVIOUS
<1>4. FeedTypes
  BY <1>1, <1>2, <1>3 DEF FeedTypes
<1> QED
  BY <1>4 DEF FeedInv, CursorInv, ReadInv, NothingSkipped

LEMMA ConnectKeeps ==
    ASSUME FeedInv, Connect PROVE FeedInv'
<1>1. /\ UNCHANGED <<feedSize, stalls, scanning, reading>> /\ DOMAIN scanning = {}
      /\ fileSizes' = [f \in LiveFiles |-> Unseen] /\ since' = [f \in LiveFiles |-> Unseen]
      /\ shown' = [f \in LiveFiles |-> <<>>] /\ split' = [f \in LiveFiles |-> {}]
      /\ watchedDirs' = {} /\ watchers' = {} /\ connected' = TRUE /\ gone' = FALSE /\ released' = FALSE
  BY DEF Connect
<1>2. reading.file = {} /\ reading \in [file : SUBSET LiveFiles, from : Positions, to : Positions]
      /\ feedSize \in [LiveFiles -> Positions] /\ stalls \in Nat
  BY <1>1 DEF FeedInv, FeedTypes
<1>3. fileSizes' \in [LiveFiles -> Cursors] /\ since' \in [LiveFiles -> Cursors]
  BY <1>1 DEF Cursors
<1>4. shown' \in [LiveFiles -> Seq(1..FeedLines)] /\ split' \in [LiveFiles -> SUBSET (1..FeedLines)]
  BY <1>1
<1>5. connected' \in BOOLEAN /\ gone' \in BOOLEAN /\ released' \in BOOLEAN
  BY <1>1
<1>6. FeedTypes'
  BY <1>1, <1>2, <1>3, <1>4, <1>5 DEF FeedTypes
<1>7. CursorInv' /\ ReadInv' /\ NothingSkipped'
  BY <1>1, <1>2 DEF CursorInv, ReadInv, NothingSkipped
<1> QED
  BY <1>6, <1>7 DEF FeedInv

LEMMA FeedInitially == LiveInit => FeedInv
<1> SUFFICES ASSUME LiveInit PROVE FeedInv
  OBVIOUS
<1>1. /\ reading \in [file : SUBSET LiveFiles, from : Positions, to : Positions] /\ reading.file = {}
      /\ feedSize \in [LiveFiles -> Positions] /\ stalls \in Nat
  BY PositionFacts DEF LiveInit, Nothing
<1>2. DOMAIN scanning = {}
  BY DEF LiveInit
<1> QED
  BY <1>1, <1>2, NewConnection DEF LiveInit

(* Every step of the connection, of a read and of the files keeps the         *)
(* invariant of the feed: a read knows the cursor it began at, and whatever   *)
(* lies behind a cursor was sent or split by one.                             *)
THEOREM FeedInductive == LiveInit /\ [][LiveNext]_liveVars => []FeedInv
<1>1. FeedInv /\ [LiveNext]_liveVars => FeedInv'
  <2> SUFFICES ASSUME FeedInv, [LiveNext]_liveVars PROVE FeedInv'
    OBVIOUS
  <2> USE DEF LiveNext
  <2>1. ASSUME NEW f \in LiveFiles, AppendHalf(f) PROVE FeedInv'
    BY <2>1, AppendHalfKeeps
  <2>2. ASSUME NEW f \in LiveFiles, OpenFile(f) PROVE FeedInv'
    BY <2>2, OpenFileKeeps
  <2>3. ASSUME NEW f \in LiveFiles, SkipFile(f) PROVE FeedInv'
    BY <2>3, SkipFileKeeps
  <2>4. ASSUME NEW f \in LiveFiles, ReadToEnd(f) PROVE FeedInv'
    BY <2>4, ReadToEndKeeps
  <2>5. ASSUME NEW f \in LiveFiles, GiveUp(f) PROVE FeedInv'
    BY <2>5, GiveUpKeeps
  <2>6. ASSUME NEW hot \in SUBSET LiveFiles, StartScan(hot) PROVE FeedInv'
    BY <2>6, StartScanKeeps
  <2>7. CASE Leave
    BY <2>7, LeaveKeeps
  <2>8. CASE Heartbeat
    BY <2>8, HeartbeatKeeps
  <2>9. CASE Connect
    BY <2>9, ConnectKeeps
  <2>10. CASE UNCHANGED liveVars
    <3>1. UNCHANGED <<feedSize, fileSizes, scanning, reading, connected, gone, released, watchedDirs, watchers, shown, since, split, stalls>>
      BY <2>10 DEF liveVars
    <3>2. FeedTypes' /\ CursorInv'
      BY <3>1 DEF FeedInv, FeedTypes, Cursors, CursorInv, Contains
    <3>3. ReadInv' /\ NothingSkipped'
      BY <3>1 DEF FeedInv, ReadInv, NothingSkipped, Contains
    <3> QED
      BY <3>1, <3>2, <3>3 DEF FeedInv
  <2> QED
    BY <2>1, <2>2, <2>3, <2>4, <2>5, <2>6, <2>7, <2>8, <2>9, <2>10
<1> QED
  BY <1>1, FeedInitially, PTL

(* While the browser listens, a line written after the connection first saw   *)
(* its file is behind the cursor only once it was sent, lines that a cursor   *)
(* split excepted.                                                            *)
THEOREM FeedSafe == LiveInit /\ [][LiveNext]_liveVars => [](NothingSkipped /\ LiveTypeOK)
<1>1. FeedInv => NothingSkipped /\ LiveTypeOK
  <2> SUFFICES ASSUME FeedInv PROVE LiveTypeOK
    BY DEF FeedInv
  <2>1. \A f \in LiveFiles : ToSet(shown[f]) \subseteq 1..FeedLines
    <3> SUFFICES ASSUME NEW f \in LiveFiles PROVE ToSet(shown[f]) \subseteq 1..FeedLines
      OBVIOUS
    <3> QED
      BY ElementsOf DEF FeedInv, FeedTypes
  <2> QED
    BY <2>1 DEF FeedInv, FeedTypes, Cursors, LiveTypeOK
<1> QED
  BY <1>1, FeedInductive, PTL

-------------------------------------------------------------------------------
(* The project list.  Both folds take a list in which every row is counted   *)
(* once and leave such a list, because no entry is ever counted with one that *)
(* a fold takes away: what rows are counted with is a project by name, and    *)
(* a project by name stays.                                                  *)

Entries == ToSet(Landings)
Lists   == [kept : SUBSET Entries, dropped : SUBSET Entries, counted : [Entries -> [Rows -> Nat]]]

(* Every row is counted once, by one entry that is kept or left out. *)
CountedOnce(list) ==
    \A r \in Rows : \E k \in list.kept \cup list.dropped :
        /\ list.counted[k][r] = 1
        /\ \A o \in (list.kept \cup list.dropped) \ {k} : list.counted[o][r] = 0

Together(list) ==
    \A r, s \in Rows : r.commit # NoCommit /\ s.commit = r.commit =>
        \A k \in Entries : list.counted[k][r] = list.counted[k][s]

(* What is a project by name is still there, with all that landed on it. *)
ProjectsStay(list) ==
    /\ RepoNames \cap Entries \subseteq list.kept
    /\ \A r \in Rows : Canonical(r) \in RepoNames => list.counted[Canonical(r)][r] > 0

Sound(list) ==
    /\ list \in Lists /\ list.kept \cap list.dropped = {}
    /\ CountedOnce(list) /\ Together(list) /\ ProjectsStay(list)

(* Who an entry may be counted with. *)
MayJoin(k, p) == (p \in {k, NoName} \/ p \in RepoNames \cap Entries) /\ (k \in RepoNames => p = k)

Landed == Landings \in Seq(Entries) /\ \A r \in Rows : Canonical(r) \in Entries

LEMMA TurnKeeps ==
    ASSUME NEW list, Sound(list), Landed, NEW k \in Entries, NEW p, MayJoin(k, p)
    PROVE  Sound(Turn(list, k, p))
<1> DEFINE new == Turn(list, k, p)
<1>1. CASE k \notin list.kept \/ p = k
  BY <1>1 DEF Turn
<1>2. CASE k \in list.kept /\ p # k /\ p = NoName
  <2>1. new = [kept |-> list.kept \ {k}, dropped |-> list.dropped \cup {k}, counted |-> list.counted]
    BY <1>2 DEF Turn, Sound, Lists
  <2>2. new \in Lists /\ new.kept \cap new.dropped = {} /\ new.kept \cup new.dropped = list.kept \cup list.dropped
    BY <2>1, <1>2 DEF Sound, Lists
  <2>3. k \notin RepoNames
    BY <1>2 DEF MayJoin
  <2> QED
    BY <2>1, <2>2, <2>3 DEF Sound, CountedOnce, Together, ProjectsStay
<1>3. CASE k \in list.kept /\ p # k /\ p # NoName
  <2> DEFINE sum == [r \in Rows |-> list.counted[p][r] + list.counted[k][r]]
  <2>1. p \in RepoNames /\ p \in Entries /\ p \in list.kept /\ k \notin RepoNames
    BY <1>3 DEF MayJoin, Sound, ProjectsStay
  <2>2. new = [kept |-> list.kept \ {k}, dropped |-> list.dropped, counted |-> [list.counted EXCEPT ![p] = sum]]
    BY <1>3, <2>1 DEF Turn, Sound, Lists
  <2>3. list.counted \in [Entries -> [Rows -> Nat]] /\ list.kept \subseteq Entries /\ list.dropped \subseteq Entries
    BY DEF Sound, Lists
  <2>4. /\ new.counted \in [Entries -> [Rows -> Nat]]
        /\ \A r \in Rows : new.counted[p][r] = list.counted[p][r] + list.counted[k][r]
        /\ \A o \in Entries \ {p} : new.counted[o] = list.counted[o]
    <3>1. sum \in [Rows -> Nat]
      BY <2>1, <2>3
    <3>2. \A r \in Rows : sum[r] = list.counted[p][r] + list.counted[k][r]
      OBVIOUS
    <3> HIDE DEF sum
    <3> QED
      BY <2>1, <2>2, <2>3, <3>1, <3>2
  <2>5. new.kept = list.kept \ {k} /\ new.dropped = list.dropped /\ new \in Lists /\ new.kept \cap new.dropped = {}
    <3>1. new.kept = list.kept \ {k} /\ new.dropped = list.dropped
      BY <2>2
    <3>2. new = [kept |-> new.kept, dropped |-> new.dropped, counted |-> new.counted]
      BY <2>2
    <3> HIDE DEF new
    <3>3. new.kept \in SUBSET Entries /\ new.dropped \in SUBSET Entries
      BY <2>3, <3>1
    <3>4. new \in Lists
      BY <3>2, <3>3, <2>4 DEF Lists
    <3> QED
      BY <3>1, <3>4 DEF Sound
  <2> HIDE DEF new, sum
  <2>6. CountedOnce(new)
    <3> SUFFICES ASSUME NEW r \in Rows
                 PROVE  \E e \in new.kept \cup new.dropped :
                          /\ new.counted[e][r] = 1
                          /\ \A o \in (new.kept \cup new.dropped) \ {e} : new.counted[o][r] = 0
      BY DEF CountedOnce
    <3>1. PICK e \in list.kept \cup list.dropped :
            /\ list.counted[e][r] = 1
            /\ \A o \in (list.kept \cup list.dropped) \ {e} : list.counted[o][r] = 0
      BY DEF Sound, CountedOnce
    <3>2. k \notin list.dropped
      BY <1>3 DEF Sound
    <3>3. \A o \in Entries : list.counted[o][r] \in Nat
      BY <2>3
    <3>4. CASE e = k
      <4>1. list.counted[p][r] = 0
        BY <3>1, <3>4, <2>1, <1>3
      <4>2. new.counted[p][r] = 1
        BY <4>1, <3>1, <3>4, <2>4
      <4>3. \A o \in (new.kept \cup new.dropped) \ {p} : new.counted[o][r] = 0
        BY <3>1, <3>4, <2>3, <2>4, <2>5, <3>2
      <4> QED
        BY <4>2, <4>3, <2>5, <2>1, <1>3
    <3>5. CASE e # k
      <4>1. list.counted[k][r] = 0
        BY <3>1, <3>5, <1>3
      <4>2. \A o \in Entries : new.counted[o][r] = list.counted[o][r]
        <5>1. new.counted[p][r] = list.counted[p][r]
          BY <4>1, <2>4, <2>1, <3>3
        <5> QED
          BY <5>1, <2>4
      <4>3. e \in new.kept \cup new.dropped
        BY <2>5, <3>5
      <4> QED
        BY <3>1, <4>2, <4>3, <2>3, <2>5
    <3> QED
      BY <3>4, <3>5
  <2>7. Together(new)
    <3> SUFFICES ASSUME NEW r \in Rows, NEW s \in Rows, r.commit # NoCommit, s.commit = r.commit, NEW o \in Entries
                 PROVE  new.counted[o][r] = new.counted[o][s]
      BY DEF Together
    <3>1. list.counted[o][r] = list.counted[o][s] /\ list.counted[p][r] = list.counted[p][s]
          /\ list.counted[k][r] = list.counted[k][s]
      BY <2>1 DEF Sound, Together
    <3> QED
      BY <3>1, <2>4
  <2>8. ProjectsStay(new)
    <3>1. RepoNames \cap Entries \subseteq new.kept
      BY <2>1, <2>5 DEF Sound, ProjectsStay
    <3>2. ASSUME NEW r \in Rows, Canonical(r) \in RepoNames PROVE new.counted[Canonical(r)][r] > 0
      <4>1. list.counted[Canonical(r)][r] > 0
        BY <3>2 DEF Sound, ProjectsStay
      <4>2. Canonical(r) \in Entries
        BY DEF Landed
      <4> QED
        BY <4>1, <4>2, <2>1, <2>3, <2>4
    <3> QED
      BY <3>1, <3>2 DEF ProjectsStay
  <2> QED
    BY <2>5, <2>6, <2>7, <2>8 DEF Sound, new
<1> QED
  BY <1>1, <1>2, <1>3

(* A pass over the entries turns each once: the function that FoldInto        *)
(* defines by recursion is there for any number of turns.                     *)
Turns(list, parent, n, g) ==
    g = [i \in 0..n |-> IF i = 0 THEN list ELSE Turn(g[i - 1], Landings[i], parent[Landings[i]])]

LEMMA TurnsExist == ASSUME NEW list, NEW parent PROVE \A n \in Nat : \E g : Turns(list, parent, n, g)
<1> DEFINE Missing == {n \in Nat : ~ \E g : Turns(list, parent, n, g)}
<1>1. SUFFICES ASSUME Missing # {} PROVE FALSE
  OBVIOUS
<1>2. PICK n \in Missing : \A m \in Missing : n <= m
  BY <1>1, LeastNat
<1>3. n # 0
  <2> DEFINE g == [i \in 0..0 |-> list]
  <2>1. Turns(list, parent, 0, g)
    BY DEF Turns
  <2> HIDE DEF g
  <2> QED
    BY <1>2, <2>1
<1>4. n - 1 \in Nat /\ n - 1 \notin Missing
  BY <1>2, <1>3
<1>5. PICK f : Turns(list, parent, n - 1, f)
  BY <1>4
<1> DEFINE g == [i \in 0..n |-> IF i = n THEN Turn(f[n - 1], Landings[n], parent[Landings[n]]) ELSE f[i]]
<1>6. \A i \in 0..n : g[i] = IF i = 0 THEN list ELSE Turn(g[i - 1], Landings[i], parent[Landings[i]])
  <2>1. \A i \in 0..(n - 1) : /\ g[i] = f[i]
                              /\ f[i] = IF i = 0 THEN list ELSE Turn(f[i - 1], Landings[i], parent[Landings[i]])
    <3>1. \A i \in 0..(n - 1) : f[i] = IF i = 0 THEN list ELSE Turn(f[i - 1], Landings[i], parent[Landings[i]])
      BY <1>5 DEF Turns
    <3>2. \A i \in 0..(n - 1) : i # n /\ i \in 0..n
      BY <1>4
    <3> QED
      BY <3>1, <3>2, Zenon
  <2>2. \A i \in 1..(n - 1) : i - 1 \in 0..(n - 1)
    BY <1>4
  <2>3. ASSUME NEW i \in 0..(n - 1) PROVE g[i] = IF i = 0 THEN list ELSE Turn(g[i - 1], Landings[i], parent[Landings[i]])
    <3>1. CASE i = 0
      BY <3>1, <2>1, <1>4
    <3>2. CASE i # 0
      <4>1. g[i - 1] = f[i - 1]
        BY <3>2, <2>1, <2>2, <1>4
      <4> QED
        BY <4>1, <3>2, <2>1
    <3> QED
      BY <3>1, <3>2
  <2>4. g[n] = Turn(g[n - 1], Landings[n], parent[Landings[n]]) /\ n \in 0..n /\ \A i \in 0..n : i = n \/ i \in 0..(n - 1)
    BY <1>4, <2>1
  <2> HIDE DEF g
  <2> QED
    BY <2>3, <2>4, <1>3
<1>7. g = [i \in 0..n |-> g[i]]
  OBVIOUS
<1> HIDE DEF g
<1>8. Turns(list, parent, n, g)
  BY <1>6, <1>7 DEF Turns
<1> QED
  BY <1>2, <1>8

LEMMA FoldKeeps ==
    ASSUME NEW list, Sound(list), Landed, NEW parent, \A k \in Entries : MayJoin(k, parent[k])
    PROVE  Sound(FoldInto(list, parent))
<1> DEFINE n == Len(Landings)
           upTo == CHOOSE g : Turns(list, parent, n, g)
<1>1. n \in Nat /\ \A i \in 1..n : Landings[i] \in Entries
  BY DEF Landed
<1>2. Turns(list, parent, n, upTo)
  BY <1>1, TurnsExist
<1>3. FoldInto(list, parent) = upTo[n]
  BY DEF FoldInto, Turns
<1> HIDE DEF upTo, n
<1>4. \A i \in 0..n : upTo[i] = IF i = 0 THEN list ELSE Turn(upTo[i - 1], Landings[i], parent[Landings[i]])
  BY <1>2 DEF Turns
<1> DEFINE Bad == {i \in 0..n : ~Sound(upTo[i])}
<1>5. ASSUME Bad # {} PROVE FALSE
  <2>1. PICK i \in Bad : \A j \in Bad : i <= j
    <3>1. Bad \in SUBSET Nat
      BY <1>1
    <3> HIDE DEF Bad
    <3> QED
      BY <3>1, <1>5, LeastNat
  <2>2. i # 0
    BY <2>1, <1>1, <1>4
  <2>3. i - 1 \in 0..n /\ i - 1 \notin Bad /\ i \in 1..n
    BY <2>1, <2>2, <1>1
  <2>4. Sound(upTo[i - 1]) /\ upTo[i] = Turn(upTo[i - 1], Landings[i], parent[Landings[i]])
    BY <2>3, <2>2, <1>4, <1>1
  <2>5. Sound(upTo[i])
    BY <2>3, <2>4, <1>1, TurnKeeps
  <2> QED
    BY <2>1, <2>5
<1> QED
  BY <1>1, <1>3, <1>5

-------------------------------------------------------------------------------
(* The first of the best of a set is one of the set. *)
Leads(i, J, f) == \A j \in J : f[j] < f[i] \/ (f[j] = f[i] /\ i <= j)

LEMMA BestExists ==
    ASSUME NEW n \in Nat, NEW I \in SUBSET (1..n), I # {}, NEW f \in [1..n -> Int]
    PROVE  \E i \in I : Leads(i, I, f)
<1> DEFINE UpTo(m) == {i \in I : i <= m}
           Led(m)  == \E i \in UpTo(m) : Leads(i, UpTo(m), f)
           Bad     == {m \in 0..n : UpTo(m) # {} /\ ~Led(m)}
<1>1. \A m \in I : m \in Nat /\ m >= 1 /\ m <= n /\ f[m] \in Int
  OBVIOUS
<1>2. \A m : UpTo(m) \subseteq I
  OBVIOUS
<1>3. UpTo(0) = {} /\ UpTo(n) = I
  <2>1. \A i \in I : ~(i <= 0) /\ i <= n
    BY <1>1
  <2> QED
    BY <2>1
<1>4. \A m \in Nat : m # 0 => /\ \A i \in UpTo(m) : i = m \/ i \in UpTo(m - 1)
                              /\ \A i \in UpTo(m - 1) : i \in UpTo(m) /\ i < m
  BY <1>1
<1> HIDE DEF UpTo
<1>5. ASSUME NEW m \in Nat, m # 0, UpTo(m) # {}, UpTo(m - 1) = {} \/ Led(m - 1) PROVE Led(m)
  <2>1. CASE m \notin UpTo(m)
    <3>1. UpTo(m) = UpTo(m - 1)
      BY <1>4, <1>5, <2>1
    <3> QED
      BY <3>1, <1>5
  <2>2. CASE m \in UpTo(m) /\ UpTo(m - 1) = {}
    <3>1. m \in I /\ UpTo(m) = {m}
      BY <1>2, <1>4, <1>5, <2>2
    <3>2. Leads(m, UpTo(m), f)
      BY <3>1, <1>1 DEF Leads
    <3> QED
      BY <3>2, <2>2
  <2>3. CASE m \in UpTo(m) /\ UpTo(m - 1) # {}
    <3>1. PICK i \in UpTo(m - 1) : Leads(i, UpTo(m - 1), f)
      BY <1>5, <2>3
    <3>2. i \in UpTo(m) /\ i \in Nat /\ i < m /\ f[i] \in Int /\ f[m] \in Int
          /\ \A j \in UpTo(m - 1) : f[j] \in Int /\ j \in Nat /\ j < m
      BY <3>1, <2>3, <1>1, <1>2, <1>4, <1>5
    <3>3. CASE f[m] > f[i]
      <4>1. \A j \in UpTo(m - 1) : f[j] < f[m]
        BY <3>1, <3>2, <3>3 DEF Leads
      <4>2. Leads(m, UpTo(m), f)
        BY <4>1, <1>4, <1>5 DEF Leads
      <4> QED
        BY <4>2, <2>3
    <3>4. CASE ~(f[m] > f[i])
      <4>1. f[m] < f[i] \/ (f[m] = f[i] /\ i <= m)
        BY <3>2, <3>4, <1>5
      <4>2. Leads(i, UpTo(m), f)
        BY <4>1, <3>1, <1>4, <1>5 DEF Leads
      <4> QED
        BY <4>2, <3>2
    <3> QED
      BY <3>3, <3>4
  <2> QED
    BY <2>1, <2>2, <2>3
<1> HIDE DEF Led
<1>6. ASSUME Bad # {} PROVE FALSE
  <2>1. PICK m \in Nat : m \in Bad /\ \A k \in Bad : m <= k
    <3>1. Bad \in SUBSET Nat
      OBVIOUS
    <3> HIDE DEF Bad
    <3> QED
      BY <3>1, <1>6, LeastNat
  <2>2. m <= n /\ UpTo(m) # {} /\ ~Led(m) /\ m # 0
    BY <2>1, <1>3
  <2>3. m - 1 \in 0..n /\ m - 1 \notin Bad
    <3> HIDE DEF Bad
    <3> QED
      BY <2>1, <2>2
  <2>4. UpTo(m - 1) = {} \/ Led(m - 1)
    BY <2>3
  <2> QED
    BY <2>2, <2>4, <1>5
<1>7. Led(n)
  BY <1>6, <1>3
<1> QED
  BY <1>7, <1>3 DEF Led

LEMMA FirstBestIn ==
    ASSUME NEW S, NEW s \in Seq(S), NEW some \in SUBSET ToSet(s), some # {}, NEW score,
           \A x \in some : score[x] \in Int
    PROVE  FirstBest(s, some, score) \in some
<1> DEFINE I == {i \in 1..Len(s) : s[i] \in some}
           f == [i \in 1..Len(s) |-> IF s[i] \in some THEN score[s[i]] ELSE 0]
<1>1. Len(s) \in Nat /\ DOMAIN s = 1..Len(s) /\ I \in SUBSET (1..Len(s)) /\ f \in [1..Len(s) -> Int]
  OBVIOUS
<1>2. I # {}
  BY <1>1 DEF ToSet
<1>3. PICK i \in I : Leads(i, I, f)
  <2> HIDE DEF I, f
  <2> QED
    BY <1>1, <1>2, BestExists
<1>4. /\ i \in DOMAIN s /\ s[i] \in some
      /\ \A j \in DOMAIN s : s[j] \in some => score[s[j]] < score[s[i]] \/ (score[s[j]] = score[s[i]] /\ i <= j)
  BY <1>1, <1>3 DEF Leads
<1> HIDE DEF I, f
<1> QED
  BY <1>4 DEF FirstBest

-------------------------------------------------------------------------------
(* What rows are, whose names they go by, and who absorbs whom. *)
ListTypes == projectRows \in Seq(Pool) /\ harnessDirs \in Seq(NamesOf(Pool))

LEMMA RowFacts ==
    ASSUME ListTypes
    PROVE  /\ Rows \subseteq Pool /\ ToSet(harnessDirs) \subseteq NamesOf(Pool) /\ projectRows \in Seq(Rows)
           /\ \A r \in Rows : Len(r.name.slug) \in Nat /\ Len(r.path) \in Nat /\ NameLength(r) \in Nat
           /\ \A n \in NamesOf(Pool) : Len(n.slug) \in Nat
<1>1. Rows \subseteq Pool /\ ToSet(harnessDirs) \subseteq NamesOf(Pool)
  BY ElementsOf DEF ListTypes, Rows
<1>2. projectRows \in Seq(Rows)
  <2>1. \A i \in 1..Len(projectRows) : projectRows[i] \in Rows
    BY DEF ListTypes, Rows, ToSet
  <2> QED
    BY <2>1 DEF ListTypes
<1>3. \A r \in Pool : /\ Len(r.name.slug) \in Nat /\ Len(r.path) \in Nat /\ NameLength(r) \in Nat
  BY ListConstantsOK DEF NameLength
<1>4. \A n \in NamesOf(Pool) : Len(n.slug) \in Nat
  BY <1>3 DEF NamesOf
<1> QED
  BY <1>1, <1>2, <1>3, <1>4, ListConstantsOK

(* A row goes by the name of a row of the same commit. *)
LEMMA CanonicalRow ==
    ASSUME ListTypes, NEW r \in Rows
    PROVE  \E x \in Rows : x.name = Canonical(r) /\ x.commit = r.commit
<1>1. CASE r.commit = NoCommit
  BY <1>1 DEF Canonical
<1>2. CASE r.commit # NoCommit
  <2> DEFINE same == {x \in Rows : x.commit = r.commit}
             here == {x \in same : x.name \in ToSet(harnessDirs)}
             some == IF here # {} THEN here ELSE same
             score == [x \in same |-> -NameLength(x)]
  <2>1. some # {} /\ some \subseteq same /\ some \subseteq ToSet(projectRows)
    BY DEF Rows
  <2>2. \A x \in some : score[x] \in Int
    BY <2>1, RowFacts
  <2>3. projectRows \in Seq(Rows)
    BY RowFacts
  <2>4. Canonical(r) = FirstBest(projectRows, some, score).name
    BY <1>2 DEF Canonical
  <2> HIDE DEF some, score
  <2>5. FirstBest(projectRows, some, score) \in same
    BY <2>1, <2>2, <2>3, FirstBestIn
  <2> QED
    BY <2>4, <2>5
<1> QED
  BY <1>1, <1>2

LEMMA CanonicalOfRepository ==
    ASSUME NEW r \in Rows, NEW s \in Rows, r.commit # NoCommit, s.commit = r.commit
    PROVE  Canonical(r) = Canonical(s)
BY DEF Canonical

LEMMA LandingFacts ==
    ASSUME ListTypes
    PROVE  Landed /\ Entries \subseteq NamesOf(Pool)
<1> DEFINE names == [i \in DOMAIN projectRows |-> Canonical(projectRows[i])]
<1>1. DOMAIN projectRows = 1..Len(projectRows) /\ Len(projectRows) \in Nat /\ \A i \in DOMAIN projectRows : projectRows[i] \in Rows
  BY RowFacts
<1>2. \A r \in Rows : Canonical(r) \in NamesOf(Pool)
  BY CanonicalRow, RowFacts DEF NamesOf
<1>3. names \in Seq(NamesOf(Pool)) /\ Len(names) = Len(projectRows)
  BY <1>1, <1>2
<1>4. Landings = harnessDirs \o names /\ harnessDirs \in Seq(NamesOf(Pool))
  BY DEF Landings, ListTypes
<1> HIDE DEF names
<1>5. Landings \in Seq(NamesOf(Pool))
  BY <1>3, <1>4
<1>6. Landings \in Seq(Entries)
  <2>1. \A i \in 1..Len(Landings) : Landings[i] \in Entries
    BY <1>5 DEF Entries, ToSet
  <2> QED
    BY <1>5, <2>1
<1>7. \A r \in Rows : Canonical(r) \in Entries
  <2> SUFFICES ASSUME NEW r \in Rows PROVE Canonical(r) \in Entries
    OBVIOUS
  <2>1. PICK i \in 1..Len(projectRows) : projectRows[i] = r
    BY <1>1 DEF Rows, ToSet
  <2>2. names[i] = Canonical(r)
    BY <2>1, <1>1 DEF names
  <2>3. /\ Len(harnessDirs) \in Nat /\ Len(harnessDirs) + i \in 1..Len(Landings)
        /\ Landings[Len(harnessDirs) + i] = names[i]
    BY <1>3, <1>4, <1>1, <2>1
  <2> QED
    BY <2>2, <2>3, <1>5 DEF Entries, ToSet
<1> QED
  BY <1>5, <1>6, <1>7, ElementsOf DEF Landed, Entries

LEMMA ProjectNames ==
    ASSUME ListTypes
    PROVE  /\ RepoNames \cap Ephemeral = {}
           /\ RepoNames \subseteq ToSet(Seen) /\ Seen \in Seq(NamesOf(Pool))
<1> DEFINE names == [i \in DOMAIN projectRows |-> projectRows[i].name]
<1>1. RepoNames \cap Ephemeral = {}
  BY DEF RepoNames, Trusted, Promoted, NamesOf
<1>2. RepoNames \subseteq ToSet(harnessDirs) \cup NamesOf(Rows)
  BY DEF RepoNames, Trusted, Promoted, NamesOf, Pathed
<1>3. DOMAIN projectRows = 1..Len(projectRows) /\ Len(projectRows) \in Nat /\ \A i \in DOMAIN projectRows : projectRows[i] \in Rows
  BY RowFacts
<1>4. names \in Seq(NamesOf(Pool)) /\ Len(names) = Len(projectRows)
  <2>1. \A i \in 1..Len(projectRows) : projectRows[i].name \in NamesOf(Pool)
    BY <1>3, RowFacts DEF NamesOf
  <2> QED
    BY <1>3, <2>1
<1>5. Seen = harnessDirs \o names /\ harnessDirs \in Seq(NamesOf(Pool))
  BY DEF Seen, ListTypes
<1>6. ToSet(harnessDirs) \subseteq ToSet(Seen)
  <2> HIDE DEF names
  <2>1. \A i \in 1..Len(harnessDirs) : i \in 1..Len(Seen) /\ Seen[i] = harnessDirs[i]
    BY <1>4, <1>5
  <2> QED
    BY <1>4, <1>5, <2>1 DEF ToSet
<1>7. NamesOf(Rows) \subseteq ToSet(Seen)
  <2> SUFFICES ASSUME NEW r \in Rows PROVE r.name \in ToSet(Seen)
    BY DEF NamesOf
  <2>1. PICK i \in 1..Len(projectRows) : projectRows[i] = r
    BY <1>3 DEF Rows, ToSet
  <2>2. names[i] = r.name
    BY <2>1, <1>3
  <2> HIDE DEF names
  <2>3. Len(harnessDirs) \in Nat /\ Len(harnessDirs) + i \in 1..Len(Seen) /\ Seen[Len(harnessDirs) + i] = names[i] /\ Seen \in Seq(NamesOf(Pool))
    BY <1>3, <1>4, <1>5, <2>1
  <2> QED
    BY <2>2, <2>3 DEF ToSet
<1>8. Seen \in Seq(NamesOf(Pool))
  BY <1>4, <1>5
<1> QED
  BY <1>1, <1>2, <1>6, <1>7, <1>8

(* A name rolls up to a target or to nothing. *)
LEMMA TargetFound ==
    ASSUME ListTypes, NEW n, NEW targets \in SUBSET RepoNames
    PROVE  RollupTarget(n, targets) \in targets \cup {NoName}
<1> DEFINE heads  == {t \in targets : IsPrefix(t.slug, n.slug)}
           within == {t \in targets : Encloses(n.slug, t.slug)}
           score  == [t \in targets |-> 2 * Len(t.slug) + (IF t \in Trusted THEN 1 ELSE 0)]
<1>1. targets \subseteq ToSet(Seen) /\ Seen \in Seq(NamesOf(Pool)) /\ targets \subseteq NamesOf(Pool)
  BY ProjectNames, ElementsOf
<1>2. \A t \in targets : score[t] \in Int
  <2>1. \A t \in targets : Len(t.slug) \in Nat
    BY <1>1, RowFacts
  <2> QED
    BY <2>1
<1>3. RollupTarget(n, targets) = IF heads # {} THEN FirstBest(Seen, heads, score)
                                 ELSE IF within # {} THEN FirstBest(Seen, within, score) ELSE NoName
  BY DEF RollupTarget
<1>4. heads \subseteq targets /\ within \subseteq targets
  OBVIOUS
<1> HIDE DEF heads, within, score
<1>5. ASSUME NEW some \in SUBSET targets, some # {} PROVE FirstBest(Seen, some, score) \in targets
  BY <1>1, <1>2, <1>5, FirstBestIn
<1> QED
  BY <1>3, <1>4, <1>5

LEMMA OwnerFound ==
    ASSUME ListTypes, NEW r PROVE OwnerOf(r) \in RepoNames \cup {NoName}
<1> DEFINE above == {x \in Pathed : Foldable(x) /\ Beneath(r.path, x.path)}
           score == [x \in above |-> Len(x.path)]
<1>1. above \subseteq ToSet(projectRows) /\ above \subseteq Rows /\ \A x \in above : Canonical(x) \in RepoNames
  BY DEF Pathed, Rows, Foldable
<1>2. OwnerOf(r) = IF above = {} THEN NoName ELSE Canonical(FirstBest(projectRows, above, score))
  BY DEF OwnerOf
<1>3. \A x \in above : score[x] \in Int
  BY <1>1, RowFacts
<1>4. projectRows \in Seq(Rows)
  BY RowFacts
<1> HIDE DEF above, score
<1>5. above # {} => FirstBest(projectRows, above, score) \in above
  BY <1>1, <1>3, <1>4, FirstBestIn
<1> QED
  BY <1>1, <1>2, <1>5

LEMMA ByIdentitySound == ASSUME ListTypes PROVE Sound(ByIdentity)
<1> DEFINE list == ByIdentity
<1>1. /\ list.kept = Entries /\ list.dropped = {}
      /\ list.counted = [k \in Entries |-> [r \in Rows |-> IF Canonical(r) = k THEN 1 ELSE 0]]
      /\ list = [kept |-> list.kept, dropped |-> list.dropped, counted |-> list.counted]
  BY DEF ByIdentity, Entries
<1> HIDE DEF list
<1>2. \A k \in Entries, r \in Rows : list.counted[k][r] = IF Canonical(r) = k THEN 1 ELSE 0
  BY <1>1
<1>3. list.counted \in [Entries -> [Rows -> Nat]]
  BY <1>1
<1>4. list \in Lists
  BY <1>1, <1>3 DEF Lists
<1>5. \A r \in Rows : Canonical(r) \in Entries
  BY LandingFacts DEF Landed
<1>6. CountedOnce(list)
  BY <1>1, <1>2, <1>5 DEF CountedOnce
<1>7. Together(list)
  BY <1>2, CanonicalOfRepository DEF Together
<1>8. ProjectsStay(list)
  BY <1>1, <1>2, <1>5 DEF ProjectsStay
<1> QED
  BY <1>1, <1>4, <1>6, <1>7, <1>8 DEF Sound, list

(* Nothing is counted with a workspace, nor a project with anything. *)
LEMMA PathParents ==
    ASSUME ListTypes, NEW k \in Entries PROVE MayJoin(k, PathParent(k, Entries))
<1> DEFINE row == {r \in Pathed : r.name = k /\ IsScratch(r.path) /\ OwnerOf(r) \in Entries}
<1>1. CASE row = {}
  BY <1>1 DEF PathParent, MayJoin
<1>2. CASE row # {}
  <2>1. PICK r \in row : PathParent(k, Entries) = OwnerOf(r)
    BY <1>2 DEF PathParent
  <2>2. k \in Ephemeral /\ OwnerOf(r) \in Entries
    BY <2>1 DEF Ephemeral, NamesOf
  <2> QED
    BY <2>1, <2>2, OwnerFound, ProjectNames DEF MayJoin
<1> QED
  BY <1>1, <1>2

LEMMA NameParents ==
    ASSUME ListTypes, NEW k \in Entries, NEW keys \in SUBSET Entries PROVE MayJoin(k, NameParent(k, keys))
<1>1. CASE k \in RepoNames
  BY <1>1 DEF NameParent, MayJoin
<1>2. CASE k \notin RepoNames
  <2>1. RollupTarget(k, FoldTargets) \in FoldTargets \cup {NoName} /\ FoldTargets \subseteq RepoNames
    BY TargetFound DEF FoldTargets
  <2> QED
    BY <1>2, <2>1 DEF NameParent, MayJoin
<1> QED
  BY <1>1, <1>2

LEMMA ShownIsSound == ASSUME ListTypes PROVE Sound(ProjectsShown) /\ Entries \subseteq NamesOf(Pool)
<1>1. Landed /\ Entries \subseteq NamesOf(Pool)
  BY LandingFacts
<1> DEFINE first  == [k \in ByIdentity.kept |-> PathParent(k, ByIdentity.kept)]
           second == [k \in ToSet(Landings) |-> NameParent(k, ByPath.kept)]
<1>2. ByIdentity.kept = Entries
  BY DEF ByIdentity, Entries
<1>3. \A k \in Entries : first[k] = PathParent(k, Entries)
  BY <1>2
<1>4. ByPath = FoldInto(ByIdentity, first)
  BY DEF ByPath
<1> HIDE DEF first
<1>5. Sound(ByPath)
  BY <1>1, <1>3, <1>4, ByIdentitySound, PathParents, FoldKeeps
<1>6. ByPath.kept \in SUBSET Entries
  BY <1>5 DEF Sound, Lists
<1>7. \A k \in Entries : MayJoin(k, second[k])
  BY <1>6, NameParents DEF Entries
<1>8. ProjectsShown = FoldInto(ByPath, second)
  BY DEF ProjectsShown
<1> HIDE DEF second
<1> QED
  BY <1>1, <1>5, <1>7, <1>8, FoldKeeps

(* What is on disk or a git root, and no scratch space, is a project by name. *)
LEMMA RepositoriesAreProjects ==
    ASSUME ListTypes, NEW r \in Rows, r.commit # NoCommit, \A s \in Rows : s.commit = r.commit => s.name \notin Ephemeral
    PROVE  Canonical(r) \in RepoNames
<1>1. PICK x \in Rows : x.name = Canonical(r) /\ x.commit = r.commit
  BY CanonicalRow
<1>2. x.name \in Trusted
  BY <1>1 DEF Trusted, NamesOf
<1> QED
  BY <1>1, <1>2 DEF RepoNames

ListInv == ListTypeOK /\ ActivityIsKept

LEMMA BuildListKeeps == ASSUME ListInv, BuildList PROVE ListInv'
<1>1. ListTypes
  BY DEF ListInv, ListTypeOK, ListTypes
<1> DEFINE list == ProjectsShown
<1>2. Sound(list) /\ Entries \subseteq NamesOf(Pool)
  BY <1>1, ShownIsSound
<1>3. listed' = list /\ projectRows' = projectRows /\ harnessDirs' = harnessDirs
  BY DEF BuildList
<1> HIDE DEF list
<1>4. list.kept \subseteq Entries /\ list.dropped \subseteq Entries /\ list.counted \in [Entries -> [Rows -> Nat]]
  BY <1>2 DEF Sound, Lists
<1>5. ListTypeOK'
  BY <1>1, <1>2, <1>3, <1>4 DEF ListTypes, ListTypeOK, NamesOf
<1>6. Rows' = Rows /\ Ephemeral' = Ephemeral
  BY <1>3 DEF Rows, Ephemeral, Pathed
<1>7. EachCountedOnce'
  BY <1>2, <1>3, <1>6 DEF EachCountedOnce, Sound, CountedOnce
<1>8. ReposAreListed'
  <2> SUFFICES ASSUME NEW r \in Rows, r.commit # NoCommit
               PROVE  /\ \A s \in Rows : s.commit = r.commit => Shown(s)' = Shown(r)'
                      /\ (\A s \in Rows : s.commit = r.commit => s.name \notin Ephemeral) => Shown(r)' # {}
    BY <1>6 DEF ReposAreListed
  <2>1. \A s \in Rows : Shown(s)' = {k \in list.kept : list.counted[k][s] > 0}
    BY <1>3 DEF Shown
  <2>2. ASSUME NEW s \in Rows, s.commit = r.commit PROVE Shown(s)' = Shown(r)'
    <3>1. \A k \in list.kept : list.counted[k][s] = list.counted[k][r]
      BY <1>2, <1>4, <2>2 DEF Sound, Together
    <3> QED
      BY <2>1, <3>1
  <2>3. ASSUME \A s \in Rows : s.commit = r.commit => s.name \notin Ephemeral PROVE Shown(r)' # {}
    <3>1. Canonical(r) \in RepoNames /\ Canonical(r) \in Entries
      BY <1>1, <2>3, RepositoriesAreProjects, LandingFacts DEF Landed
    <3>2. Canonical(r) \in list.kept /\ list.counted[Canonical(r)][r] > 0
      BY <1>2, <3>1 DEF Sound, ProjectsStay
    <3> QED
      BY <2>1, <3>2
  <2> QED
    BY <2>2, <2>3
<1> QED
  BY <1>5, <1>7, <1>8 DEF ListInv, ActivityIsKept

LEMMA NotBuiltYet == ASSUME listed = NotBuilt PROVE ActivityIsKept
BY DEF ActivityIsKept, EachCountedOnce, ReposAreListed, Built

THEOREM ListInductive == ListSpec => []ListInv
<1>1. ListInit => ListInv
  <2> SUFFICES ASSUME ListInit PROVE ListInv
    OBVIOUS
  <2>1. listed = NotBuilt /\ projectRows = <<>> /\ harnessDirs = <<>>
    BY DEF ListInit
  <2>2. ListTypeOK
    BY <2>1 DEF ListTypeOK, NotBuilt
  <2> QED
    BY <2>1, <2>2, NotBuiltYet DEF ListInv
<1>2. ListInv /\ [ListNext]_listVars => ListInv'
  <2> SUFFICES ASSUME ListInv, [ListNext]_listVars PROVE ListInv'
    OBVIOUS
  <2>1. CASE BuildList
    BY <2>1, BuildListKeeps
  <2>2. ASSUME NEW r \in Pool, AddRow(r) PROVE ListInv'
    <3>1. listed' = NotBuilt
      BY <2>2 DEF AddRow
    <3>2. ActivityIsKept'
      BY <3>1 DEF ActivityIsKept, EachCountedOnce, ReposAreListed, Built, NotBuilt
    <3>3. ListTypeOK'
      BY <2>2 DEF AddRow, ListInv, ListTypeOK
    <3> QED
      BY <3>2, <3>3 DEF ListInv
  <2>3. ASSUME NEW r \in Pool, AddDirectory(r) PROVE ListInv'
    <3>1. listed' = NotBuilt
      BY <2>3 DEF AddDirectory
    <3>2. ActivityIsKept'
      BY <3>1 DEF ActivityIsKept, EachCountedOnce, ReposAreListed, Built, NotBuilt
    <3>3. ListTypeOK'
      <4>1. r.name \in NamesOf(Pool)
        BY DEF NamesOf
      <4> QED
        BY <2>3, <4>1 DEF AddDirectory, ListInv, ListTypeOK
    <3> QED
      BY <3>2, <3>3 DEF ListInv
  <2>4. CASE UNCHANGED listVars
    BY <2>4 DEF listVars, ListInv, ListTypeOK, ActivityIsKept, EachCountedOnce, ReposAreListed, Built, Shown, Rows, Ephemeral, Pathed
  <2> QED
    BY <2>1, <2>2, <2>3, <2>4 DEF ListNext
<1> QED
  BY <1>1, <1>2, PTL DEF ListSpec

(* Whatever rows and directories there are, and in whatever order they came:  *)
(* the activity of every row is counted once, rows of a repository stay       *)
(* together, and a repository that no scratch clone shares is on the list.    *)
THEOREM ActivitySafe == ListSpec => []ActivityIsKept
BY ListInductive, PTL DEF ListInv

-------------------------------------------------------------------------------
(* The three beside each other: FilesSpec implies the specification of each.  *)
LEMMA FilesApart == FilesSpec => Spec /\ (LiveInit /\ [][LiveNext]_liveVars) /\ ListSpec
<1>1. FilesInit => Init /\ LiveInit /\ ListInit
  BY DEF FilesInit
<1>2. [FilesNext]_fileVars => [Next]_vars /\ [LiveNext]_liveVars /\ [ListNext]_listVars
  BY DEF FilesNext, fileVars
<1> QED
  BY <1>1, <1>2, PTL DEF FilesSpec, Spec, ListSpec

(* The feed and the list keep their types, whichever of the three moves. *)
THEOREM FilesTypeCorrect == FilesSpec => []FilesTypeOK
BY FilesApart, FeedSafe, ListInductive, PTL DEF FilesTypeOK, ListInv
==============================================================================
