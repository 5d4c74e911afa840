----------------------------- MODULE ProjectsProofs -----------------------------
(***************************************************************************)
(* What project rows keep of the tokens and of the directories booked on   *)
(* them, for every number of processes, directories, rows and merges.      *)
(***************************************************************************)
EXTENDS MCBoard, TodosProofs, DeploymentsProofs, TLAPS

Finding == {"direct", "backfill", "alias", "match", "adopt", "insert", "register"}

ProjectRow == [name : Names, root : {g.root : g \in Shown} \cup {NoGit},
               origin : {g.origin : g \in Shown} \cup {NoOrigin}, remotes : {g.remotes : g \in Shown} \cup {{}}]

(* The tables are what the foreign keys make them: ids are given once, and  *)
(* what names a row names one that is there.                                *)
RowsInv ==
    /\ lastId \in Nat /\ lastId <= MaxId /\ Rows \subseteq 1..lastId
    /\ \A i \in Rows : projects[i] \in ProjectRow
    /\ \A i, j \in Rows : projects[i].name = projects[j].name => i = j

TablesInv ==
    /\ RowsInv
    /\ DOMAIN aliases \subseteq Names /\ \A n \in DOMAIN aliases : aliases[n] \in Rows
    /\ DOMAIN usage \subseteq Rows \X Minutes /\ \A k \in DOMAIN usage : usage[k] \in Nat
    /\ heir \in [RowIds -> RowIds] /\ homes \in [Names -> SUBSET RowIds] /\ contested \subseteq Names

(* What the processes remember: ids that were given once, though their rows *)
(* may be gone, and a loser that is not the winner.                         *)
Memory == [at : ResolverStages, name : Names \cup {NoGit}, git : Shown \cup {NoGit},
           id : 0..lastId, loser : 0..lastId, rest : SUBSET (1..lastId)]

Sound(c) ==
    /\ c.at \in Finding => c.name \in Names
    /\ c.at \in {"backfill", "match", "adopt"} => c.git # NoGit
    /\ c.at \in {"backfill", "adopt", "register", "holding", "merge", "merging"} => c.id # 0
    /\ c.at \in {"merge", "merging"} => c.id \notin c.rest
    /\ c.at = "merging" => c.loser # 0 /\ c.loser # c.id /\ c.name \in Names

MemoryInv == resolver \in [Resolvers -> Memory] /\ \A p \in Resolvers : Sound(resolver[p])

(* The row that a directory finds today. *)
Finds(n, i) == i \in Named(n) \/ (Named(n) = {} /\ n \in DOMAIN aliases /\ aliases[n] = i)

(* A row stands for itself, and so does one that is still to come. *)
HeirInv == \A i \in RowIds : i \in Rows \/ i > lastId => heir[i] = i

(* A loser that is gone has left its name to another row. *)
LoserInv ==
    \A p \in Resolvers : resolver[p].at = "merging" =>
        LET l == resolver[p].loser
        IN  IF l \in Rows THEN resolver[p].name = projects[l].name ELSE resolver[p].name \in DOMAIN aliases

(* What was resolved for a directory stands on the row it finds today; a row *)
(* of its own comes before its alias; and a process that is at resolving it  *)
(* is alone at that, and has not been overtaken.                             *)
Settled(n) ==
    /\ \A i \in RowIds : Finds(n, i) => \A k \in homes[n] : heir[k] = i
    /\ Named(n) = {} /\ n \notin DOMAIN aliases => homes[n] = {}
    /\ Named(n) # {} /\ n \in DOMAIN aliases => aliases[n] \in Named(n)

Ahead(p, n) ==
    /\ resolver[p].at = "alias" => Named(n) = {}
    /\ resolver[p].at \in {"match", "adopt", "insert"} => Named(n) = {} /\ n \notin DOMAIN aliases
    /\ resolver[p].at \in {"backfill", "register"} => Finds(n, heir[resolver[p].id])

HomeInv ==
    \A n \in Names \ contested :
        /\ Settled(n)
        /\ \A p, q \in Resolvers : Resolving(p, n) /\ Resolving(q, n) => p = q
        /\ \A p \in Resolvers : Resolving(p, n) => Ahead(p, n)

ProjectsInv ==
    /\ TablesInv
    /\ MemoryInv
    /\ HeirInv
    /\ LoserInv
    /\ HomeInv
-------------------------------------------------------------------------------
(* Types *)

LEMMA GitFacts ==
    ASSUME NEW n \in Names, NEW g \in GitSays[n]
    PROVE  g = NoGit \/ g \in Shown
BY DEF Shown

LEMMA NumberFacts ==
    ASSUME TablesInv
    PROVE  /\ MaxId \in Nat /\ lastId \in Nat /\ lastId <= MaxId
           /\ Rows \subseteq 1..lastId /\ 1..lastId \subseteq RowIds /\ Rows \subseteq RowIds
           /\ NextId \in Nat /\ NextId \notin Rows /\ (lastId < MaxId => NextId \in RowIds)
BY ProjectConstantsOK DEF TablesInv, RowsInv, RowIds, NextId

(* What a process remembers, after the changes that statements make to it. *)
LEMMA Remembers ==
    ASSUME TablesInv, NEW c \in Memory
    PROVE  /\ \A at \in ResolverStages :
                /\ [c EXCEPT !.at = at] \in Memory
                /\ \A i \in 1..lastId :
                     /\ [c EXCEPT !.at = at, !.id = i] \in Memory
                     /\ \A rest \in SUBSET (1..lastId) : [c EXCEPT !.at = at, !.id = i, !.rest = rest] \in Memory
                /\ \A n \in Names, l \in 1..lastId, rest \in SUBSET (1..lastId) :
                     [c EXCEPT !.at = at, !.name = n, !.loser = l, !.rest = rest] \in Memory
                /\ \A n \in Names, g \in Shown \cup {NoGit} : [c EXCEPT !.at = at, !.name = n, !.git = g] \in Memory
                /\ \A rest \in SUBSET (1..lastId) : [c EXCEPT !.at = at, !.rest = rest] \in Memory
           /\ \A rest \in SUBSET (1..lastId) : [c EXCEPT !.rest = rest] \in Memory
           /\ c.id \in 0..lastId /\ c.loser \in 0..lastId /\ c.rest \subseteq 1..lastId
<1>1. lastId \in Nat /\ \A i \in 1..lastId : i \in 0..lastId
  BY NumberFacts
<1> QED
  BY <1>1 DEF Memory

LEMMA Rested == TablesInv => AtRest \in Memory /\ Sound(AtRest)
<1>1. TablesInv => 0 \in 0..lastId
  BY NumberFacts
<1>2. TablesInv => AtRest \in Memory
  BY <1>1 DEF AtRest, Memory, ResolverStages
<1>3. Sound(AtRest)
  BY DEF AtRest, Sound, Finding
<1> QED
  BY <1>2, <1>3

(* One process moves at a time. *)
LEMMA MemoryMoves ==
    ASSUME MemoryInv, TablesInv, NEW p \in Resolvers, NEW c \in Memory', Sound(c), resolver' = [resolver EXCEPT ![p] = c],
           lastId' = lastId \/ lastId' = lastId + 1
    PROVE  MemoryInv'
<1>1. Memory \subseteq Memory'
  BY NumberFacts DEF Memory
<1>2. \A q \in Resolvers : resolver[q] \in Memory' /\ Sound(resolver[q])
  BY <1>1 DEF MemoryInv
<1>3. resolver' \in [Resolvers -> Memory']
  BY <1>2 DEF MemoryInv
<1>4. \A q \in Resolvers : Sound(resolver'[q])
  BY <1>2, <1>3 DEF MemoryInv
<1> QED
  BY <1>3, <1>4 DEF MemoryInv, Sound, Memory

LEMMA MemoryStep == ProjectsInv /\ [ProjectsNext]_projectVars => MemoryInv'
<1> SUFFICES ASSUME ProjectsInv, [ProjectsNext]_projectVars PROVE MemoryInv'
  OBVIOUS
<1>0. TablesInv /\ MemoryInv
  BY DEF ProjectsInv
<1>1. ASSUME NEW p \in Resolvers, \/ Proceed(p) \/ Lookup(p) \/ AskMerge(p) \/ Lose(p)
                                  \/ \E m \in Minutes : Book(p, m)
      PROVE  MemoryInv'
  <2> DEFINE old == resolver[p]
             new == resolver'[p]
  <2>1. old \in Memory /\ Sound(old)
    BY <1>0 DEF MemoryInv
  <2>2. AtRest \in Memory /\ Sound(AtRest)
    BY <1>0, Rested DEF Memory
  <2>3. ASSUME NEW c, resolver' = [resolver EXCEPT ![p] = c], lastId' = lastId, c \in Memory, Sound(c)
        PROVE  MemoryInv'
    <3>1. c \in Memory'
      BY <2>3 DEF Memory
    <3> QED
      BY <1>0, <2>3, <3>1, MemoryMoves
  <2>4. CASE Aborts(p) /\ lastId' = lastId
    BY <2>2, <2>3, <2>4 DEF Aborts
  <2>5. ASSUME NEW stage, Goes(p, stage), lastId' = lastId, [old EXCEPT !.at = stage] \in Memory,
               Sound([old EXCEPT !.at = stage])
        PROVE  MemoryInv'
    <3>1. resolver' = [resolver EXCEPT ![p] = [old EXCEPT !.at = stage]]
      BY <2>5 DEF Goes
    <3> QED
      BY <2>3, <2>5, <3>1
  <2>6. ASSUME NEW i, Arrives(p, i), lastId' = lastId, i \in 1..lastId
        PROVE  MemoryInv'
    <3> DEFINE c == [old EXCEPT !.at = "holding", !.id = i]
    <3>1. resolver' = [resolver EXCEPT ![p] = c]
      BY <2>6 DEF Arrives
    <3>2. c \in Memory
      BY <1>0, <2>1, <2>6, Remembers DEF ResolverStages
    <3>3. Sound(c)
      BY <2>1, <2>6 DEF Memory, Sound, Finding
    <3> QED
      BY <2>3, <2>6, <3>1, <3>2, <3>3
  <2>7. \A at \in ResolverStages : [old EXCEPT !.at = at] \in Memory
    BY <1>0, <2>1 DEF Memory
  <2>9. \A at \in ResolverStages : LET c == [old EXCEPT !.at = at] IN
          c.at = at /\ c.name = old.name /\ c.git = old.git /\ c.id = old.id /\ c.loser = old.loser /\ c.rest = old.rest
    BY <2>1 DEF Memory
  <2>8. Rows \subseteq 1..lastId /\ lastId \in Nat
    BY <1>0, NumberFacts
  <2>11. CASE Lookup(p)
    <3>1. PICK n \in Names : \E g \in GitSays[n] :
             resolver' = [resolver EXCEPT ![p] = [AtRest EXCEPT !.at = "direct", !.name = n, !.git = g]] /\ lastId' = lastId
      BY <2>11 DEF Lookup
    <3>2. PICK g \in GitSays[n] :
             resolver' = [resolver EXCEPT ![p] = [AtRest EXCEPT !.at = "direct", !.name = n, !.git = g]] /\ lastId' = lastId
      BY <3>1
    <3>3. [AtRest EXCEPT !.at = "direct", !.name = n, !.git = g] \in Memory
      BY <2>2, GitFacts DEF AtRest, Memory, ResolverStages
    <3>4. Sound([AtRest EXCEPT !.at = "direct", !.name = n, !.git = g])
      BY DEF Sound, AtRest
    <3> QED
      BY <3>2, <3>3, <3>4, <2>3
  <2>12. CASE ByName(p)
    <3>1. lastId' = lastId /\ old.at = "direct"
      BY <2>12 DEF ByName
    <3>2. CASE Goes(p, "alias")
      BY <2>1, <2>5, <2>7, <2>9, <3>1, <3>2 DEF Sound, Finding, ResolverStages
    <3>3. ASSUME NEW i \in Named(old.name) PROVE i \in 1..lastId /\ i # 0
      BY <2>8 DEF Named
    <3>4. ASSUME NEW i \in Named(old.name), Arrives(p, i) PROVE MemoryInv'
      BY <2>6, <3>1, <3>3, <3>4
    <3>5. ASSUME NEW i \in Named(old.name), old.git # NoGit,
                 resolver' = [resolver EXCEPT ![p].at = "backfill", ![p].id = i]
          PROVE  MemoryInv'
      <4> DEFINE c == [old EXCEPT !.at = "backfill", !.id = i]
      <4>1. c \in Memory
        BY <1>0, <2>1, <3>1, <3>3, <3>5, Remembers DEF ResolverStages
      <4>s. Sound(c)
        BY <1>0, <2>1, <3>1, <3>3, <3>5 DEF Memory, Sound, Finding
      <4>2. resolver' = [resolver EXCEPT ![p] = c]
        BY <3>5
      <4> QED
        BY <2>3, <3>1, <4>1, <4>s, <4>2
    <3> QED
      BY <2>12, <3>2, <3>4, <3>5 DEF ByName
  <2>13. CASE Backfill(p)
    <3>1. lastId' = lastId /\ old.id \in 1..lastId /\ Arrives(p, old.id)
      BY <1>0, <2>1, <2>13 DEF Backfill, Sound, Memory
    <3> QED
      BY <2>6, <3>1
  <2>14. CASE ByAlias(p)
    <3>1. lastId' = lastId /\ old.at = "alias"
      BY <2>14 DEF ByAlias
    <3>2. CASE old.name \in DOMAIN aliases /\ Arrives(p, aliases[old.name])
      <4>1. aliases[old.name] \in 1..lastId
        BY <1>0, <2>8, <3>2 DEF TablesInv
      <4> QED
        BY <2>6, <3>1, <3>2, <4>1
    <3>3. CASE old.git = NoGit /\ Goes(p, "insert")
      BY <2>1, <2>5, <2>7, <2>9, <3>1, <3>3 DEF Sound, Finding, ResolverStages
    <3>4. CASE old.git # NoGit /\ Goes(p, "match")
      BY <2>1, <2>5, <2>7, <2>9, <3>1, <3>4 DEF Sound, Finding, ResolverStages
    <3> QED
      BY <2>14, <3>2, <3>3, <3>4 DEF ByAlias
  <2>15. CASE ByIdentity(p)
    <3>1. lastId' = lastId /\ old.at = "match"
      BY <2>15 DEF ByIdentity
    <3>2. CASE Goes(p, "insert")
      BY <2>1, <2>5, <2>7, <2>9, <3>1, <3>2 DEF Sound, Finding, ResolverStages
    <3>3. ASSUME NEW i \in Rows, resolver' = [resolver EXCEPT ![p].at = "adopt", ![p].id = i]
          PROVE  MemoryInv'
      <4> DEFINE c == [old EXCEPT !.at = "adopt", !.id = i]
      <4>1. c \in Memory
        BY <1>0, <2>1, <2>8, Remembers DEF ResolverStages
      <4>s. Sound(c)
        BY <2>1, <2>8, <3>1 DEF Memory, Sound, Finding
      <4>2. resolver' = [resolver EXCEPT ![p] = c]
        BY <3>3
      <4> QED
        BY <2>3, <3>1, <4>1, <4>s, <4>2
    <3> QED
      BY <2>15, <3>2, <3>3 DEF ByIdentity, Candidates
  <2>16. CASE Adopt(p) \/ Register(p)
    <3>1. lastId' = lastId /\ old.id \in 1..lastId
      BY <1>0, <2>1, <2>16 DEF Adopt, Register, Registers, Sound, Memory
    <3>2. Arrives(p, old.id) \/ Aborts(p)
      BY <2>16 DEF Adopt, Register, Registers
    <3> QED
      BY <2>4, <2>6, <3>1, <3>2
  <2>17. CASE Insert(p)
    <3>1. CASE Aborts(p) /\ lastId' = lastId
      BY <2>4, <3>1
    <3>2. CASE lastId' = NextId /\ resolver' = [resolver EXCEPT ![p].at = "register", ![p].id = NextId]
      <4> DEFINE c == [old EXCEPT !.at = "register", !.id = NextId]
      <4>0. old.at = "insert" /\ NextId = lastId + 1 /\ NextId # 0 /\ NextId \in 0..lastId'
        BY <2>8, <2>17, <3>2 DEF Insert, NextId
      <4>1. c \in Memory'
        <5>1. old \in Memory'
          BY <2>1, <2>8, <3>2, <4>0 DEF Memory
        <5> QED
          BY <4>0, <5>1 DEF Memory, ResolverStages
      <4>2. Sound(c)
        BY <2>1, <4>0 DEF Sound, Finding, Memory
      <4>3. resolver' = [resolver EXCEPT ![p] = c]
        BY <3>2
      <4> QED
        BY <1>0, <3>2, <4>1, <4>2, <4>3, MemoryMoves DEF NextId
    <3> QED
      BY <2>17, <3>1, <3>2 DEF Insert
  <2>18. CASE \E m \in Minutes : Book(p, m)
    <3>1. lastId' = lastId /\ (resolver' = resolver \/ Aborts(p))
      BY <2>18 DEF Book
    <3>2. CASE resolver' = resolver
      BY <1>0, <3>1, <3>2 DEF MemoryInv, Memory, Sound
    <3> QED
      BY <2>4, <3>1, <3>2
  <2>19. CASE Sweep(p)
    <3>1. lastId' = lastId
      BY <2>19 DEF Sweep
    <3>2. ASSUME NEW G \in Groups, resolver' = [resolver EXCEPT ![p] = [AtRest EXCEPT !.at = "rank", !.rest = G]]
          PROVE  MemoryInv'
      <4>1. G \subseteq 1..lastId
        BY <2>8 DEF Groups
      <4>2. [AtRest EXCEPT !.at = "rank", !.rest = G] \in Memory
        BY <2>2, <4>1 DEF AtRest, Memory, ResolverStages
      <4>3. Sound([AtRest EXCEPT !.at = "rank", !.rest = G])
        BY DEF Sound, AtRest, Finding
      <4> QED
        BY <2>3, <3>1, <3>2, <4>2, <4>3
    <3> QED
      BY <2>4, <2>19, <3>1, <3>2 DEF Sweep
  <2>20. CASE Rank(p)
    <3>1. lastId' = lastId /\ old.at = "rank"
      BY <2>20 DEF Rank
    <3>2. ASSUME NEW w \in old.rest \cap Rows,
                 resolver' = [resolver EXCEPT ![p].at = "merge", ![p].id = w, ![p].rest = (old.rest \cap Rows) \ {w}]
          PROVE  MemoryInv'
      <4> DEFINE c == [old EXCEPT !.at = "merge", !.id = w, !.rest = (old.rest \cap Rows) \ {w}]
      <4>1. c \in Memory
        BY <1>0, <2>1, <3>1, Remembers DEF ResolverStages
      <4>s. Sound(c)
        BY <1>0, <2>1, <3>1 DEF Memory, Sound, Finding
      <4>2. resolver' = [resolver EXCEPT ![p] = c]
        BY <3>2
      <4> QED
        BY <2>3, <3>1, <4>1, <4>s, <4>2
    <3> QED
      BY <2>4, <2>20, <3>1, <3>2 DEF Rank
  <2>21. CASE AskMerge(p)
    <3>1. lastId' = lastId
      BY <2>21 DEF AskMerge
    <3>2. PICK l \in 1..lastId, w \in 1..lastId :
             l # w /\ resolver' = [resolver EXCEPT ![p] = [AtRest EXCEPT !.at = "merge", !.id = w, !.rest = {l}]]
      BY <2>21 DEF AskMerge
    <3>3. [AtRest EXCEPT !.at = "merge", !.id = w, !.rest = {l}] \in Memory
      <4>1. {l} \in SUBSET (1..lastId) /\ "merge" \in ResolverStages
        BY DEF ResolverStages
      <4> QED
        BY <1>0, <2>2, <4>1, Remembers
    <3>4. Sound([AtRest EXCEPT !.at = "merge", !.id = w, !.rest = {l}])
      BY <1>0, <3>2 DEF Sound, AtRest, Finding
    <3> QED
      BY <2>3, <3>1, <3>2, <3>3, <3>4
  <2>22. CASE ReadBoth(p)
    <3>1. lastId' = lastId /\ old.at = "merge"
      BY <2>22 DEF ReadBoth
    <3>2. ASSUME NEW l \in old.rest,
                 resolver' = [resolver EXCEPT ![p].rest = @ \ {l}]
          PROVE  MemoryInv'
      <4> DEFINE c == [old EXCEPT !.rest = @ \ {l}]
      <4>1. c \in Memory
        BY <1>0, <2>1, <3>1, Remembers DEF ResolverStages
      <4>s. Sound(c)
        BY <1>0, <2>1, <3>1 DEF Memory, Sound, Finding
      <4>2. resolver' = [resolver EXCEPT ![p] = c]
        BY <3>2
      <4> QED
        BY <2>3, <3>1, <4>1, <4>s, <4>2
    <3>3. ASSUME NEW l \in old.rest, l \in Rows,
                 resolver' = [resolver EXCEPT ![p].at = "merging", ![p].name = projects[l].name, ![p].loser = l, ![p].rest = @ \ {l}]
          PROVE  MemoryInv'
      <4> DEFINE c == [old EXCEPT !.at = "merging", !.name = projects[l].name, !.loser = l, !.rest = @ \ {l}]
      <4>0. projects[l].name \in Names
        BY <1>0, <3>3 DEF TablesInv, RowsInv, ProjectRow
      <4>1. c \in Memory
        BY <1>0, <2>1, <3>1, <3>3, <4>0, Remembers DEF ResolverStages
      <4>s. Sound(c)
        BY <1>0, <2>1, <3>1, <3>3, <4>0 DEF Memory, Sound, Finding
      <4>2. resolver' = [resolver EXCEPT ![p] = c]
        BY <3>3
      <4> QED
        BY <2>3, <3>1, <4>1, <4>s, <4>2
    <3> QED
      BY <2>4, <2>22, <3>1, <3>2, <3>3 DEF ReadBoth
  <2>23. CASE Merge(p) \/ MergeIntoNothing(p)
    <3>1. lastId' = lastId /\ old.at = "merging" /\ (Aborts(p) \/ Goes(p, "merge"))
      BY <2>23 DEF Merge, MergeIntoNothing
    <3>2. [old EXCEPT !.at = "merge"] \in Memory /\ Sound([old EXCEPT !.at = "merge"])
      BY <2>1, <3>1 DEF Memory, Sound, ResolverStages, Finding
    <3> QED
      BY <2>4, <2>5, <3>1, <3>2
  <2>24. CASE Lose(p)
    BY <2>4, <2>24 DEF Lose
  <2> QED
    BY <1>1, <2>11, <2>12, <2>13, <2>14, <2>15, <2>16, <2>17, <2>18, <2>19, <2>20, <2>21, <2>22, <2>23, <2>24 DEF Proceed
<1>2. CASE UNCHANGED projectVars
  BY <1>0, <1>2 DEF projectVars, MemoryInv, Memory, Sound
<1> QED
  BY <1>1, <1>2 DEF ProjectsNext

-------------------------------------------------------------------------------
(* The tables *)

(* The rows a resolution may make or fill in. *)
LEMMA RowTypes ==
    ASSUME NEW g \in Shown
    PROVE  /\ \A n \in Names : [name |-> n, root |-> g.root, origin |-> g.origin, remotes |-> g.remotes] \in ProjectRow
           /\ \A row \in ProjectRow : Filled(row, g) \in ProjectRow /\ Filled(row, g).name = row.name
BY DEF ProjectRow, Filled

LEMMA NewRowType ==
    ASSUME NEW p \in Resolvers, MemoryInv, resolver[p].at \in Finding
    PROVE  NewRow(p) \in ProjectRow /\ NewRow(p).name = resolver[p].name
<1>1. resolver[p].git \in Shown \cup {NoGit} /\ resolver[p].name \in Names
  BY DEF MemoryInv, Memory, Sound
<1>2. CASE resolver[p].git = NoGit
  BY <1>1, <1>2 DEF NewRow, ProjectRow
<1>3. CASE resolver[p].git # NoGit
  BY <1>1, <1>3, RowTypes DEF NewRow
<1> QED
  BY <1>2, <1>3

(* What stays when a statement concerns neither table. *)
LEMMA TablesStay ==
    ASSUME TablesInv, UNCHANGED <<projects, aliases, usage, lastId, heir>>,
           homes' \in [Names -> SUBSET RowIds], contested' \subseteq Names
    PROVE  TablesInv'
BY DEF TablesInv, RowsInv, Rows, RowIds, ProjectRow

(* Rows may go, and be filled in, but none changes its name. *)
LEMMA RowsThin ==
    ASSUME RowsInv, lastId' = lastId, Rows' \subseteq Rows,
           \A i \in Rows' : projects'[i] \in ProjectRow /\ projects'[i].name = projects[i].name
    PROVE  RowsInv'
<1>1. Rows' \subseteq 1..lastId'
  BY DEF RowsInv
<1>2. \A i \in Rows' : projects'[i] \in ProjectRow
  OBVIOUS
<1>3. \A i, j \in Rows' : projects'[i].name = projects'[j].name => i = j
  BY DEF RowsInv
<1> QED
  BY <1>1, <1>2, <1>3 DEF RowsInv, ProjectRow

LEMMA TokenTypes ==
    ASSUME TablesInv
    PROVE  \A i \in RowIds, m \in Minutes : Tokens(i, m) \in Nat
BY DEF TablesInv, Tokens

LEMMA ArrivesStays ==
    ASSUME TablesInv, MemoryInv, NEW p \in Resolvers, resolver[p].name \in Names, NEW i \in RowIds, Arrives(p, i)
    PROVE  homes' \in [Names -> SUBSET RowIds]
BY DEF TablesInv, Arrives

LEMMA TablesStep == TablesInv /\ MemoryInv /\ [ProjectsNext]_projectVars => TablesInv'
<1> SUFFICES ASSUME TablesInv, MemoryInv, [ProjectsNext]_projectVars PROVE TablesInv'
  OBVIOUS
<1>0. /\ homes \in [Names -> SUBSET RowIds] /\ contested \subseteq Names
      /\ Rows \subseteq 1..lastId /\ Rows \subseteq RowIds /\ 1..lastId \subseteq RowIds /\ lastId \in Nat
      /\ DOMAIN aliases \subseteq Names /\ \A n \in DOMAIN aliases : aliases[n] \in Rows
  BY NumberFacts DEF TablesInv
<1>1. ASSUME NEW p \in Resolvers, \/ Proceed(p) \/ Lookup(p) \/ AskMerge(p) \/ Lose(p)
                                  \/ \E m \in Minutes : Book(p, m)
      PROVE  TablesInv'
  <2>1. /\ resolver[p] \in Memory /\ Sound(resolver[p])
    BY DEF MemoryInv
  <2>a. ASSUME NEW i \in RowIds, Arrives(p, i), resolver[p].at \in Finding PROVE homes' \in [Names -> SUBSET RowIds]
    BY <2>1, <2>a, ArrivesStays DEF Sound
  <2>i. resolver[p].id # 0 => resolver[p].id \in 1..lastId
    BY <1>0, <2>1 DEF Memory
  <2>2. CASE Lookup(p)
    BY <1>0, <2>2, TablesStay DEF Lookup
  <2>3. CASE ByName(p) \/ ByAlias(p)
    <3>1. homes' \in [Names -> SUBSET RowIds]
      BY <1>0, <2>a, <2>3 DEF ByName, ByAlias, Named, Finding
    <3> QED
      BY <1>0, <2>3, <3>1, TablesStay DEF ByName, ByAlias, bounds
  <2>4. CASE ByIdentity(p) \/ AskMerge(p) \/ Lose(p) \/ Sweep(p) \/ Rank(p) \/ ReadBoth(p)
    BY <1>0, <2>4, TablesStay DEF ByIdentity, AskMerge, Lose, Sweep, Rank, ReadBoth, bounds
  <2>5. CASE Backfill(p)
    <3> DEFINE id == resolver[p].id
               g  == resolver[p].git
    <3>1. homes' \in [Names -> SUBSET RowIds]
      BY <1>0, <2>1, <2>i, <2>a, <2>5 DEF Backfill, Sound, Finding
    <3>2. g \in Shown
      BY <2>1, <2>5 DEF Backfill, Sound, Memory
    <3>3. projects' = [i \in Rows |-> IF i = id THEN Filled(projects[i], g) ELSE projects[i]]
      BY <2>5 DEF Backfill
    <3>4. Rows' = Rows /\ \A i \in Rows : projects'[i] \in ProjectRow /\ projects'[i].name = projects[i].name
      BY <3>2, <3>3, RowTypes DEF Rows, TablesInv, RowsInv
    <3>5. RowsInv'
      BY <2>5, <3>4, RowsThin DEF Backfill, TablesInv
    <3> QED
      BY <1>0, <2>5, <3>1, <3>4, <3>5 DEF Backfill, TablesInv, RowIds
  <2>6. CASE Adopt(p) \/ Register(p)
    <3>1. homes' \in [Names -> SUBSET RowIds] /\ resolver[p].name \in Names
      <4>1. resolver[p].at \in Finding /\ resolver[p].id \in RowIds
        BY <1>0, <2>1, <2>i, <2>6 DEF Adopt, Register, Sound, Finding
      <4> QED
        BY <1>0, <2>1, <2>a, <2>6, <4>1 DEF Adopt, Register, Registers, Sound
    <3>2. /\ UNCHANGED <<projects, usage, lastId, heir, contested>>
          /\ \/ UNCHANGED aliases
             \/ /\ resolver[p].name \in DOMAIN aliases \/ resolver[p].id \in Rows
                /\ aliases' = WithAlias(resolver[p].name, resolver[p].id)
      BY <2>6 DEF Adopt, Register, Registers
    <3>3. DOMAIN aliases' \subseteq Names /\ \A n \in DOMAIN aliases' : aliases'[n] \in Rows
      BY <1>0, <3>1, <3>2 DEF WithAlias
    <3> QED
      BY <1>0, <3>1, <3>2, <3>3 DEF TablesInv, RowsInv, Rows, RowIds, ProjectRow
  <2>7. CASE Insert(p)
    <3>1. CASE UNCHANGED <<projects, lastId>>
      BY <1>0, <2>7, <3>1, TablesStay DEF Insert, bounds
    <3>2. CASE /\ Named(resolver[p].name) = {} /\ lastId' = NextId
               /\ projects' = [i \in Rows \cup {NextId} |-> IF i = NextId THEN NewRow(p) ELSE projects[i]]
      <4>1. NextId \notin Rows /\ NextId = lastId + 1 /\ NextId <= MaxId /\ NextId \in Nat /\ MaxId \in Nat
        BY <1>0, <2>7, NumberFacts DEF Insert, NextId
      <4>2. Rows' = Rows \cup {NextId}
        BY <3>2 DEF Rows
      <4>3. NewRow(p) \in ProjectRow /\ NewRow(p).name = resolver[p].name
        BY <2>7, NewRowType DEF Insert, Finding
      <4>4. \A i \in Rows : projects'[i] = projects[i]
        BY <3>2, <4>1
      <4>5. projects'[NextId] = NewRow(p)
        BY <3>2
      <4>6. \A i, j \in Rows' : projects'[i].name = projects'[j].name => i = j
        <5>1. \A i \in Rows : projects'[i].name # projects'[NextId].name
          BY <3>2, <4>3, <4>4, <4>5 DEF Named
        <5>2. \A i, j \in Rows : projects'[i].name = projects'[j].name => i = j
          BY <4>4 DEF TablesInv, RowsInv
        <5> QED
          BY <4>2, <5>1, <5>2
      <4>7. \A i \in Rows' : projects'[i] \in ProjectRow
        BY <4>2, <4>3, <4>4, <4>5 DEF TablesInv, RowsInv
      <4>8. Rows' \subseteq 1..lastId' /\ Rows \subseteq Rows'
        BY <1>0, <3>2, <4>1, <4>2
      <4>9. UNCHANGED <<aliases, usage, heir, homes, contested>>
        BY <2>7 DEF Insert
      <4>10. RowsInv'
        BY <3>2, <4>1, <4>6, <4>7, <4>8 DEF RowsInv, ProjectRow
      <4> QED
        BY <1>0, <4>8, <4>9, <4>10 DEF TablesInv, RowIds
    <3> QED
      BY <2>7, <3>1, <3>2 DEF Insert
  <2>8. ASSUME NEW m \in Minutes, Book(p, m) PROVE TablesInv'
    <3>1. CASE usage' = usage
      BY <1>0, <2>8, <3>1, TablesStay DEF Book
    <3>2. CASE resolver[p].id \in Rows /\ usage' = Booked(resolver[p].id, m)
      <4>1. Tokens(resolver[p].id, m) \in Nat
        BY <1>0, <3>2, TokenTypes
      <4>2. DOMAIN usage' \subseteq Rows \X Minutes /\ \A k \in DOMAIN usage' : usage'[k] \in Nat
        BY <3>2, <4>1 DEF Booked, TablesInv
      <4> QED
        BY <2>8, <4>2 DEF Book, TablesInv, RowsInv, Rows, RowIds, ProjectRow
    <3> QED
      BY <2>8, <3>1, <3>2 DEF Book
  <2>9. CASE Merge(p)
    <3> DEFINE l == resolver[p].loser
               w == resolver[p].id
    <3>0. l \in RowIds
      BY <1>0, <2>1, <2>9 DEF Merge, Sound, Memory
    <3>1. l # w /\ w \in Rows /\ resolver[p].name \in Names /\ w \in RowIds
      BY <1>0, <2>1, <2>9 DEF Merge, Sound
    <3>2. /\ projects' = Without(l) /\ usage' = Summed(l, w) /\ aliases' = Repointed(l, w, resolver[p].name)
          /\ heir' = Inherited(l, w) /\ UNCHANGED <<lastId, homes, contested>>
      BY <2>9 DEF Merge
    <3> HIDE DEF l, w
    <3>3. Rows' = Rows \ {l} /\ \A i \in Rows' : projects'[i] = projects[i]
      BY <3>2 DEF Without, Rows
    <3>4. DOMAIN aliases' \subseteq Names /\ \A n \in DOMAIN aliases' : aliases'[n] \in Rows'
      BY <1>0, <3>1, <3>2, <3>3 DEF Repointed
    <3>5. DOMAIN usage' \subseteq Rows' \X Minutes /\ \A k \in DOMAIN usage' : usage'[k] \in Nat
      <4>1. \A m \in Minutes : Tokens(w, m) + Tokens(l, m) \in Nat
        BY <3>0, <3>1, TokenTypes
      <4>2. usage' = Summed(l, w) /\ DOMAIN usage \subseteq Rows \X Minutes /\ \A k \in DOMAIN usage : usage[k] \in Nat
        BY <3>2 DEF TablesInv
      <4>3. \A k \in DOMAIN usage' :
               /\ k \in Rows' \X Minutes
               /\ usage'[k] = IF k[1] = w THEN Tokens(w, k[2]) + Tokens(l, k[2]) ELSE usage[k]
               /\ k[1] # w => k \in DOMAIN usage
        <5>1. DOMAIN usage' = {k \in DOMAIN usage : k[1] # l}
                              \cup {<<w, m>> : m \in {m \in Minutes : <<l, m>> \in DOMAIN usage}}
          BY <4>2 DEF Summed
        <5>2. \A k \in DOMAIN usage' : usage'[k] = IF k[1] = w THEN Tokens(w, k[2]) + Tokens(l, k[2]) ELSE usage[k]
          BY <4>2, <5>1 DEF Summed
        <5>3. ASSUME NEW k \in DOMAIN usage, k[1] # l PROVE k \in Rows' \X Minutes
          BY <3>3, <4>2, <5>3
        <5>4. ASSUME NEW m \in Minutes PROVE <<w, m>> \in Rows' \X Minutes /\ <<w, m>>[1] = w
          BY <3>1, <3>3
        <5>5. ASSUME NEW k \in DOMAIN usage' PROVE k \in Rows' \X Minutes /\ (k[1] # w => k \in DOMAIN usage)
          <6>1. CASE k \in DOMAIN usage /\ k[1] # l
            BY <5>3, <6>1
          <6>2. ASSUME NEW m \in Minutes, k = <<w, m>> PROVE k \in Rows' \X Minutes /\ k[1] = w
            BY <5>4, <6>2
          <6> QED
            BY <5>1, <6>1, <6>2
        <5> QED
          BY <5>2, <5>5
      <4>4. ASSUME NEW k \in DOMAIN usage' PROVE usage'[k] \in Nat
        <5>1. CASE k[1] = w
          BY <4>1, <4>3, <5>1
        <5>2. CASE k[1] # w
          BY <4>2, <4>3, <5>2
        <5> QED
          BY <5>1, <5>2
      <4> QED
        BY <4>3, <4>4
    <3>6. heir' \in [RowIds -> RowIds]
      BY <3>1, <3>2 DEF Inherited, TablesInv
    <3>7. RowsInv'
      BY <3>2, <3>3, RowsThin DEF TablesInv, RowsInv
    <3> QED
      BY <1>0, <3>2, <3>4, <3>5, <3>6, <3>7 DEF TablesInv, RowIds
  <2>10. CASE MergeIntoNothing(p)
    <3> DEFINE l == resolver[p].loser
               n == resolver[p].name
    <3>1. CASE projects' = projects
      BY <1>0, <2>10, <3>1, TablesStay DEF MergeIntoNothing, bounds
    <3>2. CASE ~Owns(l, n) /\ projects' = Without(l)
      <4>1. Rows' = Rows \ {l} /\ \A i \in Rows' : projects'[i] = projects[i]
        BY <3>2 DEF Without, Rows
      <4>2. (\A m \in DOMAIN aliases : aliases[m] # l) /\ \A k \in DOMAIN usage : k[1] # l
        BY <3>2 DEF Owns
      <4>3. UNCHANGED <<aliases, usage, lastId, heir, homes, contested>>
        BY <2>10 DEF MergeIntoNothing
      <4> HIDE DEF l
      <4>4. DOMAIN usage \subseteq Rows' \X Minutes
        BY <4>1, <4>2 DEF TablesInv
      <4>5. RowsInv'
        BY <4>1, <4>3, RowsThin DEF TablesInv, RowsInv
      <4> QED
        BY <1>0, <4>1, <4>2, <4>3, <4>4, <4>5 DEF TablesInv, RowIds
    <3> QED
      BY <2>10, <3>1, <3>2 DEF MergeIntoNothing
  <2> QED
    BY <1>1, <2>2, <2>3, <2>4, <2>5, <2>6, <2>7, <2>8, <2>9, <2>10 DEF Proceed
<1>2. CASE UNCHANGED projectVars
  BY <1>0, <1>2, TablesStay DEF projectVars
<1> QED
  BY <1>1, <1>2 DEF ProjectsNext

-------------------------------------------------------------------------------
(* Heirs and losers *)

(* No statement renames a row, takes an alias away, or makes a row under an *)
(* id that was given; a row that goes leaves its name as an alias.          *)
LEMMA RowChanges ==
    ASSUME ProjectsInv, NEW p \in Resolvers,
           \/ Proceed(p) \/ Lookup(p) \/ AskMerge(p) \/ Lose(p)
           \/ \E m \in Minutes : Book(p, m)
    PROVE  /\ DOMAIN aliases \subseteq DOMAIN aliases'
           /\ \A i \in Rows' : i \in Rows => projects'[i].name = projects[i].name
           /\ \/ Rows' \subseteq Rows /\ lastId' = lastId
              \/ Rows' \subseteq Rows \cup {NextId} /\ lastId' = NextId /\ NextId \in RowIds
           /\ \A i \in Rows : i \notin Rows' => projects[i].name \in DOMAIN aliases'
<1>0. TablesInv /\ MemoryInv /\ LoserInv /\ lastId \in Nat
  BY NumberFacts DEF ProjectsInv
<1>1. CASE UNCHANGED <<projects, lastId, aliases>>
  BY <1>1 DEF Rows
<1>2. CASE Backfill(p)
  <2>1. Rows' = Rows /\ UNCHANGED <<lastId, aliases>>
    BY <1>2 DEF Backfill, Rows
  <2>2. \A i \in Rows : projects'[i].name = projects[i].name
    <3>1. resolver[p].git \in Shown /\ projects' =
            [i \in Rows |-> IF i = resolver[p].id THEN Filled(projects[i], resolver[p].git) ELSE projects[i]]
      BY <1>0, <1>2 DEF MemoryInv, Memory, Sound, Backfill
    <3> QED
      BY <1>0, <3>1, RowTypes DEF TablesInv, RowsInv
  <2> QED
    BY <2>1, <2>2
<1>3. CASE Adopt(p) \/ Register(p)
  BY <1>3 DEF Adopt, Register, Registers, Rows, WithAlias
<1>4. CASE Insert(p)
  <2>1. CASE UNCHANGED <<projects, lastId>>
    BY <1>4, <2>1 DEF Insert, Rows
  <2>2. CASE /\ lastId' = NextId
             /\ projects' = [i \in Rows \cup {NextId} |-> IF i = NextId THEN NewRow(p) ELSE projects[i]]
    <3>1. NextId \notin Rows /\ NextId \in RowIds
      BY <1>0, <1>4, NumberFacts DEF Insert
    <3> QED
      BY <1>4, <2>2, <3>1 DEF Insert, Rows
  <2> QED
    BY <1>4, <2>1, <2>2 DEF Insert
<1>5. CASE Merge(p)
  <2>1. projects' = Without(resolver[p].loser) /\ lastId' = lastId
    BY <1>5 DEF Merge
  <2>2. Rows' = Rows \ {resolver[p].loser} /\ \A i \in Rows' : projects'[i] = projects[i]
    BY <2>1 DEF Without, Rows
  <2>3. DOMAIN aliases' = DOMAIN aliases \cup {resolver[p].name}
    BY <1>5 DEF Merge, Repointed
  <2>4. resolver[p].loser \in Rows => resolver[p].name = projects[resolver[p].loser].name
    BY <1>0, <1>5 DEF LoserInv, Merge
  <2> QED
    BY <2>1, <2>2, <2>3, <2>4
<1>6. CASE MergeIntoNothing(p)
  <2>1. CASE projects' = projects
    BY <1>6, <2>1 DEF MergeIntoNothing, Rows
  <2>2. CASE projects' = Without(resolver[p].loser) /\ ~Owns(resolver[p].loser, resolver[p].name)
    <3>1. lastId' = lastId /\ aliases' = aliases /\ resolver[p].name \in DOMAIN aliases
      BY <1>6, <2>2 DEF MergeIntoNothing, Owns
    <3>2. Rows' = Rows \ {resolver[p].loser} /\ \A i \in Rows' : projects'[i] = projects[i]
      BY <2>2 DEF Without, Rows
    <3>3. resolver[p].loser \in Rows => resolver[p].name = projects[resolver[p].loser].name
      BY <1>0, <1>6 DEF LoserInv, MergeIntoNothing
    <3> QED
      BY <3>1, <3>2, <3>3
  <2> QED
    BY <1>6, <2>1, <2>2 DEF MergeIntoNothing
<1> QED
  BY <1>1, <1>2, <1>3, <1>4, <1>5, <1>6
     DEF Proceed, ByName, ByAlias, ByIdentity, Sweep, Rank, ReadBoth, Lookup, AskMerge, Lose, Book

LEMMA HeirStep == ProjectsInv /\ [ProjectsNext]_projectVars => HeirInv'
<1> SUFFICES ASSUME ProjectsInv, [ProjectsNext]_projectVars PROVE HeirInv'
  OBVIOUS
<1>0. /\ TablesInv /\ MemoryInv /\ HeirInv /\ lastId \in Nat /\ MaxId \in Nat
      /\ Rows \subseteq 1..lastId /\ NextId = lastId + 1
  BY NumberFacts DEF ProjectsInv, NextId
<1>1. ASSUME NEW p \in Resolvers, \/ Proceed(p) \/ Lookup(p) \/ AskMerge(p) \/ Lose(p)
                                  \/ \E m \in Minutes : Book(p, m)
      PROVE  HeirInv'
  <2>1. ASSUME NEW i \in RowIds, i \in Rows' \/ i > lastId' PROVE i \in Rows \/ i > lastId
    BY <1>0, <1>1, <2>1, RowChanges DEF RowIds
  <2>2. CASE heir' = heir
    BY <1>0, <2>1, <2>2 DEF HeirInv, RowIds
  <2>3. CASE Merge(p)
    <3>1. heir' = Inherited(resolver[p].loser, resolver[p].id) /\ Rows' = Rows \ {resolver[p].loser}
          /\ lastId' = lastId
      BY <2>3 DEF Merge, Without, Rows
    <3>2. resolver[p].loser \in 0..lastId
      BY <1>0 DEF MemoryInv, Memory
    <3>3. ASSUME NEW i \in RowIds, i \in Rows' \/ i > lastId' PROVE heir'[i] = i
      <4>1. heir[i] = i /\ i # resolver[p].loser
        BY <1>0, <2>1, <3>1, <3>2, <3>3 DEF HeirInv, RowIds
      <4> QED
        BY <3>1, <4>1 DEF Inherited
    <3> QED
      BY <3>3 DEF HeirInv, RowIds
  <2> QED
    BY <1>1, <2>2, <2>3
       DEF Proceed, ByName, Backfill, ByAlias, ByIdentity, Adopt, Register, Registers, Insert, Sweep, Rank,
           ReadBoth, MergeIntoNothing, Lookup, AskMerge, Lose, Book
<1>2. CASE UNCHANGED projectVars
  BY <1>0, <1>2 DEF projectVars, HeirInv, Rows, RowIds
<1> QED
  BY <1>1, <1>2 DEF ProjectsNext

(* Only one process moves, and it remembers a name it reads with its loser. *)
LEMMA OneMoves ==
    ASSUME MemoryInv, TablesInv, NEW p \in Resolvers,
           \/ Proceed(p) \/ Lookup(p) \/ AskMerge(p) \/ Lose(p)
           \/ \E m \in Minutes : Book(p, m)
    PROVE  /\ \A q \in Resolvers \ {p} : resolver'[q] = resolver[q]
           /\ resolver'[p].at = "merging" =>
                \/ resolver'[p] = resolver[p]
                \/ /\ projects' = projects /\ resolver'[p].loser \in Rows
                   /\ resolver'[p].name = projects[resolver'[p].loser].name
<1>0. resolver \in [Resolvers -> Memory]
  BY DEF MemoryInv
<1>1. ASSUME NEW c, resolver' = [resolver EXCEPT ![p] = c], c.at # "merging"
      PROVE  /\ \A q \in Resolvers \ {p} : resolver'[q] = resolver[q]
             /\ resolver'[p].at # "merging"
  BY <1>0, <1>1
<1>3. AtRest.at = "idle"
  BY DEF AtRest
<1>4. CASE Aborts(p)
  BY <1>1, <1>3, <1>4 DEF Aborts
<1>5. ASSUME NEW s \in ResolverStages \ {"merging"}, Goes(p, s)
      PROVE  (\A q \in Resolvers \ {p} : resolver'[q] = resolver[q]) /\ resolver'[p].at # "merging"
  BY <1>0, <1>5 DEF Goes, Memory
<1>6. ASSUME NEW s \in ResolverStages \ {"merging"}, NEW i, resolver' = [resolver EXCEPT ![p].at = s, ![p].id = i]
      PROVE  (\A q \in Resolvers \ {p} : resolver'[q] = resolver[q]) /\ resolver'[p].at # "merging"
  BY <1>0, <1>6 DEF Memory
<1>7. ASSUME NEW i, Arrives(p, i)
      PROVE  (\A q \in Resolvers \ {p} : resolver'[q] = resolver[q]) /\ resolver'[p].at # "merging"
  BY <1>6, <1>7 DEF Arrives, ResolverStages
<1>8. CASE resolver' = resolver
  BY <1>8
<1>9. CASE ReadBoth(p)
  <2>1. ASSUME NEW l \in resolver[p].rest, l \in Rows, resolver[p].at = "merge",
               resolver' = [resolver EXCEPT ![p].at = "merging", ![p].name = projects[l].name,
                                            ![p].loser = l, ![p].rest = @ \ {l}]
        PROVE  /\ \A q \in Resolvers \ {p} : resolver'[q] = resolver[q]
               /\ resolver'[p].loser = l /\ resolver'[p].name = projects[l].name
    BY <1>0, <2>1 DEF Memory
  <2>2. ASSUME NEW l \in resolver[p].rest, resolver[p].at = "merge", resolver' = [resolver EXCEPT ![p].rest = @ \ {l}]
        PROVE  (\A q \in Resolvers \ {p} : resolver'[q] = resolver[q]) /\ resolver'[p].at # "merging"
    BY <1>0, <2>2 DEF Memory
  <2> QED
    BY <1>4, <1>9, <2>1, <2>2 DEF ReadBoth
<1>10. CASE Rank(p)
  <2>1. ASSUME NEW w, resolver' = [resolver EXCEPT ![p].at = "merge", ![p].id = w,
                                                     ![p].rest = (resolver[p].rest \cap Rows) \ {w}]
        PROVE  (\A q \in Resolvers \ {p} : resolver'[q] = resolver[q]) /\ resolver'[p].at # "merging"
    BY <1>0, <2>1 DEF Memory
  <2> QED
    BY <1>4, <1>10, <2>1 DEF Rank
<1>11. CASE Sweep(p)
  <2>1. ASSUME NEW G, resolver' = [resolver EXCEPT ![p] = [AtRest EXCEPT !.at = "rank", !.rest = G]]
        PROVE  (\A q \in Resolvers \ {p} : resolver'[q] = resolver[q]) /\ resolver'[p].at # "merging"
    BY <1>0, <2>1 DEF AtRest
  <2> QED
    BY <1>4, <1>11, <2>1 DEF Sweep
<1>12. CASE AskMerge(p)
  <2>1. ASSUME NEW l, NEW w, resolver' = [resolver EXCEPT ![p] = [AtRest EXCEPT !.at = "merge", !.id = w, !.rest = {l}]]
        PROVE  (\A q \in Resolvers \ {p} : resolver'[q] = resolver[q]) /\ resolver'[p].at # "merging"
    BY <1>0, <2>1 DEF AtRest
  <2> QED
    BY <1>12, <2>1 DEF AskMerge
<1>13. CASE Lookup(p)
  <2>1. ASSUME NEW n, NEW g, resolver' = [resolver EXCEPT ![p] = [AtRest EXCEPT !.at = "direct", !.name = n, !.git = g]]
        PROVE  (\A q \in Resolvers \ {p} : resolver'[q] = resolver[q]) /\ resolver'[p].at # "merging"
    BY <1>0, <2>1 DEF AtRest
  <2> QED
    BY <1>13, <2>1 DEF Lookup
<1>14. CASE ByName(p)
  BY <1>14, <1>5, <1>6, <1>7 DEF ByName, ResolverStages
<1>15. CASE Backfill(p)
  BY <1>15, <1>7 DEF Backfill
<1>16. CASE ByAlias(p)
  <2>1. Goes(p, "insert") \/ Goes(p, "match") \/ \E i : Arrives(p, i)
    BY <1>16 DEF ByAlias
  <2> QED
    BY <1>5, <1>7, <2>1 DEF ResolverStages
<1>17. CASE ByIdentity(p)
  BY <1>17, <1>5, <1>6 DEF ByIdentity, ResolverStages
<1>18. CASE Adopt(p) \/ Register(p)
  BY <1>18, <1>4, <1>7 DEF Adopt, Register, Registers
<1>19. CASE Insert(p)
  BY <1>19, <1>4, <1>6 DEF Insert, ResolverStages
<1>20. CASE Merge(p) \/ MergeIntoNothing(p)
  BY <1>20, <1>4, <1>5 DEF Merge, MergeIntoNothing, ResolverStages
<1>21. CASE \E m \in Minutes : Book(p, m)
  BY <1>21, <1>4, <1>8 DEF Book
<1>22. CASE Lose(p)
  BY <1>22, <1>4 DEF Lose
<1> QED
  BY <1>9, <1>10, <1>11, <1>12, <1>13, <1>14, <1>15, <1>16, <1>17, <1>18, <1>19, <1>20, <1>21, <1>22 DEF Proceed

LEMMA LoserStep == ProjectsInv /\ [ProjectsNext]_projectVars => LoserInv'
<1> SUFFICES ASSUME ProjectsInv, [ProjectsNext]_projectVars PROVE LoserInv'
  OBVIOUS
<1>0. /\ TablesInv /\ MemoryInv /\ LoserInv /\ lastId \in Nat /\ NextId = lastId + 1
  BY NumberFacts DEF ProjectsInv, NextId
<1>1. ASSUME NEW p \in Resolvers, \/ Proceed(p) \/ Lookup(p) \/ AskMerge(p) \/ Lose(p)
                                  \/ \E m \in Minutes : Book(p, m)
      PROVE  LoserInv'
  <2> SUFFICES ASSUME NEW q \in Resolvers, resolver'[q].at = "merging"
               PROVE  LET l == resolver'[q].loser
                      IN  IF l \in Rows' THEN resolver'[q].name = projects'[l].name
                          ELSE resolver'[q].name \in DOMAIN aliases'
    BY DEF LoserInv
  <2>1. CASE resolver'[q] = resolver[q]
    <3> DEFINE l == resolver[q].loser
               n == resolver[q].name
    <3>1. IF l \in Rows THEN n = projects[l].name ELSE n \in DOMAIN aliases
      BY <1>0, <2>1 DEF LoserInv
    <3>2. l \in 0..lastId /\ l # NextId
      BY <1>0 DEF MemoryInv, Memory
    <3>3. CASE l \in Rows'
      BY <1>0, <1>1, <2>1, <3>1, <3>2, <3>3, RowChanges
    <3>4. CASE l \notin Rows'
      BY <1>0, <1>1, <2>1, <3>1, <3>2, <3>4, RowChanges
    <3> QED
      BY <3>3, <3>4
  <2>2. CASE projects' = projects /\ resolver'[q].loser \in Rows
             /\ resolver'[q].name = projects[resolver'[q].loser].name
    BY <2>2 DEF Rows
  <2> QED
    BY <1>0, <1>1, <2>1, <2>2, OneMoves
<1>2. CASE UNCHANGED projectVars
  BY <1>0, <1>2 DEF projectVars, LoserInv, Rows
<1> QED
  BY <1>1, <1>2 DEF ProjectsNext

-------------------------------------------------------------------------------
(* Homes *)

(* A directory finds one row at most, and it is there. *)
LEMMA FindsOne ==
    ASSUME TablesInv, NEW n \in Names
    PROVE  /\ \A i : Finds(n, i) => i \in Rows /\ i \in RowIds
           /\ \A i, j : Finds(n, i) /\ Finds(n, j) => i = j
<1>1. \A i, j \in Named(n) : i = j /\ i \in Rows
  BY DEF TablesInv, RowsInv, Named
<1>2. n \in DOMAIN aliases => aliases[n] \in Rows
  BY DEF TablesInv
<1> QED
  BY <1>1, <1>2, NumberFacts DEF Finds, Named

(* What a directory finds, and what stands on what, is left alone. *)
Unmoved(n) ==
    /\ \A i : i \in Named(n)' <=> i \in Named(n)
    /\ n \in DOMAIN aliases' <=> n \in DOMAIN aliases
    /\ n \in DOMAIN aliases => aliases'[n] = aliases[n]
    /\ heir' = heir

LEMMA UnmovedFinds ==
    ASSUME NEW n, Unmoved(n)
    PROVE  /\ Named(n)' = {} <=> Named(n) = {}
           /\ \A i : Finds(n, i)' <=> Finds(n, i)
<1>1. Named(n)' = {} <=> Named(n) = {}
  BY DEF Unmoved
<1> QED
  BY <1>1 DEF Unmoved, Finds

LEMMA StaysSettled ==
    ASSUME NEW n, Unmoved(n), Settled(n), homes'[n] = homes[n]
    PROVE  Settled(n)'
BY UnmovedFinds DEF Settled, Unmoved, RowIds

LEMMA TakesHome ==
    ASSUME TablesInv, NEW n \in Names, Unmoved(n), Settled(n), NEW i, Finds(n, heir[i]), homes'[n] = homes[n] \cup {i}
    PROVE  Settled(n)'
<1>1. \A j \in RowIds : Finds(n, j) => \A k \in homes[n] \cup {i} : heir[k] = j
  BY FindsOne DEF Settled
<1>2. ~(Named(n) = {} /\ n \notin DOMAIN aliases)
  BY DEF Finds
<1> QED
  BY <1>1, <1>2, UnmovedFinds DEF Settled, Unmoved, RowIds

LEMMA StaysAhead ==
    ASSUME NEW n, Unmoved(n), NEW q, Ahead(q, n), resolver'[q] = resolver[q]
    PROVE  Ahead(q, n)'
BY UnmovedFinds DEF Ahead, Unmoved

(* Where one process has moved: it alone can have disturbed anything. *)
LEMMA HomeMoves ==
    ASSUME HomeInv, NEW p \in Resolvers, contested \subseteq contested',
           \A q \in Resolvers \ {p} : resolver'[q] = resolver[q],
           \A n \in Names : n \notin contested' =>
               /\ Settled(n)'
               /\ \A q \in Resolvers \ {p} : Resolving(q, n) => Ahead(q, n)'
               /\ Resolving(p, n)' => Ahead(p, n)' /\ \A q \in Resolvers \ {p} : ~Resolving(q, n)
    PROVE  HomeInv'
<1>1. \A n : \A q \in Resolvers \ {p} : Resolving(q, n)' <=> Resolving(q, n)
  BY DEF Resolving
<1>2. ASSUME NEW n \in Names, n \notin contested', NEW q \in Resolvers, NEW r \in Resolvers,
             Resolving(q, n)', Resolving(r, n)'
      PROVE  q = r
  BY <1>1, <1>2 DEF HomeInv
<1>3. ASSUME NEW n \in Names, n \notin contested', NEW q \in Resolvers, Resolving(q, n)'
      PROVE  Ahead(q, n)'
  BY <1>1, <1>3
<1> QED
  BY <1>2, <1>3 DEF HomeInv

(* A step that moves no directory: the process is at nothing new, or it is  *)
(* ahead at the directory it was resolving, or it arrives at what that      *)
(* directory finds.                                                         *)
LEMMA QuietMoves ==
    ASSUME TablesInv, HomeInv, NEW p \in Resolvers, contested' = contested, homes \in [Names -> SUBSET RowIds],
           \A q \in Resolvers \ {p} : resolver'[q] = resolver[q],
           \A n \in Names : n \notin contested => Unmoved(n),
           \/ homes' = homes
           \/ /\ Resolving(p, resolver[p].name) /\ resolver[p].name \in Names
              /\ \E i : /\ resolver[p].name \notin contested => Finds(resolver[p].name, heir[i])
                        /\ homes' = [homes EXCEPT ![resolver[p].name] = @ \cup {i}],
           \A n \in Names : n \notin contested /\ Resolving(p, n)' => Resolving(p, n) /\ Ahead(p, n)'
    PROVE  HomeInv'
<1>1. ASSUME NEW n \in Names, n \notin contested PROVE Settled(n)'
  <2>1. Settled(n) /\ Unmoved(n)
    BY <1>1 DEF HomeInv
  <2>2. CASE homes'[n] = homes[n]
    BY <2>1, <2>2, StaysSettled
  <2>3. CASE homes'[n] # homes[n]
    <3>1. PICK i : Finds(n, heir[i]) /\ homes'[n] = homes[n] \cup {i}
      BY <1>1, <2>3
    <3> QED
      BY <2>1, <3>1, TakesHome
  <2> QED
    BY <2>2, <2>3
<1>2. ASSUME NEW n \in Names, n \notin contested, NEW q \in Resolvers \ {p}, Resolving(q, n)
      PROVE  Ahead(q, n)' /\ ~Resolving(p, n)
  BY <1>2, StaysAhead DEF HomeInv
<1> QED
  BY <1>1, <1>2, HomeMoves

LEMMA Still == UNCHANGED <<projects, aliases, heir>> => \A n : Unmoved(n)
BY DEF Unmoved, Named, Rows

(* What a process is at after it moved. *)
LEMMA Moves ==
    ASSUME MemoryInv, NEW p \in Resolvers
    PROVE  /\ Aborts(p) => resolver'[p].at = "idle"
           /\ \A i : Arrives(p, i) => resolver'[p].at = "holding"
           /\ \A s : Goes(p, s) => resolver'[p].at = s /\ resolver'[p].name = resolver[p].name
                                   /\ resolver'[p].id = resolver[p].id
           /\ \A s, i : resolver' = [resolver EXCEPT ![p].at = s, ![p].id = i] =>
                resolver'[p].at = s /\ resolver'[p].name = resolver[p].name /\ resolver'[p].id = i
BY DEF MemoryInv, Memory, Aborts, AtRest, Arrives, Goes

(* The statements that read. *)
LEMMA ReadersKeepHomes ==
    ASSUME ProjectsInv, NEW p \in Resolvers, ByName(p) \/ ByAlias(p) \/ ByIdentity(p)
    PROVE  HomeInv'
<1>0. TablesInv /\ MemoryInv /\ HeirInv /\ HomeInv /\ homes \in [Names -> SUBSET RowIds]
  BY DEF ProjectsInv, TablesInv
<1>n. PICK n \in Names : n = resolver[p].name
  BY <1>0 DEF MemoryInv, Sound, Finding, ByName, ByAlias, ByIdentity
<1>1. /\ UNCHANGED <<projects, aliases, heir, contested>>
      /\ \A q \in Resolvers \ {p} : resolver'[q] = resolver[q]
      /\ \A m : Unmoved(m)
      /\ resolver[p].at \in {"direct", "alias", "match"} /\ n \in Names /\ Resolving(p, n)
  <2>1. UNCHANGED <<projects, aliases, heir, contested>> /\ resolver[p].at \in {"direct", "alias", "match"}
    BY DEF ByName, ByAlias, ByIdentity
  <2>3. \A q \in Resolvers \ {p} : resolver'[q] = resolver[q]
    BY <1>0, OneMoves DEF Proceed
  <2>4. Resolving(p, n)
    BY <1>n, <2>1 DEF Resolving
  <2> QED
    BY <2>1, <2>3, <2>4, Still
<1>2. ASSUME NEW i, i \in Rows PROVE heir[i] = i
  BY <1>n, <1>0, <1>2, NumberFacts DEF HeirInv
<1>3. ASSUME NEW i \in Rows, Arrives(p, i), Finds(n, i) PROVE HomeInv'
  <2>1. homes' = [homes EXCEPT ![n] = @ \cup {i}] /\ Finds(n, heir[i])
    BY <1>n, <1>2, <1>3 DEF Arrives
  <2>2. \A m : ~Resolving(p, m)'
    BY <1>n, <1>0, <1>3, Moves DEF Resolving
  <2> QED
    BY <1>n, <1>0, <1>1, <2>1, <2>2, QuietMoves
<1>4. ASSUME homes' = homes, \A m : Resolving(p, m)' => m = n /\ (n \notin contested => Ahead(p, n)') PROVE HomeInv'
  BY <1>n, <1>0, <1>1, <1>4, QuietMoves
<1>5. CASE ByName(p)
  <2>1. CASE Named(n) = {} /\ Goes(p, "alias") /\ UNCHANGED homes
    <3>1. resolver'[p].at = "alias" /\ resolver'[p].name = n
      BY <1>n, <1>0, <2>1, Moves
    <3>2. Ahead(p, n)' /\ \A m : Resolving(p, m)' => m = n
      BY <1>n, <1>1, <2>1, <3>1, UnmovedFinds DEF Ahead, Resolving
    <3> QED
      BY <1>n, <1>4, <2>1, <3>2
  <2>2. ASSUME NEW i \in Named(n), Arrives(p, i) PROVE HomeInv'
    BY <1>n, <1>3, <2>2 DEF Finds, Named
  <2>3. ASSUME NEW i \in Named(n), resolver' = [resolver EXCEPT ![p].at = "backfill", ![p].id = i], UNCHANGED homes
        PROVE  HomeInv'
    <3>1. resolver'[p].at = "backfill" /\ resolver'[p].name = n /\ resolver'[p].id = i
      BY <1>n, <1>0, <2>3 DEF MemoryInv, Memory
    <3>2. Finds(n, heir[i]) /\ heir' = heir
      BY <1>n, <1>1, <1>2 DEF Named, Finds
    <3>3. Ahead(p, n)' /\ \A m : Resolving(p, m)' => m = n
      BY <1>n, <1>1, <3>1, <3>2, UnmovedFinds DEF Ahead, Resolving
    <3> QED
      BY <1>n, <1>4, <2>3, <3>3
  <2> QED
    BY <1>n, <1>5, <2>1, <2>2, <2>3 DEF ByName
<1>6. CASE ByAlias(p)
  <2>0. n \notin contested => Named(n) = {}
    BY <1>n, <1>0, <1>1, <1>6 DEF HomeInv, Ahead, ByAlias
  <2>1. CASE n \in DOMAIN aliases /\ Arrives(p, aliases[n])
    <3>1. aliases[n] \in Rows
      BY <1>n, <1>0, <2>1 DEF TablesInv
    <3>2. n \notin contested => Finds(n, heir[aliases[n]])
      BY <1>n, <1>2, <2>0, <2>1, <3>1 DEF Finds
    <3>3. homes' = [homes EXCEPT ![n] = @ \cup {aliases[n]}] /\ \A m : ~Resolving(p, m)'
      BY <1>n, <1>0, <2>1, Moves DEF Arrives, Resolving
    <3> QED
      BY <1>n, <1>0, <1>1, <3>2, <3>3, QuietMoves
  <2>2. ASSUME n \notin DOMAIN aliases, NEW s \in {"insert", "match"}, Goes(p, s), UNCHANGED homes PROVE HomeInv'
    <3>1. resolver'[p].at = s /\ resolver'[p].name = n
      BY <1>n, <1>0, <2>2, Moves
    <3>2. (n \notin contested => Ahead(p, n)') /\ \A m : Resolving(p, m)' => m = n
      BY <1>n, <1>1, <2>0, <2>2, <3>1, UnmovedFinds DEF Ahead, Resolving
    <3> QED
      BY <1>n, <1>4, <2>2, <3>2
  <2> QED
    BY <1>n, <1>6, <2>1, <2>2 DEF ByAlias
<1>7. CASE ByIdentity(p)
  <2>0. n \notin contested => Named(n) = {} /\ n \notin DOMAIN aliases
    BY <1>n, <1>0, <1>1, <1>7 DEF HomeInv, Ahead, ByIdentity
  <2>1. homes' = homes /\ resolver'[p].at \in {"insert", "adopt"} /\ resolver'[p].name = n
    BY <1>n, <1>0, <1>7, Moves DEF ByIdentity
  <2>2. (n \notin contested => Ahead(p, n)') /\ \A m : Resolving(p, m)' => m = n
    BY <1>n, <1>1, <2>0, <2>1, UnmovedFinds DEF Ahead, Resolving
  <2> QED
    BY <1>n, <1>4, <2>1, <2>2
<1> QED
  BY <1>5, <1>6, <1>7

(* Filling in what was not known renames nothing. *)
LEMMA BackfillKeepsHomes ==
    ASSUME ProjectsInv, NEW p \in Resolvers, Backfill(p)
    PROVE  HomeInv'
<1>0. TablesInv /\ MemoryInv /\ HomeInv /\ homes \in [Names -> SUBSET RowIds]
  BY DEF ProjectsInv, TablesInv
<1>1. /\ UNCHANGED <<aliases, heir, contested>> /\ Arrives(p, resolver[p].id)
      /\ resolver[p].at = "backfill"
  BY DEF Backfill
<1>2. PICK n \in Names : n = resolver[p].name /\ Resolving(p, n)
  BY <1>0, <1>1 DEF MemoryInv, Sound, Finding, Resolving
<1>3. Rows' = Rows /\ \A i \in Rows : projects'[i].name = projects[i].name
  <2>1. Rows' = Rows
    BY DEF Backfill, Rows
  <2> QED
    BY <2>1, RowChanges DEF Proceed
<1>4. \A m : Unmoved(m)
  BY <1>1, <1>3 DEF Unmoved, Named
<1>5. n \notin contested => Finds(n, heir[resolver[p].id])
  BY <1>0, <1>1, <1>2 DEF HomeInv, Ahead
<1>6. homes' = [homes EXCEPT ![n] = @ \cup {resolver[p].id}] /\ \A m : ~Resolving(p, m)'
  BY <1>0, <1>1, <1>2, Moves DEF Arrives, Resolving
<1>7. \A q \in Resolvers \ {p} : resolver'[q] = resolver[q]
  BY <1>0, OneMoves DEF Proceed
<1> QED
  BY <1>0, <1>1, <1>2, <1>4, <1>5, <1>6, <1>7, QuietMoves

(* Writing down the alias: of the row that was chosen or made. *)
LEMMA RegistersKeepHomes ==
    ASSUME ProjectsInv, NEW p \in Resolvers, Adopt(p) \/ Register(p)
    PROVE  HomeInv'
<1> DEFINE id == resolver[p].id
<1>0. TablesInv /\ MemoryInv /\ HeirInv /\ HomeInv /\ homes \in [Names -> SUBSET RowIds]
  BY DEF ProjectsInv, TablesInv
<1>1. /\ UNCHANGED <<projects, heir, contested>> /\ resolver[p].at \in {"adopt", "register"}
      /\ \A q \in Resolvers \ {p} : resolver'[q] = resolver[q]
  <2>1. UNCHANGED <<projects, heir, contested>> /\ resolver[p].at \in {"adopt", "register"}
    BY DEF Adopt, Register, Registers
  <2> QED
    BY <1>0, <2>1, OneMoves DEF Proceed
<1>2. PICK n \in Names : n = resolver[p].name /\ Resolving(p, n)
  BY <1>0, <1>1 DEF MemoryInv, Sound, Finding, Resolving
<1>3. \A m : ~Resolving(p, m)'
  <2>1. Aborts(p) \/ Arrives(p, id)
    BY DEF Adopt, Register, Registers
  <2>2. resolver'[p].at \in {"idle", "holding"}
    BY <1>0, <2>1, Moves
  <2> QED
    BY <2>2 DEF Resolving
<1>4. ASSUME NEW i, i \in Rows PROVE heir[i] = i
  BY <1>0, <1>4, NumberFacts DEF HeirInv
<1>5. CASE Aborts(p) /\ UNCHANGED <<aliases, homes>>
  <2>1. \A m : Unmoved(m)
    BY <1>1, <1>5, Still
  <2> QED
    BY <1>0, <1>1, <1>3, <1>5, <2>1, QuietMoves
<1>6. CASE /\ n \in DOMAIN aliases \/ id \in Rows
           /\ aliases' = WithAlias(n, id)
           /\ Arrives(p, id)
  <2>1. homes' = [homes EXCEPT ![n] = @ \cup {id}]
    BY <1>2, <1>6 DEF Arrives
  <2>2. \A m \in Names : m # n => Unmoved(m)
    BY <1>1, <1>6 DEF Unmoved, Named, Rows, WithAlias
  <2>3. \A m : Named(m)' = Named(m)
    BY <1>1 DEF Named, Rows
  <2>4. ASSUME n \notin contested PROVE Settled(n)'
    <3>0. Settled(n) /\ Ahead(p, n)
      BY <1>0, <1>2, <2>4 DEF HomeInv
    <3>1. CASE n \in DOMAIN aliases
      <4>1. Unmoved(n)
        BY <1>1, <1>6, <2>3, <3>1 DEF Unmoved, WithAlias
      <4>2. Finds(n, heir[id])
        BY <1>1, <3>0, <3>1 DEF Ahead
      <4>3. homes'[n] = homes[n] \cup {id}
        BY <1>0, <1>2, <2>1
      <4> QED
        BY <1>0, <1>2, <3>0, <4>1, <4>2, <4>3, TakesHome
    <3>2. CASE n \notin DOMAIN aliases
      <4>1. id \in Rows /\ n \in DOMAIN aliases' /\ aliases'[n] = id /\ heir'[id] = id
        BY <1>1, <1>4, <1>6, <3>2 DEF WithAlias
      <4>2. homes'[n] = homes[n] \cup {id}
        BY <1>0, <1>2, <2>1
      <4>3. CASE Named(n) = {}
        <5>1. homes[n] = {}
          BY <3>0, <3>2, <4>3 DEF Settled
        <5>2. Named(n)' = {} /\ \A i : Finds(n, i)' => i = id
          BY <2>3, <4>1, <4>3 DEF Finds
        <5> QED
          BY <4>1, <4>2, <5>1, <5>2 DEF Settled
      <4>4. CASE Named(n) # {}
        <5>1. Finds(n, id) /\ id \in Named(n)
          <6>1. Finds(n, heir[id])
            BY <1>1, <3>0, <4>4 DEF Ahead
          <6> QED
            BY <1>1, <4>1, <4>4, <6>1 DEF Finds
        <5>2. \A i : Finds(n, i)' <=> Finds(n, i)
          BY <2>3, <4>4 DEF Finds
        <5>3. \A i : Finds(n, i) => i = id
          BY <1>0, <1>2, <5>1, FindsOne
        <5>4. id \in RowIds /\ \A k \in homes[n] : heir[k] = id
          BY <1>0, <4>1, <5>1, NumberFacts, <3>0 DEF Settled
        <5> QED
          BY <1>1, <2>3, <4>1, <4>2, <5>1, <5>2, <5>3, <5>4 DEF Settled
      <4> QED
        BY <4>3, <4>4
    <3> QED
      BY <3>1, <3>2
  <2>5. ASSUME NEW m \in Names, m \notin contested, m # n PROVE Settled(m)'
    <3>1. Unmoved(m) /\ Settled(m) /\ homes'[m] = homes[m]
      BY <1>0, <1>2, <2>1, <2>2, <2>5 DEF HomeInv
    <3> QED
      BY <3>1, StaysSettled
  <2>6. ASSUME NEW m \in Names, m \notin contested, NEW q \in Resolvers \ {p}, Resolving(q, m)
        PROVE  Ahead(q, m)'
    <3>1. m # n
      BY <1>0, <1>2, <2>6 DEF HomeInv
    <3> QED
      BY <1>0, <1>1, <2>2, <2>6, <3>1, StaysAhead DEF HomeInv
  <2> QED
    BY <1>0, <1>1, <1>3, <2>4, <2>5, <2>6, HomeMoves
<1> QED
  BY <1>2, <1>5, <1>6 DEF Adopt, Register, Registers

(* A row of its own, for a directory that had none and no alias. *)
LEMMA InsertKeepsHomes ==
    ASSUME ProjectsInv, NEW p \in Resolvers, Insert(p)
    PROVE  HomeInv'
<1>0. TablesInv /\ MemoryInv /\ HeirInv /\ HomeInv /\ homes \in [Names -> SUBSET RowIds]
  BY DEF ProjectsInv, TablesInv
<1>1. /\ UNCHANGED <<aliases, heir, homes, contested>> /\ resolver[p].at = "insert"
      /\ \A q \in Resolvers \ {p} : resolver'[q] = resolver[q]
  BY <1>0, OneMoves DEF Insert, Proceed
<1>2. PICK n \in Names : n = resolver[p].name /\ Resolving(p, n)
  BY <1>0, <1>1 DEF MemoryInv, Sound, Finding, Resolving
<1>3. CASE Aborts(p) /\ UNCHANGED projects
  <2>1. (\A m : Unmoved(m)) /\ \A m : ~Resolving(p, m)'
    BY <1>0, <1>1, <1>3, Moves, Still DEF Resolving
  <2> QED
    BY <1>0, <1>1, <2>1, QuietMoves
<1>4. CASE /\ Named(n) = {}
           /\ projects' = [i \in Rows \cup {NextId} |-> IF i = NextId THEN NewRow(p) ELSE projects[i]]
           /\ resolver' = [resolver EXCEPT ![p].at = "register", ![p].id = NextId]
  <2>0. PICK new \in RowIds : new = NextId /\ new \notin Rows /\ new > lastId
    BY <1>0, NumberFacts DEF Insert, NextId
  <2>1. Rows' = Rows \cup {new} /\ NewRow(p).name = n
        /\ \A i \in Rows' : projects'[i] = IF i = new THEN NewRow(p) ELSE projects[i]
    BY <1>2, <1>4, <2>0 DEF Rows, NewRow
  <2>2. ASSUME NEW m, m # n PROVE Unmoved(m)
    BY <1>1, <2>0, <2>1, <2>2 DEF Unmoved, Named
  <2>3. Named(n)' = {new}
    BY <1>4, <2>0, <2>1 DEF Named
  <2>4. heir'[new] = new
    BY <1>0, <1>1, <2>0 DEF HeirInv
  <2>5. resolver'[p].at = "register" /\ resolver'[p].name = n /\ resolver'[p].id = new
    BY <1>0, <1>2, <1>4, <2>0 DEF MemoryInv, Memory
  <2>6. ASSUME n \notin contested PROVE Settled(n)' /\ Ahead(p, n)'
    <3>1. n \notin DOMAIN aliases /\ Named(n) = {} /\ homes[n] = {}
      BY <1>0, <1>1, <1>2, <2>6 DEF HomeInv, Ahead, Settled
    <3>2. Settled(n)'
      BY <1>1, <2>3, <3>1 DEF Settled
    <3>3. Finds(n, new)'
      BY <2>3 DEF Finds
    <3>4. Ahead(p, n)'
      BY <2>4, <2>5, <3>3 DEF Ahead
    <3> QED
      BY <3>2, <3>4
  <2>7. ASSUME NEW m \in Names, m \notin contested, m # n PROVE Settled(m)'
    BY <1>0, <1>1, <2>2, <2>7, StaysSettled DEF HomeInv
  <2>8. ASSUME NEW m \in Names, m \notin contested, NEW q \in Resolvers \ {p}, Resolving(q, m)
        PROVE  Ahead(q, m)'
    <3>1. m # n
      BY <1>0, <1>2, <2>8 DEF HomeInv
    <3> QED
      BY <1>0, <1>1, <2>2, <2>8, <3>1, StaysAhead DEF HomeInv
  <2>9. \A m : Resolving(p, m)' => m = n
    BY <2>5 DEF Resolving
  <2>10. \A m \in Names : m \notin contested' =>
               /\ Settled(m)'
               /\ \A q \in Resolvers \ {p} : Resolving(q, m) => Ahead(q, m)'
               /\ Resolving(p, m)' => Ahead(p, m)' /\ \A q \in Resolvers \ {p} : ~Resolving(q, m)
    <3>1. ASSUME n \notin contested PROVE \A q \in Resolvers \ {p} : ~Resolving(q, n)
      BY <1>0, <1>2, <3>1 DEF HomeInv
    <3> QED
      BY <1>1, <2>6, <2>7, <2>8, <2>9, <3>1
  <2> QED
    BY <1>0, <1>1, <2>10, HomeMoves
<1> QED
  BY <1>2, <1>3, <1>4 DEF Insert

(* A lookup begins what another process may be at: then the directory is    *)
(* contested from now on.                                                   *)
LEMMA LookupKeepsHomes ==
    ASSUME ProjectsInv, NEW p \in Resolvers, Lookup(p)
    PROVE  HomeInv'
<1>0. TablesInv /\ MemoryInv /\ HomeInv
  BY DEF ProjectsInv
<1>1. /\ UNCHANGED <<projects, aliases, heir, homes>>
      /\ \A q \in Resolvers \ {p} : resolver'[q] = resolver[q]
  BY <1>0, OneMoves DEF Lookup
<1>2. PICK n \in Names : \E g :
         /\ resolver' = [resolver EXCEPT ![p] = [AtRest EXCEPT !.at = "direct", !.name = n, !.git = g]]
         /\ contested' = contested \cup {m \in {n} : \E q \in Resolvers \ {p} : Resolving(q, m)}
  BY DEF Lookup
<1>3. resolver'[p].at = "direct" /\ resolver'[p].name = n
  <2>1. ASSUME NEW g, resolver' = [resolver EXCEPT ![p] = [AtRest EXCEPT !.at = "direct", !.name = n, !.git = g]]
        PROVE  resolver'[p].at = "direct" /\ resolver'[p].name = n
    BY <1>0, <2>1 DEF MemoryInv, AtRest
  <2> QED
    BY <1>2, <2>1
<1>4. \A m : Unmoved(m)
  BY <1>1, Still
<1>5. ASSUME NEW m \in Names, m \notin contested'
      PROVE  /\ Settled(m)'
             /\ \A q \in Resolvers \ {p} : Resolving(q, m) => Ahead(q, m)'
             /\ Resolving(p, m)' => Ahead(p, m)' /\ \A q \in Resolvers \ {p} : ~Resolving(q, m)
  <2>1. m \notin contested /\ (m = n => \A q \in Resolvers \ {p} : ~Resolving(q, m))
    BY <1>2, <1>5
  <2>2. Settled(m)'
    BY <1>0, <1>1, <1>4, <2>1, StaysSettled DEF HomeInv
  <2>3. ASSUME NEW q \in Resolvers \ {p}, Resolving(q, m) PROVE Ahead(q, m)'
    BY <1>0, <1>1, <1>4, <2>1, <2>3, StaysAhead DEF HomeInv
  <2>4. (Resolving(p, m)' => m = n) /\ Ahead(p, m)'
    BY <1>3 DEF Resolving, Ahead
  <2> QED
    BY <2>1, <2>2, <2>3, <2>4
<1>6. contested \subseteq contested'
  BY <1>2
<1> QED
  BY <1>0, <1>1, <1>5, <1>6, HomeMoves

(* What concerns no directory. *)
LEMMA OthersKeepHomes ==
    ASSUME ProjectsInv, NEW p \in Resolvers,
           Sweep(p) \/ Rank(p) \/ AskMerge(p) \/ ReadBoth(p) \/ Lose(p) \/ \E m \in Minutes : Book(p, m)
    PROVE  HomeInv'
<1>0. TablesInv /\ MemoryInv /\ HomeInv /\ homes \in [Names -> SUBSET RowIds]
  BY DEF ProjectsInv, TablesInv
<1>1. UNCHANGED <<projects, aliases, heir, homes, contested>>
  BY DEF Sweep, Rank, AskMerge, ReadBoth, Lose, Book, bounds
<1>2. (\A q \in Resolvers \ {p} : resolver'[q] = resolver[q]) /\ \A m : Unmoved(m)
  BY <1>0, <1>1, OneMoves, Still DEF Proceed
<1>3. ASSUME NEW m, Resolving(p, m)' PROVE Resolving(p, m) /\ resolver'[p] = resolver[p]
  <2> SUFFICES resolver'[p] = resolver[p]
    BY <1>3 DEF Resolving
  <2>1. resolver'[p].at # "idle"
    BY <1>3 DEF Resolving
  <2>m. resolver'[p].at \notin {"rank", "merge", "merging"} /\ ~Aborts(p)
    <3>1. Aborts(p) => resolver'[p].at = "idle"
      BY <1>0, Moves
    <3>2. resolver'[p].at \in {"direct", "backfill", "alias", "match", "adopt", "insert", "register"}
      BY <1>3 DEF Resolving
    <3> QED
      BY <2>1, <3>1, <3>2
  <2>2. resolver \in [Resolvers -> Memory]
    BY <1>0 DEF MemoryInv
  <2>3. CASE Sweep(p)
    <3>1. ASSUME NEW G, resolver' = [resolver EXCEPT ![p] = [AtRest EXCEPT !.at = "rank", !.rest = G]]
          PROVE  resolver'[p].at = "rank"
      BY <2>2, <3>1 DEF AtRest
    <3> QED
      BY <2>m, <2>3, <3>1 DEF Sweep
  <2>4. CASE Rank(p)
    <3>0. ASSUME NEW w, NEW left, resolver' = [resolver EXCEPT ![p].at = "merge", ![p].id = w, ![p].rest = left \ {w}]
          PROVE  resolver'[p].at = "merge"
      BY <2>2, <3>0 DEF Memory
    <3>1. Aborts(p) \/ resolver'[p].at = "merge"
      <4> DEFINE left == resolver[p].rest \cap Rows
      <4>1. Aborts(p) \/ \E w \in left : resolver' = [resolver EXCEPT ![p].at = "merge", ![p].id = w, ![p].rest = left \ {w}]
        BY <2>4 DEF Rank
      <4> QED
        BY <3>0, <4>1
    <3> QED
      BY <2>m, <3>1
  <2>5. CASE AskMerge(p)
    <3>1. ASSUME NEW w, NEW l, resolver' = [resolver EXCEPT ![p] = [AtRest EXCEPT !.at = "merge", !.id = w, !.rest = {l}]]
          PROVE  resolver'[p].at = "merge"
      BY <2>2, <3>1 DEF AtRest
    <3> QED
      BY <2>m, <2>5, <3>1 DEF AskMerge
  <2>6. CASE ReadBoth(p)
    <3>1. Aborts(p) \/ resolver'[p].at \in {"merge", "merging"}
      <4>1. ASSUME NEW l \in resolver[p].rest, resolver[p].at = "merge", resolver' = [resolver EXCEPT ![p].rest = @ \ {l}]
            PROVE  resolver'[p].at = "merge"
        BY <2>2, <4>1 DEF Memory
      <4>2. ASSUME NEW l \in resolver[p].rest,
                   resolver' = [resolver EXCEPT ![p].at = "merging", ![p].name = projects[l].name,
                                                ![p].loser = l, ![p].rest = @ \ {l}]
            PROVE  resolver'[p].at = "merging"
        BY <2>2, <4>2 DEF Memory
      <4> QED
        BY <2>6, <4>1, <4>2 DEF ReadBoth
    <3> QED
      BY <2>m, <3>1
  <2>7. CASE Lose(p) \/ \E k \in Minutes : Book(p, k)
    BY <1>0, <2>1, <2>7, Moves DEF Lose, Book
  <2> QED
    BY <2>3, <2>4, <2>5, <2>6, <2>7
<1>4. ASSUME NEW m \in Names, m \notin contested, Resolving(p, m)' PROVE Resolving(p, m) /\ Ahead(p, m)'
  BY <1>0, <1>2, <1>3, <1>4, StaysAhead DEF HomeInv
<1> QED
  BY <1>0, <1>1, <1>2, <1>4, QuietMoves

(* What a directory finds after a merge: the winner where it found the loser. *)
LEMMA MergeFinds ==
    ASSUME ProjectsInv, NEW p \in Resolvers, Merge(p), NEW n \in Names, n \notin contested,
           NEW l, l = resolver[p].loser, NEW w, w = resolver[p].id
    PROVE  /\ \A j : Finds(n, j)' <=> \E i : Finds(n, i) /\ j = IF i = l THEN w ELSE i
           /\ Settled(n)'
           /\ Named(n) = {} => Named(n)' = {}
           /\ Named(n) = {} /\ n \notin DOMAIN aliases => n \notin DOMAIN aliases'
<1>0. TablesInv /\ MemoryInv /\ LoserInv /\ HomeInv /\ Settled(n) /\ homes[n] \subseteq RowIds
  BY DEF ProjectsInv, HomeInv, TablesInv
<1> DEFINE nl == resolver[p].name
<1>1. /\ projects' = Without(l) /\ aliases' = Repointed(l, w, nl) /\ heir' = Inherited(l, w)
      /\ UNCHANGED <<homes, contested>> /\ l # w /\ w \in Rows /\ resolver[p].at = "merging"
  BY <1>0 DEF Merge, MemoryInv, Sound
<1>2. IF l \in Rows THEN nl = projects[l].name ELSE nl \in DOMAIN aliases
  BY <1>0, <1>1 DEF LoserInv
<1>3. /\ Rows' = Rows \ {l} /\ \A i \in Rows' : projects'[i] = projects[i]
      /\ DOMAIN aliases' = DOMAIN aliases \cup {nl}
      /\ \A m \in DOMAIN aliases' : aliases'[m] = IF m \in DOMAIN aliases /\ aliases[m] # l THEN aliases[m] ELSE w
  BY <1>1 DEF Without, Repointed, Rows
<1>4. Named(n)' = Named(n) \ {l}
  BY <1>3 DEF Named
<1>5. CASE l \in Rows /\ nl = n
  <2>1. Named(n) = {l}
    BY <1>0, <1>2, <1>5 DEF Named, TablesInv, RowsInv
  <2>2. \A i : Finds(n, i) <=> i = l
    BY <2>1 DEF Finds
  <2>3. Named(n)' = {} /\ n \in DOMAIN aliases' /\ aliases'[n] = w
    BY <1>0, <1>3, <1>4, <1>5, <2>1 DEF Settled
  <2>4. \A j : Finds(n, j)' <=> j = w
    BY <2>3 DEF Finds
  <2>5. \A k \in homes[n] : heir'[k] = w
    <3>1. l \in RowIds
      BY <1>0, <1>5, NumberFacts
    <3>2. \A k \in homes[n] : heir[k] = l
      BY <1>0, <2>2, <3>1 DEF Settled
    <3> QED
      BY <1>0, <1>1, <3>2 DEF Inherited
  <2>6. Settled(n)'
    BY <1>1, <2>3, <2>4, <2>5 DEF Settled
  <2> QED
    BY <2>1, <2>2, <2>4, <2>6
<1>6. CASE ~(l \in Rows /\ nl = n)
  <2>1. Named(n)' = Named(n) /\ (n \in DOMAIN aliases' <=> n \in DOMAIN aliases)
    BY <1>2, <1>3, <1>4, <1>6 DEF Named
  <2>2. n \in DOMAIN aliases => aliases'[n] = IF aliases[n] = l THEN w ELSE aliases[n]
    BY <1>3
  <2>3. l \notin Named(n)
    BY <1>2, <1>6 DEF Named
  <2>4. \A j : Finds(n, j)' <=> \E i : Finds(n, i) /\ j = IF i = l THEN w ELSE i
    BY <2>1, <2>2, <2>3 DEF Finds
  <2>5. ASSUME NEW j \in RowIds, Finds(n, j)', NEW k \in homes[n] PROVE heir'[k] = j
    <3>1. PICK i : Finds(n, i) /\ j = IF i = l THEN w ELSE i
      BY <2>4, <2>5
    <3>2. i \in RowIds /\ heir[k] = i
      BY <1>0, <3>1, FindsOne DEF Settled
    <3> QED
      BY <1>0, <1>1, <3>1, <3>2 DEF Inherited
  <2>6. Named(n)' # {} /\ n \in DOMAIN aliases' => aliases'[n] \in Named(n)'
    BY <1>0, <2>1, <2>2, <2>3 DEF Settled
  <2>7. Named(n)' = {} /\ n \notin DOMAIN aliases' => homes'[n] = {}
    BY <1>0, <1>1, <2>1 DEF Settled
  <2>8. Settled(n)'
    BY <1>1, <2>5, <2>6, <2>7 DEF Settled, RowIds
  <2> QED
    BY <2>1, <2>4, <2>8
<1> QED
  BY <1>5, <1>6

LEMMA MergeKeepsHomes ==
    ASSUME ProjectsInv, NEW p \in Resolvers, Merge(p)
    PROVE  HomeInv'
<1>0. TablesInv /\ MemoryInv /\ HomeInv
  BY DEF ProjectsInv
<1>1. /\ contested' = contested /\ Goes(p, "merge")
      /\ heir' = Inherited(resolver[p].loser, resolver[p].id)
      /\ \A q \in Resolvers \ {p} : resolver'[q] = resolver[q]
  BY <1>0, OneMoves DEF Merge, Proceed
<1>2. \A m : ~Resolving(p, m)'
  BY <1>0, <1>1, Moves DEF Resolving
<1>3. ASSUME NEW n \in Names, n \notin contested, NEW q \in Resolvers \ {p}, Resolving(q, n)
      PROVE  Ahead(q, n)'
  <2>0. Ahead(q, n) /\ resolver'[q] = resolver[q]
    BY <1>0, <1>1, <1>3 DEF HomeInv
  <2>1. /\ \A j : Finds(n, j)' <=> \E i : Finds(n, i) /\ j = IF i = resolver[p].loser THEN resolver[p].id ELSE i
        /\ Named(n) = {} => Named(n)' = {}
        /\ Named(n) = {} /\ n \notin DOMAIN aliases => n \notin DOMAIN aliases'
    BY <1>3, MergeFinds
  <2>2. ASSUME resolver[q].at \in {"backfill", "register"} PROVE Finds(n, heir[resolver[q].id])'
    <3>1. Finds(n, heir[resolver[q].id]) /\ resolver[q].id \in RowIds
      <4>1. resolver[q].id \in 0..lastId /\ resolver[q].id # 0
        BY <1>0, <2>2 DEF MemoryInv, Memory, Sound
      <4> QED
        BY <1>0, <2>0, <2>2, <4>1, NumberFacts DEF Ahead
    <3>2. heir'[resolver[q].id] = IF heir[resolver[q].id] = resolver[p].loser THEN resolver[p].id ELSE heir[resolver[q].id]
      BY <1>1, <3>1 DEF Inherited
    <3>3. resolver'[q].id = resolver[q].id
      BY <2>0
    <3> QED
      BY <2>1, <3>1, <3>2, <3>3
  <2> QED
    BY <2>0, <2>1, <2>2 DEF Ahead
<1>4. ASSUME NEW n \in Names, n \notin contested PROVE Settled(n)'
  BY <1>4, MergeFinds
<1> QED
  BY <1>0, <1>1, <1>2, <1>3, <1>4, HomeMoves

(* A loser that owns nothing goes with nobody: its name is somebody else's   *)
(* alias already, which only two resolutions at once can have brought about. *)
LEMMA MergeIntoNothingKeepsHomes ==
    ASSUME ProjectsInv, NEW p \in Resolvers, MergeIntoNothing(p)
    PROVE  HomeInv'
<1>0. TablesInv /\ MemoryInv /\ LoserInv /\ HomeInv /\ homes \in [Names -> SUBSET RowIds]
  BY DEF ProjectsInv, TablesInv
<1>1. /\ UNCHANGED <<aliases, heir, homes, contested>> /\ resolver[p].at = "merging"
      /\ \A q \in Resolvers \ {p} : resolver'[q] = resolver[q]
  BY <1>0, OneMoves DEF MergeIntoNothing, Proceed
<1>2. \A m : ~Resolving(p, m)'
  BY <1>0, Moves DEF MergeIntoNothing, Resolving
<1>3. ASSUME NEW n \in Names, n \notin contested PROVE Unmoved(n)
  <2>1. CASE projects' = projects
    BY <1>1, <2>1, Still
  <2>2. ASSUME NEW l, l = resolver[p].loser, projects' = Without(l), ~Owns(l, resolver[p].name) PROVE Unmoved(n)
    <3>1. Rows' = Rows \ {l} /\ \A i \in Rows' : projects'[i] = projects[i]
      BY <2>2 DEF Without, Rows
    <3>2. l \notin Named(n)
      <4>1. SUFFICES ASSUME l \in Named(n) PROVE FALSE
        OBVIOUS
      <4>2. l \in Rows /\ n = projects[l].name /\ resolver[p].name = n
        BY <1>0, <1>1, <2>2, <4>1 DEF LoserInv, Named
      <4>3. n \in DOMAIN aliases /\ aliases[n] # l
        BY <2>2, <4>2 DEF Owns
      <4>4. aliases[n] \in Named(n)
        BY <1>0, <1>3, <4>1, <4>3 DEF HomeInv, Settled
      <4> QED
        BY <1>0, <4>2, <4>3, <4>4 DEF Named, TablesInv, RowsInv
    <3> QED
      BY <1>1, <3>1, <3>2 DEF Unmoved, Named
  <2> QED
    BY <2>1, <2>2 DEF MergeIntoNothing
<1> QED
  BY <1>0, <1>1, <1>2, <1>3, QuietMoves

LEMMA HomeStep == ProjectsInv /\ [ProjectsNext]_projectVars => HomeInv'
<1>1. ASSUME ProjectsInv, NEW p \in Resolvers, \/ Proceed(p) \/ Lookup(p) \/ AskMerge(p) \/ Lose(p)
                                               \/ \E m \in Minutes : Book(p, m)
      PROVE  HomeInv'
  BY <1>1, ReadersKeepHomes, BackfillKeepsHomes, RegistersKeepHomes, InsertKeepsHomes, LookupKeepsHomes,
     OthersKeepHomes, MergeKeepsHomes, MergeIntoNothingKeepsHomes DEF Proceed
<1>2. ASSUME ProjectsInv, UNCHANGED projectVars PROVE HomeInv'
  BY <1>2 DEF ProjectsInv, projectVars, HomeInv, Settled, Finds, Named, Rows, Ahead, Resolving, RowIds
<1> QED
  BY <1>1, <1>2 DEF ProjectsNext

-------------------------------------------------------------------------------
(* Theorems *)

LEMMA ProjectsBegin == ProjectsInit => ProjectsInv
<1> SUFFICES ASSUME ProjectsInit PROVE ProjectsInv
  OBVIOUS
<1>1. Rows = {} /\ DOMAIN aliases = {} /\ DOMAIN usage = {} /\ lastId = 0 /\ MaxId \in Nat
  BY ProjectConstantsOK DEF ProjectsInit, Rows
<1>2. TablesInv
  BY <1>1 DEF ProjectsInit, TablesInv, RowsInv, RowIds
<1>3. MemoryInv
  BY <1>2, Rested DEF ProjectsInit, MemoryInv
<1>4. HeirInv
  BY DEF ProjectsInit, HeirInv
<1>5. \A p \in Resolvers : resolver[p].at = "idle"
  BY DEF ProjectsInit, AtRest
<1>6. LoserInv
  BY <1>5 DEF LoserInv
<1>7. HomeInv
  BY <1>1, <1>5 DEF ProjectsInit, HomeInv, Settled, Resolving, Named, Finds
<1> QED
  BY <1>2, <1>3, <1>4, <1>6, <1>7 DEF ProjectsInv

(* Tables and memories keep to one another through every interleaving of    *)
(* resolutions, bookings, merges and losses of processes.                   *)
THEOREM ProjectsInductive == ProjectsSpec => []ProjectsInv
<1>1. ProjectsInv /\ [ProjectsNext]_projectVars => ProjectsInv'
  BY TablesStep, MemoryStep, HeirStep, LoserStep, HomeStep DEF ProjectsInv
<1> QED
  BY <1>1, ProjectsBegin, PTL DEF ProjectsSpec

(* A directory's sessions, whenever and by whichever process they were      *)
(* resolved, stand on one project (getOrCreateProject with mergeProjects).  *)
THEOREM OneHomeSafe == ProjectsSpec => []OneHome
<1>1. ASSUME ProjectsInv, NEW n \in Names \ contested, NEW i \in homes[n], NEW j \in homes[n]
      PROVE  heir[i] = heir[j]
  <2>1. TablesInv /\ Settled(n)
    BY <1>1 DEF ProjectsInv, HomeInv
  <2>2. Named(n) # {} \/ n \in DOMAIN aliases
    BY <1>1, <2>1 DEF Settled
  <2>3. PICK x : Finds(n, x)
    BY <2>2 DEF Finds
  <2>4. x \in RowIds
    BY <2>1, <2>3, FindsOne
  <2> QED
    BY <1>1, <2>1, <2>3, <2>4 DEF Settled
<1>2. ProjectsInv => OneHome
  BY <1>1 DEF OneHome
<1> QED
  BY <1>2, ProjectsInductive, PTL

-------------------------------------------------------------------------------
(* The accounts *)

Held   == [i \in RowIds |-> [m \in Minutes |-> Tokens(i, m)]]
Closed == (1..lastId) \ Rows

LEMMA HeldAlike ==
    ASSUME \A i \in RowIds, m \in Minutes : Tokens(i, m)' = Tokens(i, m)
    PROVE  Held' = Held
BY DEF Held, RowIds

(* The tokens after a merge: nothing is left of the loser. *)
LEMMA MergedTokens ==
    ASSUME TablesInv, NEW l \in RowIds, NEW w \in RowIds, l # w, usage' = Summed(l, w),
           NEW i \in RowIds, NEW m \in Minutes
    PROVE  Tokens(i, m)' = IF i = l THEN 0 ELSE IF i = w THEN Tokens(w, m) + Tokens(l, m) ELSE Tokens(i, m)
<1>1. DOMAIN usage' = {k \in DOMAIN usage : k[1] # l} \cup {<<w, n>> : n \in {n \in Minutes : <<l, n>> \in DOMAIN usage}}
  BY DEF Summed
<1>2. \A k \in DOMAIN usage' : usage'[k] = IF k[1] = w THEN Tokens(w, k[2]) + Tokens(l, k[2]) ELSE usage[k]
  BY <1>1 DEF Summed
<1>3. <<i, m>>[1] = i /\ <<i, m>>[2] = m
  OBVIOUS
<1>4. CASE i = l
  <2>1. <<i, m>> \notin DOMAIN usage'
    BY <1>1, <1>3, <1>4
  <2> QED
    BY <1>4, <2>1 DEF Tokens
<1>5. CASE i = w
  <2>1. <<i, m>> \in DOMAIN usage' <=> <<w, m>> \in DOMAIN usage \/ <<l, m>> \in DOMAIN usage
    BY <1>1, <1>3, <1>5
  <2>2. CASE <<i, m>> \in DOMAIN usage'
    BY <1>2, <1>3, <1>5, <2>2 DEF Tokens
  <2>3. CASE <<i, m>> \notin DOMAIN usage'
    BY <1>5, <2>1, <2>3 DEF Tokens
  <2> QED
    BY <2>2, <2>3
<1>6. CASE i # l /\ i # w
  <2>1. <<i, m>> \in DOMAIN usage' <=> <<i, m>> \in DOMAIN usage
    BY <1>1, <1>3, <1>6
  <2>2. <<i, m>> \in DOMAIN usage' => usage'[<<i, m>>] = usage[<<i, m>>]
    BY <1>2, <1>3, <1>6
  <2> QED
    BY <1>6, <2>1, <2>2 DEF Tokens
<1> QED
  BY <1>4, <1>5, <1>6

LEMMA AbsentHoldsNothing ==
    ASSUME TablesInv, NEW l, l \notin Rows, NEW m
    PROVE  Tokens(l, m) = 0
BY DEF TablesInv, Tokens

LEMMA AccountsMove ==
    ASSUME ProjectsInv, ProjectsInv', NEW p \in Resolvers,
           \/ Proceed(p) \/ Lookup(p) \/ AskMerge(p) \/ Lose(p)
           \/ \E m \in Minutes : Book(p, m)
    PROVE  \/ UNCHANGED <<Rows, Closed, Held>>
           \/ \E id \in RowIds :
                id \notin Rows \cup Closed /\ Rows' = Rows \cup {id} /\ UNCHANGED <<Closed, Held>>
           \/ \E id \in RowIds, m \in Minutes :
                id \in Rows /\ Held' = [Held EXCEPT ![id][m] = @ + 1] /\ UNCHANGED <<Rows, Closed>>
           \/ \E l, w \in RowIds :
                /\ {l, w} \subseteq Rows /\ l # w /\ Rows' = Rows \ {l} /\ Closed' = Closed \cup {l}
                /\ Held' = [Held EXCEPT ![l] = [m \in Minutes |-> 0],
                                        ![w] = [m \in Minutes |-> @[m] + Held[l][m]]]
<1>0. /\ TablesInv /\ MemoryInv /\ lastId \in Nat /\ Rows \subseteq 1..lastId
      /\ Rows \subseteq RowIds /\ 1..lastId \subseteq RowIds
  BY NumberFacts DEF ProjectsInv
<1>1. usage' = usage => Held' = Held
  BY HeldAlike DEF Tokens
<1>2. CASE UNCHANGED <<projects, usage, lastId>>
  BY <1>1, <1>2 DEF Rows, Closed
<1>3. CASE Backfill(p)
  <2>1. Rows' = Rows /\ UNCHANGED <<usage, lastId>>
    BY <1>3 DEF Backfill, Rows
  <2> QED
    BY <1>1, <2>1 DEF Closed
<1>4. CASE /\ lastId < MaxId /\ lastId' = NextId /\ usage' = usage
           /\ projects' = [i \in Rows \cup {NextId} |-> IF i = NextId THEN NewRow(p) ELSE projects[i]]
  <2>1. PICK new \in RowIds : new = NextId /\ new = lastId + 1
    BY <1>0, <1>4, NumberFacts DEF NextId
  <2>2. Rows' = Rows \cup {new} /\ lastId' = new
    BY <1>4, <2>1 DEF Rows
  <2>3. new \notin Rows \cup Closed /\ Closed' = Closed
    BY <1>0, <2>1, <2>2 DEF Closed
  <2> QED
    BY <1>1, <1>4, <2>2, <2>3
<1>5. ASSUME NEW m \in Minutes, resolver[p].id \in Rows, usage' = Booked(resolver[p].id, m),
             UNCHANGED <<projects, lastId>>
      PROVE  \E id \in RowIds, k \in Minutes :
                id \in Rows /\ Held' = [Held EXCEPT ![id][k] = @ + 1] /\ UNCHANGED <<Rows, Closed>>
  <2>1. PICK id \in Rows : id = resolver[p].id /\ id \in RowIds
    BY <1>0, <1>5
  <2>2. \A i \in RowIds, k \in Minutes : Tokens(i, k)' = IF i = id /\ k = m THEN Tokens(id, m) + 1 ELSE Tokens(i, k)
    <3>1. /\ DOMAIN usage' = DOMAIN usage \cup {<<id, m>>}
          /\ \A k \in DOMAIN usage' : usage'[k] = IF k = <<id, m>> THEN Tokens(id, m) + 1 ELSE usage[k]
      BY <1>5, <2>1 DEF Booked
    <3> QED
      BY <3>1 DEF Tokens
  <2>3. Held' = [Held EXCEPT ![id][m] = @ + 1]
    <3>1. Held' = [i \in RowIds |-> [k \in Minutes |-> IF i = id /\ k = m THEN Tokens(id, m) + 1 ELSE Tokens(i, k)]]
      BY <2>2, ZenonT(60) DEF Held, RowIds
    <3>2. Held' = [i \in RowIds |-> IF i = id THEN [Held[id] EXCEPT ![m] = @ + 1] ELSE Held[i]]
      <4>1. ASSUME NEW i \in RowIds PROVE Held[i] = [k \in Minutes |-> Tokens(i, k)]
        BY DEF Held
      <4>2. [k \in Minutes |-> IF k = m THEN Tokens(id, m) + 1 ELSE Tokens(id, k)] = [Held[id] EXCEPT ![m] = @ + 1]
        <5>1. Held[id] = [k \in Minutes |-> Tokens(id, k)]
          BY <2>1, <4>1
        <5>2. \A k \in Minutes : Held[id][k] = Tokens(id, k)
          BY <5>1
        <5>3. [Held[id] EXCEPT ![m] = @ + 1] = [k \in Minutes |-> IF k = m THEN Held[id][m] + 1 ELSE Held[id][k]]
          BY <5>1
        <5> QED
          BY <5>2, <5>3
      <4>3. ASSUME NEW i \in RowIds
            PROVE  [k \in Minutes |-> IF i = id /\ k = m THEN Tokens(id, m) + 1 ELSE Tokens(i, k)]
                     = IF i = id THEN [Held[id] EXCEPT ![m] = @ + 1] ELSE Held[i]
        BY <4>1, <4>2
      <4> QED
        BY <3>1, <4>3
    <3>3. DOMAIN Held = RowIds
      BY DEF Held
    <3> QED
      BY <2>1, <3>2, <3>3
  <2>4. UNCHANGED <<Rows, Closed>>
    BY <1>5 DEF Rows, Closed
  <2> QED
    BY <1>5, <2>1, <2>3, <2>4
<1>6. CASE Merge(p)
  <2>1. PICK l \in RowIds, w \in RowIds :
           /\ l = resolver[p].loser /\ w = resolver[p].id /\ l # w /\ w \in Rows /\ l \in 1..lastId
    <3>1. resolver[p].loser \in 1..lastId /\ resolver[p].loser # resolver[p].id /\ resolver[p].id \in Rows
      BY <1>0, <1>6 DEF Merge, MemoryInv, Memory, Sound
    <3> QED
      BY <1>0, <3>1
  <2>2. Rows' = Rows \ {l} /\ lastId' = lastId /\ usage' = Summed(l, w)
    BY <1>6, <2>1 DEF Merge, Without, Rows
  <2>3. \A i \in RowIds, m \in Minutes :
          Tokens(i, m)' = IF i = l THEN 0 ELSE IF i = w THEN Tokens(w, m) + Tokens(l, m) ELSE Tokens(i, m)
    <3>1. TablesInv /\ l \in RowIds /\ w \in RowIds /\ l # w /\ usage' = Summed(l, w)
      BY <1>0, <2>1, <2>2
    <3> QED
      BY <3>1, MergedTokens
  <2>4. CASE l \in Rows
    <3>1. Closed' = Closed \cup {l}
      BY <1>0, <2>2, <2>4 DEF Closed
    <3>2. Held' = [Held EXCEPT ![l] = [m \in Minutes |-> 0],
                               ![w] = [m \in Minutes |-> @[m] + Held[l][m]]]
      <4>1. Held' = [i \in RowIds |-> [m \in Minutes |->
                       IF i = l THEN 0 ELSE IF i = w THEN Tokens(w, m) + Tokens(l, m) ELSE Tokens(i, m)]]
        BY <2>3, ZenonT(60) DEF Held, RowIds
      <4>2. Held' = [i \in RowIds |-> IF i = l THEN [m \in Minutes |-> 0]
                                   ELSE IF i = w THEN [m \in Minutes |-> Held[w][m] + Held[l][m]] ELSE Held[i]]
        <5>1. \A i \in RowIds : Held[i] = [m \in Minutes |-> Tokens(i, m)] /\ \A m \in Minutes : Held[i][m] = Tokens(i, m)
          BY DEF Held
        <5>2. \A i \in RowIds :
                [m \in Minutes |-> IF i = l THEN 0 ELSE IF i = w THEN Tokens(w, m) + Tokens(l, m) ELSE Tokens(i, m)]
                = IF i = l THEN [m \in Minutes |-> 0]
                  ELSE IF i = w THEN [m \in Minutes |-> Held[w][m] + Held[l][m]] ELSE Held[i]
          BY <2>1, <5>1
        <5> QED
          BY <4>1, <5>2
      <4>3. ASSUME NEW H, H = [i \in RowIds |-> H[i]]
            PROVE  [H EXCEPT ![l] = [m \in Minutes |-> 0], ![w] = [m \in Minutes |-> @[m] + H[l][m]]]
                   = [i \in RowIds |-> IF i = l THEN [m \in Minutes |-> 0]
                                       ELSE IF i = w THEN [m \in Minutes |-> H[w][m] + H[l][m]] ELSE H[i]]
        BY <2>1, <4>3
      <4>4. Held = [i \in RowIds |-> Held[i]]
        BY DEF Held
      <4> QED
        BY <4>2, <4>3, <4>4
    <3> QED
      BY <2>1, <2>2, <2>4, <3>1, <3>2, ZenonT(60)
  <2>5. CASE l \notin Rows
    <3>1. ASSUME NEW i \in RowIds, NEW m \in Minutes PROVE Tokens(i, m)' = Tokens(i, m)
      <4>1. Tokens(l, m) = 0 /\ Tokens(w, m) \in Nat
        BY <1>0, <2>1, <2>5, AbsentHoldsNothing, TokenTypes
      <4> QED
        BY <2>3, <4>1
    <3> QED
      BY <2>2, <2>5, <3>1, HeldAlike DEF Closed
  <2> QED
    BY <2>4, <2>5
<1>7. CASE MergeIntoNothing(p)
  <2>1. UNCHANGED <<usage, lastId>>
    BY <1>7 DEF MergeIntoNothing
  <2>2. ASSUME NEW l, l = resolver[p].loser, projects' = Without(l), ~Owns(l, resolver[p].name), l \in Rows
        PROVE  \E x, w \in RowIds :
                /\ {x, w} \subseteq Rows /\ x # w /\ Rows' = Rows \ {x} /\ Closed' = Closed \cup {x}
                /\ Held' = [Held EXCEPT ![x] = [m \in Minutes |-> 0],
                                        ![w] = [m \in Minutes |-> @[m] + Held[x][m]]]
    <3>1. PICK w \in Rows : w # l
      BY <1>0, <2>2 DEF Owns, TablesInv
    <3>2. Rows' = Rows \ {l} /\ Closed' = Closed \cup {l}
      BY <1>0, <2>1, <2>2 DEF Without, Rows, Closed
    <3>3. \A m \in Minutes : Tokens(l, m) = 0
      BY <2>2 DEF Owns, Tokens
    <3>4. \A m \in Minutes : Tokens(w, m) \in Nat
      BY <1>0, TokenTypes
    <3>5. Held' = Held /\ l \in RowIds /\ w \in RowIds
      BY <1>0, <1>1, <2>1, <2>2
    <3>6. Held = [Held EXCEPT ![l] = [m \in Minutes |-> 0],
                              ![w] = [m \in Minutes |-> @[m] + Held[l][m]]]
      BY <3>1, <3>3, <3>4, <3>5 DEF Held
    <3> QED
      BY <2>2, <3>1, <3>2, <3>5, <3>6
  <2>3. ASSUME NEW l, projects' = Without(l), l \notin Rows PROVE UNCHANGED <<Rows, Closed, Held>>
    BY <1>1, <2>1, <2>3 DEF Without, Rows, Closed
  <2> QED
    BY <1>2, <1>7, <2>1, <2>2, <2>3 DEF MergeIntoNothing
<1> QED
  BY <1>2, <1>3, <1>4, <1>5, <1>6, <1>7
     DEF Proceed, ByName, ByAlias, ByIdentity, Adopt, Register, Registers, Insert, Sweep, Rank, ReadBoth,
         Lookup, AskMerge, Lose, Book

(* Tokens booked by the passes (updateUsageMinutes) stay whole through every *)
(* merge: the project table implements the accounts.                        *)
THEOREM AccountsSafe == ProjectsSpec => AccountsKept
<1> USE DEF Held, Closed
<1>1. ProjectsInit => Accounts!AccountsInit
  BY DEF ProjectsInit, Accounts!AccountsInit, Accounts!NothingBooked, Rows, Tokens
<1>2. ProjectsInv /\ ProjectsInv' /\ [ProjectsNext]_projectVars => [Accounts!AccountsNext]_Accounts!accountVars
  <2>1. ASSUME ProjectsInv, ProjectsInv', NEW p \in Resolvers,
               \/ Proceed(p) \/ Lookup(p) \/ AskMerge(p) \/ Lose(p) \/ \E m \in Minutes : Book(p, m)
        PROVE  [Accounts!AccountsNext]_Accounts!accountVars
    BY <2>1, AccountsMove
       DEF Accounts!AccountsNext, Accounts!OpenAccount, Accounts!Deposit, Accounts!Absorb, Accounts!accountVars
  <2>2. CASE UNCHANGED projectVars
    BY <2>2 DEF projectVars, Accounts!accountVars, Rows, Tokens
  <2> QED
    BY <2>1, <2>2 DEF ProjectsNext
<1> QED
  BY <1>1, <1>2, ProjectsInductive, PTL DEF ProjectsSpec, AccountsKept, Accounts!AccountsSpec

(* Rows, aliases, minutes and memories are of their types, and every id that *)
(* an alias or a minute names has its row (the foreign keys of schema.ts).   *)
THEOREM ProjectsTypeCorrect == ProjectsSpec => []ProjectsTypeOK
<1>1. ASSUME ProjectsInv PROVE ProjectsTypeOK
  <2>1. TablesInv /\ MemoryInv
    BY <1>1 DEF ProjectsInv
  <2>2. \A i \in Rows : projects[i].name \in Names /\ projects[i].root \in {g.root : g \in Shown} \cup {NoGit}
    BY <2>1 DEF TablesInv, RowsInv, ProjectRow
  <2>3. \A k \in DOMAIN usage : k[1] \in Rows /\ k[2] \in Minutes /\ usage[k] \in Nat
    BY <2>1 DEF TablesInv
  <2>4. \A p \in Resolvers : resolver[p].at \in ResolverStages /\ resolver[p].id \in 0..lastId
    BY <2>1 DEF MemoryInv, Memory
  <2> QED
    BY <2>1, <2>2, <2>3, <2>4 DEF ProjectsTypeOK, TablesInv, RowsInv
<1> QED
  BY <1>1, ProjectsInductive, PTL

-------------------------------------------------------------------------------
(* The board, the agents and the projects beside each other: BoardSpec implies *)
(* the specification of each.                                                  *)
LEMMA BoardApart == BoardSpec => Spec /\ DeploySpec /\ ProjectsSpec
<1>1. BoardInit => Init /\ DeployInit /\ ProjectsInit
  BY DEF BoardInit
<1>2. [BoardNext]_boardVars => [Next]_vars /\ [DeployNext]_deployVars /\ [ProjectsNext]_projectVars
  BY DEF BoardNext, boardVars
<1> QED
  BY <1>1, <1>2, PTL DEF BoardSpec, Spec, DeploySpec, ProjectsSpec

(* All three keep their types, whichever of them moves. *)
THEOREM BoardTypeCorrect == BoardSpec => []BoardTypeOK
BY BoardApart, TodosTypeCorrect, DeployTypeCorrect, ProjectsTypeCorrect, PTL DEF BoardTypeOK
===============================================================================
