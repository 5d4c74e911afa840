---------------------------- MODULE PriceLedgerProofs ----------------------------
(***************************************************************************)
(* The book of prices tiles time, balances against its register and never  *)
(* rewrites the past, for every number of oracles, models and syncs.       *)
(***************************************************************************)
EXTENDS PriceLedger, FiniteSetTheorems, FunctionTheorems, SequenceTheorems, TLAPS

SyncRec == [at : {"idle", "fetch", "book"}, by : Servers \cup {"script"}, boot : BOOLEAN,
            source : SourceSet, todo : Seq(SourceSet), run : Nat, feed : Feeds]

SameHistory(r, o) == r.source = o.source /\ r.model = o.model

(* Every history of a book is a chain: its rows are numbered, each ends      *)
(* before the next one starts, the last one stands and is numbered by their  *)
(* count, and from the first one on some row covers every instant.           *)
Bounds(rows, now) ==
    \A r \in rows : /\ r.id >= 1 /\ r.price \in Prices
                    /\ r.from \in 1..now /\ r.to \in 0..now
                    /\ Standing(r) \/ r.from <= r.to

Chain(rows) ==
    \A r, o \in rows : SameHistory(r, o) =>
        /\ r.id = o.id => r = o
        /\ r.id < o.id => ~Standing(r) /\ r.to <= o.from

Ends(rows) ==
    \A r \in rows :
        /\ Standing(r) => r.id = Cardinality(Entries(rows, r.source, r.model))
        /\ \E o \in rows : SameHistory(r, o) /\ Standing(o)
        /\ \E o \in rows : SameHistory(r, o) /\ o.id = 1

NoGap(rows) ==
    \A r \in rows : \A t \in Nat : r.from <= t => \E o \in rows : SameHistory(r, o) /\ Covers(o, t)

Orderly(rows, now) ==
    /\ rows \subseteq LedgerRow /\ IsFiniteSet(rows)
    /\ Bounds(rows, now) /\ Chain(rows) /\ Ends(rows) /\ NoGap(rows)

(* The register accounts for a book. *)
Accounts(rows, runs) ==
    /\ \A i \in DOMAIN runs :
        /\ \A r \in rows : r.run = i => r.source = runs[i].source
        /\ Cardinality({r \in rows : r.run = i}) = runs[i].added + runs[i].changed
        /\ ~runs[i].ok => {r \in rows : r.run = i} = {}
    /\ \A r \in rows : r.run \in DOMAIN runs

(* Each sync under way has an entry of its own, which has not ended well. *)
Underway(syncs, runs) ==
    \A x \in Syncs : syncs[x].at # "idle" =>
        /\ syncs[x].run \in DOMAIN runs
        /\ runs[syncs[x].run].source = syncs[x].source
        /\ ~runs[syncs[x].run].ok
        /\ \A y \in Syncs : syncs[y].at # "idle" /\ syncs[y].run = syncs[x].run => y = x

(* What a server holds is an older state of the ledger, in which whatever    *)
(* had a price still had one.                                                *)
Copies(books, rows) ==
    \A p \in Servers : \A r \in books[p] :
        /\ \E o \in rows : SameHistory(r, o)
        /\ \E o \in books[p] : SameHistory(r, o) /\ Standing(o)

PriceInv ==
    /\ PriceTypeOK /\ clock >= 1
    /\ Orderly(ledger, clock)
    /\ Accounts(ledger, register) /\ Underway(sync, register)
    /\ DelistedMeansAbsent
    /\ Copies(book, ledger)

-------------------------------------------------------------------------------
(* One book. *)

LEMMA AsMany ==
    ASSUME NEW S, NEW T, NEW f \in [S -> T], IsFiniteSet(S),
           \A t \in T : \E s \in S : f[s] = t, \A s, u \in S : f[s] = f[u] => s = u
    PROVE  IsFiniteSet(T) /\ Cardinality(T) = Cardinality(S)
<1>1. ExistsBijection(S, T)
  BY DEF ExistsBijection, Bijection, Injection, IsInjective, Surjection
<1> QED
  BY <1>1, FS_Bijection

(* A chain's standing row is the last one, its row of number 1 the first. *)
LEMMA StandingIsLast ==
    ASSUME NEW rows, NEW now, Orderly(rows, now), NEW r \in rows, NEW o \in rows,
           SameHistory(r, o), Standing(o)
    PROVE  r.id <= o.id /\ (Standing(r) => r = o)
<1>1. r.id \in Nat /\ o.id \in Nat
  BY DEF Orderly, LedgerRow
<1>2. ~(o.id < r.id)
  BY DEF Orderly, Chain, SameHistory
<1>3. Standing(r) => ~(r.id < o.id)
  BY DEF Orderly, Chain
<1>4. r.id = o.id => r = o
  BY DEF Orderly, Chain
<1> QED
  BY <1>1, <1>2, <1>3, <1>4

LEMMA FirstIsFirst ==
    ASSUME NEW rows, NEW now, Orderly(rows, now), NEW f \in rows, f.id = 1
    PROVE  \A o \in rows : SameHistory(f, o) => Before(f, o)
<1> SUFFICES ASSUME NEW o \in rows, SameHistory(f, o) PROVE Before(f, o)
  OBVIOUS
<1>1. f.id \in Nat /\ o.id \in Nat /\ o.id >= 1 /\ f.from \in Nat /\ o.from \in Nat /\ f.to \in Nat
  BY DEF Orderly, Bounds, LedgerRow
<1>2. CASE o.id = 1
  <2>1. f = o
    BY <1>2 DEF Orderly, Chain
  <2> QED
    BY <2>1, <1>1 DEF Before
<1>3. CASE o.id # 1
  <2>1. f.id < o.id
    BY <1>1, <1>3
  <2>2. ~Standing(f) /\ f.to <= o.from
    BY <2>1 DEF Orderly, Chain
  <2>3. f.from <= f.to
    BY <2>2 DEF Orderly, Bounds
  <2> QED
    BY <1>1, <2>1, <2>2, <2>3 DEF Before
<1> QED
  BY <1>2, <1>3

(* FirstRow chooses the row that comes before all others. *)
LEMMA FirstRowIs ==
    ASSUME NEW rows, NEW now, Orderly(rows, now), NEW s, NEW m, NEW some \in SUBSET Entries(rows, s, m),
           NEW f \in some, \A o \in some : Before(f, o)
    PROVE  FirstRow(some) = f
<1> DEFINE c == FirstRow(some)
<1>1. c \in some /\ \A o \in some : Before(c, o)
  BY DEF FirstRow
<1>2. Before(c, f) /\ Before(f, c)
  BY <1>1
<1>3. c \in rows /\ f \in rows /\ SameHistory(c, f)
  BY <1>1 DEF Entries, SameHistory
<1> HIDE DEF c
<1>4. c.id \in Nat /\ f.id \in Nat /\ c.from \in Nat /\ f.from \in Nat
  BY <1>3 DEF Orderly, LedgerRow
<1>5. c.id = f.id
  BY <1>2, <1>4 DEF Before
<1>6. c = f
  BY <1>3, <1>5 DEF Orderly, Chain
<1> QED
  BY <1>6 DEF c

(* A history that is not empty has a first row, and nothing precedes it. *)
LEMMA HistoryStarts ==
    ASSUME NEW rows, NEW now, Orderly(rows, now), NEW s, NEW m, Entries(rows, s, m) # {}
    PROVE  \E f \in Entries(rows, s, m) : /\ f.id = 1 /\ FirstRow(Entries(rows, s, m)) = f
                                          /\ \A o \in Entries(rows, s, m) : Before(f, o)
<1>1. PICK r \in rows : r.source = s /\ r.model = m
  BY DEF Entries
<1>2. PICK f \in rows : SameHistory(r, f) /\ f.id = 1
  BY <1>1 DEF Orderly, Ends
<1>3. f \in Entries(rows, s, m)
  BY <1>1, <1>2 DEF Entries, SameHistory
<1>4. \A o \in Entries(rows, s, m) : Before(f, o)
  BY <1>2, <1>3, FirstIsFirst DEF Entries, SameHistory
<1>5. FirstRow(Entries(rows, s, m)) = f
  <2> DEFINE S == Entries(rows, s, m)
  <2>1. S \in SUBSET Entries(rows, s, m) /\ f \in S /\ \A o \in S : Before(f, o)
    BY <1>3, <1>4
  <2> HIDE DEF S
  <2>2. FirstRow(S) = f
    BY <2>1, FirstRowIs
  <2> QED
    BY <2>2 DEF S
<1> QED
  BY <1>2, <1>3, <1>4, <1>5

(* No two rows of a history cover one instant. *)
LEMMA OneCovers ==
    ASSUME NEW rows, NEW now, Orderly(rows, now), NEW r \in rows, NEW o \in rows, SameHistory(r, o),
           NEW t \in Nat, Covers(r, t), Covers(o, t)
    PROVE  r = o
<1>1. /\ r.id \in Nat /\ o.id \in Nat /\ r.from \in Nat /\ o.from \in Nat /\ r.to \in Nat /\ o.to \in Nat
  BY DEF Orderly, LedgerRow
<1>2. ~(r.id < o.id)
  BY <1>1 DEF Orderly, Chain, Covers
<1>3. SameHistory(o, r)
  BY DEF SameHistory
<1>4. ~(o.id < r.id)
  BY <1>1, <1>3 DEF Orderly, Chain, Covers
<1>5. r.id = o.id
  BY <1>1, <1>2, <1>4
<1> QED
  BY <1>5 DEF Orderly, Chain

(* The rows of an orderly book tile time from the first one on. *)
LEMMA Tiles ==
    ASSUME NEW rows, NEW now, Orderly(rows, now), NEW s, NEW m, NEW t \in Nat,
           Entries(rows, s, m) # {}, t >= FirstRow(Entries(rows, s, m)).from
    PROVE  \E r \in Entries(rows, s, m) : {o \in Entries(rows, s, m) : Covers(o, t)} = {r}
<1>1. PICK f \in Entries(rows, s, m) : FirstRow(Entries(rows, s, m)) = f
  BY HistoryStarts
<1>2. f \in rows /\ f.source = s /\ f.model = m /\ f.from \in Nat
  BY DEF Entries, Orderly, LedgerRow
<1>3. f.from <= t
  BY <1>1, <1>2
<1>4. PICK r \in rows : SameHistory(f, r) /\ Covers(r, t)
  BY <1>2, <1>3 DEF Orderly, NoGap
<1>5. r \in Entries(rows, s, m)
  BY <1>2, <1>4 DEF Entries, SameHistory
<1>6. ASSUME NEW o \in Entries(rows, s, m), Covers(o, t) PROVE o = r
  <2>1. o \in rows /\ SameHistory(o, r)
    BY <1>5 DEF Entries, SameHistory
  <2> QED
    BY <1>4, <1>6, <2>1, OneCovers
<1>7. {o \in Entries(rows, s, m) : Covers(o, t)} = {r}
  BY <1>4, <1>5, <1>6
<1> QED
  BY <1>5, <1>7

LEMMA TimelineHolds ==
    PriceInv => Timeline
<1> SUFFICES ASSUME PriceInv, NEW s \in SourceSet, NEW m \in Models, NEW t \in 1..clock,
                    Entries(ledger, s, m) # {}, t >= FirstRow(Entries(ledger, s, m)).from
             PROVE  Cardinality({r \in Entries(ledger, s, m) : Covers(r, t)}) = 1
  BY DEF Timeline
<1>1. t \in Nat /\ Orderly(ledger, clock)
  BY DEF PriceInv
<1>2. PICK r \in Entries(ledger, s, m) : {o \in Entries(ledger, s, m) : Covers(o, t)} = {r}
  BY <1>1, Tiles
<1>3. Cardinality({r}) = 1
  BY FS_Singleton
<1> QED
  BY <1>2, <1>3
-------------------------------------------------------------------------------
(* What a booking does to the book. *)

(* The row whose price the feed `feed` of oracle `s` replaces, what any row  *)
(* becomes, and the models for which a row is opened.                        *)
Replaced(r, s, feed) == r.source = s /\ Standing(r) /\ feed[r.model] \notin {Unlisted, r.price}
Became(r, s, feed) ==
    IF r.source # s \/ ~Standing(r) THEN r
    ELSE IF feed[r.model] = Unlisted THEN Delisted(r)
    ELSE IF feed[r.model] = r.price THEN Confirmed(r) ELSE Closed(r)
NewModels(s, feed) ==
    {m \in Listed(feed) : ~ \E r \in ledger : r.source = s /\ r.model = m /\ Standing(r) /\ r.price = feed[m]}
NewRow(s, feed, run, m) == Opened(s, m, feed[m], run)

LEMMA AfterFields ==
    ASSUME clock \in Nat, NEW r \in LedgerRow, NEW s, NEW feed
    PROVE  /\ Became(r, s, feed) \in LedgerRow
           /\ Became(r, s, feed).id = r.id /\ Became(r, s, feed).source = r.source
           /\ Became(r, s, feed).model = r.model /\ Became(r, s, feed).price = r.price
           /\ Became(r, s, feed).from = r.from /\ Became(r, s, feed).run = r.run
           /\ Became(r, s, feed).to = IF Replaced(r, s, feed) THEN clock ELSE r.to
           /\ r.source # s \/ ~Standing(r) => Became(r, s, feed).delisted = r.delisted
<1>1. CASE r.source # s \/ ~Standing(r)
  BY <1>1 DEF Became, Replaced
<1>2. CASE ~(r.source # s \/ ~Standing(r)) /\ feed[r.model] = Unlisted
  BY <1>2 DEF Became, Replaced, Delisted, LedgerRow, Never
<1>3. CASE ~(r.source # s \/ ~Standing(r)) /\ feed[r.model] # Unlisted /\ feed[r.model] = r.price
  BY <1>3 DEF Became, Replaced, Confirmed, LedgerRow, Never
<1>4. CASE ~(r.source # s \/ ~Standing(r)) /\ feed[r.model] # Unlisted /\ feed[r.model] # r.price
  BY <1>4 DEF Became, Replaced, Closed, LedgerRow, Never
<1> QED
  BY <1>1, <1>2, <1>3, <1>4

LEMMA NewRowFields ==
    ASSUME PriceTypeOK, IsFiniteSet(ledger), NEW s \in SourceSet, NEW feed \in Feeds, NEW run \in Nat,
           NEW m \in NewModels(s, feed)
    PROVE  /\ m \in Models /\ feed[m] \in Prices
           /\ NewRow(s, feed, run, m) \in LedgerRow
           /\ NewRow(s, feed, run, m) =
                [id |-> Cardinality(Entries(ledger, s, m)) + 1, source |-> s, model |-> m, price |-> feed[m],
                 from |-> clock, to |-> Never, seen |-> clock, delisted |-> Never, run |-> run]
<1>1. m \in Models /\ feed[m] \in Prices
  BY DEF NewModels, Listed, Feeds
<1>2. Cardinality(Entries(ledger, s, m)) \in Nat
  BY FS_Subset, FS_CardinalityType DEF Entries
<1>3. clock \in Nat /\ Never \in Nat
  BY DEF PriceTypeOK, Never
<1> QED
  BY <1>1, <1>2, <1>3 DEF NewRow, Opened, LedgerRow

(* The booking's five sets of rows are these two. *)
LEMMA BookedRows ==
    ASSUME PriceInv, NEW x \in Syncs, Book(x)
    PROVE  ledger' = {Became(r, sync[x].source, sync[x].feed) : r \in ledger}
                     \cup {NewRow(sync[x].source, sync[x].feed, sync[x].run, m)
                             : m \in NewModels(sync[x].source, sync[x].feed)}
<1> DEFINE s == sync[x].source
           feed == sync[x].feed
           open == Open(ledger, s)
           changed == {r \in open : feed[r.model] \notin {Unlisted, r.price}}
           same == {r \in open : feed[r.model] = r.price}
           gone == {r \in open : feed[r.model] = Unlisted}
           toOpen == Unknown(open, feed) \cup {r.model : r \in changed}
<1>1. ledger' = (ledger \ open)
                \cup {Confirmed(r) : r \in same} \cup {Closed(r) : r \in changed} \cup {Delisted(r) : r \in gone}
                \cup {Opened(s, m, feed[m], sync[x].run) : m \in toOpen}
  BY DEF Book
<1>2. toOpen = NewModels(s, feed)
  <2>1. ASSUME NEW m \in toOpen PROVE m \in NewModels(s, feed)
    <3>1. CASE m \in Unknown(open, feed)
      BY <3>1 DEF Unknown, NewModels, Open
    <3>2. CASE \E r \in changed : m = r.model
      <4>1. PICK r \in changed : m = r.model
        BY <3>2
      <4>2. r \in ledger /\ r.source = s /\ Standing(r) /\ feed[m] # Unlisted /\ feed[m] # r.price
        BY <4>1 DEF Open
      <4>3. m \in Models
        BY <4>1, <4>2 DEF PriceInv, PriceTypeOK, LedgerRow
      <4>4. ASSUME NEW o \in ledger, o.source = s, o.model = m, Standing(o) PROVE o = r
        BY <4>1, <4>2, <4>4, StandingIsLast DEF PriceInv, SameHistory
      <4> QED
        BY <4>2, <4>3, <4>4 DEF NewModels, Listed
    <3> QED
      BY <2>1, <3>1, <3>2
  <2>2. ASSUME NEW m \in NewModels(s, feed) PROVE m \in toOpen
    <3>1. m \in Listed(feed) /\ feed[m] # Unlisted
      BY DEF NewModels, Listed
    <3>2. CASE \E r \in open : r.model = m
      BY <3>1, <3>2 DEF NewModels, Open
    <3>3. CASE ~ \E r \in open : r.model = m
      BY <3>1, <3>3 DEF Unknown
    <3> QED
      BY <3>2, <3>3
  <2> QED
    BY <2>1, <2>2
<1>3. \A r \in ledger : r.price # Unlisted
  BY PriceConstantsOK DEF PriceInv, PriceTypeOK, LedgerRow, Unlisted
<1>4. (ledger \ open) \cup {Confirmed(r) : r \in same} \cup {Closed(r) : r \in changed} \cup {Delisted(r) : r \in gone}
      = {Became(r, s, feed) : r \in ledger}
  <2> DEFINE left == (ledger \ open) \cup {Confirmed(r) : r \in same} \cup {Closed(r) : r \in changed}
                     \cup {Delisted(r) : r \in gone}
  <2>1. ASSUME NEW r \in ledger PROVE Became(r, s, feed) \in left
    <3>1. CASE r \notin open
      BY <3>1 DEF Became, Open
    <3>2. CASE r \in same
      BY <1>3, <3>2 DEF Became, Open
    <3>3. CASE r \in changed
      BY <3>3 DEF Became, Open
    <3>4. CASE r \in gone
      BY <3>4 DEF Became, Open
    <3> QED
      BY <3>1, <3>2, <3>3, <3>4
  <2>2. ASSUME NEW q \in left PROVE \E r \in ledger : q = Became(r, s, feed)
    <3>1. CASE q \in ledger \ open
      BY <3>1 DEF Became, Open
    <3>2. CASE \E r \in same : q = Confirmed(r)
      BY <1>3, <3>2 DEF Became, Open
    <3>3. CASE \E r \in changed : q = Closed(r)
      BY <3>3 DEF Became, Open
    <3>4. CASE \E r \in gone : q = Delisted(r)
      BY <3>4 DEF Became, Open
    <3> QED
      BY <2>2, <3>1, <3>2, <3>3, <3>4
  <2> QED
    BY <2>1, <2>2
<1> HIDE DEF toOpen, changed, same, gone, open
<1>5. {Opened(s, m, feed[m], sync[x].run) : m \in toOpen}
      = {NewRow(s, feed, sync[x].run, m) : m \in NewModels(s, feed)}
  BY <1>2 DEF NewRow
<1> QED
  BY <1>1, <1>4, <1>5
(* The book after the booking, as a set that the lemmas below speak of. *)
BookedIs(rows, s, feed, run) ==
    rows = {Became(r, s, feed) : r \in ledger} \cup {NewRow(s, feed, run, m) : m \in NewModels(s, feed)}

LEMMA BookedParts ==
    ASSUME NEW rows, NEW s, NEW feed, NEW run, BookedIs(rows, s, feed, run)
    PROVE  /\ \A r \in ledger : Became(r, s, feed) \in rows
           /\ \A m \in NewModels(s, feed) : NewRow(s, feed, run, m) \in rows
           /\ \A q \in rows : \/ \E r \in ledger : q = Became(r, s, feed)
                             \/ \E m \in NewModels(s, feed) : q = NewRow(s, feed, run, m)
BY DEF BookedIs

(* A row that the feed replaces makes room for a new one of its model. *)
LEMMA ReplacedIsNew ==
    ASSUME PriceTypeOK, Orderly(ledger, clock), NEW s \in SourceSet, NEW feed \in Feeds,
           NEW r \in ledger, r.source = s, Standing(r)
    PROVE  Replaced(r, s, feed) <=> r.model \in NewModels(s, feed)
<1>1. \A o \in ledger : o.source = s /\ o.model = r.model /\ Standing(o) => o = r
  BY StandingIsLast DEF SameHistory
<1>2. r.model \in Models /\ r.price # Unlisted
  BY PriceConstantsOK DEF PriceTypeOK, LedgerRow, Unlisted
<1> QED
  BY <1>1, <1>2 DEF Replaced, NewModels, Listed

(* A booking numbers the new rows past every row of their histories. *)
LEMMA NumbersFit ==
    ASSUME Orderly(ledger, clock), NEW r \in ledger
    PROVE  /\ r.id \in Nat /\ Cardinality(Entries(ledger, r.source, r.model)) \in Nat
           /\ r.id <= Cardinality(Entries(ledger, r.source, r.model))
<1> DEFINE n == Cardinality(Entries(ledger, r.source, r.model))
<1>1. PICK o \in ledger : SameHistory(r, o) /\ Standing(o)
  BY DEF Orderly, Ends
<1>2. o.id = n
  BY <1>1 DEF Orderly, Ends, SameHistory
<1>3. r.id <= o.id
  BY <1>1, StandingIsLast
<1>4. r.id \in Nat /\ o.id \in Nat
  BY DEF Orderly, LedgerRow
<1> QED
  BY <1>2, <1>3, <1>4

(* A history that the booking opens no row for keeps its length; one that it *)
(* does grows by one.                                                        *)
LEMMA LengthsAfter ==
    ASSUME PriceTypeOK, Orderly(ledger, clock), NEW s \in SourceSet, NEW feed \in Feeds, NEW run \in Nat,
           NEW rows, BookedIs(rows, s, feed, run), NEW s0, NEW m0
    PROVE  /\ IsFiniteSet(Entries(rows, s0, m0))
           /\ Cardinality(Entries(rows, s0, m0)) =
                IF s0 = s /\ m0 \in NewModels(s, feed) THEN Cardinality(Entries(ledger, s0, m0)) + 1
                ELSE Cardinality(Entries(ledger, s0, m0))
<1> DEFINE old == Entries(ledger, s0, m0)
           f == [r \in old |-> Became(r, s, feed)]
           kept == {Became(r, s, feed) : r \in old}
<1>1. clock \in Nat /\ IsFiniteSet(ledger) /\ ledger \subseteq LedgerRow
  BY DEF PriceTypeOK, Orderly
<1>2. IsFiniteSet(old)
  BY <1>1, FS_Subset DEF Entries
<1>3. \A r \in ledger : /\ Became(r, s, feed).id = r.id /\ Became(r, s, feed).source = r.source
                        /\ Became(r, s, feed).model = r.model
  BY <1>1, AfterFields
<1>4. IsFiniteSet(kept) /\ Cardinality(kept) = Cardinality(old)
  <2>1. f \in [old -> kept] /\ \A q \in kept : \E r \in old : f[r] = q
    OBVIOUS
  <2>2. ASSUME NEW r \in old, NEW o \in old, f[r] = f[o] PROVE r = o
    <3>1. r \in ledger /\ o \in ledger /\ SameHistory(r, o)
      BY DEF Entries, SameHistory
    <3>2. Became(r, s, feed) = Became(o, s, feed)
      BY <2>2
    <3>3. r.id = o.id
      BY <1>3, <3>1, <3>2
    <3> QED
      BY <3>1, <3>3 DEF Orderly, Chain
  <2> HIDE DEF old, kept, f
  <2> QED
    BY <1>2, <2>1, <2>2, AsMany
<1>5. ASSUME NEW m \in NewModels(s, feed)
      PROVE  /\ NewRow(s, feed, run, m).source = s /\ NewRow(s, feed, run, m).model = m
             /\ NewRow(s, feed, run, m).id = Cardinality(Entries(ledger, s, m)) + 1
  BY <1>1, NewRowFields
<1>6. CASE s0 = s /\ m0 \in NewModels(s, feed)
  <2> DEFINE n == NewRow(s, feed, run, m0)
  <2>1. Entries(rows, s0, m0) = kept \cup {n}
    <3>1. ASSUME NEW q \in Entries(rows, s0, m0) PROVE q \in kept \cup {n}
      <4>1. q \in rows /\ q.source = s0 /\ q.model = m0
        BY DEF Entries
      <4>2. CASE \E r \in ledger : q = Became(r, s, feed)
        BY <1>3, <4>1, <4>2 DEF Entries
      <4>3. CASE \E m \in NewModels(s, feed) : q = NewRow(s, feed, run, m)
        BY <1>5, <4>1, <4>3
      <4> QED
        BY <4>1, <4>2, <4>3, BookedParts
    <3>2. \A r \in old : Became(r, s, feed) \in Entries(rows, s0, m0)
      BY <1>3, BookedParts DEF Entries
    <3>3. n \in Entries(rows, s0, m0)
      BY <1>5, <1>6, BookedParts DEF Entries
    <3> QED
      BY <3>1, <3>2, <3>3
  <2>2. n \notin kept
    <3> SUFFICES ASSUME n \in kept PROVE FALSE
      OBVIOUS
    <3>1. PICK r \in old : n = Became(r, s, feed)
      OBVIOUS
    <3>2. r \in ledger /\ r.source = s /\ r.model = m0 /\ n.id = r.id
      BY <1>3, <1>6, <3>1 DEF Entries
    <3>3. n.id = Cardinality(Entries(ledger, s, m0)) + 1
      BY <1>5, <1>6
    <3>4. r.id \in Nat /\ r.id <= Cardinality(Entries(ledger, s, m0)) /\ Cardinality(Entries(ledger, s, m0)) \in Nat
      BY <3>2, NumbersFit
    <3> HIDE DEF n
    <3> QED
      BY <3>2, <3>3, <3>4
  <2> HIDE DEF kept, n, old
  <2>3. IsFiniteSet(kept \cup {n}) /\ Cardinality(kept \cup {n}) = Cardinality(kept) + 1
    BY <1>4, <2>2, FS_AddElement
  <2>4. Cardinality(Entries(rows, s0, m0)) = Cardinality(old) + 1
    BY <1>4, <2>1, <2>3
  <2> QED
    BY <1>6, <2>1, <2>3, <2>4 DEF old
<1>7. CASE ~(s0 = s /\ m0 \in NewModels(s, feed))
  <2>1. Entries(rows, s0, m0) = kept
    <3>1. ASSUME NEW q \in Entries(rows, s0, m0) PROVE q \in kept
      <4>1. q \in rows /\ q.source = s0 /\ q.model = m0
        BY DEF Entries
      <4>2. CASE \E r \in ledger : q = Became(r, s, feed)
        BY <1>3, <4>1, <4>2 DEF Entries
      <4>3. ~ \E m \in NewModels(s, feed) : q = NewRow(s, feed, run, m)
        BY <1>5, <1>7, <4>1
      <4> QED
        BY <4>1, <4>2, <4>3, BookedParts
    <3>2. \A r \in old : Became(r, s, feed) \in Entries(rows, s0, m0)
      BY <1>3, BookedParts DEF Entries
    <3> QED
      BY <3>1, <3>2
  <2> HIDE DEF kept, old
  <2>2. Cardinality(Entries(rows, s0, m0)) = Cardinality(old)
    BY <1>4, <2>1
  <2> QED
    BY <1>4, <1>7, <2>1, <2>2 DEF old
<1> QED
  BY <1>6, <1>7
(* A booking leaves an orderly book, part by part. *)
LEMMA BookedBounds ==
    ASSUME PriceTypeOK, clock >= 1, Orderly(ledger, clock), NEW s \in SourceSet, NEW feed \in Feeds,
           NEW run \in Nat, NEW rows, BookedIs(rows, s, feed, run)
    PROVE  rows \subseteq LedgerRow /\ IsFiniteSet(rows) /\ Bounds(rows, clock)
<1>1. clock \in Nat /\ IsFiniteSet(ledger) /\ ledger \subseteq LedgerRow /\ Bounds(ledger, clock)
  BY DEF PriceTypeOK, Orderly
<1>2. \A r \in ledger : Became(r, s, feed) \in LedgerRow
  BY <1>1, AfterFields
<1>3. \A m \in NewModels(s, feed) : NewRow(s, feed, run, m) \in LedgerRow
  BY <1>1, NewRowFields
<1>4. rows \subseteq LedgerRow
  BY <1>2, <1>3, BookedParts
<1>5. IsFiniteSet(rows)
  <2> DEFINE kept == {Became(r, s, feed) : r \in ledger}
             f == [r \in ledger |-> Became(r, s, feed)]
             added == {NewRow(s, feed, run, m) : m \in NewModels(s, feed)}
             g == [m \in NewModels(s, feed) |-> NewRow(s, feed, run, m)]
  <2>1. IsFiniteSet(NewModels(s, feed))
    BY PriceConstantsOK, FS_Subset DEF NewModels, Listed
  <2>2. f \in Surjection(ledger, kept) /\ g \in Surjection(NewModels(s, feed), added)
    BY DEF Surjection
  <2>3. rows = kept \cup added
    BY DEF BookedIs
  <2> HIDE DEF kept, f, added, g
  <2>4. IsFiniteSet(kept)
    BY <1>1, <2>2, FS_Surjection
  <2>5. IsFiniteSet(added)
    BY <2>1, <2>2, FS_Surjection
  <2> QED
    BY <2>3, <2>4, <2>5, FS_Union
<1>6. ASSUME NEW r \in ledger
      PROVE  LET q == Became(r, s, feed) IN
             /\ q.id >= 1 /\ q.price \in Prices /\ q.from \in 1..clock /\ q.to \in 0..clock
             /\ Standing(q) \/ q.from <= q.to
  <2>1. /\ r.id >= 1 /\ r.price \in Prices /\ r.from \in 1..clock /\ r.to \in 0..clock
        /\ Standing(r) \/ r.from <= r.to
    BY <1>1 DEF Bounds
  <2>2. r \in LedgerRow
    BY <1>1
  <2>3. CASE Replaced(r, s, feed)
    BY <1>1, <2>1, <2>2, <2>3, AfterFields DEF Standing, Never
  <2>4. CASE ~Replaced(r, s, feed)
    BY <1>1, <2>1, <2>2, <2>4, AfterFields DEF Standing, Never
  <2> QED
    BY <2>3, <2>4
<1>7. ASSUME NEW m \in NewModels(s, feed)
      PROVE  LET q == NewRow(s, feed, run, m) IN
             /\ q.id >= 1 /\ q.price \in Prices /\ q.from \in 1..clock /\ q.to \in 0..clock
             /\ Standing(q) \/ q.from <= q.to
  <2>1. Cardinality(Entries(ledger, s, m)) \in Nat
    BY <1>1, FS_Subset, FS_CardinalityType DEF Entries
  <2>2. feed[m] \in Prices
    BY <1>1, NewRowFields
  <2> QED
    BY <1>1, <2>1, <2>2, NewRowFields DEF Standing, Never
<1> QED
  BY <1>4, <1>5, <1>6, <1>7, BookedParts DEF Bounds

LEMMA BookedChain ==
    ASSUME PriceTypeOK, clock >= 1, Orderly(ledger, clock), NEW s \in SourceSet, NEW feed \in Feeds,
           NEW run \in Nat, NEW rows, BookedIs(rows, s, feed, run)
    PROVE  Chain(rows)
<1>1. /\ clock \in Nat /\ IsFiniteSet(ledger) /\ ledger \subseteq LedgerRow
      /\ Bounds(ledger, clock) /\ Chain(ledger)
  BY DEF PriceTypeOK, Orderly
<1>2. \A r \in ledger : /\ Became(r, s, feed).id = r.id /\ Became(r, s, feed).source = r.source
                        /\ Became(r, s, feed).model = r.model /\ Became(r, s, feed).from = r.from
                        /\ Became(r, s, feed).to = IF Replaced(r, s, feed) THEN clock ELSE r.to
  BY <1>1, AfterFields
<1>3. \A m \in NewModels(s, feed) :
         /\ NewRow(s, feed, run, m).source = s /\ NewRow(s, feed, run, m).model = m
         /\ NewRow(s, feed, run, m).id = Cardinality(Entries(ledger, s, m)) + 1
         /\ NewRow(s, feed, run, m).from = clock
  BY <1>1, NewRowFields
<1>4. ASSUME NEW q \in rows, NEW p \in rows, SameHistory(q, p)
      PROVE  /\ q.id = p.id => q = p
             /\ q.id < p.id => ~Standing(q) /\ q.to <= p.from
  <2>1. ASSUME NEW r \in ledger, NEW o \in ledger, q = Became(r, s, feed), p = Became(o, s, feed)
        PROVE  /\ q.id = p.id => q = p
               /\ q.id < p.id => ~Standing(q) /\ q.to <= p.from
    <3>1. SameHistory(r, o)
      BY <1>2, <1>4, <2>1 DEF SameHistory
    <3>2. (r.id = o.id => r = o) /\ (r.id < o.id => ~Standing(r) /\ r.to <= o.from)
      BY <1>1, <3>1 DEF Chain
    <3>3. ~Standing(r) => q = r
      BY <2>1 DEF Became
    <3> QED
      BY <1>2, <2>1, <3>2, <3>3
  <2>2. ASSUME NEW r \in ledger, NEW m \in NewModels(s, feed), SameHistory(r, NewRow(s, feed, run, m))
        PROVE  /\ Became(r, s, feed).id < NewRow(s, feed, run, m).id
               /\ ~Standing(Became(r, s, feed)) /\ Became(r, s, feed).to <= clock
    <3>1. r.source = s /\ r.model = m
      BY <1>3, <2>2 DEF SameHistory
    <3>2. /\ r.id \in Nat /\ Cardinality(Entries(ledger, s, m)) \in Nat
          /\ r.id <= Cardinality(Entries(ledger, s, m))
      BY <3>1, NumbersFit
    <3>3. Became(r, s, feed).id < NewRow(s, feed, run, m).id
      BY <1>2, <1>3, <3>2
    <3>4. CASE Standing(r)
      <4>1. Replaced(r, s, feed)
        BY <3>1, <3>4, ReplacedIsNew
      <4>2. Became(r, s, feed).to = clock
        BY <1>2, <4>1
      <4> QED
        BY <1>1, <3>3, <4>2 DEF Standing, Never
    <3>5. CASE ~Standing(r)
      <4>1. Became(r, s, feed) = r
        BY <3>5 DEF Became
      <4>2. r.to \in 0..clock
        BY <1>1 DEF Bounds
      <4> QED
        BY <1>1, <3>3, <3>5, <4>1, <4>2
    <3> QED
      BY <3>4, <3>5
  <2>3. ASSUME NEW r \in ledger, NEW m \in NewModels(s, feed), q = Became(r, s, feed), p = NewRow(s, feed, run, m)
        PROVE  /\ q.id = p.id => q = p
               /\ q.id < p.id => ~Standing(q) /\ q.to <= p.from
    <3>1. SameHistory(r, p)
      BY <1>2, <1>4, <2>3 DEF SameHistory
    <3>2. q.id < p.id /\ ~Standing(q) /\ q.to <= p.from
      BY <1>3, <2>2, <2>3, <3>1
    <3>3. q.id \in Nat /\ p.id \in Nat
      BY BookedBounds DEF LedgerRow
    <3> QED
      BY <3>2, <3>3
  <2>4. ASSUME NEW r \in ledger, NEW m \in NewModels(s, feed), p = Became(r, s, feed), q = NewRow(s, feed, run, m)
        PROVE  /\ q.id = p.id => q = p
               /\ q.id < p.id => ~Standing(q) /\ q.to <= p.from
    <3>1. SameHistory(r, q)
      BY <1>2, <1>4, <2>4 DEF SameHistory
    <3>2. p.id < q.id
      BY <2>2, <2>4, <3>1
    <3>3. q.id \in Nat /\ p.id \in Nat
      BY BookedBounds DEF LedgerRow
    <3> QED
      BY <3>2, <3>3
  <2>5. ASSUME NEW m \in NewModels(s, feed), NEW n \in NewModels(s, feed),
               q = NewRow(s, feed, run, m), p = NewRow(s, feed, run, n)
        PROVE  q = p
    <3>1. m = n
      BY <1>3, <1>4, <2>5 DEF SameHistory
    <3> QED
      BY <2>5, <3>1
  <2>6. q.id \in Nat /\ p.id \in Nat
    BY BookedBounds DEF LedgerRow
  <2>7. q = p => ~(q.id < p.id)
    BY <2>6
  <2>8. CASE \E r \in ledger : q = Became(r, s, feed)
    BY <2>1, <2>3, <2>8, BookedParts
  <2>9. CASE \E m \in NewModels(s, feed) : q = NewRow(s, feed, run, m)
    <3>1. CASE \E r \in ledger : p = Became(r, s, feed)
      BY <2>4, <2>9, <3>1
    <3>2. CASE \E m \in NewModels(s, feed) : p = NewRow(s, feed, run, m)
      BY <2>5, <2>7, <2>9, <3>2
    <3> QED
      BY <3>1, <3>2, BookedParts
  <2> QED
    BY <2>8, <2>9, BookedParts
<1> QED
  BY <1>4 DEF Chain
LEMMA BookedEnds ==
    ASSUME PriceTypeOK, clock >= 1, Orderly(ledger, clock), NEW s \in SourceSet, NEW feed \in Feeds,
           NEW run \in Nat, NEW rows, BookedIs(rows, s, feed, run)
    PROVE  Ends(rows)
<1>1. /\ clock \in Nat /\ IsFiniteSet(ledger) /\ ledger \subseteq LedgerRow /\ Ends(ledger)
  BY DEF PriceTypeOK, Orderly
<1>2. \A r \in ledger : /\ Became(r, s, feed).id = r.id /\ Became(r, s, feed).source = r.source
                        /\ Became(r, s, feed).model = r.model
                        /\ Became(r, s, feed).to = IF Replaced(r, s, feed) THEN clock ELSE r.to
  BY <1>1, AfterFields
<1>3. \A m \in NewModels(s, feed) :
         /\ NewRow(s, feed, run, m).source = s /\ NewRow(s, feed, run, m).model = m
         /\ NewRow(s, feed, run, m).id = Cardinality(Entries(ledger, s, m)) + 1
         /\ Standing(NewRow(s, feed, run, m))
  BY <1>1, NewRowFields DEF Standing
<1>4. \A s0, m0 : Cardinality(Entries(rows, s0, m0)) =
                    IF s0 = s /\ m0 \in NewModels(s, feed) THEN Cardinality(Entries(ledger, s0, m0)) + 1
                    ELSE Cardinality(Entries(ledger, s0, m0))
  BY LengthsAfter
<1>5. ASSUME NEW r \in ledger, Standing(Became(r, s, feed))
      PROVE  Standing(r) /\ ~(r.source = s /\ r.model \in NewModels(s, feed))
  <2>1. ~Replaced(r, s, feed)
    BY <1>1, <1>2, <1>5 DEF Standing, Never
  <2>2. Standing(r)
    BY <1>2, <1>5, <2>1 DEF Standing
  <2> QED
    BY <2>1, <2>2, ReplacedIsNew
<1>6. ASSUME NEW r \in ledger
      PROVE  LET q == Became(r, s, feed) IN
             /\ Standing(q) => q.id = Cardinality(Entries(rows, q.source, q.model))
             /\ \E o \in rows : SameHistory(q, o) /\ Standing(o)
             /\ \E o \in rows : SameHistory(q, o) /\ o.id = 1
  <2>1. ASSUME Standing(Became(r, s, feed))
        PROVE  Became(r, s, feed).id = Cardinality(Entries(rows, r.source, r.model))
    <3>1. r.id = Cardinality(Entries(ledger, r.source, r.model))
      BY <1>1, <1>5, <2>1 DEF Ends
    <3> QED
      BY <1>2, <1>4, <1>5, <2>1, <3>1
  <2>2. PICK o \in ledger : SameHistory(r, o) /\ Standing(o)
    BY <1>1 DEF Ends
  <2>3. \E n \in rows : SameHistory(Became(r, s, feed), n) /\ Standing(n)
    <3>1. CASE Replaced(o, s, feed)
      <4>1. o.source = s /\ o.model \in NewModels(s, feed)
        BY <2>2, <3>1, ReplacedIsNew DEF Replaced
      <4> QED
        BY <1>2, <1>3, <2>2, <4>1, BookedParts DEF SameHistory
    <3>2. CASE ~Replaced(o, s, feed)
      BY <1>2, <2>2, <3>2, BookedParts DEF SameHistory, Standing
    <3> QED
      BY <3>1, <3>2
  <2>4. PICK f \in ledger : SameHistory(r, f) /\ f.id = 1
    BY <1>1 DEF Ends
  <2>5. SameHistory(Became(r, s, feed), Became(f, s, feed)) /\ Became(f, s, feed).id = 1
    BY <1>2, <2>4 DEF SameHistory
  <2> QED
    BY <1>2, <2>1, <2>3, <2>5, BookedParts
<1>7. ASSUME NEW m \in NewModels(s, feed)
      PROVE  LET q == NewRow(s, feed, run, m) IN
             /\ q.id = Cardinality(Entries(rows, q.source, q.model))
             /\ \E o \in rows : SameHistory(q, o) /\ Standing(o)
             /\ \E o \in rows : SameHistory(q, o) /\ o.id = 1
  <2> DEFINE q == NewRow(s, feed, run, m)
  <2>1. q \in rows /\ SameHistory(q, q) /\ Standing(q)
    BY <1>3, BookedParts DEF SameHistory
  <2>2. q.id = Cardinality(Entries(rows, s, m))
    BY <1>3, <1>4
  <2>3. \E o \in rows : SameHistory(q, o) /\ o.id = 1
    <3>1. CASE Entries(ledger, s, m) = {}
      <4>1. Cardinality(Entries(ledger, s, m)) = 0
        BY <3>1, FS_EmptySet
      <4>2. q.id = 1
        BY <1>3, <4>1
      <4> QED
        BY <2>1, <4>2
    <3>2. CASE Entries(ledger, s, m) # {}
      <4>1. PICK r \in ledger : r.source = s /\ r.model = m
        BY <3>2 DEF Entries
      <4>2. PICK f \in ledger : SameHistory(r, f) /\ f.id = 1
        BY <1>1 DEF Ends
      <4>3. SameHistory(q, Became(f, s, feed)) /\ Became(f, s, feed).id = 1
        BY <1>2, <1>3, <4>1, <4>2 DEF SameHistory
      <4> QED
        BY <4>3, BookedParts
    <3> QED
      BY <3>1, <3>2
  <2> QED
    BY <1>3, <2>1, <2>2, <2>3
<1> QED
  BY <1>6, <1>7, BookedParts DEF Ends

LEMMA BookedNoGap ==
    ASSUME PriceTypeOK, clock >= 1, Orderly(ledger, clock), NEW s \in SourceSet, NEW feed \in Feeds,
           NEW run \in Nat, NEW rows, BookedIs(rows, s, feed, run)
    PROVE  NoGap(rows)
<1>1. clock \in Nat /\ IsFiniteSet(ledger) /\ ledger \subseteq LedgerRow /\ NoGap(ledger)
  BY DEF PriceTypeOK, Orderly
<1>2. rows \subseteq LedgerRow /\ Bounds(rows, clock) /\ Ends(rows)
  BY BookedBounds, BookedEnds
<1>3. SUFFICES ASSUME NEW q \in rows, NEW t \in Nat, q.from <= t
               PROVE  \E o \in rows : SameHistory(q, o) /\ Covers(o, t)
  BY DEF NoGap
<1>4. CASE t >= clock
  <2>1. PICK o \in rows : SameHistory(q, o) /\ Standing(o)
    BY <1>2 DEF Ends
  <2>2. o.from <= t
    BY <1>1, <1>2, <1>4 DEF Bounds
  <2> QED
    BY <2>1, <2>2 DEF Covers
<1>5. CASE t < clock
  <2>1. ASSUME NEW m \in NewModels(s, feed) PROVE q # NewRow(s, feed, run, m)
    <3>1. NewRow(s, feed, run, m).from = clock
      BY <1>1, NewRowFields
    <3> QED
      BY <1>1, <1>3, <1>5, <3>1
  <2>2. PICK r \in ledger : q = Became(r, s, feed)
    BY <2>1, BookedParts
  <2>3. /\ q.source = r.source /\ q.model = r.model /\ q.from = r.from
    BY <1>1, <2>2, AfterFields
  <2>4. PICK o \in ledger : SameHistory(r, o) /\ Covers(o, t)
    BY <1>1, <1>3, <2>3 DEF NoGap
  <2> DEFINE n == Became(o, s, feed)
  <2>5. /\ n.source = o.source /\ n.model = o.model /\ n.from = o.from
        /\ n.to = IF Replaced(o, s, feed) THEN clock ELSE o.to
    BY <1>1, AfterFields
  <2>6. n \in rows
    BY BookedParts
  <2> HIDE DEF n
  <2>7. SameHistory(q, n) /\ Covers(n, t)
    BY <1>1, <1>5, <2>3, <2>4, <2>5 DEF SameHistory, Covers, Standing
  <2> QED
    BY <2>6, <2>7
<1> QED
  BY <1>1, <1>4, <1>5

LEMMA BookedOrderly ==
    ASSUME PriceTypeOK, clock >= 1, Orderly(ledger, clock), NEW s \in SourceSet, NEW feed \in Feeds,
           NEW run \in Nat, NEW rows, BookedIs(rows, s, feed, run)
    PROVE  Orderly(rows, clock)
BY BookedBounds, BookedChain, BookedEnds, BookedNoGap DEF Orderly
-------------------------------------------------------------------------------
(* The past. *)

(* An orderly book answers with the row that covers the instant, or, before *)
(* the first row of the history, with that one.                             *)
LEMMA Answers ==
    ASSUME NEW rows, NEW now, Orderly(rows, now), NEW s, NEW m, NEW t \in Nat
    PROVE  /\ Entries(rows, s, m) = {} => PriceAt(rows, s, m, t) = Unlisted
           /\ \A r \in Entries(rows, s, m) : Covers(r, t) => PriceAt(rows, s, m, t) = r.price
           /\ \A f \in Entries(rows, s, m) : f.id = 1 /\ t < f.from => PriceAt(rows, s, m, t) = f.price
<1> DEFINE own == Entries(rows, s, m)
           hit == {r \in own : Covers(r, t)}
<1>1. own = {} => PriceAt(rows, s, m, t) = Unlisted
  BY DEF PriceAt
<1>2. ASSUME NEW r \in own, Covers(r, t) PROVE PriceAt(rows, s, m, t) = r.price
  <2>1. \A o \in hit : o = r
    <3> SUFFICES ASSUME NEW o \in hit PROVE o = r
      OBVIOUS
    <3>1. o \in rows /\ r \in rows /\ SameHistory(o, r) /\ Covers(o, t)
      BY DEF Entries, SameHistory
    <3> QED
      BY <1>2, <3>1, OneCovers
  <2>2. r \in hit /\ hit \in SUBSET Entries(rows, s, m)
    BY <1>2
  <2>3. \A o \in hit : Before(r, o)
    BY <2>1, <2>2 DEF Before, Entries, Orderly, LedgerRow
  <2>4. FirstRow(hit) = r
    <3> HIDE DEF hit
    <3> QED
      BY <2>2, <2>3, FirstRowIs
  <2> QED
    BY <2>2, <2>4 DEF PriceAt
<1>3. ASSUME NEW f \in own, f.id = 1, t < f.from PROVE PriceAt(rows, s, m, t) = f.price
  <2>1. f \in rows /\ f.source = s /\ f.model = m
    BY DEF Entries
  <2>2. \A o \in own : Before(f, o)
    BY <1>3, <2>1, FirstIsFirst DEF Entries, SameHistory
  <2>3. FirstRow(own) = f
    <3>1. own \in SUBSET Entries(rows, s, m)
      OBVIOUS
    <3> HIDE DEF own
    <3> QED
      BY <1>3, <2>2, <3>1, FirstRowIs
  <2>4. hit = {}
    <3> SUFFICES ASSUME NEW o \in hit PROVE FALSE
      OBVIOUS
    <3>1. o \in rows /\ Before(f, o) /\ Covers(o, t)
      BY <2>2 DEF Entries
    <3>2. o.from \in Nat /\ f.from \in Nat
      BY <2>1, <3>1 DEF Orderly, LedgerRow
    <3> QED
      BY <1>3, <3>1, <3>2 DEF Before, Covers
  <2> QED
    BY <1>3, <2>3, <2>4 DEF PriceAt
<1> QED
  BY <1>1, <1>2, <1>3

(* A booking changes no answer about an instant before it. *)
LEMMA BookedPast ==
    ASSUME PriceTypeOK, clock >= 1, Orderly(ledger, clock), NEW s \in SourceSet, NEW feed \in Feeds,
           NEW run \in Nat, NEW rows, BookedIs(rows, s, feed, run),
           NEW s0, NEW m0, NEW t \in 1..(clock - 1), PriceAt(ledger, s0, m0, t) # Unlisted
    PROVE  PriceAt(rows, s0, m0, t) = PriceAt(ledger, s0, m0, t)
<1>1. clock \in Nat /\ IsFiniteSet(ledger) /\ ledger \subseteq LedgerRow /\ t \in Nat /\ t < clock
  BY DEF PriceTypeOK, Orderly
<1>2. Orderly(rows, clock)
  BY BookedOrderly
<1>3. Entries(ledger, s0, m0) # {}
  BY <1>1, Answers
<1>4. PICK f \in Entries(ledger, s0, m0) :
         f.id = 1 /\ FirstRow(Entries(ledger, s0, m0)) = f
  BY <1>3, HistoryStarts
<1>5. ASSUME NEW r \in Entries(ledger, s0, m0)
      PROVE  /\ Became(r, s, feed) \in Entries(rows, s0, m0)
             /\ Became(r, s, feed).id = r.id /\ Became(r, s, feed).from = r.from
             /\ Became(r, s, feed).price = r.price
             /\ Became(r, s, feed).to = IF Replaced(r, s, feed) THEN clock ELSE r.to
  <2>1. r \in ledger /\ r \in LedgerRow /\ r.source = s0 /\ r.model = m0
    BY <1>1 DEF Entries
  <2> QED
    BY <1>1, <2>1, AfterFields, BookedParts DEF Entries
<1>6. CASE t < f.from
  <2>1. PriceAt(ledger, s0, m0, t) = f.price
    BY <1>1, <1>4, <1>6, Answers
  <2>2. PriceAt(rows, s0, m0, t) = Became(f, s, feed).price
    BY <1>1, <1>2, <1>4, <1>5, <1>6, Answers
  <2> QED
    BY <1>5, <2>1, <2>2
<1>7. CASE ~(t < f.from)
  <2>1. f \in ledger /\ f.from \in Nat
    BY <1>1 DEF Entries, LedgerRow
  <2>2. t >= FirstRow(Entries(ledger, s0, m0)).from
    BY <1>1, <1>4, <1>7, <2>1
  <2>3. PICK r \in Entries(ledger, s0, m0) : {o \in Entries(ledger, s0, m0) : Covers(o, t)} = {r}
    BY <1>1, <1>3, <2>2, Tiles
  <2>4. Covers(r, t)
    BY <2>3
  <2>5. PriceAt(ledger, s0, m0, t) = r.price
    BY <1>1, <2>4, Answers
  <2> DEFINE n == Became(r, s, feed)
  <2>6. n \in Entries(rows, s0, m0) /\ n.price = r.price
    BY <1>5
  <2>7. Covers(n, t)
    <3>1. r.from \in Nat /\ r.to \in Nat
      BY <1>1 DEF Entries, LedgerRow
    <3>2. n.from = r.from /\ n.to = IF Replaced(r, s, feed) THEN clock ELSE r.to
      BY <1>5
    <3> HIDE DEF n
    <3> QED
      BY <1>1, <2>4, <3>1, <3>2 DEF Covers, Standing
  <2> HIDE DEF n
  <2>8. PriceAt(rows, s0, m0, t) = n.price
    BY <1>1, <1>2, <2>6, <2>7, Answers
  <2> QED
    BY <2>5, <2>6, <2>8
<1> QED
  BY <1>6, <1>7
-------------------------------------------------------------------------------
(* The register. *)

(* What the booking counts as changed. *)
ChangedRows(s, feed) == {r \in Open(ledger, s) : feed[r.model] \notin {Unlisted, r.price}}

(* The models given a row are those the oracle had no standing row for, and *)
(* one for each changed row.                                                *)
LEMMA CountedModels ==
    ASSUME PriceTypeOK, Orderly(ledger, clock), NEW s \in SourceSet, NEW feed \in Feeds
    PROVE  /\ IsFiniteSet(NewModels(s, feed))
           /\ Cardinality(Unknown(Open(ledger, s), feed)) \in Nat
           /\ Cardinality(ChangedRows(s, feed)) \in Nat
           /\ Cardinality(NewModels(s, feed)) =
                Cardinality(Unknown(Open(ledger, s), feed)) + Cardinality(ChangedRows(s, feed))
<1> DEFINE new == NewModels(s, feed)
           fresh == Unknown(Open(ledger, s), feed)
           changed == ChangedRows(s, feed)
           renewed == {m \in new : \E r \in changed : r.model = m}
           f == [r \in changed |-> r.model]
<1>1. IsFiniteSet(new) /\ IsFiniteSet(fresh) /\ IsFiniteSet(renewed)
  BY PriceConstantsOK, FS_Subset DEF NewModels, Listed, Unknown
<1>2. IsFiniteSet(changed)
  BY FS_Subset DEF ChangedRows, Open, Orderly
<1>3. ASSUME NEW r \in changed
      PROVE  /\ r \in ledger /\ r.source = s /\ Standing(r) /\ r.model \in new /\ r.model \in Models
             /\ \A o \in changed : o.model = r.model => o = r
  <2>1. r \in ledger /\ r.source = s /\ Standing(r) /\ Replaced(r, s, feed)
    BY DEF ChangedRows, Open, Replaced
  <2>2. r.model \in new
    BY <2>1, ReplacedIsNew
  <2>3. ASSUME NEW o \in changed, o.model = r.model PROVE o = r
    <3>1. o \in ledger /\ SameHistory(o, r) /\ Standing(o)
      BY <2>1, <2>3 DEF ChangedRows, Open, SameHistory
    <3> QED
      BY <2>1, <3>1, StandingIsLast
  <2>4. r.model \in Models
    BY <2>1 DEF PriceTypeOK, LedgerRow
  <2> QED
    BY <2>1, <2>2, <2>3, <2>4
<1>4. Cardinality(renewed) = Cardinality(changed)
  <2>1. f \in [changed -> renewed]
    BY <1>3
  <2>2. \A m \in renewed : \E r \in changed : f[r] = m
    OBVIOUS
  <2>3. \A r, o \in changed : f[r] = f[o] => r = o
    BY <1>3
  <2> HIDE DEF changed, renewed, f
  <2> QED
    BY <1>2, <2>1, <2>2, <2>3, AsMany
<1>5. new = fresh \cup renewed
  <2>1. fresh \subseteq new
    BY DEF NewModels, Unknown, Open
  <2>2. ASSUME NEW m \in new, m \notin fresh PROVE m \in renewed
    <3>1. PICK r \in Open(ledger, s) : r.model = m
      BY <2>2 DEF NewModels, Unknown
    <3>2. r \in ledger /\ r.source = s /\ Standing(r)
      BY <3>1 DEF Open
    <3>3. Replaced(r, s, feed)
      BY <3>1, <3>2, ReplacedIsNew
    <3> QED
      BY <3>1, <3>3 DEF ChangedRows, Replaced
  <2> QED
    BY <2>1, <2>2
<1>6. fresh \cap renewed = {}
  BY DEF Unknown, ChangedRows
<1> HIDE DEF new, fresh, changed, renewed
<1>7. Cardinality(new) = Cardinality(fresh) + Cardinality(renewed) - Cardinality(fresh \cap renewed)
  BY <1>1, <1>5, FS_Union
<1>8. Cardinality(fresh \cap renewed) = 0
  BY <1>6, FS_EmptySet
<1>9. Cardinality(fresh) \in Nat /\ Cardinality(changed) \in Nat
  BY <1>1, <1>2, FS_CardinalityType
<1>10. Cardinality(new) = Cardinality(fresh) + Cardinality(changed)
  BY <1>4, <1>7, <1>8, <1>9
<1> QED
  BY <1>1, <1>9, <1>10 DEF new, fresh, changed

(* A booking writes its entry's counts, and the rows it adds are those. *)
LEMMA BookedAccounts ==
    ASSUME PriceTypeOK, clock >= 1, Orderly(ledger, clock), Accounts(ledger, register),
           NEW s \in SourceSet, NEW feed \in Feeds, NEW run \in DOMAIN register,
           ~register[run].ok, NEW rows, BookedIs(rows, s, feed, run),
           NEW q \in Run, q.source = s, q.ok, q.added = Cardinality(Unknown(Open(ledger, s), feed)),
           q.changed = Cardinality(ChangedRows(s, feed))
    PROVE  Accounts(rows, [register EXCEPT ![run] = q])
<1> DEFINE runs == [register EXCEPT ![run] = q]
<1>1. /\ clock \in Nat /\ IsFiniteSet(ledger) /\ ledger \subseteq LedgerRow /\ register \in Seq(Run)
      /\ run \in Nat
  BY DEF PriceTypeOK, Orderly
<1>2. DOMAIN runs = DOMAIN register /\ runs[run] = q /\ \A i \in DOMAIN register \ {run} : runs[i] = register[i]
  BY <1>1
<1>3. \A r \in ledger : /\ Became(r, s, feed).run = r.run /\ Became(r, s, feed).source = r.source
                        /\ Became(r, s, feed).id = r.id /\ Became(r, s, feed).model = r.model
  BY <1>1, AfterFields
<1>4. \A m \in NewModels(s, feed) :
         NewRow(s, feed, run, m).run = run /\ NewRow(s, feed, run, m).source = s /\ NewRow(s, feed, run, m).model = m
  BY <1>1, NewRowFields
<1>5. \A r \in ledger : r.run # run /\ r.run \in DOMAIN register
  BY DEF Accounts
<1> HIDE DEF runs
<1>6. \A r \in rows : r.run \in DOMAIN runs
  BY <1>2, <1>3, <1>4, <1>5, BookedParts
<1>7. ASSUME NEW i \in DOMAIN register, i # run
      PROVE  /\ \A r \in rows : r.run = i => r.source = runs[i].source
             /\ Cardinality({r \in rows : r.run = i}) = runs[i].added + runs[i].changed
             /\ ~runs[i].ok => {r \in rows : r.run = i} = {}
  <2> DEFINE old == {r \in ledger : r.run = i}
             now == {r \in rows : r.run = i}
             f == [r \in old |-> Became(r, s, feed)]
  <2>1. \A r \in old : Became(r, s, feed) \in now
    BY <1>3, BookedParts
  <2>2. \A r \in now : \E o \in old : r = Became(o, s, feed)
    BY <1>3, <1>4, <1>7, BookedParts
  <2>3. \A r, o \in old : Became(r, s, feed) = Became(o, s, feed) => r = o
    <3> SUFFICES ASSUME NEW r \in old, NEW o \in old, Became(r, s, feed) = Became(o, s, feed) PROVE r = o
      OBVIOUS
    <3>1. r \in ledger /\ o \in ledger /\ r.id = o.id /\ SameHistory(r, o)
      BY <1>3 DEF SameHistory
    <3> QED
      BY <3>1 DEF Orderly, Chain
  <2>4. f \in [old -> now] /\ (\A r \in now : \E o \in old : f[o] = r) /\ \A r, o \in old : f[r] = f[o] => r = o
    BY <2>1, <2>2, <2>3
  <2>5. IsFiniteSet(old)
    BY <1>1, FS_Subset
  <2>7. /\ \A r \in old : r.source = register[i].source
        /\ Cardinality(old) = register[i].added + register[i].changed
        /\ ~register[i].ok => old = {}
    BY DEF Accounts
  <2>8. \A r \in now : r.source = register[i].source
    BY <1>3, <2>2, <2>7
  <2>9. ~register[i].ok => now = {}
    BY <2>2, <2>7
  <2>10. Cardinality(now) = Cardinality(old)
    <3> HIDE DEF old, now, f
    <3> QED
      BY <2>4, <2>5, AsMany
  <2>11. runs[i] = register[i]
    BY <1>2, <1>7
  <2> QED
    BY <2>7, <2>8, <2>9, <2>10, <2>11
<1>8. /\ \A r \in rows : r.run = run => r.source = q.source
      /\ Cardinality({r \in rows : r.run = run}) = q.added + q.changed
  <2> DEFINE new == NewModels(s, feed)
             now == {r \in rows : r.run = run}
             f == [m \in new |-> NewRow(s, feed, run, m)]
  <2>1. \A m \in new : NewRow(s, feed, run, m) \in now
    BY <1>4, BookedParts
  <2>2. \A r \in now : \E m \in new : r = NewRow(s, feed, run, m)
    BY <1>3, <1>5, BookedParts
  <2>3. \A m, n \in new : NewRow(s, feed, run, m) = NewRow(s, feed, run, n) => m = n
    BY <1>4
  <2>4. f \in [new -> now] /\ (\A r \in now : \E m \in new : f[m] = r) /\ \A m, n \in new : f[m] = f[n] => m = n
    BY <2>1, <2>2, <2>3
  <2>6. /\ IsFiniteSet(new)
        /\ Cardinality(new) = Cardinality(Unknown(Open(ledger, s), feed)) + Cardinality(ChangedRows(s, feed))
    BY CountedModels
  <2>7. \A r \in now : r.source = q.source
    BY <1>4, <2>2
  <2>8. Cardinality(now) = Cardinality(new)
    <3> HIDE DEF new, now, f
    <3> QED
      BY <2>4, <2>6, AsMany
  <2> QED
    BY <2>6, <2>7, <2>8
<1>9. ASSUME NEW i \in DOMAIN runs
      PROVE  /\ \A r \in rows : r.run = i => r.source = runs[i].source
             /\ Cardinality({r \in rows : r.run = i}) = runs[i].added + runs[i].changed
             /\ ~runs[i].ok => {r \in rows : r.run = i} = {}
  <2>1. CASE i = run
    <3>1. runs[i] = q /\ q.ok
      BY <1>2, <2>1
    <3>2. /\ \A r \in rows : r.run = i => r.source = q.source
          /\ Cardinality({r \in rows : r.run = i}) = q.added + q.changed
      BY <1>8, <2>1
    <3> QED
      BY <3>1, <3>2
  <2>2. CASE i # run
    <3>1. i \in DOMAIN register
      BY <1>2
    <3> QED
      BY <1>7, <2>2, <3>1
  <2> QED
    BY <2>1, <2>2
<1>10. Accounts(rows, runs)
  BY <1>6, <1>9 DEF Accounts
<1> QED
  BY <1>10 DEF runs
-------------------------------------------------------------------------------
(* Syncs and their entries. *)

LEMMA SourcesKnown ==
    /\ Sources \in Seq(SourceSet) /\ Sources[1] \in SourceSet /\ Tail(Sources) \in Seq(SourceSet)
    /\ NoFeed \in Feeds
<1>1. Sources \in Seq(SourceSet) /\ Sources # <<>>
  BY PriceConstantsOK
<1>2. Len(Sources) \in Nat /\ Len(Sources) # 0
  BY <1>1
<1>3. 1 \in 1..Len(Sources)
  BY <1>2
<1>4. Sources[1] \in SourceSet
  BY <1>1, <1>3
<1>5. Tail(Sources) \in Seq(SourceSet)
  BY <1>1
<1>6. NoFeed \in Feeds
  BY DEF NoFeed, Feeds
<1> QED
  BY <1>1, <1>4, <1>5, <1>6

LEMMA NoSyncType == NoSync \in SyncRec
BY SourcesKnown, EmptySeq DEF NoSync, SyncRec

(* A sync opens an entry of the register. *)
LEMMA Begins ==
    ASSUME NEW syncs \in [Syncs -> SyncRec], NEW runs \in Seq(Run), NEW rows,
           Underway(syncs, runs), Accounts(rows, runs),
           NEW x \in Syncs, syncs[x].at = "idle", NEW rec \in SyncRec, rec.run = Len(runs) + 1,
           rec.source \in SourceSet
    PROVE  LET next == Append(runs, NewRun(rec.source)) IN
           /\ next \in Seq(Run) /\ [syncs EXCEPT ![x] = rec] \in [Syncs -> SyncRec]
           /\ Underway([syncs EXCEPT ![x] = rec], next) /\ Accounts(rows, next)
<1> DEFINE n == NewRun(rec.source)
           next == Append(runs, n)
           now == [syncs EXCEPT ![x] = rec]
<1>1. n \in Run /\ n.source = rec.source /\ ~n.ok /\ n.added = 0 /\ n.changed = 0
  BY DEF NewRun, Run
<1> HIDE DEF n
<1>2. /\ next \in Seq(Run) /\ DOMAIN next = DOMAIN runs \cup {Len(runs) + 1}
      /\ DOMAIN runs = 1..Len(runs) /\ Len(runs) \in Nat
      /\ next[Len(runs) + 1] = n /\ \A i \in DOMAIN runs : next[i] = runs[i]
  BY <1>1
<1>3. now \in [Syncs -> SyncRec] /\ now[x] = rec /\ \A y \in Syncs \ {x} : now[y] = syncs[y]
  OBVIOUS
<1> HIDE DEF next, now
<1>4. ASSUME NEW y \in Syncs, now[y].at # "idle"
      PROVE  /\ now[y].run \in DOMAIN next /\ next[now[y].run].source = now[y].source /\ ~next[now[y].run].ok
             /\ y = x \/ (now[y].run \in DOMAIN runs /\ now[y] = syncs[y])
  <2>1. CASE y = x
    BY <1>1, <1>2, <1>3, <2>1
  <2>2. CASE y # x
    <3>1. now[y] = syncs[y]
      BY <1>3, <2>2
    <3>2. syncs[y].run \in DOMAIN runs /\ runs[syncs[y].run].source = syncs[y].source /\ ~runs[syncs[y].run].ok
      BY <1>4, <3>1 DEF Underway
    <3> QED
      BY <1>2, <3>1, <3>2
  <2> QED
    BY <2>1, <2>2
<1>5. ASSUME NEW y \in Syncs, NEW z \in Syncs, now[y].at # "idle", now[z].at # "idle", now[z].run = now[y].run
      PROVE  z = y
  <2>1. Len(runs) + 1 \notin DOMAIN runs
    BY <1>2
  <2>2. (y = x => now[y].run \notin DOMAIN runs) /\ (z = x => now[z].run \notin DOMAIN runs)
    BY <1>3, <2>1
  <2>3. CASE y = x \/ z = x
    BY <1>4, <1>5, <2>2, <2>3
  <2>4. CASE y # x /\ z # x
    BY <1>3, <1>5, <2>4 DEF Underway
  <2> QED
    BY <2>3, <2>4
<1>6. Underway(now, next)
  BY <1>4, <1>5 DEF Underway
<1>7. \A r \in rows : r.run \in DOMAIN runs
  BY DEF Accounts
<1>8. ASSUME NEW i \in DOMAIN next
      PROVE  /\ \A r \in rows : r.run = i => r.source = next[i].source
             /\ Cardinality({r \in rows : r.run = i}) = next[i].added + next[i].changed
             /\ ~next[i].ok => {r \in rows : r.run = i} = {}
  <2>1. CASE i = Len(runs) + 1
    <3>1. {r \in rows : r.run = i} = {}
      BY <1>2, <1>7, <2>1
    <3>2. Cardinality({r \in rows : r.run = i}) = 0
      BY <3>1, FS_EmptySet
    <3>3. next[i].added + next[i].changed = 0
      BY <1>1, <1>2, <2>1
    <3>4. \A r \in rows : r.run # i
      BY <3>1
    <3> QED
      BY <3>1, <3>2, <3>3, <3>4
  <2>2. CASE i # Len(runs) + 1
    <3>1. i \in DOMAIN runs /\ next[i] = runs[i]
      BY <1>2, <2>2
    <3>2. /\ \A r \in rows : r.run = i => r.source = runs[i].source
          /\ Cardinality({r \in rows : r.run = i}) = runs[i].added + runs[i].changed
          /\ ~runs[i].ok => {r \in rows : r.run = i} = {}
      BY <3>1 DEF Accounts
    <3> QED
      BY <3>1, <3>2
  <2> QED
    BY <2>1, <2>2
<1>9. Accounts(rows, next)
  BY <1>2, <1>7, <1>8 DEF Accounts
<1> QED
  BY <1>2, <1>3, <1>6, <1>9 DEF next, now, n

(* A sync's turn at an oracle ends: its entry is closed, the others' stand. *)
LEMMA Finishes ==
    ASSUME PriceTypeOK, Underway(sync, register), NEW x \in Syncs, sync[x].at # "idle",
           NEW q \in Run
    PROVE  LET runs == [register EXCEPT ![sync[x].run] = q] IN
           /\ runs \in Seq(Run) /\ Len(runs) = Len(register)
           /\ [sync EXCEPT ![x] = NoSync] \in [Syncs -> SyncRec]
           /\ Underway([sync EXCEPT ![x] = NoSync], runs)
<1> DEFINE runs == [register EXCEPT ![sync[x].run] = q]
           now == [sync EXCEPT ![x] = NoSync]
<1>1. register \in Seq(Run) /\ sync \in [Syncs -> SyncRec] /\ sync[x].run \in DOMAIN register
  BY DEF PriceTypeOK, SyncRec, Underway
<1>2. runs \in Seq(Run) /\ Len(runs) = Len(register)
  BY <1>1
<1>3. DOMAIN runs = DOMAIN register /\ \A i \in DOMAIN register \ {sync[x].run} : runs[i] = register[i]
  BY <1>1
<1>4. now \in [Syncs -> SyncRec] /\ now[x].at = "idle" /\ \A y \in Syncs \ {x} : now[y] = sync[y]
  BY <1>1, NoSyncType DEF NoSync
<1> HIDE DEF runs, now
<1>5. Underway(now, runs)
  <2> SUFFICES ASSUME NEW y \in Syncs, now[y].at # "idle"
               PROVE  /\ now[y].run \in DOMAIN runs /\ runs[now[y].run].source = now[y].source
                      /\ ~runs[now[y].run].ok
                      /\ \A z \in Syncs : now[z].at # "idle" /\ now[z].run = now[y].run => z = y
    BY DEF Underway
  <2>1. y # x /\ now[y] = sync[y]
    BY <1>4
  <2>2. sync[y].run # sync[x].run /\ sync[y].run \in DOMAIN register
    BY <2>1 DEF Underway
  <2>3. runs[sync[y].run] = register[sync[y].run]
    BY <1>3, <2>2
  <2>4. register[sync[y].run].source = sync[y].source /\ ~register[sync[y].run].ok
    BY <2>1 DEF Underway
  <2>5. \A z \in Syncs : now[z].at # "idle" /\ now[z].run = now[y].run => z = y
    BY <1>4, <2>1 DEF Underway
  <2> QED
    BY <1>3, <2>1, <2>2, <2>3, <2>4, <2>5
<1> QED
  BY <1>2, <1>4, <1>5 DEF runs, now
(* The first step of a sync, and the one that ends a turn. *)
LEMMA Starts ==
    ASSUME PriceInv, NEW x \in Syncs, NEW by \in Servers \cup {"script"}, NEW boot \in BOOLEAN,
           Started(x, by, boot)
    PROVE  /\ register' \in Seq(Run) /\ sync' \in [Syncs -> SyncRec]
           /\ Underway(sync', register') /\ Accounts(ledger, register')
<1> DEFINE rec == [at |-> "fetch", by |-> by, boot |-> boot, source |-> Sources[1],
                   todo |-> Tail(Sources), run |-> Len(register) + 1, feed |-> NoFeed]
<1>1. /\ sync \in [Syncs -> SyncRec] /\ register \in Seq(Run) /\ Len(register) \in Nat
      /\ Underway(sync, register) /\ Accounts(ledger, register) /\ sync[x].at = "idle"
  BY DEF PriceInv, PriceTypeOK, SyncRec, Started
<1>2. rec \in SyncRec /\ rec.at # "idle" /\ rec.run = Len(register) + 1 /\ rec.source = Sources[1]
      /\ rec.source \in SourceSet
  BY <1>1, SourcesKnown DEF SyncRec
<1>3. register' = Append(register, NewRun(rec.source)) /\ sync' = [sync EXCEPT ![x] = rec]
  BY DEF Started
<1> HIDE DEF rec
<1> QED
  BY <1>1, <1>2, <1>3, Begins

LEMMA TurnEnds ==
    ASSUME PriceInv, NEW x \in Syncs, sync[x].at # "idle", NEW q \in Run, NEW rows,
           Accounts(rows, [register EXCEPT ![sync[x].run] = q]),
           Continued(x, [register EXCEPT ![sync[x].run] = q], rows)
    PROVE  /\ register' \in Seq(Run) /\ sync' \in [Syncs -> SyncRec] /\ bootstrapping' \in BOOLEAN
           /\ Underway(sync', register') /\ Accounts(rows, register')
           /\ book' = [p \in Servers |-> book'[p]]
           /\ \A p \in Servers : book'[p] = book[p] \/ book'[p] = rows
<1> DEFINE runs == [register EXCEPT ![sync[x].run] = q]
           done == [sync EXCEPT ![x] = NoSync]
           rec == [sync[x] EXCEPT !.at = "fetch", !.source = Head(sync[x].todo),
                                  !.todo = Tail(sync[x].todo), !.run = Len(runs) + 1, !.feed = NoFeed]
<1>1. /\ sync \in [Syncs -> SyncRec] /\ register \in Seq(Run) /\ bootstrapping \in BOOLEAN
      /\ book = [p \in Servers |-> book[p]]
  BY DEF PriceInv, PriceTypeOK, SyncRec
<1>2. /\ runs \in Seq(Run) /\ done \in [Syncs -> SyncRec] /\ Underway(done, runs) /\ Accounts(rows, runs)
  BY Finishes DEF PriceInv
<1>3. CASE sync[x].todo # <<>>
  <2>1. /\ register' = Append(runs, NewRun(Head(sync[x].todo))) /\ sync' = [sync EXCEPT ![x] = rec]
        /\ book' = book /\ bootstrapping' = bootstrapping
    BY <1>3 DEF Continued
  <2>2. sync[x] \in SyncRec /\ sync[x].todo \in Seq(SourceSet)
    BY <1>1 DEF SyncRec
  <2>3. Head(sync[x].todo) \in SourceSet /\ Tail(sync[x].todo) \in Seq(SourceSet) /\ Len(runs) + 1 \in Nat
    BY <1>2, <1>3, <2>2
  <2>4. rec \in SyncRec /\ rec.at # "idle" /\ rec.run = Len(runs) + 1 /\ rec.source = Head(sync[x].todo)
    <3> HIDE DEF runs
    <3> QED
      BY <2>2, <2>3, SourcesKnown DEF SyncRec
  <2>5. done[x].at = "idle" /\ [done EXCEPT ![x] = rec] = [sync EXCEPT ![x] = rec]
    BY <1>1 DEF NoSync
  <2> HIDE DEF runs, done, rec
  <2>6. register' = Append(runs, NewRun(rec.source)) /\ sync' = [done EXCEPT ![x] = rec]
    BY <2>1, <2>4, <2>5
  <2>7. rec.source \in SourceSet
    BY <2>3, <2>4
  <2>8. /\ register' \in Seq(Run) /\ sync' \in [Syncs -> SyncRec]
        /\ Underway(sync', register') /\ Accounts(rows, register')
    BY <1>2, <2>4, <2>5, <2>6, <2>7, Begins
  <2> QED
    BY <1>1, <2>1, <2>8
<1>4. CASE sync[x].todo = <<>>
  <2>1. /\ register' = runs /\ sync' = done
        /\ book' = [p \in Servers |-> IF p = sync[x].by THEN rows ELSE book[p]]
        /\ bootstrapping' = (bootstrapping /\ ~sync[x].boot)
    BY <1>4 DEF Continued
  <2>2. /\ bootstrapping' \in BOOLEAN /\ book' = [p \in Servers |-> book'[p]]
        /\ \A p \in Servers : book'[p] = book[p] \/ book'[p] = rows
    BY <2>1
  <2> HIDE DEF runs, done
  <2> QED
    BY <1>2, <2>1, <2>2
<1> QED
  BY <1>3, <1>4

(* An entry that failed still accounts for the book. *)
LEMMA FailedAccounts ==
    ASSUME PriceTypeOK, Accounts(ledger, register), NEW i \in DOMAIN register
    PROVE  LET q == [register[i] EXCEPT !.done = TRUE] IN
           /\ q \in Run /\ [register EXCEPT ![i].done = TRUE] = [register EXCEPT ![i] = q]
           /\ Accounts(ledger, [register EXCEPT ![i] = q])
<1> DEFINE q == [register[i] EXCEPT !.done = TRUE]
           runs == [register EXCEPT ![i] = q]
<1>1. register \in Seq(Run) /\ register[i] \in Run
  BY DEF PriceTypeOK
<1>2. /\ q \in Run /\ q.source = register[i].source /\ q.ok = register[i].ok
      /\ q.added = register[i].added /\ q.changed = register[i].changed
  BY <1>1 DEF Run
<1>3. [register EXCEPT ![i].done = TRUE] = runs
  BY <1>1
<1> HIDE DEF q
<1>4. DOMAIN runs = DOMAIN register /\ runs[i] = q /\ \A j \in DOMAIN register \ {i} : runs[j] = register[j]
  BY <1>1
<1> HIDE DEF runs
<1>5. ASSUME NEW j \in DOMAIN register
      PROVE  /\ runs[j].source = register[j].source /\ runs[j].ok = register[j].ok
             /\ runs[j].added = register[j].added /\ runs[j].changed = register[j].changed
  BY <1>2, <1>4
<1>6. ASSUME NEW j \in DOMAIN register
      PROVE  /\ \A r \in ledger : r.run = j => r.source = runs[j].source
             /\ Cardinality({r \in ledger : r.run = j}) = runs[j].added + runs[j].changed
             /\ ~runs[j].ok => {r \in ledger : r.run = j} = {}
  <2>1. /\ \A r \in ledger : r.run = j => r.source = register[j].source
        /\ Cardinality({r \in ledger : r.run = j}) = register[j].added + register[j].changed
        /\ ~register[j].ok => {r \in ledger : r.run = j} = {}
    BY DEF Accounts
  <2> QED
    BY <1>5, <2>1
<1>7. Accounts(ledger, runs)
  BY <1>4, <1>6 DEF Accounts
<1> QED
  BY <1>2, <1>3, <1>7 DEF runs, q
-------------------------------------------------------------------------------
(* Every step keeps the invariant. *)

(* Servers that keep their copy, lose it or take the ledger's hold copies. *)
LEMMA CopiesStay ==
    ASSUME NEW books, NEW later, NEW old, NEW rows, Copies(books, old), Ends(rows),
           \A r \in old : \E o \in rows : SameHistory(r, o),
           \A p \in Servers : later[p] = books[p] \/ later[p] = rows \/ later[p] = {}
    PROVE  Copies(later, rows)
<1> SUFFICES ASSUME NEW p \in Servers, NEW r \in later[p]
             PROVE  /\ \E o \in rows : SameHistory(r, o)
                    /\ \E o \in later[p] : SameHistory(r, o) /\ Standing(o)
  BY DEF Copies
<1>1. CASE later[p] = books[p]
  <2>1. PICK o \in old : SameHistory(r, o)
    BY <1>1 DEF Copies
  <2>2. PICK n \in rows : SameHistory(o, n)
    BY <2>1
  <2>3. SameHistory(r, n)
    BY <2>1, <2>2 DEF SameHistory
  <2>4. \E c \in books[p] : SameHistory(r, c) /\ Standing(c)
    BY <1>1 DEF Copies
  <2> QED
    BY <1>1, <2>3, <2>4
<1>2. CASE later[p] = rows
  <2>1. \E o \in rows : SameHistory(r, o) /\ Standing(o)
    BY <1>2 DEF Ends
  <2> QED
    BY <1>2, <2>1
<1> QED
  BY <1>1, <1>2

(* A step that leaves the ledger and the clock alone. *)
LEMMA Kept ==
    ASSUME PriceInv, clock' = clock, ledger' = ledger, booked' = booked,
           upstream' \in [SourceSet -> Feeds], shifts' \in Nat,
           register' \in Seq(Run), sync' \in [Syncs -> SyncRec],
           Underway(sync', register'), Accounts(ledger, register'),
           book' = [p \in Servers |-> book'[p]],
           \A p \in Servers : book'[p] = book[p] \/ book'[p] = ledger \/ book'[p] = {},
           bootstrapping' \in BOOLEAN, kicked' \in BOOLEAN, lastUnpriced' \in Nat
    PROVE  PriceInv'
<1>1. Ends(ledger)
  BY DEF PriceInv, Orderly
<1>2. \A r \in ledger : SameHistory(r, r)
  BY DEF SameHistory
<1>3. Copies(book', ledger')
  BY <1>1, <1>2, CopiesStay DEF PriceInv
<1>4. book' \in [Servers -> SUBSET LedgerRow]
  <2>1. \A p \in Servers : book'[p] \subseteq LedgerRow
    BY DEF PriceInv, PriceTypeOK
  <2> QED
    BY <2>1
<1>5. DelistedMeansAbsent'
  BY DEF PriceInv, DelistedMeansAbsent
<1>6. PriceTypeOK'
  BY <1>4 DEF PriceInv, PriceTypeOK, SyncRec
<1>7. clock' >= 1 /\ Orderly(ledger', clock') /\ Accounts(ledger', register')
  BY DEF PriceInv
<1> QED
  BY <1>3, <1>5, <1>6, <1>7 DEF PriceInv

LEMMA BookKeeps ==
    ASSUME PriceInv, NEW x \in Syncs, Book(x)
    PROVE  PriceInv'
<1> DEFINE s == sync[x].source
           feed == sync[x].feed
           run == sync[x].run
           q == [source |-> s, done |-> TRUE, ok |-> TRUE,
                 added |-> Cardinality(Unknown(Open(ledger, s), feed)),
                 changed |-> Cardinality(ChangedRows(s, feed))]
<1>1. /\ PriceTypeOK /\ clock \in Nat /\ clock >= 1 /\ Orderly(ledger, clock)
      /\ Accounts(ledger, register) /\ Underway(sync, register)
      /\ s \in SourceSet /\ feed \in Feeds /\ run \in Nat /\ sync[x].at # "idle"
  BY DEF PriceInv, PriceTypeOK, Book
<1>2. run \in DOMAIN register /\ ~register[run].ok
  BY <1>1 DEF Underway
<1>3. BookedIs(ledger', s, feed, run)
  BY BookedRows DEF BookedIs
<1>4. q \in Run
  BY <1>1, CountedModels DEF Run
<1>5. Continued(x, [register EXCEPT ![sync[x].run] = q], ledger')
  BY DEF Book, ChangedRows
<1> HIDE DEF s, feed, run
<1>6. Accounts(ledger', [register EXCEPT ![run] = q])
  BY <1>1, <1>2, <1>3, <1>4, BookedAccounts
<1> HIDE DEF q
<1>7. /\ register' \in Seq(Run) /\ sync' \in [Syncs -> SyncRec] /\ bootstrapping' \in BOOLEAN
      /\ Underway(sync', register') /\ Accounts(ledger', register')
      /\ book' = [p \in Servers |-> book'[p]]
      /\ \A p \in Servers : book'[p] = book[p] \/ book'[p] = ledger'
  BY <1>1, <1>4, <1>5, <1>6, TurnEnds DEF run
<1>8. Orderly(ledger', clock)
  BY <1>1, <1>2, <1>3, BookedOrderly
<1>9. UNCHANGED <<clock, upstream, kicked, lastUnpriced, shifts>> /\ booked' = [booked EXCEPT ![s] = feed]
  BY DEF Book, s, feed
<1>10. Copies(book', ledger')
  <2>1. ASSUME NEW r \in ledger PROVE \E o \in ledger' : SameHistory(r, o)
    <3>1. r \in LedgerRow
      BY <1>1 DEF Orderly
    <3>2. SameHistory(r, Became(r, s, feed))
      BY <1>1, <3>1, AfterFields DEF SameHistory
    <3> QED
      BY <1>3, <3>2, BookedParts
  <2>2. Ends(ledger') /\ Copies(book, ledger)
    BY <1>8 DEF Orderly, PriceInv
  <2> QED
    BY <1>7, <2>1, <2>2, CopiesStay
<1>11. PriceTypeOK'
  <2>1. booked' \in [SourceSet -> Feeds]
    BY <1>1, <1>9 DEF PriceTypeOK
  <2>2. ledger' \subseteq LedgerRow
    BY <1>8 DEF Orderly
  <2>3. \A p \in Servers : book'[p] \subseteq LedgerRow
    BY <1>1, <1>7, <2>2 DEF PriceTypeOK
  <2>4. book' \in [Servers -> SUBSET LedgerRow]
    BY <1>7, <2>3
  <2> QED
    BY <1>1, <1>7, <1>9, <2>1, <2>2, <2>4 DEF PriceTypeOK, SyncRec
<1>12. DelistedMeansAbsent'
  <2>1. /\ booked'[s] = feed
        /\ \A o \in SourceSet \ {s} : booked'[o] = booked[o]
    BY <1>1, <1>9 DEF PriceTypeOK
  <2>2. ASSUME NEW r \in ledger, Standing(Became(r, s, feed))
        PROVE  LET n == Became(r, s, feed) IN
               /\ (n.delisted # Never) <=> (booked'[n.source][n.model] = Unlisted)
               /\ n.delisted = Never => n.price = booked'[n.source][n.model]
    <3> DEFINE n == Became(r, s, feed)
    <3>1. r \in LedgerRow /\ r.source \in SourceSet
      BY <1>1 DEF Orderly, LedgerRow
    <3>2. /\ n.source = r.source /\ n.model = r.model /\ n.price = r.price
          /\ n.to = IF Replaced(r, s, feed) THEN clock ELSE r.to
          /\ r.source # s \/ ~Standing(r) => n.delisted = r.delisted
      BY <1>1, <3>1, AfterFields
    <3>3. ~Replaced(r, s, feed) /\ Standing(r)
      BY <1>1, <2>2, <3>2 DEF Standing, Never
    <3>4. CASE r.source # s
      <4>1. booked'[r.source] = booked[r.source]
        BY <2>1, <3>1, <3>4
      <4>2. /\ (r.delisted # Never) <=> (booked[r.source][r.model] = Unlisted)
            /\ r.delisted = Never => r.price = booked[r.source][r.model]
        BY <3>3 DEF PriceInv, DelistedMeansAbsent
      <4> HIDE DEF n
      <4> QED
        BY <3>2, <3>4, <4>1, <4>2 DEF n
    <3>5. CASE r.source = s /\ feed[r.model] = Unlisted
      <4>1. n = Delisted(r)
        BY <3>3, <3>5 DEF Became
      <4>2. n.delisted # Never
        BY <1>1, <3>1, <4>1 DEF Delisted, LedgerRow, Never
      <4> HIDE DEF n
      <4> QED
        BY <2>1, <3>2, <3>5, <4>2 DEF n
    <3>6. CASE r.source = s /\ feed[r.model] = r.price
      <4>1. r.price # Unlisted
        BY <3>1, PriceConstantsOK DEF LedgerRow, Unlisted
      <4>2. n = Confirmed(r)
        BY <3>3, <3>6, <4>1 DEF Became
      <4>3. n.delisted = Never
        BY <3>1, <4>2 DEF Confirmed, LedgerRow
      <4> HIDE DEF n
      <4> QED
        BY <2>1, <3>2, <3>6, <4>1, <4>3 DEF n
    <3> QED
      BY <3>3, <3>4, <3>5, <3>6 DEF Replaced
  <2>3. ASSUME NEW m \in NewModels(s, feed)
        PROVE  LET n == NewRow(s, feed, run, m) IN
               /\ (n.delisted # Never) <=> (booked'[n.source][n.model] = Unlisted)
               /\ n.delisted = Never => n.price = booked'[n.source][n.model]
    <3>1. IsFiniteSet(ledger)
      BY <1>1 DEF Orderly
    <3>2. feed[m] # Unlisted
      BY <1>1, <3>1, NewRowFields, PriceConstantsOK DEF Unlisted
    <3> QED
      BY <1>1, <2>1, <3>1, <3>2, NewRowFields
  <2> QED
    BY <1>3, <2>2, <2>3, BookedParts DEF DelistedMeansAbsent
<1> QED
  BY <1>1, <1>7, <1>8, <1>9, <1>10, <1>11, <1>12 DEF PriceInv
LEMMA AnswerKeeps ==
    ASSUME PriceInv, NEW x \in Syncs, Answer(x)
    PROVE  PriceInv'
<1> DEFINE rec == [sync[x] EXCEPT !.at = "book", !.feed = upstream[sync[x].source]]
<1>1. /\ sync \in [Syncs -> SyncRec] /\ sync[x] \in SyncRec /\ upstream[sync[x].source] \in Feeds
  BY DEF PriceInv, PriceTypeOK, SyncRec
<1>2. /\ rec \in SyncRec /\ rec.at # "idle" /\ rec.run = sync[x].run /\ rec.source = sync[x].source
  BY <1>1 DEF SyncRec
<1>3. sync' = [sync EXCEPT ![x] = rec]
  BY <1>1 DEF Answer
<1> HIDE DEF rec
<1>4. /\ sync' \in [Syncs -> SyncRec] /\ sync'[x] = rec /\ \A y \in Syncs \ {x} : sync'[y] = sync[y]
  BY <1>1, <1>2, <1>3
<1>5. ASSUME NEW y \in Syncs
      PROVE  /\ sync'[y].at # "idle" <=> sync[y].at # "idle"
             /\ sync'[y].run = sync[y].run /\ sync'[y].source = sync[y].source
  <2>1. CASE y = x
    BY <1>2, <1>4, <2>1 DEF Answer
  <2>2. CASE y # x
    BY <1>4, <2>2
  <2> QED
    BY <2>1, <2>2
<1>6. Underway(sync', register)
  BY <1>5 DEF PriceInv, Underway
<1>7. UNCHANGED <<clock, upstream, ledger, register, booked, book, bootstrapping, kicked, lastUnpriced, shifts>>
  BY DEF Answer, tables, memory
<1>8. /\ upstream \in [SourceSet -> Feeds] /\ shifts \in Nat /\ register \in Seq(Run)
      /\ Accounts(ledger, register) /\ book = [p \in Servers |-> book[p]]
      /\ bootstrapping \in BOOLEAN /\ kicked \in BOOLEAN /\ lastUnpriced \in Nat
  BY DEF PriceInv, PriceTypeOK
<1> QED
  BY <1>4, <1>6, <1>7, <1>8, Kept

(* The error paths of a fetch and of a booking. *)
LEMMA FailureKeeps ==
    ASSUME PriceInv, NEW x \in Syncs, sync[x].at # "idle", Failed(x), shifts' \in Nat,
           UNCHANGED <<clock, upstream, ledger, booked, kicked, lastUnpriced>>
    PROVE  PriceInv'
<1> DEFINE i == sync[x].run
           q == [register[i] EXCEPT !.done = TRUE]
<1>1. i \in DOMAIN register /\ PriceTypeOK /\ Accounts(ledger, register)
  BY DEF PriceInv, Underway
<1>2. q \in Run /\ [register EXCEPT ![i].done = TRUE] = [register EXCEPT ![i] = q]
  BY <1>1, FailedAccounts
<1>3. Accounts(ledger, [register EXCEPT ![i] = q])
  BY <1>1, FailedAccounts
<1>4. Continued(x, [register EXCEPT ![i] = q], ledger)
  BY <1>2 DEF Failed
<1> HIDE DEF q
<1>5. /\ register' \in Seq(Run) /\ sync' \in [Syncs -> SyncRec] /\ bootstrapping' \in BOOLEAN
      /\ Underway(sync', register') /\ Accounts(ledger, register')
      /\ book' = [p \in Servers |-> book'[p]]
      /\ \A p \in Servers : book'[p] = book[p] \/ book'[p] = ledger
  BY <1>2, <1>3, <1>4, TurnEnds
<1>6. upstream \in [SourceSet -> Feeds] /\ kicked \in BOOLEAN /\ lastUnpriced \in Nat
  BY <1>1 DEF PriceTypeOK
<1> QED
  BY <1>5, <1>6, Kept

LEMMA FetchFailsKeeps ==
    ASSUME PriceInv, NEW x \in Syncs, FetchFails(x)
    PROVE  PriceInv'
<1>1. shifts \in Nat
  BY DEF PriceInv, PriceTypeOK
<1>2. sync[x].at # "idle" /\ Failed(x) /\ shifts' \in Nat
  BY <1>1 DEF FetchFails, Counted
<1>3. UNCHANGED <<clock, upstream, ledger, booked, kicked, lastUnpriced>>
  BY DEF FetchFails
<1> QED
  BY <1>2, <1>3, FailureKeeps

LEMMA BookFailsKeeps ==
    ASSUME PriceInv, NEW x \in Syncs, BookFails(x)
    PROVE  PriceInv'
<1>1. shifts \in Nat
  BY DEF PriceInv, PriceTypeOK
<1>2. sync[x].at # "idle" /\ Failed(x) /\ shifts' \in Nat
  BY <1>1 DEF BookFails, Counted
<1>3. UNCHANGED <<clock, upstream, ledger, booked, kicked, lastUnpriced>>
  BY DEF BookFails, RolledBack
<1> QED
  BY <1>2, <1>3, FailureKeeps

(* What starts a sync. *)
LEMMA StartKeeps ==
    ASSUME PriceInv, NEW x \in Syncs, NEW by \in Servers \cup {"script"}, NEW boot \in BOOLEAN,
           Started(x, by, boot), UNCHANGED <<clock, upstream, ledger, booked, shifts>>,
           book' = [p \in Servers |-> book'[p]],
           \A p \in Servers : book'[p] = book[p] \/ book'[p] = ledger,
           bootstrapping' \in BOOLEAN, kicked' \in BOOLEAN, lastUnpriced' \in Nat
    PROVE  PriceInv'
<1>1. /\ register' \in Seq(Run) /\ sync' \in [Syncs -> SyncRec]
      /\ Underway(sync', register') /\ Accounts(ledger, register')
  BY Starts
<1>2. upstream \in [SourceSet -> Feeds] /\ shifts \in Nat
  BY DEF PriceInv, PriceTypeOK
<1> QED
  BY <1>1, <1>2, Kept

(* A step that runs no sync. *)
LEMMA QuietKeeps ==
    ASSUME PriceInv, UNCHANGED <<clock, ledger, booked, register, sync>>,
           upstream' \in [SourceSet -> Feeds], shifts' \in Nat,
           book' = [p \in Servers |-> book'[p]],
           \A p \in Servers : book'[p] = book[p] \/ book'[p] = ledger \/ book'[p] = {},
           bootstrapping' \in BOOLEAN, kicked' \in BOOLEAN, lastUnpriced' \in Nat
    PROVE  PriceInv'
<1>1. /\ register \in Seq(Run) /\ sync \in [Syncs -> SyncRec]
      /\ Underway(sync, register) /\ Accounts(ledger, register)
  BY DEF PriceInv, PriceTypeOK, SyncRec
<1> QED
  BY <1>1, Kept

LEMMA TriggersKeep ==
    ASSUME PriceInv, NEW x \in Syncs, Kickoff(x) \/ Daily(x) \/ Unpriced(x) \/ Asked(x)
    PROVE  PriceInv'
<1>1. /\ clock \in Nat /\ upstream \in [SourceSet -> Feeds] /\ shifts \in Nat
      /\ book \in [Servers -> SUBSET LedgerRow]
      /\ bootstrapping \in BOOLEAN /\ kicked \in BOOLEAN /\ lastUnpriced \in Nat
  BY DEF PriceInv, PriceTypeOK
<1>2. "worker" \in Servers \cup {"script"} /\ "web" \in Servers \cup {"script"} /\ "script" \in Servers \cup {"script"}
  BY DEF Servers
<1>3. book = [p \in Servers |-> book[p]]
  BY <1>1
<1>4. CASE Kickoff(x)
  <2>1. kicked' = TRUE /\ UNCHANGED <<clock, upstream, ledger, booked, bootstrapping, lastUnpriced, shifts>>
    BY <1>4 DEF Kickoff
  <2>2. CASE Started(x, "worker", FALSE) /\ UNCHANGED book
    BY <1>1, <1>2, <1>3, <2>1, <2>2, StartKeeps
  <2>3. CASE book' = [book EXCEPT !["worker"] = ledger] /\ UNCHANGED <<register, sync>>
    <3>1. book' = [p \in Servers |-> book'[p]] /\ \A p \in Servers : book'[p] = book[p] \/ book'[p] = ledger
      BY <1>1, <2>3
    <3> QED
      BY <1>1, <2>1, <2>3, <3>1, QuietKeeps
  <2> QED
    BY <1>4, <2>2, <2>3 DEF Kickoff
<1>5. CASE Daily(x)
  BY <1>1, <1>2, <1>3, <1>5, StartKeeps DEF Daily, memory
<1>6. CASE Unpriced(x)
  BY <1>1, <1>2, <1>3, <1>6, StartKeeps DEF Unpriced
<1>7. CASE Asked(x)
  <2>1. PICK by \in {"web", "script"} : Started(x, by, FALSE)
    BY <1>7 DEF Asked
  <2>2. by \in Servers \cup {"script"}
    BY <1>2
  <2> QED
    BY <1>1, <1>3, <1>7, <2>1, <2>2, StartKeeps DEF Asked, memory
<1> QED
  BY <1>4, <1>5, <1>6, <1>7

LEMMA HydrationKeeps ==
    ASSUME PriceInv, EnsureHydrated
    PROVE  PriceInv'
<1>1. /\ upstream \in [SourceSet -> Feeds] /\ shifts \in Nat /\ book \in [Servers -> SUBSET LedgerRow]
      /\ bootstrapping \in BOOLEAN /\ kicked \in BOOLEAN /\ lastUnpriced \in Nat
  BY DEF PriceInv, PriceTypeOK
<1>2. book' = [book EXCEPT !["web"] = ledger]
      /\ UNCHANGED <<clock, upstream, ledger, booked, kicked, lastUnpriced, shifts>>
  BY DEF EnsureHydrated
<1>3. book' = [p \in Servers |-> book'[p]] /\ \A p \in Servers : book'[p] = book[p] \/ book'[p] = ledger
  BY <1>1, <1>2
<1>4. CASE bootstrapping' = TRUE /\ \E x \in Syncs : Started(x, "web", TRUE)
  <2>1. PICK x \in Syncs : Started(x, "web", TRUE)
    BY <1>4
  <2>2. "web" \in Servers \cup {"script"}
    BY DEF Servers
  <2> QED
    BY <1>1, <1>2, <1>3, <1>4, <2>1, <2>2, StartKeeps
<1>5. CASE UNCHANGED <<bootstrapping, register, sync>>
  BY <1>1, <1>2, <1>3, <1>5, QuietKeeps
<1> QED
  BY <1>4, <1>5 DEF EnsureHydrated

LEMMA WorldKeeps ==
    ASSUME PriceInv,
           \/ \E s \in SourceSet, m \in Models, p \in Prices \cup {Unlisted} : Reprice(s, m, p)
           \/ \E p \in Servers : Restart(p)
           \/ PriceTick
    PROVE  PriceInv'
<1>1. /\ clock \in Nat /\ upstream \in [SourceSet -> Feeds] /\ shifts \in Nat
      /\ book \in [Servers -> SUBSET LedgerRow] /\ sync \in [Syncs -> SyncRec] /\ register \in Seq(Run)
      /\ bootstrapping \in BOOLEAN /\ kicked \in BOOLEAN /\ lastUnpriced \in Nat
  BY DEF PriceInv, PriceTypeOK, SyncRec
<1>2. ASSUME NEW s \in SourceSet, NEW m \in Models, NEW p \in Prices \cup {Unlisted}, Reprice(s, m, p)
      PROVE  PriceInv'
  <2>1. upstream' \in [SourceSet -> Feeds]
    <3>1. upstream[s] \in [Models -> Prices \cup {Unlisted}]
      BY <1>1 DEF Feeds
    <3>2. [upstream[s] EXCEPT ![m] = p] \in Feeds
      BY <3>1 DEF Feeds
    <3>3. upstream' = [upstream EXCEPT ![s] = [upstream[s] EXCEPT ![m] = p]]
      BY <1>2 DEF Reprice
    <3> QED
      BY <1>1, <3>2, <3>3
  <2>2. shifts' \in Nat /\ UNCHANGED <<clock, ledger, booked, register, sync, book, bootstrapping, kicked, lastUnpriced>>
    BY <1>1, <1>2 DEF Reprice, Counted, tables, memory
  <2>3. book' = [p1 \in Servers |-> book'[p1]]
    BY <1>1, <2>2
  <2> QED
    BY <1>1, <2>1, <2>2, <2>3, QuietKeeps
<1>3. ASSUME NEW p \in Servers, Restart(p)
      PROVE  PriceInv'
  <2>1. shifts' \in Nat /\ UNCHANGED <<clock, upstream, ledger, booked, register>>
    BY <1>1, <1>3 DEF Restart, Counted, tables
  <2>2. sync' = [x \in Syncs |-> IF sync[x].by = p THEN NoSync ELSE sync[x]]
    BY <1>3 DEF Restart
  <2>3. sync' \in [Syncs -> SyncRec]
    BY <1>1, <2>2, NoSyncType
  <2>4. \A x \in Syncs : sync'[x].at # "idle" => sync'[x] = sync[x]
    BY <2>2 DEF NoSync
  <2>5. Underway(sync', register)
    BY <2>4 DEF PriceInv, Underway
  <2>6. /\ book' = [p1 \in Servers |-> book'[p1]]
        /\ \A p1 \in Servers : book'[p1] = book[p1] \/ book'[p1] = ledger \/ book'[p1] = {}
    BY <1>1, <1>3 DEF Restart
  <2>7. bootstrapping' \in BOOLEAN /\ kicked' \in BOOLEAN /\ lastUnpriced' \in Nat
    <3>1. CASE p = "worker"
      <4>1. kicked' = FALSE /\ lastUnpriced' = Never /\ bootstrapping' = bootstrapping
        BY <1>3, <3>1 DEF Restart
      <4> QED
        BY <1>1, <4>1 DEF Never
    <3>2. CASE p # "worker"
      <4>1. bootstrapping' = FALSE /\ kicked' = kicked /\ lastUnpriced' = lastUnpriced
        BY <1>3, <3>2 DEF Restart
      <4> QED
        BY <1>1, <4>1
    <3> QED
      BY <3>1, <3>2
  <2>8. Accounts(ledger, register)
    BY DEF PriceInv
  <2> QED
    BY <1>1, <2>1, <2>3, <2>5, <2>6, <2>7, <2>8, Kept
<1>4. CASE PriceTick
  <2>1. clock' = clock + 1 /\ UNCHANGED <<upstream, ledger, register, booked, sync, book, bootstrapping, kicked, lastUnpriced, shifts>>
    BY <1>4 DEF PriceTick, tables, memory
  <2>2. clock' \in Nat /\ clock' >= 1
    BY <1>1, <2>1
  <2>3. Bounds(ledger, clock')
    BY <1>1, <2>1 DEF PriceInv, Orderly, Bounds
  <2>4. Orderly(ledger', clock')
    BY <2>1, <2>3 DEF PriceInv, Orderly
  <2>5. PriceTypeOK'
    BY <2>1, <2>2 DEF PriceInv, PriceTypeOK
  <2>6. DelistedMeansAbsent'
    BY <2>1 DEF PriceInv, DelistedMeansAbsent
  <2> QED
    BY <2>1, <2>2, <2>4, <2>5, <2>6 DEF PriceInv
<1> QED
  BY <1>2, <1>3, <1>4

LEMMA StillKeeps ==
    ASSUME PriceInv, UNCHANGED priceVars
    PROVE  PriceInv'
<1>1. UNCHANGED <<clock, upstream, ledger, register, booked, sync, book, bootstrapping, kicked, lastUnpriced, shifts>>
  BY DEF priceVars, tables, memory
<1>2. PriceTypeOK' /\ DelistedMeansAbsent'
  BY <1>1 DEF PriceInv, PriceTypeOK, DelistedMeansAbsent
<1> QED
  BY <1>1, <1>2 DEF PriceInv

LEMMA Starting ==
    ASSUME PriceInit
    PROVE  PriceInv
<1>1. PriceTypeOK
  <2>1. upstream \in [SourceSet -> Feeds] /\ booked \in [SourceSet -> Feeds]
    BY PriceConstantsOK, SourcesKnown DEF PriceInit
  <2>2. sync \in [Syncs -> SyncRec] /\ register \in Seq(Run)
    BY NoSyncType, EmptySeq DEF PriceInit
  <2> QED
    BY <2>1, <2>2 DEF PriceInit, PriceTypeOK, SyncRec, Never
<1>2. Orderly(ledger, clock)
  BY FS_EmptySet DEF PriceInit, Orderly, Bounds, Chain, Ends, NoGap
<1>3. Accounts(ledger, register)
  BY EmptySeq DEF PriceInit, Accounts
<1>4. Underway(sync, register)
  BY DEF PriceInit, Underway, NoSync
<1>5. DelistedMeansAbsent /\ Copies(book, ledger) /\ clock >= 1
  BY DEF PriceInit, DelistedMeansAbsent, Copies
<1> QED
  BY <1>1, <1>2, <1>3, <1>4, <1>5 DEF PriceInv
-------------------------------------------------------------------------------
(* The invariant of a sync's tables, and what follows from it. *)

(* No sync, failure, restart or server start breaks the invariant: every     *)
(* history is a chain whose rows tile time, the register accounts for the    *)
(* rows, and what a server holds is an older state of the ledger.            *)
THEOREM PriceInductive == PriceSpec => []PriceInv
<1>1. PriceInit => PriceInv
  BY Starting
<1>2. PriceInv /\ [PriceNext]_priceVars => PriceInv'
  <2> SUFFICES ASSUME PriceInv, [PriceNext]_priceVars PROVE PriceInv'
    OBVIOUS
  <2>1. ASSUME NEW x \in Syncs, Answer(x) PROVE PriceInv'
    BY <2>1, AnswerKeeps
  <2>2. ASSUME NEW x \in Syncs, FetchFails(x) PROVE PriceInv'
    BY <2>2, FetchFailsKeeps
  <2>3. ASSUME NEW x \in Syncs, Book(x) PROVE PriceInv'
    BY <2>3, BookKeeps
  <2>4. ASSUME NEW x \in Syncs, BookFails(x) PROVE PriceInv'
    BY <2>4, BookFailsKeeps
  <2>5. ASSUME NEW x \in Syncs, Kickoff(x) \/ Daily(x) \/ Unpriced(x) \/ Asked(x) PROVE PriceInv'
    BY <2>5, TriggersKeep
  <2>6. CASE EnsureHydrated
    BY <2>6, HydrationKeeps
  <2>7. CASE \/ \E s \in SourceSet, m \in Models, p \in Prices \cup {Unlisted} : Reprice(s, m, p)
             \/ \E p \in Servers : Restart(p)
             \/ PriceTick
    BY <2>7, WorldKeeps
  <2>8. CASE UNCHANGED priceVars
    BY <2>8, StillKeeps
  <2> QED
    BY <2>1, <2>2, <2>3, <2>4, <2>5, <2>6, <2>7, <2>8 DEF PriceNext
<1> QED
  BY <1>1, <1>2, PTL DEF PriceSpec

(* The book, the register, the syncs and the servers' copies keep their      *)
(* types, whatever order syncs and failures come in.                         *)
THEOREM PriceTypeCorrect == PriceSpec => []PriceTypeOK
<1>1. PriceInv => PriceTypeOK
  BY DEF PriceInv
<1> QED
  BY <1>1, PriceInductive, PTL

(* From its first observation on a model of an oracle has exactly one price  *)
(* at every instant, however many syncs the worker, the web server and the   *)
(* script run over each other.                                               *)
THEOREM TimelineSafe == PriceSpec => []Timeline
BY TimelineHolds, PriceInductive, PTL

(* Each entry of the register that ended well opened exactly the rows it     *)
(* counts, one that failed or whose process died opened none, and a standing *)
(* row agrees with its oracle's last booking.                                *)
THEOREM BooksSafe == PriceSpec => []BooksBalance
<1>1. PriceInv => BooksBalance
  BY DEF PriceInv, Accounts, BooksBalance, RegisterAccounts
<1> QED
  BY <1>1, PriceInductive, PTL

(* No booking, of a feed fetched however long ago, changes what the ledger   *)
(* says of an instant already past.                                          *)
THEOREM PastSafe == PriceSpec => PastStands
<1>1. ASSUME PriceInv, [PriceNext]_priceVars, ledger' # ledger,
             NEW s \in SourceSet, NEW m \in Models, NEW t \in 1..(clock - 1), PriceAt(ledger, s, m, t) # Unlisted
      PROVE  PriceAt(ledger', s, m, t) = PriceAt(ledger, s, m, t)
  <2>1. PICK x \in Syncs : Book(x)
    BY <1>1 DEF PriceNext, Answer, FetchFails, BookFails, RolledBack, Kickoff, Daily, Unpriced, Asked,
                EnsureHydrated, Reprice, Restart, PriceTick, priceVars, tables
  <2>2. BookedIs(ledger', sync[x].source, sync[x].feed, sync[x].run)
    BY <1>1, <2>1, BookedRows DEF BookedIs
  <2>3. sync[x].source \in SourceSet /\ sync[x].feed \in Feeds /\ sync[x].run \in Nat
    BY <1>1 DEF PriceInv, PriceTypeOK
  <2>4. PriceTypeOK /\ clock >= 1 /\ Orderly(ledger, clock)
    BY <1>1 DEF PriceInv
  <2> QED
    BY <1>1, <2>2, <2>3, <2>4, BookedPast
<1>2. PriceInv /\ [PriceNext]_priceVars =>
        [\A s \in SourceSet, m \in Models, t \in 1..(clock - 1) :
           PriceAt(ledger, s, m, t) # Unlisted => PriceAt(ledger', s, m, t) = PriceAt(ledger, s, m, t)]_ledger
  BY <1>1
<1> QED
  BY <1>2, PriceInductive, PTL DEF PriceSpec, PastStands
(* A server's copy changes only to the ledger's newest state, or, when the   *)
(* web server restarts, to none.                                             *)
LEMMA CopiesMove ==
    ASSUME PriceInv, [PriceNext]_priceVars, NEW p \in Servers
    PROVE  book'[p] = book[p] \/ book'[p] = ledger' \/ (p # "worker" /\ book'[p] = {})
<1>1. book \in [Servers -> SUBSET LedgerRow]
  BY DEF PriceInv, PriceTypeOK
<1>2. ASSUME NEW x \in Syncs, NEW runs, NEW rows, Continued(x, runs, rows), rows = ledger'
      PROVE  book'[p] = book[p] \/ book'[p] = ledger'
  BY <1>1, <1>2 DEF Continued
<1>3. ASSUME NEW x \in Syncs, Book(x) PROVE book'[p] = book[p] \/ book'[p] = ledger'
  BY <1>2, <1>3 DEF Book
<1>4. ASSUME NEW x \in Syncs, FetchFails(x) \/ BookFails(x) PROVE book'[p] = book[p] \/ book'[p] = ledger'
  <2>1. ledger' = ledger /\ Continued(x, [register EXCEPT ![sync[x].run].done = TRUE], ledger)
    BY <1>4 DEF FetchFails, BookFails, Failed, RolledBack
  <2> QED
    BY <1>2, <2>1
<1>5. ASSUME NEW x \in Syncs, Answer(x) \/ Kickoff(x) \/ Daily(x) \/ Unpriced(x) \/ Asked(x)
      PROVE  book'[p] = book[p] \/ book'[p] = ledger'
  <2>1. CASE Kickoff(x)
    BY <1>1, <2>1 DEF Kickoff
  <2>2. CASE Answer(x) \/ Daily(x) \/ Unpriced(x) \/ Asked(x)
    BY <2>2 DEF Answer, Daily, Unpriced, Asked, memory
  <2> QED
    BY <1>5, <2>1, <2>2
<1>6. CASE EnsureHydrated
  BY <1>1, <1>6 DEF EnsureHydrated
<1>7. ASSUME NEW s \in SourceSet, NEW m \in Models, NEW q \in Prices \cup {Unlisted}, Reprice(s, m, q)
      PROVE  book' = book
  BY <1>7 DEF Reprice, memory
<1>8. ASSUME NEW q \in Servers, Restart(q)
      PROVE  book'[p] = book[p] \/ book'[p] = ledger' \/ (p # "worker" /\ book'[p] = {})
  <2>1. book' = [book EXCEPT ![q] = IF q = "worker" THEN ledger ELSE {}] /\ ledger' = ledger
    BY <1>8 DEF Restart, tables
  <2>2. CASE q = p
    BY <1>1, <2>1, <2>2
  <2>3. CASE q # p
    BY <1>1, <2>1, <2>3
  <2> QED
    BY <2>2, <2>3
<1>9. CASE PriceTick
  BY <1>9 DEF PriceTick, memory
<1>10. CASE UNCHANGED priceVars
  BY <1>10 DEF priceVars, memory
<1> QED
  BY <1>3, <1>4, <1>5, <1>6, <1>7, <1>8, <1>9, <1>10 DEF PriceNext

(* The ledger forgets no model that it had a price for. *)
LEMMA NothingForgotten ==
    ASSUME PriceInv, [PriceNext]_priceVars, NEW r \in ledger
    PROVE  \E o \in ledger' : SameHistory(r, o)
<1>1. CASE ledger' = ledger
  BY <1>1 DEF SameHistory
<1>2. CASE \E x \in Syncs : Book(x)
  <2>1. PICK x \in Syncs : Book(x)
    BY <1>2
  <2>2. Became(r, sync[x].source, sync[x].feed) \in ledger'
    BY <2>1, BookedRows
  <2>3. clock \in Nat /\ r \in LedgerRow
    BY DEF PriceInv, PriceTypeOK
  <2>4. SameHistory(r, Became(r, sync[x].source, sync[x].feed))
    BY <2>3, AfterFields DEF SameHistory
  <2> QED
    BY <2>2, <2>4
<1> QED
  BY <1>1, <1>2 DEF PriceNext, Answer, FetchFails, BookFails, RolledBack, Kickoff, Daily, Unpriced, Asked,
                    EnsureHydrated, Reprice, Restart, PriceTick, priceVars, tables

(* "Stale beats zero": no failure, delisting or empty feed takes from a      *)
(* server a price that it had, unless that server is the web's and restarts. *)
THEOREM StaleKept == PriceSpec => StaleBeatsZero
<1>1. ASSUME PriceInv, PriceInv', [PriceNext]_priceVars,
             NEW p \in Servers, p = "worker" \/ book'[p] # {}, NEW m \in Models,
             Resolve(book[p], m, clock) # Unlisted
      PROVE  \E r \in book'[p] : r.model = m /\ Standing(r)
  <2>1. PICK i \in Knows(book[p], m) : TRUE
    BY <1>1 DEF Resolve
  <2>2. PICK r \in book[p] : r.model = m
    BY <2>1 DEF Knows, Entries
  <2>3. CASE book'[p] = book[p]
    <3>1. \E o \in book[p] : SameHistory(r, o) /\ Standing(o)
      BY <1>1, <2>2 DEF PriceInv, Copies
    <3> QED
      BY <2>2, <2>3, <3>1 DEF SameHistory
  <2>4. CASE book'[p] = ledger'
    <3>1. PICK o \in ledger : SameHistory(r, o)
      BY <1>1, <2>2 DEF PriceInv, Copies
    <3>2. PICK n \in ledger' : SameHistory(o, n)
      BY <1>1, NothingForgotten
    <3>3. Ends(ledger')
      BY <1>1 DEF PriceInv, Orderly
    <3>4. PICK c \in ledger' : SameHistory(n, c) /\ Standing(c)
      BY <3>3 DEF Ends
    <3> QED
      BY <2>2, <2>4, <3>1, <3>2, <3>4 DEF SameHistory
  <2> QED
    BY <1>1, <2>3, <2>4, CopiesMove
<1>2. PriceInv /\ PriceInv' /\ [PriceNext]_priceVars =>
        [\A p \in Servers : (p = "worker" \/ book'[p] # {}) =>
           \A m \in Models : Resolve(book[p], m, clock) # Unlisted =>
               \E r \in book'[p] : r.model = m /\ Standing(r)]_book
  BY <1>1
<1> QED
  BY <1>2, PriceInductive, PTL DEF PriceSpec, StaleBeatsZero
===============================================================================
