------------------------------- MODULE PriceLedger -------------------------------
(***************************************************************************)
(* The price ledger, packages/core/pricing-sync.ts, and the lookups of     *)
(* packages/core/pricing.ts that bill past tokens from it.                 *)
(*                                                                         *)
(* A sync walks the oracles in order: it opens an entry of the register,   *)
(* awaits the feed, and books the feed in one transaction.  The worker     *)
(* (on start, daily, and when a model with tokens has no price), the web   *)
(* server (on request, and when it finds the ledger empty) and `make       *)
(* pricing` run syncs over the same database, and nothing keeps two of     *)
(* them apart.  Each server prices from its own copy of the ledger.        *)
(***************************************************************************)
EXTENDS Integers, Sequences, FiniteSetsExt

CONSTANTS
    Sources,        \* the oracles, a sequence in the order of preference
    Models,
    Prices,         \* positive integers
    Syncs,          \* syncs that may run at one time
    FirstFeeds,     \* what an oracle may list at the start
    MinInterval,    \* UNPRICED_SYNC_MIN_INTERVAL_MS
    MaxAge,         \* age at which the worker refreshes the book on start
    MaxClock,       \* bound: the clock
    MaxRuns,        \* bound: entries of the register
    MaxShifts       \* bound: changes of the oracles' lists, failed fetches and
                    \* transactions, and restarts, together

SourceSet == {Sources[i] : i \in 1..Len(Sources)}
Unlisted  == 0
Never     == 0      \* a NULL time
Feeds     == [Models -> Prices \cup {Unlisted}]
Servers   == {"worker", "web"}

ASSUME PriceConstantsOK ==
    /\ Sources \in Seq(SourceSet) /\ Sources # <<>>
    /\ IsFiniteSet(Models)
    /\ Prices \subseteq Nat \ {0}
    /\ FirstFeeds \subseteq Feeds
    /\ {MinInterval, MaxAge, MaxClock, MaxRuns, MaxShifts} \subseteq Nat

VARIABLES
    clock,          \* seconds
    upstream,       \* what each oracle lists
    ledger,         \* model_price_ledger; `id` counts the rows of one model
    register,       \* pricing_sync_runs
    sync,           \* the syncs under way
    book,           \* each server's copy of the ledger
    bootstrapping,  \* of the web server
    kicked,         \* the worker's start-up refresh is behind it
    lastUnpriced,   \* lastUnpricedSync of the worker
    booked,         \* history: the feed of each oracle's last booking
    shifts          \* bounded shifts so far

tables == <<ledger, register, booked>>
memory == <<book, bootstrapping, kicked, lastUnpriced>>
priceVars   == <<clock, upstream, tables, sync, memory, shifts>>

LedgerRow == [id : Nat, source : SourceSet, model : Models, price : Prices, from : Nat,
        to : Nat, seen : Nat, delisted : Nat, run : Nat]
Run == [source : SourceSet, done : BOOLEAN, ok : BOOLEAN, added : Nat, changed : Nat]

NoFeed == [m \in Models |-> Unlisted]
NoSync == [at |-> "idle", by |-> "script", boot |-> FALSE, source |-> Sources[1],
           todo |-> <<>>, run |-> 0, feed |-> NoFeed]
Active == {x \in Syncs : sync[x].at # "idle"}

PriceInit ==
    /\ clock = 1
    /\ upstream \in [SourceSet -> FirstFeeds]
    /\ ledger = {} /\ register = <<>>
    /\ sync = [x \in Syncs |-> NoSync]
    /\ book = [p \in Servers |-> {}]
    /\ bootstrapping = FALSE /\ kicked = FALSE /\ lastUnpriced = Never
    /\ booked = [s \in SourceSet |-> NoFeed]
    /\ shifts = 0

-----------------------------------------------------------------------------
(* The book and what it answers.                                           *)

Standing(r)    == r.to = Never
Open(rows, s)  == {r \in rows : r.source = s /\ Standing(r)}
Covers(r, t)   == r.from <= t /\ (Standing(r) \/ r.to > t)
Entries(rows, s, m) == {r \in rows : r.source = s /\ r.model = m}
Before(r, o)   == r.from < o.from \/ (r.from = o.from /\ r.id <= o.id)
FirstRow(rows)    == CHOOSE r \in rows : \A o \in rows : Before(r, o)
LastRow(rows)     == CHOOSE r \in rows : \A o \in rows : Before(o, r)

\* What one oracle's history says of a model at an instant; before the first
\* entry the first one answers (`backdated`), in a gap the last one.
PriceAt(rows, s, m, t) ==
    LET own == Entries(rows, s, m)  hit == {r \in own : Covers(r, t)} IN
    IF own = {} THEN Unlisted
    ELSE IF hit # {} THEN FirstRow(hit).price
    ELSE IF t < FirstRow(own).from THEN FirstRow(own).price ELSE LastRow(own).price

\* resolvePrice: the first oracle, in order, whose history has the model.
Knows(rows, m) == {i \in 1..Len(Sources) : Entries(rows, Sources[i], m) # {}}
Resolve(rows, m, t) ==
    IF Knows(rows, m) = {} THEN Unlisted ELSE PriceAt(rows, Sources[Min(Knows(rows, m))], m, t)

-----------------------------------------------------------------------------
(* One sync.                                                               *)

\* Bound: a sync starts only when the register has room for it and for what
\* the syncs under way still have to write.
Room == Len(register) + Len(Sources) + MapThenSumSet(LAMBDA x : Len(sync[x].todo), Active) <= MaxRuns

Counted == shifts < MaxShifts /\ shifts' = shifts + 1

NewRun(s) == [source |-> s, done |-> FALSE, ok |-> FALSE, added |-> 0, changed |-> 0]

\* syncPricing up to its first await: a register entry, and a fetch on its way.
\* (`todo`: the oracles after the one being fetched.)
Started(x, by, boot) ==
    /\ sync[x].at = "idle" /\ Room
    /\ register' = Append(register, NewRun(Sources[1]))
    /\ sync' = [sync EXCEPT ![x] = [at |-> "fetch", by |-> by, boot |-> boot, source |-> Sources[1],
                                    todo |-> Tail(Sources), run |-> Len(register) + 1, feed |-> NoFeed]]

\* The rest of the step that ends an oracle's turn, given the tables it
\* leaves: the next oracle's entry and fetch, or hydratePricing at the end.
Continued(x, runs, rows) ==
    IF sync[x].todo # <<>>
    THEN /\ register' = Append(runs, NewRun(Head(sync[x].todo)))
         /\ sync' = [sync EXCEPT ![x] = [sync[x] EXCEPT
                        !.at = "fetch", !.source = Head(sync[x].todo), !.todo = Tail(sync[x].todo),
                        !.run = Len(runs) + 1, !.feed = NoFeed]]
         /\ UNCHANGED <<book, bootstrapping>>
    ELSE /\ register' = runs
         /\ sync' = [sync EXCEPT ![x] = NoSync]
         /\ book' = [p \in Servers |-> IF p = sync[x].by THEN rows ELSE book[p]]
         /\ bootstrapping' = (bootstrapping /\ ~sync[x].boot)

\* The oracle answers with what it lists now; the answer is booked later.
Answer(x) ==
    /\ sync[x].at = "fetch"
    /\ upstream[sync[x].source] # NoFeed
    /\ sync' = [sync EXCEPT ![x].at = "book", ![x].feed = upstream[sync[x].source]]
    /\ UNCHANGED <<clock, upstream, tables, memory, shifts>>

\* closeRun with an error: nothing was booked.
Failed(x) == Continued(x, [register EXCEPT ![sync[x].run].done = TRUE], ledger)

\* An error or an empty catalog: the book is untouched.
FetchFails(x) ==
    /\ sync[x].at = "fetch"
    /\ \/ upstream[sync[x].source] = NoFeed /\ UNCHANGED shifts
       \/ Counted
    /\ Failed(x)
    /\ UNCHANGED <<clock, upstream, ledger, booked, kicked, lastUnpriced>>

\* Mutants: what a feed does not list is booked at zero; a booked row that is
\* listed again stays marked; a row ends when it was last confirmed; a model
\* that is no longer listed loses its row.
ListedAll(feed) == Models
ConfirmedOnly(r)  == [r EXCEPT !.seen = clock]
ClosedOnLastSight(r) == [r EXCEPT !.to = r.seen]
DelistedAndClosed(r) == [r EXCEPT !.delisted = clock, !.to = clock]

Listed(feed)    == {m \in Models : feed[m] # Unlisted}
Unknown(open, feed) == {m \in Listed(feed) : ~ \E r \in open : r.model = m}
Confirmed(r)    == [r EXCEPT !.seen = clock, !.delisted = Never]
Closed(r)       == [r EXCEPT !.to = clock, !.seen = clock]
Delisted(r)     == [r EXCEPT !.delisted = IF r.delisted = Never THEN clock ELSE r.delisted]
Opened(s, m, p, run) == [id |-> Cardinality(Entries(ledger, s, m)) + 1, source |-> s, model |-> m, price |-> p, from |-> clock, to |-> Never,
                         seen |-> clock, delisted |-> Never, run |-> run]

\* The transaction: every standing row of the oracle against its feed.  It
\* reads the clock, which counts seconds, just before the rows: that a second
\* ends and another process books the same oracle between the two is left out.
Book(x) ==
    LET s       == sync[x].source
        feed    == sync[x].feed
        open    == Open(ledger, s)
        same    == {r \in open : feed[r.model] = r.price}
        changed == {r \in open : feed[r.model] \notin {Unlisted, r.price}}
        gone    == {r \in open : feed[r.model] = Unlisted}
        fresh   == Unknown(open, feed)
    IN  /\ sync[x].at = "book"
        /\ ledger' = (ledger \ open)
                     \cup {Confirmed(r) : r \in same} \cup {Closed(r) : r \in changed}
                     \cup {Delisted(r) : r \in gone}
                     \cup {Opened(s, m, feed[m], sync[x].run) : m \in fresh \cup {r.model : r \in changed}}
        /\ booked' = [booked EXCEPT ![s] = feed]
        /\ Continued(x, [register EXCEPT ![sync[x].run] =
                            [source |-> s, done |-> TRUE, ok |-> TRUE,
                             added |-> Cardinality(fresh), changed |-> Cardinality(changed)]], ledger')
        /\ UNCHANGED <<clock, upstream, kicked, lastUnpriced, shifts>>

\* What a failed transaction leaves.  Mutant: without one, the rows added so far.
Half(s, feed, run) == ledger \cup {Opened(s, m, feed[m], run) : m \in Unknown(Open(ledger, s), feed)}
RolledBack(s, feed, run) == ledger

\* The transaction throws (the write lock) and is rolled back.
BookFails(x) ==
    /\ sync[x].at = "book" /\ Counted
    /\ ledger' = RolledBack(sync[x].source, sync[x].feed, sync[x].run)
    /\ Failed(x)
    /\ UNCHANGED <<clock, upstream, booked, kicked, lastUnpriced>>

-----------------------------------------------------------------------------
(* What starts one.                                                        *)

Stale(s) == LET seen == {r.seen : r \in {o \in ledger : o.source = s}} IN
            seen = {} \/ clock - Max(seen) > MaxAge

\* syncPricingIfStale, once after each start of the worker.
Kickoff(x) ==
    /\ ~kicked /\ kicked' = TRUE
    /\ IF \E s \in SourceSet : Stale(s)
       THEN Started(x, "worker", FALSE) /\ UNCHANGED book
       ELSE book' = [book EXCEPT !["worker"] = ledger] /\ UNCHANGED <<register, sync>>
    /\ UNCHANGED <<clock, upstream, ledger, booked, bootstrapping, lastUnpriced, shifts>>

\* The daily timer that the kickoff starts.
Daily(x) ==
    /\ kicked /\ Started(x, "worker", FALSE)
    /\ UNCHANGED <<clock, upstream, ledger, booked, memory, shifts>>

\* syncIfUnpriced, for a model that has tokens and that the worker's own copy
\* does not price.
Unpriced(x) ==
    /\ \E m \in Models : Knows(book["worker"], m) = {}
    /\ lastUnpriced = Never \/ clock - lastUnpriced >= MinInterval
    /\ lastUnpriced' = clock
    /\ Started(x, "worker", FALSE)
    /\ UNCHANGED <<clock, upstream, ledger, booked, book, bootstrapping, kicked, shifts>>

\* POST /api/pricing in the web server, and scripts/sync-pricing.ts.
Asked(x) ==
    /\ \E by \in {"web", "script"} : Started(x, by, FALSE)
    /\ UNCHANGED <<clock, upstream, ledger, booked, memory, shifts>>

\* ensurePricingHydrated at the top of a route that computes cost.
EnsureHydrated ==
    /\ book' = [book EXCEPT !["web"] = ledger]
    /\ IF Room /\ ~bootstrapping /\ ~ \E r \in ledger : Standing(r)
       THEN bootstrapping' = TRUE /\ \E x \in Syncs : Started(x, "web", TRUE)
       ELSE UNCHANGED <<bootstrapping, register, sync>>
    /\ UNCHANGED <<clock, upstream, ledger, booked, kicked, lastUnpriced, shifts>>

-----------------------------------------------------------------------------
(* The world.                                                              *)

\* An oracle changes a price, lists a model or stops listing it.
Reprice(s, m, p) ==
    /\ Counted
    /\ p # upstream[s][m]
    /\ upstream' = [upstream EXCEPT ![s][m] = p]
    /\ UNCHANGED <<clock, tables, sync, memory>>

Restart(p) ==
    /\ Counted
    /\ sync' = [x \in Syncs |-> IF sync[x].by = p THEN NoSync ELSE sync[x]]
    /\ book' = [book EXCEPT ![p] = IF p = "worker" THEN ledger ELSE {}]
    /\ IF p = "worker"
       THEN kicked' = FALSE /\ lastUnpriced' = Never /\ UNCHANGED bootstrapping
       ELSE bootstrapping' = FALSE /\ UNCHANGED <<kicked, lastUnpriced>>
    /\ UNCHANGED <<clock, upstream, tables>>

PriceTick ==
    /\ clock < MaxClock /\ clock' = clock + 1
    /\ UNCHANGED <<upstream, tables, sync, memory, shifts>>

PriceNext ==
    \/ \E x \in Syncs : \/ Answer(x) \/ FetchFails(x) \/ Book(x) \/ BookFails(x)
                        \/ Kickoff(x) \/ Daily(x) \/ Unpriced(x) \/ Asked(x)
    \/ EnsureHydrated
    \/ \E s \in SourceSet, m \in Models, p \in Prices \cup {Unlisted} : Reprice(s, m, p)
    \/ \E p \in Servers : Restart(p)
    \/ PriceTick

PriceSpec == PriceInit /\ [][PriceNext]_priceVars

-----------------------------------------------------------------------------
(* Properties.                                                             *)

PriceTypeOK ==
    /\ clock \in Nat /\ shifts \in Nat
    /\ upstream \in [SourceSet -> Feeds] /\ booked \in [SourceSet -> Feeds]
    /\ ledger \subseteq LedgerRow /\ register \in Seq(Run)
    /\ sync \in [Syncs -> [at : {"idle", "fetch", "book"}, by : Servers \cup {"script"}, boot : BOOLEAN,
                           source : SourceSet, todo : Seq(SourceSet), run : Nat, feed : Feeds]]
    /\ book \in [Servers -> SUBSET LedgerRow]
    /\ bootstrapping \in BOOLEAN /\ kicked \in BOOLEAN /\ lastUnpriced \in Nat

\* From its first observation on a model of an oracle has exactly one price at
\* every instant: the rows of the book tile time, with no gap and no overlap,
\* whatever syncs ran over each other.
Timeline ==
    \A s \in SourceSet, m \in Models :
        LET own == Entries(ledger, s, m) IN
        \A t \in 1..clock : own # {} /\ t >= FirstRow(own).from => Cardinality({r \in own : Covers(r, t)}) = 1

\* The register accounts for the book: an entry that ended well opened exactly
\* the rows it counts as added or changed, and one that failed, or whose
\* process died, opened none.
RegisterAccounts ==
    /\ \A i \in DOMAIN register :
        LET rows == {r \in ledger : r.run = i} IN
        /\ \A r \in rows : r.source = register[i].source
        /\ Cardinality(rows) = register[i].added + register[i].changed
        /\ ~register[i].ok => rows = {}
    /\ \A r \in ledger : r.run \in DOMAIN register

\* A standing row is marked delisted exactly when the oracle's last booking did
\* not list its model, and otherwise carries the price of that booking.
DelistedMeansAbsent ==
    \A r \in ledger : Standing(r) =>
        /\ (r.delisted # Never) <=> (booked[r.source][r.model] = Unlisted)
        /\ r.delisted = Never => r.price = booked[r.source][r.model]

\* The book balances: against the register, and against the feeds.
BooksBalance == RegisterAccounts /\ DelistedMeansAbsent

\* Once an oracle's history prices a past instant, that answer never changes:
\* a booking that was fetched long ago does not rewrite the past.
PastStands ==
    [][\A s \in SourceSet, m \in Models, t \in 1..(clock - 1) :
          PriceAt(ledger, s, m, t) # Unlisted => PriceAt(ledger', s, m, t) = PriceAt(ledger, s, m, t)]_ledger

\* "Stale beats zero": no failed fetch, failed transaction, delisting or empty
\* feed ever takes from a server a price that it had, unless the server
\* restarts, and the worker never.
StaleBeatsZero ==
    [][\A p \in Servers : (p = "worker" \/ book'[p] # {}) =>
          \A m \in Models : Resolve(book[p], m, clock) # Unlisted =>
              \E r \in book'[p] : r.model = m /\ Standing(r)]_book

(* What comments promise and the code does not keep.                       *)

\* "A token spent in June is billed at June's price": when some oracle's
\* history covers an instant, the price that the server resolves for it is one
\* that was in force then.
BilledAsOfItsDay ==
    \A m \in Models, t \in 1..(clock - 1) :
        LET covering == {r \in book["worker"] : r.model = m /\ Covers(r, t)} IN
        covering # {} => \E r \in covering : r.price = Resolve(book["worker"], m, t)
==================================================================================
