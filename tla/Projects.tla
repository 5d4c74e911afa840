--------------------------------- MODULE Projects ---------------------------------
(* Projects: how a directory of transcripts finds its project row           *)
(* (db/ingest.ts getOrCreateProject), what a pass books on it, and how rows *)
(* of one repository are merged (mergeProjects, autoMergeIdenticalProjects, *)
(* api/projects/merge).                                                     *)
(*                                                                          *)
(* A resolution is up to five statements, each committed by itself; only a  *)
(* merge is one transaction.  The worker, a pass started from the web and a *)
(* merge request are processes of their own, so their statements mix, and a *)
(* process keeps a project id in memory that another may delete meanwhile:  *)
(* foreign keys, which are enforced, turn that into an error.  Sessions,    *)
(* todos and deployments follow a merge exactly as the minutes of usage do, *)
(* which stand for all of them.                                             *)
EXTENDS Integers, FiniteSets

CONSTANTS
    Resolvers,      \* processes that resolve and merge
    Names,          \* encoded directory names
    Slot,           \* Slot[n]: the harness prefix of n
    GitSays,        \* GitSays[n]: what git may say of n's directory, NoGit included
    NoGit, NoOrigin,
    Minutes,
    MaxId,          \* bound: rows made
    MaxLookups,     \* bound: directories resolved
    MaxBooked,      \* bound: tokens booked
    MaxRequested,   \* bound: merges asked for
    MaxLost         \* bound: processes lost

ASSUME ProjectConstantsOK ==
    /\ NoGit \notin UNION {GitSays[n] \ {NoGit} : n \in Names}
    /\ {MaxId, MaxLookups, MaxBooked, MaxRequested, MaxLost} \subseteq Nat

VARIABLES
    projects,       \* id -> row, for the ids that have one
    aliases,        \* directory name -> id, for the names that have one
    usage,          \* <<id, minute>> -> tokens, for the pairs that have a row
    lastId,         \* AUTOINCREMENT: ids are never given twice
    resolver,       \* what each process is doing and remembers
    heir,           \* history: the row that an id's work stands on today
    homes,          \* history: the ids each directory was resolved to
    contested,      \* history: directories two processes resolved at once
    lookups, bookings, requested, lost      \* bounds

projectVars == <<projects, aliases, usage, lastId, resolver, heir, homes, contested,
                 lookups, bookings, requested, lost>>
bounds      == <<lookups, bookings, requested, lost>>

RowIds  == 1..MaxId
Rows == DOMAIN projects

ResolverStages == {"idle", "direct", "backfill", "alias", "match", "adopt", "insert", "register",
                   "holding", "rank", "merge", "merging"}
AtRest   == [at |-> "idle", name |-> NoGit, git |-> NoGit, id |-> 0, loser |-> 0, rest |-> {}]

Named(n) == {i \in Rows : projects[i].name = n}

Resolving(p, n) == resolver[p].name = n /\ resolver[p].at \in {"direct", "backfill", "alias", "match", "adopt", "insert", "register"}

------------------------------------------------------------------------------
(* One directory finds its project.                                         *)

Goes(p, stage) == resolver' = [resolver EXCEPT ![p].at = stage]

\* The id is returned to the caller, who keeps it for the whole directory.
Arrives(p, i) ==
    /\ resolver'  = [resolver EXCEPT ![p].at = "holding", ![p].id = i]
    /\ homes' = [homes EXCEPT ![resolver[p].name] = @ \cup {i}]

\* A statement throws: the pass is over, its last merge included.
Aborts(p) == resolver' = [resolver EXCEPT ![p] = AtRest]

\* git is asked first, and may not answer, or answer otherwise than last time.
Lookup(p) ==
    /\ resolver[p].at \in {"idle", "holding"} /\ lookups < MaxLookups
    /\ \E n \in Names : \E g \in GitSays[n] :
        /\ resolver' = [resolver EXCEPT ![p] = [AtRest EXCEPT !.at = "direct", !.name = n, !.git = g]]
        /\ contested' = contested \cup {m \in {n} : \E q \in Resolvers \ {p} : Resolving(q, m)}
    /\ lookups' = lookups + 1
    /\ UNCHANGED <<projects, aliases, usage, lastId, heir, homes, bookings, requested, lost>>

\* 1. the row of that name
ByName(p) ==
    /\ resolver[p].at = "direct"
    /\ \/ Named(resolver[p].name) = {} /\ Goes(p, "alias") /\ UNCHANGED homes
       \/ \E i \in Named(resolver[p].name) :
            \/ resolver[p].git = NoGit /\ Arrives(p, i)
            \/ resolver[p].git # NoGit /\ resolver' = [resolver EXCEPT ![p].at = "backfill", ![p].id = i]
               /\ UNCHANGED homes
    /\ UNCHANGED <<projects, aliases, usage, lastId, heir, contested, bounds>>

\* COALESCE(column, ?): what is known of the row stays
Filled(row, g) == [row EXCEPT
    !.root    = IF @ = NoGit THEN g.root ELSE @,
    !.origin  = IF @ = NoOrigin THEN g.origin ELSE @,
    !.remotes = IF row.root = NoGit THEN g.remotes ELSE @]

Backfill(p) ==
    /\ resolver[p].at = "backfill"
    /\ projects' = [i \in Rows |-> IF i = resolver[p].id THEN Filled(projects[i], resolver[p].git) ELSE projects[i]]
    /\ Arrives(p, resolver[p].id)
    /\ UNCHANGED <<aliases, usage, lastId, heir, contested, bounds>>

\* 2. the row that took the name over
ByAlias(p) ==
    /\ resolver[p].at = "alias"
    /\ IF resolver[p].name \in DOMAIN aliases
       THEN Arrives(p, aliases[resolver[p].name])
       ELSE Goes(p, IF resolver[p].git = NoGit THEN "insert" ELSE "match") /\ UNCHANGED homes
    /\ UNCHANGED <<projects, aliases, usage, lastId, heir, contested, bounds>>

SameRepository(row, n, g) ==
    /\ row.root = g.root /\ Slot[row.name] = Slot[n]
    /\ \/ g.origin # NoOrigin /\ g.origin = row.origin
       \/ g.remotes \cap row.remotes # {}
       \/ g.remotes = {} /\ row.remotes = {}

Candidates(n, g) == {i \in Rows : SameRepository(projects[i], n, g)}

\* 3. the row of the same repository under another name
ByIdentity(p) ==
    /\ resolver[p].at = "match"
    /\ LET same == Candidates(resolver[p].name, resolver[p].git) IN
       \/ same = {} /\ Goes(p, "insert")
       \/ \E i \in same : /\ \A j \in same : i <= j
                          /\ resolver' = [resolver EXCEPT ![p].at = "adopt", ![p].id = i]
    /\ UNCHANGED <<projects, aliases, usage, lastId, heir, homes, contested, bounds>>

WithAlias(n, i) == [m \in DOMAIN aliases \cup {n} |-> IF m \in DOMAIN aliases THEN aliases[m] ELSE i]

\* INSERT OR IGNORE of an alias: a name that has one keeps it, and a row that
\* is gone is an error.
Registers(p) ==
    /\ \/ /\ resolver[p].name \in DOMAIN aliases \/ resolver[p].id \in Rows
          /\ aliases' = WithAlias(resolver[p].name, resolver[p].id)
          /\ Arrives(p, resolver[p].id)
       \/ /\ resolver[p].name \notin DOMAIN aliases /\ resolver[p].id \notin Rows
          /\ Aborts(p)
          /\ UNCHANGED <<aliases, homes>>
    /\ UNCHANGED <<projects, usage, lastId, heir, contested, bounds>>

Adopt(p) == resolver[p].at = "adopt" /\ Registers(p)

NewRow(p) == LET g == resolver[p].git IN
    [name |-> resolver[p].name,
     root |-> IF g = NoGit THEN NoGit ELSE g.root,
     origin |-> IF g = NoGit THEN NoOrigin ELSE g.origin,
     remotes |-> IF g = NoGit THEN {} ELSE g.remotes]

NextId == lastId + 1

\* 4. a row of its own, unless another process has just made it: names are unique
Insert(p) ==
    /\ resolver[p].at = "insert" /\ lastId < MaxId
    /\ \/ /\ Named(resolver[p].name) # {}
          /\ Aborts(p)
          /\ UNCHANGED <<projects, lastId>>
       \/ /\ Named(resolver[p].name) = {}
          /\ projects' = [i \in Rows \cup {NextId} |-> IF i = NextId THEN NewRow(p) ELSE projects[i]]
          /\ lastId' = NextId
          /\ resolver' = [resolver EXCEPT ![p].at = "register", ![p].id = NextId]
    /\ UNCHANGED <<aliases, usage, heir, homes, contested, bounds>>

Register(p) == resolver[p].at = "register" /\ Registers(p)

------------------------------------------------------------------------------
(* What the pass books on the id it holds (updateUsageMinutes).  When its   *)
(* row has gone, the error of a line is caught and the next line is tried   *)
(* on the same id; that of a session's first row ends the pass.             *)

Tokens(i, m) == IF <<i, m>> \in DOMAIN usage THEN usage[<<i, m>>] ELSE 0

Booked(i, m) == [k \in DOMAIN usage \cup {<<i, m>>} |-> IF k = <<i, m>> THEN Tokens(i, m) + 1 ELSE usage[k]]

Book(p, m) ==
    /\ resolver[p].at = "holding" /\ bookings < MaxBooked
    /\ bookings' = bookings + 1
    /\ \/ resolver[p].id \in Rows /\ usage' = Booked(resolver[p].id, m) /\ UNCHANGED resolver
       \/ resolver[p].id \notin Rows /\ UNCHANGED <<usage, resolver>>
       \/ resolver[p].id \notin Rows /\ Aborts(p) /\ UNCHANGED usage
    /\ UNCHANGED <<projects, aliases, lastId, heir, homes, contested, lookups, requested, lost>>

------------------------------------------------------------------------------
(* Merging.                                                                 *)

\* Mutant: compares the nullable columns with =, which NULL never satisfies.
SameOrigin(r, s) == r.root = s.root /\ r.origin = s.origin /\ r.origin # NoOrigin /\ Slot[r.name] = Slot[s.name]

SameGroup(r, s) == r.root = s.root /\ r.origin = s.origin /\ Slot[r.name] = Slot[s.name]

\* The rows that share slot, root commit and origin; two rows that both have
\* no origin share that too.
Groups == {G \in {{j \in Rows : SameGroup(projects[i], projects[j])} : i \in {i \in Rows : projects[i].root # NoGit}} :
               Cardinality(G) > 1}

\* The end of a pass, and the request to merge what is identical.  Several
\* groups are taken one after the other, here by sweeps of their own.
Sweep(p) ==
    /\ resolver[p].at \in {"idle", "holding"}
    /\ \/ Groups = {} /\ resolver[p].at = "holding" /\ Aborts(p)
       \/ \E G \in Groups : resolver' = [resolver EXCEPT ![p] = [AtRest EXCEPT !.at = "rank", !.rest = G]]
    /\ UNCHANGED <<projects, aliases, usage, lastId, heir, homes, contested, bounds>>

\* The most recently active row of the group wins; any may be that.
Rank(p) ==
    /\ resolver[p].at = "rank"
    /\ LET left == resolver[p].rest \cap Rows IN
       \/ Cardinality(left) < 2 /\ Aborts(p)
       \/ \E w \in left : resolver' = [resolver EXCEPT ![p].at = "merge", ![p].id = w, ![p].rest = left \ {w}]
    /\ UNCHANGED <<projects, aliases, usage, lastId, heir, homes, contested, bounds>>

\* A merge of any two rows, asked for by their ids.
AskMerge(p) ==
    /\ resolver[p].at = "idle" /\ requested < MaxRequested
    /\ \E l, w \in 1..lastId :
        /\ l # w
        /\ resolver' = [resolver EXCEPT ![p] = [AtRest EXCEPT !.at = "merge", !.id = w, !.rest = {l}]]
    /\ requested' = requested + 1
    /\ UNCHANGED <<projects, aliases, usage, lastId, heir, homes, contested, lookups, bookings, lost>>

\* mergeProjects reads both rows before its transaction; the losers to come
\* are in `rest`.
ReadBoth(p) ==
    /\ resolver[p].at = "merge"
    /\ \/ resolver[p].rest = {} /\ Aborts(p)
       \/ \E l \in resolver[p].rest :
            \/ /\ {l, resolver[p].id} \subseteq Rows
               /\ resolver' = [resolver EXCEPT ![p].at = "merging", ![p].name = projects[l].name,
                                       ![p].loser = l, ![p].rest = @ \ {l}]
            \/ /\ ~({l, resolver[p].id} \subseteq Rows)
               /\ resolver' = [resolver EXCEPT ![p].rest = @ \ {l}]
    /\ UNCHANGED <<projects, aliases, usage, lastId, heir, homes, contested, bounds>>

Without(i) == [j \in Rows \ {i} |-> projects[j]]

\* Mutant: minutes that only the loser has are deleted with it.
OverlapOnly(l, w) ==
    [k \in {k \in DOMAIN usage : k[1] # l} |-> IF k[1] = w THEN Tokens(w, k[2]) + Tokens(l, k[2]) ELSE usage[k]]

\* Sums where both have a row, re-points where only the loser has one.
Summed(l, w) ==
    [k \in {k \in DOMAIN usage : k[1] # l} \cup {<<w, m>> : m \in {m \in Minutes : <<l, m>> \in DOMAIN usage}} |->
        IF k[1] = w THEN Tokens(w, k[2]) + Tokens(l, k[2]) ELSE usage[k]]

\* Mutant: the loser's aliases go with it.
Forgotten(l, w, n) == [m \in {m \in DOMAIN aliases : aliases[m] # l} |-> aliases[m]]

\* The loser's aliases are the winner's, and the loser's own name becomes one.
Repointed(l, w, n) ==
    [m \in DOMAIN aliases \cup {n} |-> IF m \in DOMAIN aliases /\ aliases[m] # l THEN aliases[m] ELSE w]

Inherited(l, w) == [i \in RowIds |-> IF heir[i] = l THEN w ELSE heir[i]]

Merge(p) == LET l == resolver[p].loser w == resolver[p].id n == resolver[p].name IN
    /\ resolver[p].at = "merging" /\ w \in Rows
    /\ projects' = Without(l)
    /\ usage'    = Summed(l, w)
    /\ aliases'  = Repointed(l, w, n)
    /\ heir'     = Inherited(l, w)
    /\ Goes(p, "merge")
    /\ UNCHANGED <<lastId, homes, contested, bounds>>

Owns(i, n) == n \notin DOMAIN aliases \/ (\E m \in DOMAIN aliases : aliases[m] = i) \/ (\E k \in DOMAIN usage : k[1] = i)

\* The winner has gone since it was read: whatever is pointed at it is an
\* error, and the transaction is rolled back; a loser that owns nothing goes.
MergeIntoNothing(p) == LET l == resolver[p].loser IN
    /\ resolver[p].at = "merging" /\ resolver[p].id \notin Rows
    /\ \/ Owns(l, resolver[p].name) /\ Aborts(p) /\ UNCHANGED projects
       \/ ~Owns(l, resolver[p].name) /\ projects' = Without(l) /\ Goes(p, "merge")
    /\ UNCHANGED <<aliases, usage, lastId, heir, homes, contested, bounds>>

\* A process dies, or its pass throws for a reason of its own.
Lose(p) ==
    /\ resolver[p].at # "idle" /\ lost < MaxLost
    /\ Aborts(p)
    /\ lost' = lost + 1
    /\ UNCHANGED <<projects, aliases, usage, lastId, heir, homes, contested, lookups, bookings, requested>>

------------------------------------------------------------------------------
ProjectsInit ==
    /\ projects = <<>> /\ aliases = <<>> /\ usage = <<>> /\ lastId = 0
    /\ resolver = [p \in Resolvers |-> AtRest]
    /\ heir = [i \in RowIds |-> i]
    /\ homes = [n \in Names |-> {}] /\ contested = {}
    /\ lookups = 0 /\ bookings = 0 /\ requested = 0 /\ lost = 0

Proceed(p) ==
    \/ ByName(p) \/ Backfill(p) \/ ByAlias(p) \/ ByIdentity(p) \/ Adopt(p) \/ Insert(p) \/ Register(p)
    \/ Sweep(p) \/ Rank(p) \/ ReadBoth(p) \/ Merge(p) \/ MergeIntoNothing(p)

ProjectsNext == \E p \in Resolvers :
    \/ Proceed(p) \/ Lookup(p) \/ AskMerge(p) \/ Lose(p)
    \/ \E m \in Minutes : Book(p, m)

ProjectsSpec == ProjectsInit /\ [][ProjectsNext]_projectVars

\* A process that has begun goes on, and passes never cease: the worker starts
\* one every few minutes, and each ends with a sweep.
ProjectsFair == \A p \in Resolvers : WF_projectVars(Proceed(p))

------------------------------------------------------------------------------
(* Properties                                                               *)

Shown == UNION {GitSays[n] \ {NoGit} : n \in Names}

ProjectsTypeOK ==
    /\ lastId \in Nat /\ Rows \subseteq 1..lastId
    /\ \A i \in Rows : projects[i].name \in Names /\ projects[i].root \in {g.root : g \in Shown} \cup {NoGit}
    /\ DOMAIN aliases \subseteq Names /\ (\A n \in DOMAIN aliases : aliases[n] \in Rows)
    /\ \A k \in DOMAIN usage : k[1] \in Rows /\ k[2] \in Minutes /\ usage[k] \in Nat
    /\ \A p \in Resolvers : resolver[p].at \in ResolverStages /\ resolver[p].id \in 0..lastId
    /\ heir \in [RowIds -> RowIds] /\ homes \in [Names -> SUBSET RowIds] /\ contested \subseteq Names

\* The project table implements the accounts: each token goes whole to a row
\* that exists, however late the process that books it resolved its
\* directory, a merge moves what the loser holds, minute by minute, and a row
\* that is gone never returns under its id.
Accounts == INSTANCE UsageAccounts WITH
    Accounts <- RowIds, opened <- Rows, closed <- (1..lastId) \ Rows,
    balance <- [i \in RowIds |-> [m \in Minutes |-> Tokens(i, m)]]
AccountsKept == Accounts!AccountsSpec

\* Whatever a directory was ever resolved to is one project today: neither a
\* rename, a lost remote, a merge between two statements nor a row whose own
\* alias was never written sends its work to two.  Only two processes that
\* resolve the same unseen directory at the same time may part.
OneHome == \A n \in Names \ contested : \A i, j \in homes[n] : heir[i] = heir[j]

\* Rows of one repository do not stay apart: however sweeps and requests
\* undo each other's plans, in the end no two rows share slot, root and origin.
Twins(i, j) ==
    /\ i # j /\ projects[i].root # NoGit
    /\ projects[i].root = projects[j].root /\ projects[i].origin = projects[j].origin
    /\ Slot[projects[i].name] = Slot[projects[j].name]
EventuallyOneRow == <>[](\A i, j \in Rows : ~Twins(i, j))
==================================================================================
