-------------------------------- MODULE ProjectList --------------------------------
(***************************************************************************)
(* The project list: packages/core/projects-list.ts, project-classify.ts   *)
(* and project-rollup.ts.  Ingestion makes a row of `projects` for every   *)
(* directory a harness ever ran in.  buildProjectList decides which of     *)
(* them are projects and counts the activity of the others with the        *)
(* project they belong to: rows of one repository under one name, then     *)
(* workspaces by their path, then what is left by its name.                *)
(***************************************************************************)
EXTENDS Integers, SequencesExt

CONSTANTS
    Pool,           \* rows that ingestion may make: [name, path, commit]
    PrefixLength,   \* how much longer a name is made by the harness it is prefixed with
    ScratchRoots,   \* EPHEMERAL_PATH_ROOTS
    WorkerDir,      \* the segment that marks an agent's workspace
    MaxRows, MaxDirs        \* bounds

\* A name is a harness and a path whose segments are joined by dashes; a path
\* is the sequence of its segments, empty when it is not known.
NoPath   == <<>>
NoCommit == 0
NoName   == [harness |-> "none", slug |-> <<>>]

ASSUME ListConstantsOK ==
    /\ MaxRows \in Nat /\ MaxDirs \in Nat
    /\ \A r \in Pool : /\ r.name.slug \in Seq(STRING) \ {<<>>} /\ r.path \in Seq(STRING)
                        /\ PrefixLength[r.name.harness] \in Nat /\ r.commit \in Nat
    /\ \A r, s \in Pool : r.name = s.name => r = s

VARIABLES
    projectRows,    \* rows of `projects` that have sessions, as the query returns them
    harnessDirs,    \* directories under ~/.claude/projects
    listed          \* what the last build returned, and what it left out

listVars == <<projectRows, harnessDirs, listed>>

NotBuilt == [kept |-> {}, dropped |-> {}, counted |-> <<>>]

ListInit == projectRows = <<>> /\ harnessDirs = <<>> /\ listed = NotBuilt

-----------------------------------------------------------------------------
(* Which rows are projects, project-classify.ts.                           *)

Rows   == ToSet(projectRows)
Pathed == {r \in Rows : r.path # NoPath}
NamesOf(rows) == {r.name : r \in rows}

Beneath(p, q) == IsStrictPrefix(q, p)

IsScratch(path) ==
    \/ \E root \in ScratchRoots : IsPrefix(root, path)
    \/ \E i \in 1..(Len(path) - 1) : path[i] = WorkerDir

Ephemeral == NamesOf({r \in Pathed : IsScratch(r.path)})

\* What is on disk under ~/.claude, and what is a git root.
Trusted == (ToSet(harnessDirs) \cup NamesOf({r \in Rows : r.commit # NoCommit})) \ Ephemeral

\* A directory that holds at least two other tracked ones, and is no git root.
Containers ==
    LET below(r) == {q \in {x.path : x \in Pathed} : Beneath(q, r.path)}
    IN  NamesOf({r \in Pathed : r.name \notin Ephemeral /\ r.commit = NoCommit /\ Cardinality(below(r)) >= 2})

\* The first in a sequence of those among some that score best.
FirstBest(s, some, score) ==
    s[CHOOSE i \in DOMAIN s :
        /\ s[i] \in some
        /\ \A j \in DOMAIN s : s[j] \in some =>
              score[s[j]] < score[s[i]] \/ (score[s[j]] = score[s[i]] /\ i <= j)]

\* The order in which names come up.
Seen == harnessDirs \o [i \in DOMAIN projectRows |-> projectRows[i].name]

\* Within, between two dashes.
Encloses(t, s) == \E i \in 2..(Len(t) - Len(s)) : SubSeq(t, i, i + Len(s) - 1) = s

\* The longest of `targets` that the name begins with, or else encloses; of
\* equals the one trusted, before any that was promoted, then the one seen first.
RollupTarget(n, targets) ==
    LET heads  == {t \in targets : IsPrefix(t.slug, n.slug)}
        within == {t \in targets : Encloses(n.slug, t.slug)}
        length == [t \in targets |-> 2 * Len(t.slug) + (IF t \in Trusted THEN 1 ELSE 0)]
    IN  IF heads # {} THEN FirstBest(Seen, heads, length)
        ELSE IF within # {} THEN FirstBest(Seen, within, length)
        ELSE NoName

\* Real work that is no git root yet: nested in nothing but containers, and
\* named after no project that is trusted.
Promoted ==
    LET open      == {q.path : q \in Pathed} \ {c.path : c \in {x \in Pathed : x.name \in Containers}}
        nested(r) == \E q \in open : Beneath(r.path, q)
    IN  NamesOf({r \in Pathed : /\ r.name \notin Ephemeral \cup Trusted /\ ~nested(r)
                                /\ RollupTarget(r.name, Trusted \ Containers) = NoName})

RepoNames   == Trusted \cup Promoted
FoldTargets == RepoNames \ Containers

-----------------------------------------------------------------------------
(* The list, projects-list.ts.                                             *)

NameLength(r) == Len(r.name.slug) + PrefixLength[r.name.harness]

\* Mutant: the rows of a repository go by their own names.
CanonicalPerHarness(r) == r.name

\* Rows of one root commit go by the name that is on disk, or else the shortest.
Canonical(r) ==
    IF r.commit = NoCommit THEN r.name
    ELSE LET same == {x \in Rows : x.commit = r.commit}
             here == {x \in same : x.name \in ToSet(harnessDirs)}
         IN  FirstBest(projectRows, IF here # {} THEN here ELSE same, [x \in same |-> -NameLength(x)]).name

\* The entries in the order they are made, each as often as something lands on it.
Landings == harnessDirs \o [i \in DOMAIN projectRows |-> Canonical(projectRows[i])]

\* Entries by name, and how often each counts each row.
ByIdentity ==
    [kept |-> ToSet(Landings), dropped |-> {},
     counted |-> [k \in ToSet(Landings) |-> [r \in Rows |-> IF Canonical(r) = k THEN 1 ELSE 0]]]

\* What the turn of entry k does: it stays as its own parent, is dropped
\* without one, or is counted with it.
Turn(list, k, p) ==
    IF k \notin list.kept \/ p = k THEN list
    ELSE IF p = NoName THEN [list EXCEPT !.kept = @ \ {k}, !.dropped = @ \cup {k}]
    ELSE [list EXCEPT !.kept = @ \ {k},
                      !.counted[p] = [r \in Rows |-> @[r] + list.counted[k][r]]]

\* One pass over the entries.
FoldInto(list, parent) ==
    LET upTo[i \in 0..Len(Landings)] ==
            IF i = 0 THEN list ELSE Turn(upTo[i - 1], Landings[i], parent[Landings[i]])
    IN  upTo[Len(Landings)]

\* Mutant: a workspace may own a workspace.
AnyFoldable(r) == Canonical(r) \in RepoNames \/ r.name \in Ephemeral

Foldable(r) == r.name \notin Ephemeral /\ Canonical(r) \in RepoNames

\* The deepest project above a workspace, ancestorByPath.
OwnerOf(r) ==
    LET above == {x \in Pathed : Foldable(x) /\ Beneath(r.path, x.path)}
    IN  IF above = {} THEN NoName
        ELSE Canonical(FirstBest(projectRows, above, [x \in above |-> Len(x.path)]))

PathParent(k, keys) ==
    LET row == {r \in Pathed : r.name = k /\ IsScratch(r.path) /\ OwnerOf(r) \in keys}
    IN  IF row = {} THEN k ELSE OwnerOf(CHOOSE r \in row : TRUE)

NameParent(k, keys) ==
    IF k \in RepoNames THEN k
    ELSE LET t == RollupTarget(k, FoldTargets) IN IF t \in keys \ {k} THEN t ELSE NoName

ByPath        == FoldInto(ByIdentity, [k \in ByIdentity.kept |-> PathParent(k, ByIdentity.kept)])
ProjectsShown ==
    LET list == ByPath IN FoldInto(list, [k \in ToSet(Landings) |-> NameParent(k, list.kept)])

-----------------------------------------------------------------------------
(* A harness works somewhere new.  With Claude Code its directory appears   *)
(* under ~/.claude before or after ingestion makes the row.                *)
AddRow(r) ==
    /\ listed = NotBuilt /\ Len(projectRows) < MaxRows
    /\ r \notin Rows
    /\ projectRows' = Append(projectRows, r)
    /\ UNCHANGED <<harnessDirs, listed>>

AddDirectory(r) ==
    /\ listed = NotBuilt /\ r.name.harness = "claude"
    /\ r.name \notin ToSet(harnessDirs) /\ Len(harnessDirs) < MaxDirs
    /\ harnessDirs' = Append(harnessDirs, r.name)
    /\ UNCHANGED <<projectRows, listed>>

BuildList == projectRows # <<>> /\ listed' = ProjectsShown /\ UNCHANGED <<projectRows, harnessDirs>>

ListNext == BuildList \/ \E r \in Pool : AddRow(r) \/ AddDirectory(r)
ListSpec == ListInit /\ [][ListNext]_listVars

-----------------------------------------------------------------------------
ListTypeOK ==
    /\ projectRows \in Seq(Pool) /\ harnessDirs \in Seq(NamesOf(Pool))
    /\ listed.kept \cup listed.dropped \subseteq NamesOf(Pool)

Built    == listed # NotBuilt
Shown(r) == {k \in listed.kept : listed.counted[k][r] > 0}

\* However three folds move it, the activity of a row is counted once: with
\* one project, or with one of the entries that are left out and logged.
EachCountedOnce ==
    LET all == listed.kept \cup listed.dropped IN
    Built => \A r \in Rows : \E k \in all :
        listed.counted[k][r] = 1 /\ \A o \in all \ {k} : listed.counted[o][r] = 0

\* The rows of a repository stay together, and a repository that no scratch
\* clone shares is on the list.
ReposAreListed ==
    Built => \A r \in Rows : r.commit # NoCommit =>
        /\ \A s \in Rows : s.commit = r.commit => Shown(s) = Shown(r)
        /\ (\A s \in Rows : s.commit = r.commit => s.name \notin Ephemeral) => Shown(r) # {}

\* What the list says of activity.
ActivityIsKept == EachCountedOnce /\ ReposAreListed

-----------------------------------------------------------------------------
(* What comments promise and the code does not keep.                       *)

\* projects-list.ts: "a row that is neither a git root nor inside one is an
\* ephemeral container, not a project"; only such rows are left out.
OnlyStraysDropped ==
    Built => \A r \in Rows :
        Shown(r) = {} => /\ r.commit = NoCommit \/ r.name \in Ephemeral
                         /\ RollupTarget(r.name, FoldTargets) = NoName

\* project-classify.ts, of containers: "They keep a row; they absorb nobody."
ContainersAbsorbNobody ==
    Built => \A r \in Rows : Shown(r) \cap Containers \subseteq {Canonical(r)}
==================================================================================
