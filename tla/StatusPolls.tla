------------------------------- MODULE StatusPolls -------------------------------
(***************************************************************************)
(* The vendor status pages, packages/core/status-pages.ts: the worker      *)
(* polls every target and keeps each answer as a row; hourly it folds the  *)
(* rows older than 28 days into one row per hour and target and deletes    *)
(* them.  The cutoff is the present minus 28 days, to the second: it falls *)
(* inside an hour.                                                         *)
(***************************************************************************)
EXTENDS Integers, FiniteSetsExt, Functions

CONSTANTS
    Targets,
    HourLength,     \* instants of an hour
    Keep,           \* keepDays, in instants
    MaxInstant      \* bound: the clock

Lights == {"none", "minor", "major", "unreachable", "unknown"}
Poll   == [target : Targets, at : Nat, light : Lights]
Hours  == 0..(MaxInstant \div HourLength)

ASSUME StatusConstantsOK ==
    /\ IsFiniteSet(Targets)
    /\ HourLength \in Nat \ {0} /\ Keep \in Nat /\ MaxInstant \in Nat

VARIABLES
    now,
    polls,          \* status_polls
    hourly,         \* status_polls_hourly, by hour and target
    recorded        \* history: every poll ever recorded

statusVars == <<now, polls, hourly, recorded>>

NoRow  == [polls |-> 0, worst |-> "unknown", unreachable |-> 0]
HourOf(p) == p.at \div HourLength

\* An unreachable page counts as a minor light; `unknown` and a robots.txt
\* that forbids the poll rank between none and minor.
Rank(light) == CASE light = "major" -> 3
                 [] light \in {"minor", "unreachable"} -> 2
                 [] light = "none" -> 0
                 [] OTHER -> 1
Worst(lights) == LET rank == Max({Rank(l) : l \in lights}) IN
                 CASE rank = 3 -> "major" [] rank = 2 -> "minor" [] rank = 0 -> "none" [] OTHER -> "unknown"

Fold(rows) == [polls |-> Cardinality(rows), worst |-> Worst({p.light : p \in rows}),
               unreachable |-> Cardinality({p \in rows : p.light = "unreachable"})]

StatusInit == now = 0 /\ polls = {} /\ recorded = {} /\ hourly = [k \in Hours \X Targets |-> NoRow]

\* pollAllStatusTargets: one row for each target.  The timer and the poll on
\* start are minutes apart: at most one poll of a target at one instant.
PollAll(lights) ==
    LET new == {[target |-> t, at |-> now, light |-> lights[t]] : t \in Targets} IN
    /\ ~ \E p \in recorded : p.at = now
    /\ polls' = polls \cup new /\ recorded' = recorded \cup new
    /\ UNCHANGED <<now, hourly>>

\* The polls that a rollup folds, and those that it deletes.  Mutant: the
\* whole hour of the cutoff is deleted.
Folded    == {p \in polls : p.at < now - Keep}
WholeHour == {p \in polls : HourOf(p) <= (now - Keep) \div HourLength}
Deleted   == {p \in polls : p.at < now - Keep}

\* rollupStatusPolls, one transaction: INSERT OR REPLACE of a row for every
\* hour with old polls, and their DELETE.
Rollup ==
    LET Of(h, t) == {p \in Folded : HourOf(p) = h /\ p.target = t} IN
    /\ hourly' = [k \in Hours \X Targets |-> IF Of(k[1], k[2]) = {} THEN hourly[k] ELSE Fold(Of(k[1], k[2]))]
    /\ polls' = polls \ Deleted
    /\ UNCHANGED <<now, recorded>>

StatusTick == now < MaxInstant /\ now' = now + 1 /\ UNCHANGED <<polls, hourly, recorded>>

StatusNext == (\E lights \in [Targets -> Lights] : PollAll(lights)) \/ Rollup \/ StatusTick
StatusSpec == StatusInit /\ [][StatusNext]_statusVars

-----------------------------------------------------------------------------
StatusTypeOK ==
    /\ now \in 0..MaxInstant /\ polls \subseteq recorded /\ recorded \subseteq Poll
    /\ hourly \in [Hours \X Targets -> [polls : Nat, worst : Lights, unreachable : Nat]]

Gone(h, t) == {p \in recorded \ polls : HourOf(p) = h /\ p.target = t}

\* No poll of the last 28 days is deleted.
RecentPollsKept == \A p \in recorded : p.at >= now - Keep => p \in polls

\* A row of the hourly tier is the fold of the polls that its hour lost last,
\* and of those only: a rollup deletes nothing that it did not fold.  Where
\* the cutoff fell inside the hour this is less than the promise below.
LastFoldStands ==
    \A h \in Hours, t \in Targets :
        IF Gone(h, t) = {} THEN hourly[<<h, t>>] = NoRow
        ELSE \E from \in {p.at : p \in Gone(h, t)} : hourly[<<h, t>>] = Fold({p \in Gone(h, t) : p.at >= from})

(* What comments promise and the code does not keep.                       *)

\* "Raw polls older than 28 days fold into one row per hour: the worst light."
\* A second rollup of an hour replaces the row of the first, and with it the
\* worst light of the polls that are no longer there.
WorstLight ==
    \A h \in Hours, t \in Targets :
        Gone(h, t) # {} => hourly[<<h, t>>].worst = Worst({p.light : p \in Gone(h, t)})
==================================================================================
