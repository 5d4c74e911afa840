---------------------------------- MODULE Alerts ----------------------------------
(***************************************************************************)
(* Usage alerts, packages/core/db/ingest.ts and the route /api/alerts.     *)
(* Every ingestion pass ends with checkThresholds, in the process that     *)
(* runs it: for each rule it reads the usage of the rule's window and the  *)
(* alerts of that window, then inserts an alert, in statements of their    *)
(* own.  The web server acknowledges and clears alerts and moves the       *)
(* thresholds meanwhile.                                                   *)
(***************************************************************************)
EXTENDS Integers, FiniteSetsExt, Functions

CONSTANTS
    Rules,          \* rows of alert_thresholds: a window and a metric
    Window,         \* window_minutes of each rule
    Levels,         \* threshold values
    Amounts,        \* tokens of a minute
    Checkers,       \* processes that run passes: checkThresholds never yields within one
    MaxMinute, MaxAlerts, MaxRequests       \* bounds

ASSUME AlertConstantsOK ==
    /\ Window \in [Rules -> Nat] /\ Levels \subseteq Nat /\ Amounts \subseteq Nat
    /\ {MaxMinute, MaxAlerts, MaxRequests} \subseteq Nat

VARIABLES
    minute,
    usage,          \* usage_minutes: tokens by minute
    threshold, enabled,     \* of each rule
    alerts,         \* the alerts table
    inserted,       \* last id given
    check,          \* each pass's checkThresholds
    moving,         \* rules whose update the web server has yet to acknowledge
    requests        \* bounded events so far

alertVars == <<minute, usage, threshold, enabled, alerts, inserted, check, moving, requests>>

\* `blind`, history: another alert of the rule was inserted since the pass that
\* inserted this one had looked; `moved`: the threshold was, since it had read it.
Alert == [id : Nat, rule : Rules, at : Nat, against : Levels, acked : BOOLEAN, blind : BOOLEAN, moved : BOOLEAN]

NoCheck == [rules |-> {}, began |-> 0, read |-> <<>>, breach |-> {}, seen |-> 0]

AlertInit ==
    /\ minute = 0 /\ usage = [m \in 0..MaxMinute |-> 0]
    /\ threshold \in [Rules -> Levels] /\ enabled = [r \in Rules |-> TRUE]
    /\ alerts = {} /\ inserted = 0
    /\ check = [c \in Checkers |-> NoCheck]
    /\ moving = {} /\ requests = 0

-----------------------------------------------------------------------------
(* A pass.                                                                 *)

\* The usage of the present minute is booked.
Spend(n) ==
    /\ usage' = [usage EXCEPT ![minute] = @ + n]
    /\ usage[minute] = 0
    /\ UNCHANGED <<minute, threshold, enabled, alerts, inserted, check, moving, requests>>

\* The pass ends with its last rule.
Rest(k) == IF k.rules = {} /\ k.breach = {} THEN NoCheck ELSE k

\* The thresholds in force, and the time that counts for all of them.
BeginCheck(c) ==
    /\ check[c].rules = {} /\ check[c].breach = {}
    /\ check' = [check EXCEPT ![c] = Rest([NoCheck EXCEPT !.rules = {r \in Rules : enabled[r]},
                                                          !.began = minute, !.read = threshold])]
    /\ UNCHANGED <<minute, usage, threshold, enabled, alerts, inserted, moving, requests>>

Spent(from) == MapThenSumSet(LAMBDA m : usage[m], {m \in 0..MaxMinute : m >= from})
\* Mutant: an acknowledged alert does not count.
RecentOpen(r) == \E a \in alerts : a.rule = r /\ a.at >= minute - Window[r] /\ ~a.acked
Recent(r)   == \E a \in alerts : a.rule = r /\ a.at >= minute - Window[r]

\* A rule's usage in its window, and its alerts of the window: acknowledged
\* ones count, cleared ones are gone.
Weigh(c, r) ==
    /\ r \in check[c].rules /\ check[c].breach = {}
    /\ LET over == {o \in {r} : Spent(check[c].began - Window[o]) > check[c].read[o] /\ ~Recent(o)} IN
       check' = [check EXCEPT ![c] = Rest([check[c] EXCEPT !.rules = check[c].rules \ {r}, !.seen = inserted, !.breach = over])]
    /\ UNCHANGED <<minute, usage, threshold, enabled, alerts, inserted, moving, requests>>

Insert(c, r) ==
    /\ r \in check[c].breach /\ inserted < MaxAlerts
    /\ inserted' = inserted + 1
    /\ alerts' = alerts \cup {[id |-> inserted', rule |-> r, at |-> minute, against |-> check[c].read[r],
                               acked |-> FALSE,
                               blind |-> \E a \in alerts : a.rule = r /\ a.id > check[c].seen,
                               moved |-> threshold[r] # check[c].read[r]]}
    /\ check' = [check EXCEPT ![c] = Rest([check[c] EXCEPT !.breach = {}])]
    /\ UNCHANGED <<minute, usage, threshold, enabled, moving, requests>>

-----------------------------------------------------------------------------
(* Requests.                                                               *)

Request == requests < MaxRequests /\ requests' = requests + 1
Acked(set) == {IF a \in set THEN [a EXCEPT !.acked = TRUE] ELSE a : a \in alerts}

\* acknowledgeAlert and acknowledgeAllAlerts.
Acknowledge(set) ==
    /\ alerts' = Acked(set)
    /\ UNCHANGED <<minute, usage, threshold, enabled, inserted, check, moving, requests>>

\* clearAlerts.
Clear(all) ==
    /\ Request /\ alerts' = IF all THEN {} ELSE {a \in alerts : ~a.acked}
    /\ UNCHANGED <<minute, usage, threshold, enabled, inserted, check, moving>>

\* update_threshold: the rule is written, and the alerts measured against the
\* old value are acknowledged in the next statement.
UpdateThreshold(r, value, on) ==
    /\ Request /\ moving = {}
    /\ threshold' = [threshold EXCEPT ![r] = value] /\ enabled' = [enabled EXCEPT ![r] = on]
    /\ moving' = IF value # threshold[r] THEN {r} ELSE {}
    /\ UNCHANGED <<minute, usage, alerts, inserted, check>>

AcknowledgeMoved ==
    /\ moving # {} /\ moving' = {}
    /\ alerts' = Acked({a \in alerts : a.rule \in moving})
    /\ UNCHANGED <<minute, usage, threshold, enabled, inserted, check, requests>>

\* Mutant: only the alerts whose rule got a lower value.
Overtaken(levels) == {a \in alerts : levels[a.rule] < threshold[a.rule]}
Outdated(levels)  == {a \in alerts : levels[a.rule] # threshold[a.rule]}

\* calibrate: both in one transaction, for every rule that has usage.
Calibrate(levels) ==
    /\ Request /\ moving = {} /\ Spent(0) > 0
    /\ threshold' = levels
    /\ alerts' = Acked(Outdated(levels))
    /\ UNCHANGED <<minute, usage, enabled, inserted, check, moving>>

AlertTick == /\ minute < MaxMinute /\ minute' = minute + 1
        /\ UNCHANGED <<usage, threshold, enabled, alerts, inserted, check, moving, requests>>

AlertNext ==
    \/ \E n \in Amounts : Spend(n)
    \/ \E c \in Checkers : \/ BeginCheck(c)
                           \/ \E r \in Rules : Weigh(c, r) \/ Insert(c, r)
    \/ \E a \in alerts : Acknowledge({a})
    \/ Acknowledge(alerts)
    \/ \E all \in BOOLEAN : Clear(all)
    \/ \E r \in Rules, value \in Levels, on \in BOOLEAN : UpdateThreshold(r, value, on)
    \/ AcknowledgeMoved
    \/ \E levels \in [Rules -> Levels] : Calibrate(levels)
    \/ AlertTick

AlertSpec == AlertInit /\ [][AlertNext]_alertVars

-----------------------------------------------------------------------------
AlertTypeOK ==
    /\ minute \in 0..MaxMinute /\ usage \in [0..MaxMinute -> Nat]
    /\ threshold \in [Rules -> Levels] /\ enabled \in [Rules -> BOOLEAN]
    /\ alerts \subseteq Alert /\ inserted \in Nat /\ moving \subseteq Rules /\ requests \in Nat

\* A rule raises one alert in its window, acknowledged or not, except when two
\* passes check at once and the second looked before the first inserted.
NoSpam ==
    \A a, b \in alerts : a.rule = b.rule /\ a.id < b.id /\ b.at - a.at <= Window[b.rule] => b.blind

\* "Moving a threshold acknowledges the alerts that were measured against the
\* old one": an open alert was measured against the threshold in force, except
\* one that a pass inserts after the move with the value it had read before.
OpenAgainstCurrent ==
    \A a \in alerts : ~a.acked => a.against = threshold[a.rule] \/ a.moved \/ a.rule \in moving

\* What the alerts page shows is one alert a window, of the rule in force.
AlertsMatchRules == NoSpam /\ OpenAgainstCurrent
==================================================================================
