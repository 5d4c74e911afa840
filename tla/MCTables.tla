--------------------------------- MODULE MCTables ---------------------------------
(* The tables that the worker keeps besides the log: prices, status polls,  *)
(* mesh samples, refusals, alerts and the blobs.  They share no state, so    *)
(* one run checks them beside each other: `focus`, chosen at the start,     *)
(* says which of them moves, and the reachable states are the sum of theirs.*)
EXTENDS PriceLedger, StatusPolls, MeshRollup, RefusalScan, Alerts, BlobStore, TLC

CONSTANTS oracle, m1, m2, x1, x2, target, h1, h2, s1, s2, rule, c1, c2, spillFile

VARIABLE focus

OneOracle  == <<oracle>>
BothListed == {[m \in Models |-> 1]}

\* A throttle record and the error text printed beside it; in another session
\* a text that no record covers and a Claude row long after it.
ErrorTexts    == {[session |-> s, minute |-> 1, match |-> TRUE] : s \in Sessions}
SelfReported  == {[session |-> s1, minute |-> 2, api |-> FALSE], [session |-> s2, minute |-> 9, api |-> TRUE]}

OneMinute == [r \in Rules |-> 1]

\* Two passes at the alerts or at the blobs may change places.
Symmetry == Permutations(Checkers)

vars == <<focus, priceVars, statusVars, meshVars, scanVars, alertVars, blobVars>>

Init ==
    /\ focus \in {"prices", "status", "mesh", "refusals", "usage", "blobs"}
    /\ PriceInit /\ StatusInit /\ MeshInit /\ ScanInit /\ AlertInit /\ BlobInit
    /\ focus # "usage" => threshold = OneMinute

Next ==
    /\ UNCHANGED focus
    /\ \/ focus = "prices"   /\ PriceNext  /\ UNCHANGED <<statusVars, meshVars, scanVars, alertVars, blobVars>>
       \/ focus = "status"   /\ StatusNext /\ UNCHANGED <<priceVars, meshVars, scanVars, alertVars, blobVars>>
       \/ focus = "mesh"     /\ MeshNext   /\ UNCHANGED <<priceVars, statusVars, scanVars, alertVars, blobVars>>
       \/ focus = "refusals" /\ ScanNext   /\ UNCHANGED <<priceVars, statusVars, meshVars, alertVars, blobVars>>
       \/ focus = "usage"    /\ AlertNext  /\ UNCHANGED <<priceVars, statusVars, meshVars, scanVars, blobVars>>
       \/ focus = "blobs"    /\ BlobNext   /\ UNCHANGED <<priceVars, statusVars, meshVars, scanVars, alertVars>>

Spec == Init /\ [][Next]_vars

\* Every table keeps its type.
TypeOK == PriceTypeOK /\ StatusTypeOK /\ MeshTypeOK /\ ScanTypeOK /\ AlertTypeOK /\ BlobTypeOK

\* A rollup deletes no poll of the last 28 days, and the two tiers of samples
\* say the same.
RollupsFaithful == RecentPollsKept /\ TiersAgree
==================================================================================
