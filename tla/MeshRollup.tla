-------------------------------- MODULE MeshRollup --------------------------------
(***************************************************************************)
(* The two tiers of mesh samples: packages/core/db/mesh-snapshots.ts adds  *)
(* a row per reachable node and poll to mesh_snapshots, and the worker's   *)
(* apps/worker/src/mesh-rollup.ts folds buckets of 15 minutes older than   *)
(* 28 days into one row of mesh_snapshots_15m each, smoothed over the row  *)
(* before and the three buckets after, and deletes the samples it folded.  *)
(***************************************************************************)
EXTENDS Integers, FiniteSetsExt, Functions

CONSTANTS
    Hosts,
    Values,         \* readings of one metric
    BucketLength,   \* instants of a bucket
    HotRetention,   \* instants that samples stay hot
    MaxPerCall,     \* buckets that one drain folds at most
    MaxTime,        \* bound: the clock
    MaxSamples      \* bound: samples

Null   == -1      \* a metric that the node did not report
NoMean == <<>>
ASSUME MeshConstantsOK ==
    /\ IsFiniteSet(Hosts) /\ Values \subseteq Nat
    /\ {BucketLength, MaxPerCall} \subseteq Nat \ {0} /\ {HotRetention, MaxTime, MaxSamples} \subseteq Nat

VARIABLES
    time,
    hot,            \* mesh_snapshots
    cold,           \* mesh_snapshots_15m
    taken           \* history: every sample ever taken

meshVars == <<time, hot, cold, taken>>

Sample == [host : Hosts, at : Nat, value : Values \cup {Null}]
BucketStart(t) == (t \div BucketLength) * BucketLength
InBucket(rows, h, b) == {s \in rows : s.host = h /\ s.at >= b /\ s.at < b + BucketLength}
Readings(rows) == {s \in rows : s.value # Null}

\* Averages are fractions <<n, d>>; without a reading there is none.
Mean(rows) == IF Readings(rows) = {} THEN NoMean
              ELSE <<MapThenSumSet(LAMBDA s : s.value, Readings(rows)), Cardinality(Readings(rows))>>
MaxOf(rows) == IF Readings(rows) = {} THEN Null ELSE Max({s.value : s \in Readings(rows)})

\* A sum of weighted means so far, as a fraction, and the weight of those that
\* there are; what is missing takes no weight.
Nothing == [num |-> 0, den |-> 1, weight |-> 0]
Plus(sum, w, mean) ==
    IF mean = NoMean THEN sum
    ELSE [num |-> sum.num * mean[2] + w * mean[1] * sum.den, den |-> sum.den * mean[2], weight |-> sum.weight + w]

\* Mutant: without renormalization.
TotalWeight(sum) == 20
WeightOf(sum) == sum.weight
\* W_PREV, W_CUR, W_N1, W_N2 and W_N3, in twentieths.
Weighted(prev, cur, n1, n2, n3) ==
    LET sum == Plus(Plus(Plus(Plus(Plus(Nothing, 3, prev), 8, cur), 5, n1), 3, n2), 1, n3)
    IN  IF sum.weight = 0 THEN NoMean ELSE <<sum.num, sum.den * WeightOf(sum)>>

Latest(rows) == CHOOSE r \in rows : \A o \in rows : o.bucket <= r.bucket
Smoothed(h, b, hotRows, coldRows) ==
    LET prev  == {r \in coldRows : r.host = h /\ r.bucket < b}
        of(n) == Mean(InBucket(hotRows, h, b + n * BucketLength))
    IN  Weighted(IF prev = {} THEN NoMean ELSE Latest(prev).smoothed, of(0), of(1), of(2), of(3))

MeshInit == time = 0 /\ hot = {} /\ cold = {} /\ taken = {}

\* One poll of the fleet: a row for each node that answered.
Snapshot(readings) ==
    LET rows == {[host |-> h, at |-> time, value |-> readings[h]] : h \in DOMAIN readings} IN
    /\ ~ \E s \in taken : s.at = time
    /\ Cardinality(taken) + Cardinality(rows) <= MaxSamples
    /\ hot' = hot \cup rows /\ taken' = taken \cup rows
    /\ UNCHANGED <<time, cold>>

\* Mutants: a bucket is folded before its last sample has aged; newest first.
AgedAlone(rows) == {s \in rows : s.at < time - HotRetention}
Aged(rows) == {s \in rows : s.at < time - HotRetention - BucketLength}
Newest(rows) == {s \in Aged(rows) : \A o \in Aged(rows) : s.at >= o.at}
Oldest(rows) == {s \in Aged(rows) : \A o \in rows : s.at <= o.at}

\* rollupOneBucket: the bucket of the oldest aged sample of the fleet.
Rolled(tiers, s) ==
    LET b == BucketStart(s.at)
        samples == InBucket(tiers.hot, s.host, b)
    IN  [hot  |-> tiers.hot \ samples,
         cold |-> tiers.cold \cup {[host |-> s.host, bucket |-> b, count |-> Cardinality(samples),
                                    max |-> MaxOf(samples),
                                    smoothed |-> Smoothed(s.host, b, tiers.hot, tiers.cold)]}]

\* What up to n such steps may leave; two hosts may both have the oldest.
After[n \in Nat] ==
    IF n = 0 THEN {[hot |-> hot, cold |-> cold]}
    ELSE UNION {IF Oldest(tiers.hot) = {} THEN {tiers} ELSE {Rolled(tiers, s) : s \in Oldest(tiers.hot)}
                : tiers \in After[n - 1]}

RollupDrain ==
    /\ \E tiers \in After[MaxPerCall] : hot' = tiers.hot /\ cold' = tiers.cold
    /\ UNCHANGED <<time, taken>>

MeshTick == time < MaxTime /\ time' = time + 1 /\ UNCHANGED <<hot, cold, taken>>

MeshNext ==
    \/ \E up \in SUBSET Hosts : \E readings \in [up -> Values \cup {Null}] : Snapshot(readings)
    \/ RollupDrain
    \/ MeshTick
MeshSpec == MeshInit /\ [][MeshNext]_meshVars

-----------------------------------------------------------------------------
MeshTypeOK ==
    /\ time \in 0..MaxTime /\ hot \subseteq taken /\ taken \subseteq Sample
    /\ \A r \in cold : r.host \in Hosts /\ r.bucket \in Nat /\ r.count \in Nat

\* Every sample is in exactly one tier: a bucket is still whole in the hot tier,
\* or it has one cold row that counts all of its samples and keeps their peak;
\* and nothing younger than the retention was folded.
OneTier ==
    /\ \A s \in taken :
        LET all  == InBucket(taken, s.host, BucketStart(s.at))
            rows == {r \in cold : r.host = s.host /\ r.bucket = BucketStart(s.at)}
        IN  IF rows = {} THEN all \subseteq hot
            ELSE /\ all \cap hot = {} /\ Cardinality(rows) = 1
                 /\ \A r \in rows : r.count = Cardinality(all) /\ r.max = MaxOf(all)
    /\ \A s \in taken : s.at >= time - HotRetention => s \in hot
    /\ \A r \in cold : InBucket(taken, r.host, r.bucket) # {}

\* The cold tier of a host grows in time order: the row that the next one is
\* smoothed with is the one before it.
ColdInOrder == \A r \in cold, s \in hot : s.host = r.host => s.at >= r.bucket + BucketLength

\* A smoothed reading stays between two readings of the host up to the end of
\* the look-ahead, however many buckets are missing.
ReadUpTo(h, b) == {s.value : s \in {o \in Readings(taken) : o.host = h /\ o.at < b}}
Within(mean, values) ==
    mean # NoMean => \E low, high \in values : low * mean[2] <= mean[1] /\ mean[1] <= high * mean[2]
SmoothedWithinReadings ==
    \A r \in cold : Within(r.smoothed, ReadUpTo(r.host, r.bucket + 4 * BucketLength))

\* The two tiers agree: nothing is lost or counted twice between them, the cold
\* one grows in time order, and its averages are averages of what was read.
TiersAgree == OneTier /\ ColdInOrder /\ SmoothedWithinReadings
==================================================================================
