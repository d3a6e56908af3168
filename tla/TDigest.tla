------------------------------- MODULE TDigest -------------------------------
(***************************************************************************)
(* The t-digest of src/src/common/tdigest.hpp: a set of digest objects     *)
(* (one per partition, as the header intends) on which add, compress,      *)
(* merge and reset are called, and whose percentile is read.               *)
(*                                                                         *)
(* Arithmetic is exact: a centroid (mean, weight) is kept as [sum, w] with *)
(* mean = sum / w, and a sample x as [sum |-> x, w |-> 1].  The code's     *)
(* doubles round; for the small integer samples checked here only the      *)
(* means of merged centroids are inexact, and the model compares them     *)
(* exactly (by cross-multiplication).                                      *)
(***************************************************************************)
EXTENDS Naturals, Sequences, SequencesExt, FiniteSetsExt, TLC

CONSTANTS
    Digests,      \* the TDigest objects
    Values,       \* sample values passed to add()
    Compression,  \* compression_ (the constructor requires > 0)
    MaxAdds,      \* bound: add() calls in a behaviour
    MaxMerges,    \* bound: merge() calls in a behaviour
    NaN           \* quiet_NaN(), a model value

ASSUME Compression \in Nat \ {0}
ASSUME Values \subseteq Nat \ {0}

VARIABLES
    buffer,       \* buffer_: raw points, in add() order
    centroids,    \* centroids_: Seq of [sum, w]
    total_weight, \* total_weight_
    samples,      \* history: every raw point this digest stands for
    adds, merges  \* calls made so far (bounds)

vars == <<buffer, centroids, total_weight, samples, adds, merges>>

Item == [sum : Nat, w : Nat \ {0}]
Point(x) == [sum |-> x, w |-> 1]

\* a.first < b.first, the comparator of every std::sort in the class.
MeanLess(a, b) == a.sum * b.w < b.sum * a.w
MeanLeq(a, b) == a.sum * b.w <= b.sum * a.w

MeanEq(a, b) == a.sum * b.w = b.sum * a.w

\* The distinct orders of the items of s (each distinct item first in turn).
RECURSIVE Arrangements(_)
Arrangements(s) ==
    IF s = <<>> THEN {<<>>}
    ELSE UNION {{<<v>> \o r :
                  r \in Arrangements(RemoveAt(s, CHOOSE i \in DOMAIN s : s[i] = v))} :
                v \in ToSet(s)}

\* One item of each mean present in s, in ascending order of mean.
MeanKeys(s) ==
    SortSeq(SetToSeq({s[i] : i \in {j \in DOMAIN s :
                        \A k \in 1..(j - 1) : ~MeanEq(s[k], s[j])}}), MeanLess)

(* All orders std::sort may leave s in: ascending by mean, items of equal  *)
(* mean in any order (std::sort is not stable).                            *)
RECURSIVE OrdersFrom(_, _)
OrdersFrom(s, keys) ==
    IF keys = <<>> THEN {<<>>}
    ELSE {g \o r : g \in Arrangements(SelectSeq(s, LAMBDA b : MeanEq(b, Head(keys)))),
                   r \in OrdersFrom(s, Tail(keys))}
SortedOrders(s) == OrdersFrom(s, MeanKeys(s))

SumW(s) == FoldLeft(LAMBDA acc, p : acc + p.w, 0, s)
SumS(s) == FoldLeft(LAMBDA acc, p : acc + p.sum, 0, s)

(* build_from: walk the sorted items, folding each into the current        *)
(* centroid while current_weight + w <= max(1, 4 * total / compression_),  *)
(* otherwise pushing the current centroid and starting a new one.          *)
\* Mutant: the final "push last" of build_from forgotten.
RECURSIVE Fold_dropLast(_, _, _, _)
Fold_dropLast(rest, cur, acc, total) ==
    IF rest = <<>> THEN acc
    ELSE LET x == Head(rest) IN
         IF (cur.w + x.w) * Compression <= Max({Compression, 4 * total})
         THEN Fold_dropLast(Tail(rest), [sum |-> cur.sum + x.sum, w |-> cur.w + x.w], acc, total)
         ELSE Fold_dropLast(Tail(rest), x, Append(acc, cur), total)

\* Mutant: a new centroid started with current_weight = 0 instead of w.
RECURSIVE Fold_zeroStart(_, _, _, _)
Fold_zeroStart(rest, cur, acc, total) ==
    IF rest = <<>> THEN Append(acc, cur)
    ELSE LET x == Head(rest) IN
         IF (cur.w + x.w) * Compression <= Max({Compression, 4 * total})
         THEN Fold_zeroStart(Tail(rest), [sum |-> cur.sum + x.sum, w |-> cur.w + x.w], acc, total)
         ELSE Fold_zeroStart(Tail(rest), [x EXCEPT !.w = 0], Append(acc, cur), total)

RECURSIVE Fold(_, _, _, _)
Fold(rest, cur, acc, total) ==
    IF rest = <<>> THEN Append(acc, cur)
    ELSE LET x == Head(rest) IN
         IF (cur.w + x.w) * Compression <= Max({Compression, 4 * total})
         THEN Fold(Tail(rest), [sum |-> cur.sum + x.sum, w |-> cur.w + x.w], acc, total)
         ELSE Fold(Tail(rest), x, Append(acc, cur), total)

BuildFrom(merged) ==
    IF merged = <<>> THEN <<>>
    ELSE Fold(Tail(merged), Head(merged), <<>>, SumW(merged))

\* The items of digest d: centroids_ first, then buffer_.
Items(d) == centroids[d] \o [i \in DOMAIN buffer[d] |-> Point(buffer[d][i])]

(* percentile(q), q = k / QDen: NaN when empty; otherwise the mean of the  *)
(* first item at which the cumulative weight reaches q * total_weight_,    *)
(* else the last one.  The merged view is sorted only if buffer_ is not    *)
(* empty (the order of equal means does not change the mean returned).     *)
(* The result is the item whose mean the code returns.                     *)
QDen == 4

\* Mutant: cumulative + w > target instead of >=.
Percentile_strict(d, k) ==
    LET m0 == Items(d)
        m == IF buffer[d] = <<>> THEN m0 ELSE CHOOSE r \in SortedOrders(m0) : TRUE
        reach(i) == QDen * SumW(SubSeq(m, 1, i)) > k * total_weight[d]
    IN  IF total_weight[d] = 0 \/ m = <<>> THEN NaN
        ELSE IF \E i \in DOMAIN m : reach(i)
             THEN m[Min({i \in DOMAIN m : reach(i)})]
             ELSE m[Len(m)]

Percentile(d, k) ==
    LET m0 == Items(d)
        m == IF buffer[d] = <<>> THEN m0 ELSE CHOOSE r \in SortedOrders(m0) : TRUE
        reach(i) == QDen * SumW(SubSeq(m, 1, i)) >= k * total_weight[d]
    IN  IF total_weight[d] = 0 \/ m = <<>> THEN NaN
        ELSE IF \E i \in DOMAIN m : reach(i)
             THEN m[Min({i \in DOMAIN m : reach(i)})]
             ELSE m[Len(m)]

-----------------------------------------------------------------------------
(* add(x): append to buffer_ and count its weight.                         *)
Add(d, x) ==
    /\ adds < MaxAdds
    /\ buffer' = [buffer EXCEPT ![d] = Append(@, x)]
    /\ total_weight' = [total_weight EXCEPT ![d] = @ + 1]
    /\ samples' = [samples EXCEPT ![d] = Append(@, x)]
    /\ adds' = adds + 1
    /\ UNCHANGED <<centroids, merges>>

(* compress(): nothing when both are empty; otherwise sort buffer_ and     *)
(* centroids_ together, clear buffer_ and rebuild the centroids.           *)
Compress(d) ==
    /\ buffer[d] # <<>> \/ centroids[d] # <<>>
    /\ \E m \in SortedOrders([i \in DOMAIN buffer[d] |-> Point(buffer[d][i])]
                             \o centroids[d]) :
         centroids' = [centroids EXCEPT ![d] = BuildFrom(m)]
    /\ buffer' = [buffer EXCEPT ![d] = <<>>]
    /\ UNCHANGED <<total_weight, samples, adds, merges>>

\* Mutant: merge() rebuilding from the concatenation without std::sort.
Merge_unsorted(d, o) ==
    /\ merges < MaxMerges
    /\ centroids' = [centroids EXCEPT ![d] = BuildFrom(Items(d) \o Items(o))]
    /\ total_weight' = [total_weight EXCEPT ![d] = @ + total_weight[o]]
    /\ buffer' = [buffer EXCEPT ![d] = <<>>]
    /\ samples' = [samples EXCEPT ![d] = @ \o samples[o]]
    /\ merges' = merges + 1
    /\ UNCHANGED adds

(* merge(other): this digest's centroids and buffer and the other's, all   *)
(* sorted and rebuilt into centroids_; total weights add; the other digest *)
(* (possibly this one) is only read.                                       *)
Merge(d, o) ==
    /\ merges < MaxMerges
    /\ \E m \in SortedOrders(Items(d) \o Items(o)) :
         centroids' = [centroids EXCEPT ![d] = BuildFrom(m)]
    /\ total_weight' = [total_weight EXCEPT ![d] = @ + total_weight[o]]
    /\ buffer' = [buffer EXCEPT ![d] = <<>>]
    /\ samples' = [samples EXCEPT ![d] = @ \o samples[o]]
    /\ merges' = merges + 1
    /\ UNCHANGED adds

(* reset(): clear both and zero the weight.                                *)
Reset(d) ==
    /\ buffer' = [buffer EXCEPT ![d] = <<>>]
    /\ centroids' = [centroids EXCEPT ![d] = <<>>]
    /\ total_weight' = [total_weight EXCEPT ![d] = 0]
    /\ samples' = [samples EXCEPT ![d] = <<>>]
    /\ UNCHANGED <<adds, merges>>

(* TDigest(compression): empty.                                            *)
Init ==
    /\ buffer = [d \in Digests |-> <<>>]
    /\ centroids = [d \in Digests |-> <<>>]
    /\ total_weight = [d \in Digests |-> 0]
    /\ samples = [d \in Digests |-> <<>>]
    /\ adds = 0 /\ merges = 0

Next ==
    \E d \in Digests :
        \/ \E x \in Values : Add(d, x)
        \/ Compress(d)
        \/ \E o \in Digests : Merge(d, o)
        \/ Reset(d)

Spec == Init /\ [][Next]_vars

-----------------------------------------------------------------------------
TDigestTypeOK ==
    /\ buffer \in [Digests -> Seq(Values)]
    /\ centroids \in [Digests -> Seq(Item)]
    /\ total_weight \in [Digests -> Nat]
    /\ samples \in [Digests -> Seq(Values)]
    /\ adds \in 0..MaxAdds /\ merges \in 0..MaxMerges

SampleSum(d) == FoldLeft(LAMBDA acc, x : acc + x, 0, samples[d])

(* Every sample added to a digest, directly or through merge(), is still    *)
(* accounted for exactly once after any sequence of add/compress/merge/    *)
(* reset: total_weight_ is the number of samples, and the weights and the  *)
(* weighted means of centroids_ plus buffer_ add up to the samples' count  *)
(* and sum (build_from must push its last centroid and weight its means).  *)
MassConserved ==
    \A d \in Digests :
        /\ total_weight[d] = Len(samples[d])
        /\ SumW(Items(d)) = total_weight[d]
        /\ SumS(Items(d)) = SampleSum(d)

(* centroids_ is always in ascending order of mean.  percentile() sorts    *)
(* its merged view only when buffer_ is non-empty, so its walk is right    *)
(* only if compress() and merge() (self-merge included) leave the          *)
(* centroids sorted.                                                       *)
CentroidsSorted ==
    \A d \in Digests : \A i \in 1..(Len(centroids[d]) - 1) :
        MeanLeq(centroids[d][i], centroids[d][i + 1])

\* The nearest-rank k/QDen quantile of the samples of d.
SortedSamples(d) == SortSeq(samples[d], <)
ExactQuantile(d, k) ==
    SortedSamples(d)[Max({1, (k * Len(samples[d]) + QDen - 1) \div QDen})]

(* percentile(q), for q in {0, 1/4, ..., 1}: NaN exactly when the digest   *)
(* holds no samples; otherwise a value between the smallest and largest    *)
(* sample that never decreases as q grows (p50 <= p99); and while no       *)
(* centroid has absorbed another point it is the exact nearest-rank        *)
(* quantile of the samples.                                                *)
PercentileCorrect ==
    \A d \in Digests : \A k \in 0..QDen :
        LET r == Percentile(d, k)
            s == SortedSamples(d)
        IN  IF samples[d] = <<>> THEN r = NaN
            ELSE /\ r # NaN
                 /\ s[1] * r.w <= r.sum /\ r.sum <= s[Len(s)] * r.w
                 /\ k < QDen => MeanLeq(r, Percentile(d, k + 1))
                 /\ (\A i \in DOMAIN centroids[d] : centroids[d][i].w = 1)
                      => r.sum = ExactQuantile(d, k) * r.w

=============================================================================
