-------------------------- MODULE CollectionProofs --------------------------
(***************************************************************************)
(* What a collection says, for any counters, widths and sources, and how   *)
(* long it stays true: the collections of Collector, the amounts of        *)
(* Utilization and the age of the state of StateExpiry.                    *)
(*                                                                         *)
(* Sum is a fold that takes the elements in an order of CHOOSE's. That it  *)
(* may be split and bounds its terms is proved first, by looking at a      *)
(* smallest set that fails: strict inclusion is well-founded on the        *)
(* subsets of a finite set.                                                *)
(*                                                                         *)
(* UsageExact and SnapshotHonest are then inductive with the account of    *)
(* the baseline (growth is the distance from it) and with what is said so  *)
(* far of each metric: nothing of a pending one, a value or one error of   *)
(* any other.                                                              *)
(*                                                                         *)
(* UtilizationExact is inductive together with the types of what was read: *)
(* a source is judged once, and nothing is read after that.                *)
(*                                                                         *)
(* NeverExpires and RecoversSoon: ExpiryInv bounds age by what is still to *)
(* come, up to the next tick while the worker waits, up to the end of the  *)
(* collection while it collects.                                           *)
(***************************************************************************)
EXTENDS Collector, Utilization, StateExpiry, TLAPS, FiniteSetTheorems


(***************************************************************************)
(* Sums over finite sets.                                                  *)
(***************************************************************************)
\* Of any subsets of a finite set, one holds no other.
LEMMA MinimalSubset ==
  ASSUME NEW S, IsFiniteSet(S), NEW Bad, Bad \subseteq SUBSET S, Bad # {}
  PROVE  \E T \in Bad : \A U \in Bad : U \subseteq T => U = T
<1>1. IsWellFoundedOn(StrictSubsetOrdering(S), SUBSET S)
  BY FS_StrictSubsetOrderingWellFounded, FS_FiniteSubsetsOfFinite
<1>2. PICK T \in Bad : \A U \in Bad : ~(<<U, T>> \in StrictSubsetOrdering(S))
  BY <1>1, WFMin
<1>3. \A U \in Bad : U \subseteq T => U = T
  BY <1>2 DEF StrictSubsetOrdering
<1> QED
  BY <1>3

\* The element the fold takes next.
Some(s) == CHOOSE x \in s : TRUE

\* f is the fold of g over the subsets of S: what Sum defines recursively.
Folds(g, S, f) ==
  f = [s \in SUBSET S |-> IF s = {} THEN 0 ELSE g[Some(s)] + f[s \ {Some(s)}]]

\* The function that Sum evaluates at the set itself.
Fold(g, S) == CHOOSE f : Folds(g, S, f)

\* Sum in these terms.
LEMMA SumIsFold ==
  ASSUME NEW g, NEW S
  PROVE  Sum(g, S) = Fold(g, S)[S]
  BY DEF Sum, MapThenSumSet, MapThenFoldSet, Fold, Folds, Some

\* CHOOSE takes an element of a set that has one.
LEMMA SomeIn ==
  ASSUME NEW s, s # {}
  PROVE  Some(s) \in s
  BY DEF Some

\* One step of the recursion.
LEMMA FoldAt ==
  ASSUME NEW g, NEW S, NEW f, Folds(g, S, f), NEW s \in SUBSET S
  PROVE  f[s] = IF s = {} THEN 0 ELSE g[Some(s)] + f[s \ {Some(s)}]
  BY DEF Folds

\* Two folds agree: a smallest set where they differ would not be one.
LEMMA FoldUnique ==
  ASSUME NEW g, NEW S, IsFiniteSet(S), NEW f, NEW h, Folds(g, S, f), Folds(g, S, h)
  PROVE  f = h
<1> DEFINE Bad == {s \in SUBSET S : f[s] # h[s]}
<1>given. f = [s \in SUBSET S |-> f[s]] /\ h = [s \in SUBSET S |-> h[s]]
  BY DEF Folds
<1>1. SUFFICES ASSUME Bad # {} PROVE FALSE
  BY <1>given
<1>within. Bad \subseteq SUBSET S
  OBVIOUS
<1> HIDE DEF Bad
<1>2. PICK T \in Bad : \A U \in Bad : U \subseteq T => U = T
  BY <1>within, <1>1, MinimalSubset
<1> USE DEF Bad
<1>3. T # {}
  BY FoldAt
<1>4. f[T \ {Some(T)}] = h[T \ {Some(T)}]
  BY <1>2, <1>3, SomeIn
<1>5. f[T] = g[Some(T)] + f[T \ {Some(T)}] /\ h[T] = g[Some(T)] + h[T \ {Some(T)}]
  BY <1>3, FoldAt
<1> QED
  BY <1>4, <1>5

\* A fold over a set is one over its subsets.
LEMMA FoldWithin ==
  ASSUME NEW g, NEW S, NEW f, Folds(g, S, f), NEW U \in SUBSET S
  PROVE  Folds(g, U, [s \in SUBSET U |-> f[s]])
<1> DEFINE h == [s \in SUBSET U |-> f[s]]
<1>1. ASSUME NEW s \in SUBSET U, s # {}
      PROVE  h[s] = g[Some(s)] + h[s \ {Some(s)}]
  <2>1. f[s] = g[Some(s)] + f[s \ {Some(s)}]
    BY <1>1, FoldAt
  <2>2. h[s] = f[s] /\ h[s \ {Some(s)}] = f[s \ {Some(s)}]
    OBVIOUS
  <2> QED
    BY <2>1, <2>2
<1>2. h[{}] = 0
  BY FoldAt
<1> HIDE DEF h
<1>3. \A s \in SUBSET U : h[s] = IF s = {} THEN 0 ELSE g[Some(s)] + h[s \ {Some(s)}]
  BY <1>1, <1>2
<1>4. h = [s \in SUBSET U |-> h[s]]
  BY DEF h
<1>5. h = [s \in SUBSET U |-> IF s = {} THEN 0 ELSE g[Some(s)] + h[s \ {Some(s)}]]
  BY <1>3, <1>4
<1> QED
  BY <1>5 DEF Folds, h

\* Every finite set has its fold, which on each part is the part's own.
LEMMA FoldExists ==
  ASSUME NEW g, NEW S, IsFiniteSet(S)
  PROVE  \E f : Folds(g, S, f)
<1> DEFINE Bad == {T \in SUBSET S : ~\E f : Folds(g, T, f)}
<1>1. SUFFICES ASSUME Bad # {} PROVE FALSE
  OBVIOUS
<1>within. Bad \subseteq SUBSET S
  OBVIOUS
<1> HIDE DEF Bad
<1>2. PICK T \in Bad : \A U \in Bad : U \subseteq T => U = T
  BY <1>within, <1>1, MinimalSubset
<1> USE DEF Bad
<1> DEFINE own(s) == Fold(g, s)[s]
           x      == Some(T)
           f      == [s \in SUBSET T |-> IF s = T /\ T # {} THEN g[x] + own(T \ {x}) ELSE own(s)]
<1>3. ASSUME NEW U \in SUBSET T, U # T
      PROVE  Folds(g, U, Fold(g, U)) /\ IsFiniteSet(U)
  <2>1. \E h : Folds(g, U, h)
    BY <1>2, <1>3
  <2> QED
    BY <2>1, FS_Subset DEF Fold
<1>4. ASSUME NEW U \in SUBSET T, U # T, NEW V \in SUBSET U
      PROVE  Fold(g, U)[V] = own(V)
  <2>1. Folds(g, V, [s \in SUBSET V |-> Fold(g, U)[s]])
    BY <1>3, <1>4, FoldWithin
  <2>2. Folds(g, V, Fold(g, V)) /\ IsFiniteSet(V)
    BY <1>3, <1>4
  <2>3. Fold(g, V) = [s \in SUBSET V |-> Fold(g, U)[s]]
    BY <2>1, <2>2, FoldUnique
  <2> QED
    BY <2>3
<1>5. ASSUME NEW s \in SUBSET T, s # T, s # {}
      PROVE  own(s) = g[Some(s)] + own(s \ {Some(s)})
  <2>1. own(s) = g[Some(s)] + Fold(g, s)[s \ {Some(s)}]
    BY <1>3, <1>5, FoldAt
  <2>2. Fold(g, s)[s \ {Some(s)}] = own(s \ {Some(s)})
    BY <1>4, <1>5
  <2> QED
    BY <2>1, <2>2
<1>6. T # {} => own({}) = 0
  BY <1>3, FoldAt
<1> HIDE DEF own
<1>7. CASE T # {}
  <2>1. ASSUME NEW s \in SUBSET T, s # {}
        PROVE  f[s] = g[Some(s)] + f[s \ {Some(s)}]
    <3>1. Some(s) \in s
      BY <2>1, SomeIn
    <3>2. f[s \ {Some(s)}] = own(s \ {Some(s)})
      BY <3>1
    <3>3. CASE s = T
      BY <1>7, <3>2, <3>3
    <3>4. CASE s # T
      BY <1>5, <2>1, <3>2, <3>4
    <3> QED
      BY <3>3, <3>4
  <2>2. f[{}] = 0
    BY <1>6, <1>7
  <2>3. f = [s \in SUBSET T |-> f[s]]
    OBVIOUS
  <2> HIDE DEF f
  <2>4. f = [s \in SUBSET T |-> IF s = {} THEN 0 ELSE g[Some(s)] + f[s \ {Some(s)}]]
    BY <2>1, <2>2, <2>3
  <2> QED
    BY <1>2, <2>4 DEF Folds
<1>8. CASE T = {}
  <2> DEFINE z == [s \in SUBSET {} |-> 0]
  <2>1. z = [s \in SUBSET {} |-> IF s = {} THEN 0 ELSE g[Some(s)] + z[s \ {Some(s)}]]
    OBVIOUS
  <2> QED
    BY <1>2, <1>8, <2>1 DEF Folds
<1> QED
  BY <1>7, <1>8

\* The equation of the sum.
LEMMA SumStep ==
  ASSUME NEW g, NEW S, IsFiniteSet(S)
  PROVE  Sum(g, S) = IF S = {} THEN 0 ELSE g[Some(S)] + Sum(g, S \ {Some(S)})
<1>1. Folds(g, S, Fold(g, S))
  BY FoldExists DEF Fold
<1>2. Sum(g, S) = IF S = {} THEN 0 ELSE g[Some(S)] + Fold(g, S)[S \ {Some(S)}]
  <2>1. S \in SUBSET S
    OBVIOUS
  <2>2. Fold(g, S)[S] = IF S = {} THEN 0 ELSE g[Some(S)] + Fold(g, S)[S \ {Some(S)}]
    BY <1>1, <2>1, FoldAt
  <2> QED
    BY <2>2, SumIsFold
<1> DEFINE V == S \ {Some(S)}
<1>3. IsFiniteSet(V) /\ V \in SUBSET S
  BY FS_Subset
<1>4. Folds(g, V, [s \in SUBSET V |-> Fold(g, S)[s]])
  BY <1>1, <1>3, FoldWithin
<1>5. Folds(g, V, Fold(g, V))
  BY <1>3, FoldExists DEF Fold
<1>6. Fold(g, V) = [s \in SUBSET V |-> Fold(g, S)[s]]
  BY <1>3, <1>4, <1>5, FoldUnique
<1>7. Sum(g, V) = Fold(g, S)[V]
  BY <1>6, SumIsFold
<1> QED
  BY <1>2, <1>7

\* The sum of nothing.
LEMMA SumEmpty ==
  ASSUME NEW g
  PROVE  Sum(g, {}) = 0
  BY SumStep, FS_EmptySet

\* A sum of integers is an integer.
LEMMA SumInt ==
  ASSUME NEW S, IsFiniteSet(S), NEW g, \A c \in S : g[c] \in Int
  PROVE  \A T \in SUBSET S : Sum(g, T) \in Int
<1> DEFINE Bad == {T \in SUBSET S : Sum(g, T) \notin Int}
<1>1. SUFFICES ASSUME Bad # {} PROVE FALSE
  OBVIOUS
<1>within. Bad \subseteq SUBSET S
  OBVIOUS
<1> HIDE DEF Bad
<1>2. PICK T \in Bad : \A U \in Bad : U \subseteq T => U = T
  BY <1>within, <1>1, MinimalSubset
<1> USE DEF Bad
<1>3. IsFiniteSet(T)
  BY FS_Subset
<1>4. T # {}
  <2>1. Sum(g, {}) = 0
    BY SumEmpty
  <2> QED
    BY <1>2, <2>1
<1>5. Some(T) \in T
  BY <1>4, SomeIn
<1>6. Sum(g, T \ {Some(T)}) \in Int
  BY <1>2, <1>5
<1>7. Sum(g, T) = g[Some(T)] + Sum(g, T \ {Some(T)})
  BY <1>3, <1>4, SumStep
<1> QED
  BY <1>2, <1>5, <1>6, <1>7

\* Any term may be taken out first.
LEMMA SumTake ==
  ASSUME NEW S, IsFiniteSet(S), NEW g, \A c \in S : g[c] \in Int
  PROVE  \A T \in SUBSET S : \A y \in T : Sum(g, T) = g[y] + Sum(g, T \ {y})
<1> DEFINE Bad == {T \in SUBSET S : \E y \in T : Sum(g, T) # g[y] + Sum(g, T \ {y})}
<1>1. SUFFICES ASSUME Bad # {} PROVE FALSE
  OBVIOUS
<1>within. Bad \subseteq SUBSET S
  OBVIOUS
<1> HIDE DEF Bad
<1>2. PICK T \in Bad : \A U \in Bad : U \subseteq T => U = T
  BY <1>within, <1>1, MinimalSubset
<1> USE DEF Bad
<1>3. PICK y \in T : Sum(g, T) # g[y] + Sum(g, T \ {y})
  BY <1>2
<1> DEFINE x == Some(T)
<1>4. IsFiniteSet(T) /\ T # {} /\ x \in T
  BY <1>3, FS_Subset, SomeIn
<1> HIDE DEF x
<1>5. Sum(g, T) = g[x] + Sum(g, T \ {x})
  BY <1>4, SumStep DEF x
<1>6. x # y
  BY <1>3, <1>5
<1>7. T \ {x} \notin Bad /\ T \ {y} \notin Bad
  BY <1>2, <1>3, <1>4
<1>8. Sum(g, T \ {x}) = g[y] + Sum(g, (T \ {x}) \ {y})
  BY <1>6, <1>7
<1>9. Sum(g, T \ {y}) = g[x] + Sum(g, (T \ {y}) \ {x})
  BY <1>4, <1>6, <1>7
<1>10. (T \ {x}) \ {y} = (T \ {y}) \ {x}
  OBVIOUS
<1>11. Sum(g, (T \ {x}) \ {y}) \in Int /\ g[x] \in Int /\ g[y] \in Int
  BY <1>4, SumInt
<1> DEFINE w == Sum(g, (T \ {x}) \ {y})
<1>12. Sum(g, T) = g[x] + (g[y] + w) /\ Sum(g, T \ {y}) = g[x] + w /\ w \in Int
  BY <1>5, <1>8, <1>9, <1>10, <1>11
<1> HIDE DEF w, Bad
<1> QED
  BY <1>3, <1>11, <1>12

\* A sum splits into that of a part and that of the rest.
LEMMA SumSplit ==
  ASSUME NEW S, IsFiniteSet(S), NEW g, \A c \in S : g[c] \in Int, NEW A \in SUBSET S
  PROVE  Sum(g, S) = Sum(g, A) + Sum(g, S \ A)
<1> DEFINE Bad == {T \in SUBSET S : Sum(g, S) # Sum(g, T) + Sum(g, S \ T)}
<1>1. SUFFICES ASSUME Bad # {} PROVE FALSE
  OBVIOUS
<1>within. Bad \subseteq SUBSET S
  OBVIOUS
<1> HIDE DEF Bad
<1>2. PICK T \in Bad : \A U \in Bad : U \subseteq T => U = T
  BY <1>within, <1>1, MinimalSubset
<1> USE DEF Bad
<1>3. \A U \in SUBSET S : Sum(g, U) \in Int
  BY SumInt
<1>4. PICK y \in T : TRUE
  <2>1. CASE T = {}
    <3>1. S \ T = S
      BY <2>1
    <3> QED
      BY <1>2, <1>3, <2>1, <3>1, SumEmpty
  <2> QED
    BY <2>1
<1> DEFINE U == T \ {y}
<1>5. U \notin Bad /\ U \in SUBSET S
  BY <1>2
<1>6. Sum(g, S) = Sum(g, U) + Sum(g, S \ U)
  BY <1>5
<1>7. Sum(g, T) = g[y] + Sum(g, U)
  BY SumTake
<1>8. Sum(g, S \ U) = g[y] + Sum(g, (S \ U) \ {y})
  BY SumTake
<1>9. (S \ U) \ {y} = S \ T
  OBVIOUS
<1>10. g[y] \in Int /\ Sum(g, U) \in Int /\ Sum(g, S \ T) \in Int
  BY <1>3, <1>5
<1> HIDE DEF U
<1>11. Sum(g, S) = Sum(g, U) + (g[y] + Sum(g, S \ T))
  BY <1>6, <1>8, <1>9
<1>12. Sum(g, S) = Sum(g, T) + Sum(g, S \ T)
  <2> HIDE DEF Bad
  <2> QED
    BY <1>7, <1>10, <1>11
<1> QED
  BY <1>2, <1>12

\* A sum of natural numbers is one, and no smaller than any of its terms.
LEMMA SumNat ==
  ASSUME NEW S, IsFiniteSet(S), NEW g, \A c \in S : g[c] \in Nat
  PROVE  \A T \in SUBSET S : Sum(g, T) \in Nat
<1> DEFINE Bad == {T \in SUBSET S : ~(Sum(g, T) >= 0)}
<1>given. \A T \in SUBSET S : Sum(g, T) \in Int
  BY SumInt
<1>1. SUFFICES ASSUME Bad # {} PROVE FALSE
  BY <1>given
<1>within. Bad \subseteq SUBSET S
  OBVIOUS
<1> HIDE DEF Bad
<1>2. PICK T \in Bad : \A U \in Bad : U \subseteq T => U = T
  BY <1>within, <1>1, MinimalSubset
<1> USE DEF Bad
<1>3. T # {}
  <2>1. Sum(g, {}) = 0
    BY SumEmpty
  <2>2. ~(Sum(g, T) >= 0)
    BY <1>2
  <2> HIDE DEF Bad
  <2>3. ASSUME T = {} PROVE Sum(g, T) = 0
    BY <2>1, <2>3
  <2>5. Sum(g, T) # 0
    BY <2>2
  <2> QED
    BY <2>3, <2>5
<1>4. PICK y \in T : TRUE
  BY <1>3
<1>5. Sum(g, T) = g[y] + Sum(g, T \ {y})
  BY SumTake
<1>6. Sum(g, T \ {y}) >= 0 /\ Sum(g, T \ {y}) \in Int
  BY <1>given, <1>2
<1> QED
  BY <1>2, <1>5, <1>6

\* A term is at most the sum.
LEMMA TermsBelow ==
  ASSUME NEW S, IsFiniteSet(S), NEW g, \A c \in S : g[c] \in Nat, NEW c \in S
  PROVE  g[c] <= Sum(g, S)
<1>1. Sum(g, S) = g[c] + Sum(g, S \ {c})
  BY SumTake
<1>2. Sum(g, S \ {c}) \in Nat
  BY SumNat
<1> QED
  BY <1>1, <1>2

-----------------------------------------------------------------------------
(***************************************************************************)
(* Collector.                                                              *)
(***************************************************************************)
LEMMA MetricsListed ==
  Metrics = {"usage", "load", "temperature", "frequency", "memory", "uptime", "disk", "power"}
<1>1. ToSet(Order) = {Order[i] : i \in 1..8}
  BY DEF ToSet, Order
<1> QED
  BY <1>1 DEF Metrics, Order

\* The order in which collect takes them.
LEMMA OrderListed ==
  /\ After("usage") = "load" /\ After("load") = "temperature" /\ After("temperature") = "frequency"
  /\ After("frequency") = "memory" /\ After("memory") = "uptime" /\ After("uptime") = "disk"
  /\ After("disk") = "power" /\ After("power") = "finish"
  BY DEF After, Order

\* The metrics that are still to be collected.
Pending ==
  CASE step \in {"usage", "warmup"} -> Metrics
    [] step = "load"        -> Metrics \ {"usage"}
    [] step = "temperature" -> {"temperature", "frequency", "memory", "uptime", "disk", "power"}
    [] step = "frequency"   -> {"frequency", "memory", "uptime", "disk", "power"}
    [] step = "memory"      -> {"memory", "uptime", "disk", "power"}
    [] step = "uptime"      -> {"uptime", "disk", "power"}
    [] step = "disk"        -> {"disk", "power"}
    [] step = "power"       -> {"power"}
    [] OTHER                -> {}

\* A metric that was collected is out of what is pending, and only it.
LEMMA PendingAfter ==
  ASSUME NEW metric \in Metrics, step = metric \/ (metric = "usage" /\ step = "warmup"),
         step' = After(metric)
  PROVE  Pending' = Pending \ {metric} /\ metric \in Pending
  BY MetricsListed, OrderListed DEF Pending

\* A collection begins with all of them pending.
LEMMA PendingFirst == step \in {"usage", "warmup"} => Pending = Metrics
<1>1. step = "usage" => Pending = Metrics
  BY DEF Pending
<1>2. step = "warmup" => Pending = Metrics
  BY DEF Pending
<1> QED
  BY <1>1, <1>2

\* Only metrics are pending.
LEMMA PendingIn == Pending \subseteq Metrics
  BY MetricsListed DEF Pending

\* The messages of a collector error.
Messages == {"unavailable", "inconsistent"}

\* What the variables hold.
CollectorTypes ==
  /\ step \in Metrics \cup {"idle", "warmup", "finish"}
  /\ previous \in Samples \cup {NoSample} /\ kernel \in Samples
  /\ growth \in [Counters -> Int] /\ observed \in [Counters -> Int]
  /\ readings \in [Metrics -> {"null", "value"}]
  /\ errors \in Seq([metric: Metrics, message: Messages])

\* With a baseline, the history of growth is the distance from it.
Accounts ==
  previous # NoSample \/ step = "warmup" =>
    \A c \in Counters : growth[c] = kernel[c] - previous[c]

\* The counters did go back, or outgrew their width.
Inconsistent == (\E c \in Counters : observed[c] < 0) \/ Sum(observed, Counters) > MaxCounter

\* The usage is that of the observed growth, and an error of it has its reason.
UsageRight ==
  /\ readings["usage"] = "value" =>
       /\ usage.total = Sum(observed, Counters)
       /\ usage.busy = Sum(observed, Counters \ IdleCounters)
       /\ usage.busy <= usage.total
  /\ \A i \in DOMAIN errors : errors[i].message = "inconsistent" => Inconsistent

\* The collection has no error of the metric.
NoError(metric) == \A i \in DOMAIN errors : errors[i].metric # metric

\* Nothing is said yet of a pending metric; no metric has two errors, or an
\* error and a value; and a collected one has one of them, but for the two
\* exceptions.
ErrorsInv ==
  /\ \A metric \in Pending : readings[metric] = "null" /\ NoError(metric)
  /\ \A i, j \in DOMAIN errors : errors[i].metric = errors[j].metric => i = j
  /\ \A metric \in Metrics : readings[metric] = "value" => NoError(metric)
  /\ step # "idle" \/ status # "none" =>
       \A metric \in Metrics \ Pending : readings[metric] = "null" /\ NoError(metric) =>
         metric = "frequency" \/ (metric = "usage" /\ observed = Zero)

\* The status of a finished collection follows from its errors.
StatusInv ==
  /\ step # "idle" => status = "none"
  /\ step = "idle" /\ status # "none" => status = Evaluate(mask, errors # <<>>)

\* The invariant of the collections.
CollectorInv == CollectorTypes /\ Accounts /\ UsageRight /\ ErrorsInv /\ StatusInv

-----------------------------------------------------------------------------
\* While CPU usage is to be collected there is no error.
LEMMA NothingYet ==
  ASSUME CollectorTypes, ErrorsInv, step \in {"usage", "warmup"}
  PROVE  DOMAIN errors = {} /\ errors = <<>>
<1>1. Pending = Metrics
  BY PendingFirst
<1>2. errors \in Seq([metric: Metrics, message: Messages])
  BY DEF CollectorTypes
<1> DEFINE Records == [metric: Metrics, message: Messages]
<1>3. \A r \in Records : r.metric \in Metrics
  OBVIOUS
<1> HIDE DEF Records
<1>4. errors \in Seq(Records)
  BY <1>2 DEF Records
<1>5. ASSUME NEW i \in DOMAIN errors PROVE FALSE
  <2>1. errors[i] \in Records
    BY <1>4
  <2>2. NoError(errors[i].metric)
    BY <1>1, <1>3, <2>1 DEF ErrorsInv
  <2> QED
    BY <2>2 DEF NoError
<1>6. Len(errors) = 0
  <2>1. Len(errors) \in Nat /\ DOMAIN errors = 1..Len(errors)
    BY <1>4
  <2>2. ASSUME Len(errors) > 0 PROVE FALSE
    <3>1. 1 \in DOMAIN errors
      BY <2>1, <2>2
    <3> QED
      BY <1>5, <3>1
  <2> QED
    BY <2>1, <2>2
<1>7. errors = <<>>
  BY <1>4, <1>6
<1> QED
  BY <1>5, <1>7

\* What an appended error does to the list.
LEMMA OneMore ==
  ASSUME CollectorTypes, NEW metric \in Metrics, NEW message \in Messages, Fails(metric, message)
  PROVE  /\ errors' \in Seq([metric: Metrics, message: Messages])
         /\ readings' = readings
         /\ DOMAIN errors' = DOMAIN errors \cup {Len(errors) + 1}
         /\ Len(errors) + 1 \notin DOMAIN errors
         /\ \A i \in DOMAIN errors : errors'[i] = errors[i]
         /\ errors'[Len(errors) + 1].metric = metric
         /\ errors'[Len(errors) + 1].message = message
  BY DEF CollectorTypes, Fails, Error

\* The end of a metric, whichever it is.
Ends(metric) ==
  /\ step = metric \/ (metric = "usage" /\ step = "warmup")
  /\ step' = After(metric)
  /\ status' = status
  /\ metric # "usage" => observed' = observed
  /\ \/ Finds(metric)
     \/ \E message \in Messages : Fails(metric, message)
     \/ /\ UNCHANGED <<readings, errors>>
        /\ metric = "frequency" \/ (metric = "usage" /\ observed' = Zero)

\* Where the collection goes on.
LEMMA EndsPlace ==
  ASSUME CollectorInv, NEW metric \in Metrics, Ends(metric)
  PROVE  step' \in Metrics \cup {"finish"} /\ step' # "idle" /\ step' # "warmup" /\ StatusInv'
<1>1. step' \in Metrics \cup {"finish"} /\ step' # "idle" /\ step' # "warmup"
  BY MetricsListed, OrderListed DEF Ends
<1>2. step # "idle"
  BY MetricsListed DEF Ends
<1> QED
  BY <1>1, <1>2 DEF CollectorInv, StatusInv, Ends

\* It keeps what is said of the errors.
LEMMA EndsErrors ==
  ASSUME CollectorInv, NEW metric \in Metrics, Ends(metric)
  PROVE  ErrorsInv' /\ errors' \in Seq([metric: Metrics, message: Messages])
                    /\ readings' \in [Metrics -> {"null", "value"}]
<1>1. Pending' = Pending \ {metric} /\ metric \in Pending
  BY PendingAfter DEF Ends
<1>2. readings[metric] = "null" /\ NoError(metric)
  BY <1>1 DEF CollectorInv, ErrorsInv
<1>3. /\ \A m \in Metrics \ Pending' : m = metric \/ m \notin Pending
      /\ metric = "usage" => \A m \in Metrics \ Pending' : m = metric
  BY <1>1, PendingFirst DEF Ends
<1>4. metric # "usage" => observed' = observed
  BY DEF Ends
<1>5. step # "idle"
  BY MetricsListed DEF Ends
<1> USE DEF CollectorInv, CollectorTypes
<1>6. CASE Finds(metric)
  <2>1. errors' = errors /\ readings' = [readings EXCEPT ![metric] = "value"]
    BY <1>6 DEF Finds
  <2>2. \A m \in Metrics : NoError(m)' <=> NoError(m)
    BY <2>1 DEF NoError
  <2>3. \A m \in Metrics : readings'[m] = IF m = metric THEN "value" ELSE readings[m]
    BY <2>1
  <2>4. readings' \in [Metrics -> {"null", "value"}] /\ errors' \in Seq([metric: Metrics, message: Messages])
    BY <2>1
  <2>5. ErrorsInv'
    <3>1. \A m \in Pending' : readings'[m] = "null" /\ NoError(m)'
      BY <1>1, <2>2, <2>3, PendingIn DEF ErrorsInv
    <3>2. \A i, j \in DOMAIN errors' : errors'[i].metric = errors'[j].metric => i = j
      BY <2>1 DEF ErrorsInv
    <3>3. \A m \in Metrics : readings'[m] = "value" => NoError(m)'
      BY <1>2, <2>2, <2>3 DEF ErrorsInv
    <3>4. \A m \in Metrics \ Pending' : readings'[m] = "null" /\ NoError(m)' =>
            m = "frequency" \/ (m = "usage" /\ observed' = Zero)
      BY <1>3, <1>4, <1>5, <2>2, <2>3 DEF ErrorsInv
    <3> QED
      BY <3>1, <3>2, <3>3, <3>4 DEF ErrorsInv, Zero
  <2> QED
    BY <2>4, <2>5
<1>7. ASSUME NEW message \in Messages, Fails(metric, message)
      PROVE  ErrorsInv' /\ errors' \in Seq([metric: Metrics, message: Messages])
                        /\ readings' \in [Metrics -> {"null", "value"}]
  <2> DEFINE new == Len(errors) + 1
  <2>1. /\ errors' \in Seq([metric: Metrics, message: Messages]) /\ readings' = readings
        /\ DOMAIN errors' = DOMAIN errors \cup {new} /\ new \notin DOMAIN errors
        /\ \A i \in DOMAIN errors : errors'[i] = errors[i]
        /\ errors'[new].metric = metric
    BY <1>7, OneMore
  <2> HIDE DEF new
  <2>2. \A m \in Metrics : NoError(m)' <=> NoError(m) /\ m # metric
    BY <2>1 DEF NoError
  <2>3. \A i, j \in DOMAIN errors' : errors'[i].metric = errors'[j].metric => i = j
    BY <1>2, <2>1 DEF ErrorsInv, NoError
  <2>4. ErrorsInv'
    <3>1. \A m \in Pending' : readings'[m] = "null" /\ NoError(m)'
      BY <1>1, <2>1, <2>2, PendingIn DEF ErrorsInv
    <3>3. \A m \in Metrics : readings'[m] = "value" => NoError(m)'
      BY <1>2, <2>1, <2>2 DEF ErrorsInv
    <3>4. \A m \in Metrics \ Pending' : readings'[m] = "null" /\ NoError(m)' =>
            m = "frequency" \/ (m = "usage" /\ observed' = Zero)
      BY <1>3, <1>4, <1>5, <2>1, <2>2 DEF ErrorsInv
    <3> QED
      BY <2>3, <3>1, <3>3, <3>4 DEF ErrorsInv, Zero
  <2> QED
    BY <2>1, <2>4
<1>8. CASE UNCHANGED <<readings, errors>> /\ (metric = "frequency" \/ (metric = "usage" /\ observed' = Zero))
  <2>1. \A m \in Metrics : NoError(m)' <=> NoError(m)
    BY <1>8 DEF NoError
  <2>2. ErrorsInv'
    <3>1. \A m \in Pending' : readings'[m] = "null" /\ NoError(m)'
      BY <1>1, <1>8, <2>1, PendingIn DEF ErrorsInv
    <3>2. \A i, j \in DOMAIN errors' : errors'[i].metric = errors'[j].metric => i = j
      BY <1>8 DEF ErrorsInv
    <3>3. \A m \in Metrics : readings'[m] = "value" => NoError(m)'
      BY <1>8, <2>1 DEF ErrorsInv
    <3>4. \A m \in Metrics \ Pending' : readings'[m] = "null" /\ NoError(m)' =>
            m = "frequency" \/ (m = "usage" /\ observed' = Zero)
      BY <1>3, <1>4, <1>5, <1>8, <2>1 DEF ErrorsInv
    <3> QED
      BY <3>1, <3>2, <3>3, <3>4 DEF ErrorsInv, Zero
  <2> QED
    BY <1>8, <2>2
<1> QED
  BY <1>6, <1>7, <1>8 DEF Ends

\* A metric other than CPU usage leaves what is said of it alone.
LEMMA PlainUsage ==
  ASSUME CollectorInv, NEW metric \in Metrics, metric # "usage", observed' = observed, usage' = usage,
         \/ Finds(metric) \/ Fails(metric, "unavailable") \/ UNCHANGED <<readings, errors>>
  PROVE  UsageRight'
<1>1. Inconsistent' <=> Inconsistent
  BY DEF Inconsistent
<1>2. readings'["usage"] = readings["usage"]
  BY MetricsListed DEF Finds, Fails, CollectorInv, CollectorTypes
<1>3. ASSUME NEW i \in DOMAIN errors', errors'[i].message = "inconsistent" PROVE Inconsistent
  <2>1. CASE Fails(metric, "unavailable")
    <3>1. i \in DOMAIN errors /\ errors'[i] = errors[i]
      BY <1>3, <2>1, OneMore DEF CollectorInv, Messages
    <3> QED
      BY <1>3, <3>1 DEF CollectorInv, UsageRight
  <2>2. CASE errors' = errors
    BY <1>3, <2>2 DEF CollectorInv, UsageRight
  <2> QED
    BY <2>1, <2>2 DEF Finds
<1> QED
  BY <1>1, <1>2, <1>3 DEF CollectorInv, UsageRight

-----------------------------------------------------------------------------
(***************************************************************************)
(* The second sample.                                                      *)
(***************************************************************************)
Agrees(g) == (\A c \in Counters : g[c] >= 0) /\ Sum(g, Counters) <= MaxCounter

\* What usage_percent compares is the history of growth.
LEMMA ComparesGrowth ==
  ASSUME CollectorTypes, Accounts, step = "warmup" \/ previous # NoSample
  PROVE  /\ UsagePercent(previous, kernel).ok = Agrees(growth)
         /\ UsagePercent(previous, kernel).value =
              IF Agrees(growth) THEN [busy  |-> Sum(growth, Counters) - Sum(growth, IdleCounters),
                                      total |-> Sum(growth, Counters)]
                                ELSE NoUsage
<1>1. [c \in Counters |-> kernel[c] - previous[c]] = growth
  BY DEF CollectorTypes, Accounts
<1> QED
  BY <1>1 DEF UsagePercent, Agrees

\* The sums of a growth that agrees.
LEMMA AgreeingSums ==
  ASSUME NEW g \in [Counters -> Int], Agrees(g)
  PROVE  /\ Sum(g, Counters) \in Nat /\ Sum(g, IdleCounters) \in Nat
         /\ Sum(g, Counters) = Sum(g, IdleCounters) + Sum(g, Counters \ IdleCounters)
         /\ Sum(g, Counters \ IdleCounters) \in Nat
         /\ Sum(g, Counters) = 0 => g = Zero
<1>1. \A c \in Counters : g[c] \in Nat
  BY DEF Agrees
<1>2. IsFiniteSet(Counters) /\ IdleCounters \subseteq Counters
  BY CountersAssumption
<1>3. \A T \in SUBSET Counters : Sum(g, T) \in Nat
  BY <1>1, <1>2, SumNat
<1>4. Sum(g, Counters) = Sum(g, IdleCounters) + Sum(g, Counters \ IdleCounters)
  BY <1>2, SumSplit
<1>5. ASSUME Sum(g, Counters) = 0 PROVE g = Zero
  <2>1. \A c \in Counters : g[c] <= Sum(g, Counters)
    BY <1>1, <1>2, TermsBelow
  <2>2. \A c \in Counters : g[c] = 0
    BY <1>1, <1>5, <2>1
  <2> QED
    BY <2>2 DEF Zero
<1> QED
  BY <1>2, <1>3, <1>4, <1>5

\* The second sample, when it can be read, yields the right usage.
LEMMA SecondReadable ==
  ASSUME CollectorInv, SecondSample(TRUE)
  PROVE  Ends("usage") /\ UsageRight'
<1>1. /\ step = "warmup" \/ (step = "usage" /\ previous # NoSample)
      /\ step' = After("usage") /\ status' = status
      /\ observed' = growth /\ ReportUsage(UsagePercent(previous, kernel))
  BY DEF SecondSample
<1>2. growth \in [Counters -> Int] /\ CollectorTypes /\ ErrorsInv
  BY DEF CollectorInv, CollectorTypes
<1> DEFINE r == UsagePercent(previous, kernel)
<1>3. /\ r.ok = Agrees(growth)
      /\ r.value = IF Agrees(growth) THEN [busy  |-> Sum(growth, Counters) - Sum(growth, IdleCounters),
                                           total |-> Sum(growth, Counters)]
                                     ELSE NoUsage
  BY <1>1, ComparesGrowth DEF CollectorInv
<1>4. errors = <<>> /\ DOMAIN errors = {}
  BY <1>1, <1>2, NothingYet
<1>5. readings["usage"] = "null"
  BY <1>1, <1>2, PendingFirst, MetricsListed DEF ErrorsInv
<1>6. Inconsistent' <=> ~Agrees(growth)
  <2>1. Sum(growth, Counters) \in Int
    BY <1>2, SumInt, CountersAssumption
  <2> QED
    BY <1>1, <1>2, <2>1, CountersAssumption DEF Inconsistent, Agrees
<1> USE DEF ReportUsage
<1> HIDE DEF r
<1>7. CASE ~Agrees(growth)
  <2>1. Fails("usage", "inconsistent")
    BY <1>1, <1>3, <1>7 DEF r
  <2>2. Ends("usage")
    BY <1>1, <2>1 DEF Ends, Messages
  <2>3. UsageRight'
    BY <1>5, <1>6, <1>7, <2>1 DEF UsageRight, Fails
  <2> QED
    BY <2>2, <2>3
<1>8. CASE Agrees(growth)
  <2>1. usage' = [busy  |-> Sum(growth, Counters) - Sum(growth, IdleCounters),
                  total |-> Sum(growth, Counters)]
    BY <1>1, <1>3, <1>8 DEF r
  <2>2. /\ Sum(growth, Counters) \in Nat /\ Sum(growth, IdleCounters) \in Nat
        /\ Sum(growth, Counters) = Sum(growth, IdleCounters) + Sum(growth, Counters \ IdleCounters)
        /\ Sum(growth, Counters \ IdleCounters) \in Nat
        /\ Sum(growth, Counters) = 0 => growth = Zero
    BY <1>2, <1>8, AgreeingSums
  <2>3. CASE Sum(growth, Counters) = 0
    <3>1. UNCHANGED <<readings, errors>>
      BY <1>1, <1>3, <1>8, <2>3 DEF r
    <3>2. Ends("usage")
      BY <1>1, <2>2, <2>3, <3>1 DEF Ends
    <3>3. UsageRight'
      BY <1>4, <1>5, <3>1 DEF UsageRight
    <3> QED
      BY <3>2, <3>3
  <2>4. CASE Sum(growth, Counters) # 0
    <3>1. Finds("usage")
      BY <1>1, <1>3, <1>8, <2>4 DEF r
    <3>2. Ends("usage")
      BY <1>1, <3>1 DEF Ends
    <3>3. usage'.total = Sum(observed', Counters)
      BY <1>1, <2>1
    <3>4. usage'.busy = Sum(observed', Counters \ IdleCounters)
      BY <1>1, <2>1, <2>2
    <3>5. usage'.busy <= usage'.total
      BY <2>1, <2>2
    <3>6. DOMAIN errors' = {}
      BY <1>4, <3>1 DEF Finds
    <3>7. UsageRight'
      BY <3>3, <3>4, <3>5, <3>6 DEF UsageRight
    <3> QED
      BY <3>2, <3>7
  <2> QED
    BY <2>3, <2>4
<1> QED
  BY <1>7, <1>8

-----------------------------------------------------------------------------
(***************************************************************************)
(* The invariant is kept.                                                  *)
(***************************************************************************)
LEMMA CollectorInitially == Init => CollectorInv
<1> SUFFICES ASSUME Init PROVE CollectorInv
  OBVIOUS
<1> USE DEF Init
<1>1. Zero \in Samples /\ Zero \in [Counters -> Int]
  BY CountersAssumption DEF Zero, Samples
<1>2. errors \in Seq([metric: Metrics, message: Messages]) /\ DOMAIN errors = {}
  OBVIOUS
<1>3. CollectorTypes
  BY <1>1, <1>2 DEF CollectorTypes
<1>4. Accounts
  BY DEF Accounts
<1>5. UsageRight
  BY <1>2, MetricsListed DEF UsageRight
<1>6. ErrorsInv
  BY <1>2, MetricsListed DEF ErrorsInv, NoError, Pending
<1>7. StatusInv
  BY DEF StatusInv
<1> QED
  BY <1>3, <1>4, <1>5, <1>6, <1>7 DEF CollectorInv

\* A new collection keeps the invariant, and so does each step below.
LEMMA BeginKeeps == CollectorInv /\ Begin => CollectorInv'
<1> SUFFICES ASSUME CollectorInv, Begin PROVE CollectorInv'
  OBVIOUS
<1> USE DEF Begin
<1>1. errors' \in Seq([metric: Metrics, message: Messages]) /\ DOMAIN errors' = {}
  OBVIOUS
<1>2. readings' \in [Metrics -> {"null", "value"}] /\ \A metric \in Metrics : readings'[metric] = "null"
  OBVIOUS
<1>3. CollectorTypes'
  BY <1>1, <1>2, MetricsListed DEF CollectorInv, CollectorTypes, Samples, NoSample
<1>4. Accounts'
  BY DEF CollectorInv, Accounts, NoSample
<1>5. UsageRight'
  BY <1>1, <1>2, MetricsListed DEF UsageRight
<1>6. Pending' = Metrics
  BY DEF Pending
<1>7. ErrorsInv'
  BY <1>1, <1>2, <1>6 DEF ErrorsInv, NoError
<1>8. StatusInv'
  BY DEF StatusInv
<1> QED
  BY <1>3, <1>4, <1>5, <1>7, <1>8 DEF CollectorInv

\* Steps that leave the readings and the errors alone and stay in the place.
LEMMA SamePlace ==
  ASSUME ErrorsInv, UNCHANGED <<step, readings, errors, status, observed>>
  PROVE  ErrorsInv'
<1>1. Pending' = Pending
  BY DEF Pending
<1>2. \A metric : NoError(metric)' <=> NoError(metric)
  BY DEF NoError
<1> QED
  BY <1>1, <1>2 DEF ErrorsInv, Zero

\* A counter of the kernel moves.
LEMMA CounterKeeps ==
  ASSUME CollectorInv, NEW c \in Counters, CounterMoves(c)
  PROVE  CollectorInv'
<1> USE DEF CounterMoves, collectorVars
<1>1. PICK value \in 0..MaxCounter : /\ kernel' = [kernel EXCEPT ![c] = value]
                                     /\ growth' = [growth EXCEPT ![c] = @ + value - kernel[c]]
  OBVIOUS
<1>2. kernel \in [Counters -> 0..MaxCounter] /\ growth \in [Counters -> Int]
  BY DEF CollectorInv, CollectorTypes, Samples
<1>3. kernel' \in [Counters -> 0..MaxCounter] /\ growth' \in [Counters -> Int]
  BY <1>1, <1>2, CountersAssumption
<1>4. CollectorTypes'
  BY <1>3 DEF CollectorInv, CollectorTypes, Samples, NoSample
<1>5. Accounts'
  <2>1. SUFFICES ASSUME previous # NoSample \/ step = "warmup", NEW d \in Counters
                 PROVE  growth'[d] = kernel'[d] - previous[d]
    BY DEF Accounts, NoSample
  <2>2. growth[d] = kernel[d] - previous[d]
    BY <2>1 DEF CollectorInv, Accounts
  <2>3. previous[d] \in Int
    BY CountersAssumption DEF CollectorInv, CollectorTypes, Samples, NoSample
  <2> QED
    BY <1>1, <1>2, <2>2, <2>3, CountersAssumption
<1>6. UsageRight'
  BY DEF CollectorInv, UsageRight, Inconsistent
<1>7. ErrorsInv'
  BY SamePlace DEF CollectorInv
<1>8. StatusInv'
  BY DEF CollectorInv, StatusInv
<1> QED
  BY <1>4, <1>5, <1>6, <1>7, <1>8 DEF CollectorInv

\* A metric other than CPU usage.
LEMMA PlainKeeps ==
  ASSUME CollectorInv, NEW metric \in Metrics, metric # "usage", step = metric,
         step' = After(metric),
         UNCHANGED <<previous, usage, status, kernel, growth, observed>>,
         \/ Finds(metric) \/ Fails(metric, "unavailable")
         \/ metric = "frequency" /\ UNCHANGED <<readings, errors>>
  PROVE  CollectorInv'
<1>1. Ends(metric)
  BY DEF Ends, Messages
<1>2. UsageRight'
  BY PlainUsage
<1>3. /\ ErrorsInv' /\ errors' \in Seq([metric: Metrics, message: Messages])
      /\ readings' \in [Metrics -> {"null", "value"}]
  BY <1>1, EndsErrors
<1>4. step' \in Metrics \cup {"finish"} /\ step' # "idle" /\ step' # "warmup" /\ StatusInv'
  BY <1>1, EndsPlace
<1>5. CollectorTypes'
  BY <1>3, <1>4 DEF CollectorInv, CollectorTypes, Samples, NoSample
<1>6. Accounts'
  BY <1>4 DEF CollectorInv, Accounts, NoSample
<1> QED
  BY <1>2, <1>3, <1>4, <1>5, <1>6 DEF CollectorInv

\* CPU usage that could not be read.
LEMMA UsageUnread ==
  ASSUME CollectorInv, step \in {"usage", "warmup"}, Fails("usage", "unavailable")
  PROVE  UsageRight'
<1>1. readings["usage"] = "null"
  BY PendingFirst, MetricsListed DEF CollectorInv, ErrorsInv
<1>2. errors = <<>>
  BY NothingYet DEF CollectorInv
<1>3. \A i \in DOMAIN errors' : errors'[i].message = "unavailable"
  BY <1>2 DEF Fails, Error
<1> QED
  BY <1>1, <1>3 DEF UsageRight, Fails

\* The end of CPU usage, once what it says is right.
LEMMA UsageKeeps ==
  ASSUME CollectorInv, Ends("usage"), UsageRight', kernel' = kernel,
         \/ previous' = kernel /\ growth' = Zero /\ observed' = growth
         \/ UNCHANGED <<previous, growth, observed>>
  PROVE  CollectorInv'
<1>1. "usage" \in Metrics
  BY MetricsListed
<1>2. /\ ErrorsInv' /\ errors' \in Seq([metric: Metrics, message: Messages])
      /\ readings' \in [Metrics -> {"null", "value"}]
  BY <1>1, EndsErrors
<1>3. step' \in Metrics \cup {"finish"} /\ step' # "idle" /\ step' # "warmup" /\ StatusInv'
  BY <1>1, EndsPlace
<1>4. kernel \in [Counters -> 0..MaxCounter] /\ Zero \in [Counters -> Int]
  BY DEF CollectorInv, CollectorTypes, Samples, Zero
<1>5. CollectorTypes'
  BY <1>2, <1>3, <1>4 DEF CollectorInv, CollectorTypes, Samples, NoSample
<1>6. Accounts'
  BY <1>3, <1>4, CountersAssumption DEF CollectorInv, Accounts, NoSample, Zero
<1> QED
  BY <1>2, <1>3, <1>5, <1>6 DEF CollectorInv

\* The first sample, which becomes the baseline.
LEMMA FirstKeeps ==
  ASSUME CollectorInv, NEW readable \in BOOLEAN, FirstSample(readable)
  PROVE  CollectorInv'
<1> USE DEF FirstSample
<1>1. CASE readable
  <2>1. kernel \in [Counters -> 0..MaxCounter]
    BY DEF CollectorInv, CollectorTypes, Samples
  <2>2. CollectorTypes'
    BY <1>1, CountersAssumption DEF CollectorInv, CollectorTypes, Samples, NoSample, Zero
  <2>3. Accounts'
    BY <1>1, <2>1, CountersAssumption DEF Accounts, Zero
  <2>4. UsageRight'
    BY <1>1 DEF CollectorInv, UsageRight, Inconsistent
  <2>5. Pending' = Metrics /\ Pending = Metrics
    BY <1>1, PendingFirst DEF Pending
  <2>6. \A metric : NoError(metric)' <=> NoError(metric)
    BY <1>1 DEF NoError
  <2>7. ErrorsInv'
    BY <1>1, <2>5, <2>6 DEF CollectorInv, ErrorsInv
  <2>8. StatusInv'
    BY <1>1 DEF CollectorInv, StatusInv
  <2> QED
    BY <2>2, <2>3, <2>4, <2>7, <2>8 DEF CollectorInv
<1>2. CASE ~readable
  <2>1. Fails("usage", "unavailable") /\ step = "usage" /\ step' = After("usage")
    BY <1>2
  <2>2. Ends("usage")
    BY <2>1 DEF Ends, Messages
  <2> QED
    BY <1>2, <2>1, <2>2, UsageUnread, UsageKeeps
<1> QED
  BY <1>1, <1>2

\* The second sample.
LEMMA SecondKeeps ==
  ASSUME CollectorInv, NEW readable \in BOOLEAN, SecondSample(readable)
  PROVE  CollectorInv'
<1>1. CASE readable
  <2>1. Ends("usage") /\ UsageRight'
    BY <1>1, SecondReadable
  <2>2. previous' = kernel /\ growth' = Zero /\ observed' = growth /\ kernel' = kernel
    BY <1>1 DEF SecondSample
  <2> QED
    BY <2>1, <2>2, UsageKeeps
<1>2. CASE ~readable
  <2>1. /\ Fails("usage", "unavailable") /\ step' = After("usage")
        /\ step = "warmup" \/ step = "usage"
        /\ UNCHANGED <<previous, usage, growth, observed, status, kernel>>
    BY <1>2 DEF SecondSample
  <2>2. Ends("usage")
    BY <2>1 DEF Ends, Messages
  <2> QED
    BY <2>1, <2>2, UsageUnread, UsageKeeps
<1> QED
  BY <1>1, <1>2

\* A collection ends.
LEMMA FinishKeeps == CollectorInv /\ Finish => CollectorInv'
<1> SUFFICES ASSUME CollectorInv, Finish PROVE CollectorInv'
  OBVIOUS
<1> USE DEF Finish
<1>1. CollectorTypes'
  BY DEF CollectorInv, CollectorTypes, Samples, NoSample
<1>2. Accounts'
  BY DEF CollectorInv, Accounts, NoSample
<1>3. UsageRight'
  BY DEF CollectorInv, UsageRight, Inconsistent
<1>4. Pending' = {} /\ Pending = {}
  BY MetricsListed DEF Pending
<1>5. \A metric : NoError(metric)' <=> NoError(metric)
  BY DEF NoError
<1>6. ErrorsInv'
  BY <1>4, <1>5 DEF CollectorInv, ErrorsInv, Zero
<1>7. StatusInv'
  BY DEF StatusInv
<1> QED
  BY <1>1, <1>2, <1>3, <1>6, <1>7 DEF CollectorInv

\* Every step keeps the invariant.
LEMMA CollectorStep == CollectorInv /\ [Next]_vars => CollectorInv'
<1> SUFFICES ASSUME CollectorInv, [Next]_vars PROVE CollectorInv'
  OBVIOUS
<1>1. CASE Begin
  BY <1>1, BeginKeeps
<1>2. ASSUME NEW c \in Counters, CounterMoves(c) PROVE CollectorInv'
  BY <1>2, CounterKeeps
<1>3. ASSUME NEW readable \in BOOLEAN, FirstSample(readable) PROVE CollectorInv'
  BY <1>3, FirstKeeps
<1>4. ASSUME NEW readable \in BOOLEAN, SecondSample(readable) PROVE CollectorInv'
  BY <1>4, SecondKeeps
<1>5. ASSUME NEW metric \in {"load", "memory", "uptime", "disk"}, NEW readable \in BOOLEAN,
             CollectPlain(metric, readable)
      PROVE  CollectorInv'
  <2>1. metric \in Metrics /\ metric # "usage"
    BY MetricsListed
  <2> QED
    BY <1>5, <2>1, PlainKeeps DEF CollectPlain
<1>6. ASSUME NEW zone \in Sources, NEW command \in Sources \ {"absent"},
             CollectTemperature(zone, command)
      PROVE  CollectorInv'
  <2>1. Finds("temperature") \/ Fails("temperature", "unavailable")
    BY <1>6 DEF CollectTemperature
  <2> QED
    BY <1>6, <2>1, PlainKeeps, MetricsListed DEF CollectTemperature
<1>7. ASSUME NEW first \in Sources, NEW second \in Sources, CollectFrequency(<<first, second>>)
      PROVE  CollectorInv'
  <2>1. /\ step = "frequency" /\ step' = After("frequency")
        /\ UNCHANGED <<previous, usage, mask, status, kernel, growth, observed>>
    BY <1>7 DEF CollectFrequency
  <2>2. \/ UNCHANGED <<readings, errors>> \/ Finds("frequency")
        \/ Fails("frequency", "unavailable")
    <3> DEFINE found == SelectSeq(<<first, second>>, LAMBDA path : path # "absent")
    <3>1. (CASE found = <<>>                          -> UNCHANGED <<readings, errors>>
            [] found # <<>> /\ Head(found) = "good" -> Finds("frequency")
            [] OTHER                                 -> Fails("frequency", "unavailable"))
      BY <1>7 DEF CollectFrequency
    <3> HIDE DEF found
    <3> QED
      BY <3>1
  <2> QED
    BY <2>1, <2>2, PlainKeeps, MetricsListed
<1>8. ASSUME NEW readable \in BOOLEAN, NEW bits \in Masks, CollectPower(readable, bits)
      PROVE  CollectorInv'
  BY <1>8, PlainKeeps, MetricsListed DEF CollectPower
<1>9. CASE Finish
  BY <1>9, FinishKeeps
<1>10. CASE UNCHANGED vars
  <2> USE <1>10 DEF vars, collectorVars
  <2>1. CollectorTypes'
    BY DEF CollectorInv, CollectorTypes, Samples, NoSample
  <2>2. Accounts'
    BY DEF CollectorInv, Accounts, NoSample
  <2>3. UsageRight'
    BY DEF CollectorInv, UsageRight, Inconsistent
  <2>4. ErrorsInv'
    BY SamePlace DEF CollectorInv
  <2>5. StatusInv'
    BY DEF CollectorInv, StatusInv
  <2> QED
    BY <2>1, <2>2, <2>3, <2>4, <2>5 DEF CollectorInv
<1> QED
  BY <1>1, <1>2, <1>3, <1>4, <1>5, <1>6, <1>7, <1>8, <1>9, <1>10 DEF Next

-----------------------------------------------------------------------------
\* The invariant implies the exactness of the usage,
LEMMA ExactFromInv == CollectorInv => UsageExact
  BY DEF CollectorInv, UsageRight, UsageExact, Complete, Inconsistent

\* The CPU usage a state reports is the growth between the last two samples
\* that could be read, for any counters of any width, and the counters are
\* called inconsistent only if they are: collect_cpu_usage and usage_percent.
THEOREM UsageIsExact == Spec => []UsageExact
<1>1. Spec => []CollectorInv
  BY CollectorInitially, CollectorStep, PTL DEF Spec
<1> QED
  BY <1>1, ExactFromInv, PTL

\* and the honesty of a snapshot.
LEMMA HonestFromInv == CollectorInv => SnapshotHonest
<1> SUFFICES ASSUME CollectorInv, Complete PROVE SnapshotHonest
  BY DEF SnapshotHonest
<1>1. \A metric : ErrorsOf(metric) = {} <=> NoError(metric)
  BY DEF ErrorsOf, NoError
<1>2. Pending = {}
  BY MetricsListed DEF Pending, Complete
<1>3. ASSUME NEW metric \in Metrics
      PROVE  /\ readings[metric] = "value" => ErrorsOf(metric) = {}
             /\ readings[metric] = "null" /\ ErrorsOf(metric) = {} =>
                  metric = "frequency" \/ (metric = "usage" /\ observed = Zero)
  BY <1>1, <1>2 DEF CollectorInv, ErrorsInv, Complete
<1>4. ASSUME NEW metric \in Metrics
      PROVE  Cardinality(ErrorsOf(metric)) <= 1
  <2>1. CASE ErrorsOf(metric) = {}
    <3>1. Cardinality(ErrorsOf(metric)) = 0
      BY <2>1, FS_EmptySet
    <3> QED
      BY <3>1
  <2>2. CASE ErrorsOf(metric) # {}
    <3>1. PICK i \in ErrorsOf(metric) : TRUE
      BY <2>2
    <3>2. \A j \in ErrorsOf(metric) : j = i
      BY DEF ErrorsOf, CollectorInv, ErrorsInv
    <3>3. ErrorsOf(metric) = {i}
      BY <3>1, <3>2
    <3>4. Cardinality(ErrorsOf(metric)) = 1
      BY <3>3, FS_Singleton
    <3> QED
      BY <3>4
  <2> QED
    BY <2>1, <2>2
<1>5. status = Evaluate(mask, errors # <<>>)
  BY DEF CollectorInv, StatusInv, Complete
<1>6. HasCurrentProblem(mask) <=> mask \cap NowBits # {}
  BY DEF HasCurrentProblem, FlagBit, NowBits
<1>7. mask \cap NowBits # {} => status = "critical"
  BY <1>5, <1>6 DEF Evaluate
<1>8. ASSUME status \in {"ok", "warning"}
      PROVE  /\ readings["power"] = "value" /\ mask \cap NowBits = {}
             /\ \A metric \in Metrics : ErrorsOf(metric) = {}
  <2>1. ~HasCurrentProblem(mask) /\ errors = <<>>
    BY <1>5, <1>8 DEF Evaluate
  <2>2. \A metric \in Metrics : ErrorsOf(metric) = {}
    BY <2>1 DEF ErrorsOf
  <2>3. readings["power"] \in {"null", "value"}
    BY MetricsListed DEF CollectorInv, CollectorTypes
  <2> QED
    BY <1>3, <1>6, <2>1, <2>2, <2>3, MetricsListed
<1> QED
  BY <1>3, <1>4, <1>7, <1>8 DEF SnapshotHonest

\* A finished state names each failed metric once and no other, and its status
\* hides neither a failure nor a current power problem: Collector::collect and
\* HealthStatus::evaluate, whatever the sources do.
THEOREM SnapshotsHonest == Spec => []SnapshotHonest
<1>1. Spec => []CollectorInv
  BY CollectorInitially, CollectorStep, PTL DEF Spec
<1> QED
  BY <1>1, HonestFromInv, PTL

-----------------------------------------------------------------------------
\* The two deltas of a second sample fit the width of the counters.
LEMMA UsageFits ==
  ASSUME CollectorInv, NEW readable \in BOOLEAN, SecondSample(readable),
         usage \in [busy: 0..MaxCounter, total: 0..MaxCounter]
  PROVE  usage' \in [busy: 0..MaxCounter, total: 0..MaxCounter]
<1>1. CASE readable /\ Agrees(growth)
  <2>1. usage' = [busy  |-> Sum(growth, Counters) - Sum(growth, IdleCounters),
                  total |-> Sum(growth, Counters)]
    BY <1>1, ComparesGrowth DEF CollectorInv, SecondSample, ReportUsage
  <2>2. growth \in [Counters -> Int]
    BY DEF CollectorInv, CollectorTypes
  <2>3. /\ Sum(growth, Counters) \in Nat /\ Sum(growth, IdleCounters) \in Nat
        /\ Sum(growth, Counters) = Sum(growth, IdleCounters) + Sum(growth, Counters \ IdleCounters)
        /\ Sum(growth, Counters \ IdleCounters) \in Nat
    BY <1>1, <2>2, AgreeingSums
  <2>4. Sum(growth, Counters) <= MaxCounter
    BY <1>1 DEF Agrees
  <2>5. /\ Sum(growth, Counters) - Sum(growth, IdleCounters) \in 0..MaxCounter
        /\ Sum(growth, Counters) \in 0..MaxCounter
    BY <2>3, <2>4, CountersAssumption
  <2> QED
    BY <2>1, <2>5
<1>2. CASE readable /\ ~Agrees(growth)
  <2>1. usage' = NoUsage
    BY <1>2, ComparesGrowth DEF CollectorInv, SecondSample, ReportUsage
  <2> QED
    BY <2>1, CountersAssumption DEF NoUsage
<1>3. CASE ~readable
  BY <1>3 DEF SecondSample
<1> QED
  BY <1>1, <1>2, <1>3

\* What the invariant does not say of the types.
RestOfTypes ==
  /\ usage \in [busy: 0..MaxCounter, total: 0..MaxCounter]
  /\ mask \in Masks \cup {{}}
  /\ status \in {"none", "ok", "warning", "critical", "degraded"}

\* Every step keeps them.
LEMMA RestOfTypesStep == CollectorInv /\ RestOfTypes /\ [Next]_vars => RestOfTypes'
<1> SUFFICES ASSUME CollectorInv, RestOfTypes, [Next]_vars PROVE RestOfTypes'
  OBVIOUS
<1> USE DEF RestOfTypes
<1>1. CASE Begin
  BY <1>1, CountersAssumption DEF Begin, NoUsage
<1>2. ASSUME NEW c \in Counters, CounterMoves(c) PROVE RestOfTypes'
  BY <1>2 DEF CounterMoves, collectorVars
<1>3. ASSUME NEW readable \in BOOLEAN, FirstSample(readable) PROVE RestOfTypes'
  BY <1>3 DEF FirstSample
<1>4. ASSUME NEW readable \in BOOLEAN, SecondSample(readable) PROVE RestOfTypes'
  <2>1. usage' \in [busy: 0..MaxCounter, total: 0..MaxCounter]
    BY <1>4, UsageFits
  <2> QED
    BY <1>4, <2>1 DEF SecondSample
<1>5. ASSUME NEW metric \in {"load", "memory", "uptime", "disk"}, NEW readable \in BOOLEAN,
             CollectPlain(metric, readable)
      PROVE  RestOfTypes'
  BY <1>5 DEF CollectPlain
<1>6. ASSUME NEW zone \in Sources, NEW command \in Sources \ {"absent"},
             CollectTemperature(zone, command)
      PROVE  RestOfTypes'
  BY <1>6 DEF CollectTemperature
<1>7. ASSUME NEW first \in Sources, NEW second \in Sources, CollectFrequency(<<first, second>>)
      PROVE  RestOfTypes'
  BY <1>7 DEF CollectFrequency
<1>8. ASSUME NEW readable \in BOOLEAN, NEW bits \in Masks, CollectPower(readable, bits)
      PROVE  RestOfTypes'
  BY <1>8 DEF CollectPower
<1>9. CASE Finish
  BY <1>9 DEF Finish, Evaluate
<1>10. CASE UNCHANGED vars
  BY <1>10 DEF vars, collectorVars
<1> QED
  BY <1>1, <1>2, <1>3, <1>4, <1>5, <1>6, <1>7, <1>8, <1>9, <1>10 DEF Next

\* Every variable of a collection keeps its type; the two deltas behind
\* cpu.usage_percent always fit u64, as the checked sums of usage_percent mean
\* them to.
THEOREM CollectionTyped == Spec => []TypeOK
<1>1. Init => RestOfTypes
  BY CountersAssumption DEF Init, RestOfTypes, NoUsage
<1>2. CollectorInv /\ RestOfTypes => TypeOK
  BY DEF CollectorInv, CollectorTypes, RestOfTypes, TypeOK, Messages
<1> QED
  BY <1>1, <1>2, CollectorInitially, CollectorStep, RestOfTypesStep, PTL DEF Spec

-----------------------------------------------------------------------------
(***************************************************************************)
(* Utilization.                                                            *)
(***************************************************************************)
\* What was read.
ReadTypes ==
  /\ values \in [Keys -> Int]
  /\ \A key \in Keys : values[key] >= Absent
  /\ geometry \in [fragment: Nat, blocks: Nat, free: Nat, available: Nat]

\* The invariant of the amounts.
UtilizationInv == ReadTypes /\ UtilizationExact

USE WidthAssumption, NumbersAssumption

-----------------------------------------------------------------------------
\* Multiplication keeps the order of natural numbers.
LEMMA ProductsOrdered ==
  ASSUME NEW k \in Nat, NEW a \in Nat, NEW b \in Nat
  PROVE  /\ k * a \in Nat /\ k * b \in Nat
         /\ a <= b => k * a <= k * b
OBVIOUS

\* A source that yields nothing is sound.
LEMMA NothingSound == Sound(Nothing)
BY DEF Sound, Nothing, Amount

\* An amount made of a total and a part of it is sound when the total fits, and
\* it is never inconsistent.
LEMMA ClampedAmount ==
  ASSUME NEW total \in Nat, NEW part \in Nat,
         NEW amount, amount = Amount(KIB * total, KIB * Smaller(part, total),
                                     KIB * total - KIB * Smaller(part, total), KIB * total)
  PROVE  /\ AmountOutcome(amount) = "ok" => Sound(amount)
         /\ AmountOutcome(amount) # "inconsistent"
         /\ AmountOutcome(amount) = "overflow" => KIB * total > MaxU64
<1> DEFINE rest == Smaller(part, total)
<1>1. rest \in Nat /\ rest <= total
  BY DEF Smaller
<1>2. KIB * rest \in Nat /\ KIB * total \in Nat /\ KIB * rest <= KIB * total
  BY <1>1, ProductsOrdered
<1>3. /\ amount.total = KIB * total /\ amount.rest = KIB * rest
      /\ amount.used = KIB * total - KIB * rest /\ amount.whole = KIB * total
  BY DEF Amount
<1> HIDE DEF rest
<1> QED
  BY <1>2, <1>3 DEF AmountOutcome, Sound

\* What parse_meminfo makes of any set of values.
LEMMA MeminfoSound ==
  ASSUME ReadTypes
  PROVE  /\ MeminfoOutcome(values) = "ok" =>
              Sound(MemoryAmount(values)) /\ Sound(SwapAmount(values))
         /\ MeminfoOutcome(values) = "overflow" => SomethingTooLarge
         /\ MeminfoOutcome(values) # "inconsistent"
<1> DEFINE total == values["MemTotal"]
           swapTotal == values["SwapTotal"]
           swapFree == values["SwapFree"]
           part == AvailableKib(values)
<1>1. /\ total \in Int /\ swapTotal \in Int /\ swapFree \in Int
      /\ total >= -1 /\ swapTotal >= -1 /\ swapFree >= -1
  BY DEF ReadTypes, Keys, Absent
<1>2. ASSUME values["MemAvailable"] # Absent \/ \A key \in FallbackKeys : values[key] # Absent
      PROVE  part \in Nat
  <2>1. /\ values["MemAvailable"] \in Int /\ values["MemAvailable"] >= -1
        /\ values["MemFree"] \in Int /\ values["Buffers"] \in Int /\ values["Cached"] \in Int
        /\ values["SReclaimable"] \in Int /\ values["Shmem"] \in Int
    BY DEF ReadTypes, Keys, FallbackKeys, Absent
  <2> QED
    BY <2>1 DEF AvailableKib, FallbackSum, Absent
<1>3. ASSUME total \in Nat, part \in Nat
      PROVE  /\ AmountOutcome(MemoryAmount(values)) = "ok" => Sound(MemoryAmount(values))
             /\ AmountOutcome(MemoryAmount(values)) # "inconsistent"
             /\ AmountOutcome(MemoryAmount(values)) = "overflow" => KIB * total > MaxU64
  BY <1>3, ClampedAmount DEF MemoryAmount
<1>4. ASSUME swapTotal \in Nat, swapFree \in Nat
      PROVE  /\ AmountOutcome(SwapAmount(values)) = "ok" => Sound(SwapAmount(values))
             /\ AmountOutcome(SwapAmount(values)) # "inconsistent"
             /\ AmountOutcome(SwapAmount(values)) = "overflow" => KIB * swapTotal > MaxU64
  BY <1>4, ClampedAmount DEF SwapAmount
<1>5. CASE total = Absent \/ total = 0
  BY <1>5 DEF MeminfoOutcome
<1>6. CASE values["MemAvailable"] = Absent /\ \E key \in FallbackKeys : values[key] = Absent
  BY <1>6 DEF MeminfoOutcome
<1>7. CASE values["MemAvailable"] = Absent /\ FallbackSum(values) > MaxU64
  BY <1>7 DEF MeminfoOutcome, SomethingTooLarge
<1>8. CASE swapTotal = Absent \/ swapFree = Absent
  BY <1>7, <1>8 DEF MeminfoOutcome, SomethingTooLarge
<1>9. CASE /\ ~(total = Absent \/ total = 0)
           /\ ~(values["MemAvailable"] = Absent /\ \E key \in FallbackKeys : values[key] = Absent)
           /\ ~(values["MemAvailable"] = Absent /\ FallbackSum(values) > MaxU64)
           /\ ~(swapTotal = Absent \/ swapFree = Absent)
  <2>1. total \in Nat /\ swapTotal \in Nat /\ swapFree \in Nat
    BY <1>1, <1>9 DEF Absent
  <2>2. part \in Nat
    BY <1>2, <1>9
  <2>3. MeminfoOutcome(values) =
          IF AmountOutcome(MemoryAmount(values)) # "ok"
          THEN AmountOutcome(MemoryAmount(values)) ELSE AmountOutcome(SwapAmount(values))
    BY <1>9 DEF MeminfoOutcome
  <2> HIDE DEF total, swapTotal, swapFree, part
  <2>4. SomethingTooLarge \/ ~(KIB * total > MaxU64 \/ KIB * swapTotal > MaxU64)
    BY DEF SomethingTooLarge, total, swapTotal
  <2> QED
    BY <1>3, <1>4, <2>1, <2>2, <2>3, <2>4
<1> QED
  BY <1>5, <1>6, <1>7, <1>8, <1>9

\* What calculate_disk_metrics makes of any geometry.
LEMMA DiskSound ==
  ASSUME NEW f \in Nat, NEW b \in Nat, NEW e \in Nat, NEW a \in Nat
  PROVE  /\ DiskOutcome(f, b, e, a) = "ok" => Sound(DiskAmount(f, b, e, a))
         /\ DiskOutcome(f, b, e, a) = "inconsistent" => e > b
         /\ DiskOutcome(f, b, e, a) = "overflow" =>
              f * b > MaxU64 \/ f * e > MaxU64 \/ f * a > MaxU64 \/ f * (b + a) > MaxU64
<1> DEFINE amount == DiskAmount(f, b, e, a)
<1>1. /\ b * f = f * b /\ e * f = f * e /\ a * f = f * a /\ f * (b + a) = f * b + f * a
      /\ f * b \in Nat /\ f * e \in Nat /\ f * a \in Nat
  OBVIOUS
<1>2. e <= b => f * e <= f * b
  BY ProductsOrdered
<1>3. /\ amount.total = f * b /\ amount.rest = f * e /\ amount.used = f * b - f * e
      /\ amount.whole = f * b - f * e + f * a
  BY <1>1 DEF DiskAmount, Amount
<1>4. DiskOutcome(f, b, e, a) =
        IF f * a > MaxU64 THEN "overflow"
        ELSE IF AmountOutcome(amount) # "ok" THEN AmountOutcome(amount)
        ELSE IF amount.whole > MaxU64 THEN "overflow" ELSE "ok"
  BY <1>1 DEF DiskOutcome
<1> HIDE DEF amount
<1>5. /\ AmountOutcome(amount) = "overflow" <=> f * b > MaxU64 \/ f * e > MaxU64
      /\ AmountOutcome(amount) = "inconsistent" => f * e > f * b
      /\ AmountOutcome(amount) = "ok" => f * e <= f * b /\ f * b <= MaxU64 /\ f * e <= MaxU64
  BY <1>1, <1>3 DEF AmountOutcome
<1>6. DiskOutcome(f, b, e, a) = "ok" => Sound(amount)
  BY <1>1, <1>3, <1>4, <1>5 DEF Sound
<1>7. DiskOutcome(f, b, e, a) = "inconsistent" => e > b
  BY <1>1, <1>2, <1>4, <1>5
<1>8. DiskOutcome(f, b, e, a) = "overflow" =>
        f * b > MaxU64 \/ f * e > MaxU64 \/ f * a > MaxU64 \/ f * (b + a) > MaxU64
  BY <1>1, <1>3, <1>4, <1>5
<1> QED
  BY <1>6, <1>7, <1>8 DEF amount

-----------------------------------------------------------------------------
\* It holds initially.
LEMMA UtilizationInitially == UtilizationInit => UtilizationInv
<1> SUFFICES ASSUME UtilizationInit PROVE UtilizationInv
  OBVIOUS
<1>1. ReadTypes
  BY DEF UtilizationInit, ReadTypes, NoGeometry, Absent
<1>2. UtilizationExact
  BY NothingSound DEF UtilizationInit, UtilizationExact
<1> QED
  BY <1>1, <1>2 DEF UtilizationInv

\* Every step keeps it.
LEMMA UtilizationStep == UtilizationInv /\ [UtilizationNext]_utilizationVars => UtilizationInv'
<1> SUFFICES ASSUME UtilizationInv, [UtilizationNext]_utilizationVars PROVE UtilizationInv'
  OBVIOUS
<1>1. ASSUME NEW key \in Keys, NEW number \in Numbers \cup {Absent}, ReadLine(key, number)
      PROVE  UtilizationInv'
  <2>1. number \in Int /\ number >= Absent
    BY DEF Absent
  <2>2. ReadTypes'
    BY <1>1, <2>1 DEF UtilizationInv, ReadTypes, ReadLine
  <2>3. outcome' # "overflow" /\ outcome' # "inconsistent"
    BY <1>1 DEF ReadLine
  <2>4. Sound(memory)' /\ Sound(swap)' /\ Sound(disk)'
    BY <1>1 DEF ReadLine, UtilizationInv, UtilizationExact, Sound
  <2> QED
    BY <2>2, <2>3, <2>4 DEF UtilizationInv, UtilizationExact
<1>2. CASE EndOfFile
  <2>1. ReadTypes /\ ReadTypes' /\ (SomethingTooLarge <=> SomethingTooLarge')
    BY <1>2 DEF EndOfFile, UtilizationInv, ReadTypes, SomethingTooLarge, FallbackSum
  <2>2. outcome' = MeminfoOutcome(values) /\ UNCHANGED disk
    BY <1>2 DEF EndOfFile
  <2>3. Sound(memory)' /\ Sound(swap)' /\ Sound(disk)'
    <3>1. CASE outcome' = "ok"
      BY <1>2, <2>1, <2>2, <3>1, MeminfoSound DEF EndOfFile, UtilizationInv, UtilizationExact, Sound
    <3>2. CASE outcome' # "ok"
      BY <1>2, <3>2 DEF EndOfFile, UtilizationInv, UtilizationExact, Sound
    <3> QED
      BY <3>1, <3>2
  <2> QED
    BY <2>1, <2>2, <2>3, MeminfoSound DEF UtilizationInv, UtilizationExact
<1>3. ASSUME NEW g \in Geometries, StatFilesystem(g) PROVE UtilizationInv'
  <2>0. g \in [fragment: Nat, blocks: Nat, free: Nat, available: Nat]
    <3>1. Numbers \subseteq Nat
      OBVIOUS
    <3>2. /\ g = [fragment |-> g.fragment, blocks |-> g.blocks, free |-> g.free, available |-> g.available]
          /\ g.fragment \in Numbers /\ g.blocks \in Numbers /\ g.free \in Numbers /\ g.available \in Numbers
      BY DEF Geometries
    <3> QED
      BY <3>1, <3>2
  <2>1. g.fragment \in Nat /\ g.blocks \in Nat /\ g.free \in Nat /\ g.available \in Nat
    BY <2>0
  <2>2. ReadTypes'
    <3>1. geometry' = g /\ UNCHANGED values
      BY <1>3 DEF StatFilesystem
    <3> QED
      BY <2>0, <3>1 DEF UtilizationInv, ReadTypes
  <2>3. Sound(memory)' /\ Sound(swap)' /\ Sound(disk)'
    <3>1. CASE outcome' = "ok"
      <4>1. /\ DiskOutcome(g.fragment, g.blocks, g.free, g.available) = "ok"
            /\ disk' = DiskAmount(g.fragment, g.blocks, g.free, g.available)
            /\ UNCHANGED <<memory, swap>>
        BY <1>3, <3>1 DEF StatFilesystem
      <4>2. Sound(DiskAmount(g.fragment, g.blocks, g.free, g.available))
        BY <2>1, <4>1, DiskSound
      <4> QED
        BY <4>1, <4>2 DEF UtilizationInv, UtilizationExact, Sound
    <3>2. CASE outcome' # "ok"
      BY <1>3, <3>2 DEF StatFilesystem, UtilizationInv, UtilizationExact, Sound
    <3> QED
      BY <3>1, <3>2
  <2>4. outcome' = "overflow" => SomethingTooLarge'
    BY <1>3, <2>1, DiskSound DEF StatFilesystem, SomethingTooLarge
  <2>5. outcome' = "inconsistent" => geometry'.free > geometry'.blocks
    BY <1>3, <2>1, DiskSound DEF StatFilesystem
  <2> QED
    BY <2>2, <2>3, <2>4, <2>5 DEF UtilizationInv, UtilizationExact
<1>4. CASE UNCHANGED utilizationVars
  BY <1>4 DEF utilizationVars, UtilizationInv, ReadTypes, UtilizationExact, Sound, SomethingTooLarge, FallbackSum
<1> QED
  BY <1>1, <1>2, <1>3, <1>4 DEF UtilizationNext

\* Whatever numbers the kernel reports, memory, swap and disk amounts are sound
\* and a source is refused only for a reason it has.
THEOREM AmountsExact == UtilizationSpec => []UtilizationExact
<1>1. UtilizationInv => UtilizationExact
  BY DEF UtilizationInv
<1> QED
  BY UtilizationInitially, UtilizationStep, <1>1, PTL DEF UtilizationSpec

(***************************************************************************)
(* The expiry of a state.                                                  *)
(***************************************************************************)
\* The age of the last state, step by step of the way to the next.
FreshBound ==
  link = "fresh" =>
    /\ worker # "overtaken"
    /\ worker = "sent" => age = 0
    /\ worker = "waiting" /\ ~requested => age + untilTick <= interval
    /\ worker = "waiting" /\ requested => age <= interval + Lateness
    /\ worker = "collecting" => age + left <= interval + Lateness + Slowest

\* The time since a connection that has not seen a state yet.
RecoveryBound ==
  link = "online" =>
    /\ worker # "collecting" => age + left <= Slowest /\ requested
    /\ worker = "collecting" => age + left <= 2 * Slowest

\* Only a collection has time left, and what is collected offline is discarded.
WorkerState ==
  /\ ~Collecting => left = 0
  /\ worker = "collecting" => link # "offline"

\* The ranges the bounds need.
ExpiryRanges ==
  /\ ValidateCollector(interval, timeout)
  /\ interval \in Int /\ timeout \in Int
  /\ untilTick \in -Lateness..interval
  /\ worker \in {"waiting", "collecting", "overtaken", "sent"}
  /\ link \in {"offline", "online", "fresh"}
  /\ left \in 0..Slowest
  /\ age \in Nat

\* The invariant of the schedule.
ExpiryInv == ExpiryRanges /\ WorkerState /\ FreshBound /\ RecoveryBound

USE ExpiryAssumption

\* How long a collection may take.
LEMMA LongestBounded ==
  ASSUME ExpiryRanges, NEW warmup \in BOOLEAN, NEW zone \in BOOLEAN
  PROVE  Longest(timeout, warmup, zone, Overhead) \in 0..Slowest
BY DEF ExpiryRanges, Slowest, Longest, CPU_WARMUP, ValidateCollector, ValidateSeconds

\* The longest one, with the warmup and both firmware commands.
LEMMA SlowestIs ==
  ASSUME ValidateCollector(interval, timeout), timeout \in Int
  PROVE  Slowest \in Nat /\ Slowest = 1 + 2 * timeout + Overhead
BY DEF Slowest, Longest, CPU_WARMUP, ValidateCollector, ValidateSeconds

\* Nothing was published and no connection made.
LEMMA ExpiryInitially == ExpiryInit => ExpiryInv
<1> SUFFICES ASSUME ExpiryInit PROVE ExpiryInv
  OBVIOUS
<1>1. interval \in Int /\ timeout \in Int
  BY DEF ExpiryInit
<1>2. Slowest \in Nat
  BY <1>1, SlowestIs DEF ExpiryInit
<1>3. ExpiryRanges
  BY <1>1, <1>2 DEF ExpiryInit, ExpiryRanges, ValidateCollector, ValidateSeconds
<1>4. WorkerState /\ FreshBound /\ RecoveryBound
  BY DEF ExpiryInit, WorkerState, Collecting, FreshBound, RecoveryBound
<1> QED
  BY <1>3, <1>4 DEF ExpiryInv

\* A collection begins with all it may take still ahead of it.
LEMMA TakeKeepsExpiry ==
  ASSUME ExpiryInv, Slowest' = Slowest, left' \in 0..Slowest,
         worker = "waiting", requested,
         worker' = IF link = "offline" THEN "overtaken" ELSE "collecting",
         UNCHANGED <<interval, timeout, untilTick, link, age>>
  PROVE  ExpiryInv'
<1>s. Slowest \in Nat /\ Slowest = 1 + 2 * timeout + Overhead
  BY SlowestIs DEF ExpiryInv, ExpiryRanges
<1>a. ExpiryRanges' /\ WorkerState'
  BY <1>s DEF ExpiryInv, ExpiryRanges, WorkerState, Collecting, ValidateCollector, ValidateSeconds
<1>b. FreshBound'
  <2> SUFFICES ASSUME link = "fresh" PROVE FreshBound'
    BY DEF FreshBound
  <2>1. age <= interval + Lateness /\ age \in Nat /\ interval \in Int /\ left' \in Int
    BY <1>s DEF ExpiryInv, ExpiryRanges, FreshBound
  <2>2. age' + left' <= interval' + Lateness + Slowest'
    BY <1>s, <2>1
  <2> QED
    BY <2>2 DEF FreshBound
<1>c. RecoveryBound'
  <2> SUFFICES ASSUME link = "online" PROVE RecoveryBound'
    BY DEF RecoveryBound
  <2>1. age <= Slowest /\ age \in Nat /\ left' \in Int
    BY <1>s DEF ExpiryInv, ExpiryRanges, WorkerState, Collecting, RecoveryBound
  <2>2. age' + left' <= 2 * Slowest'
    BY <1>s, <2>1
  <2> QED
    BY <2>2 DEF RecoveryBound
<1> QED
  BY <1>a, <1>b, <1>c DEF ExpiryInv

\* ExpiryInv is inductive.
LEMMA ExpiryStep == ExpiryInv /\ [ExpiryNext]_expiryVars => ExpiryInv'
<1> SUFFICES ASSUME ExpiryInv, [ExpiryNext]_expiryVars PROVE ExpiryInv'
  OBVIOUS
<1>s. Slowest \in Nat /\ Slowest = 1 + 2 * timeout + Overhead
  BY SlowestIs DEF ExpiryInv, ExpiryRanges
<1>t. ASSUME interval' = interval, timeout' = timeout PROVE Slowest' = Slowest
  BY <1>t DEF Slowest
<1>1. CASE SchedulerTick
  <2>1. Slowest' = Slowest
    BY <1>1, <1>t DEF SchedulerTick, schedule
  <2> USE <1>1, <1>s, <2>1 DEF SchedulerTick, schedule, Busy, Collecting, ValidateCollector, ValidateSeconds
  <2>a. ExpiryRanges' /\ WorkerState'
    BY DEF ExpiryInv, ExpiryRanges, WorkerState
  <2>b. FreshBound'
    BY DEF ExpiryInv, ExpiryRanges, WorkerState, FreshBound
  <2>c. RecoveryBound'
    BY DEF ExpiryInv, ExpiryRanges, WorkerState, RecoveryBound
  <2> QED
    BY <2>a, <2>b, <2>c DEF ExpiryInv
<1>2. ASSUME NEW readable \in BOOLEAN, NEW zone \in BOOLEAN, WorkerTake(readable, zone)
      PROVE  ExpiryInv'
  <2>1. left' \in 0..Slowest
    <3>1. (readable /\ ~baseline) \in BOOLEAN
      OBVIOUS
    <3> QED
      BY <1>2, <3>1, LongestBounded DEF WorkerTake, ExpiryInv
  <2>2. Slowest' = Slowest
    BY <1>2, <1>t DEF WorkerTake, schedule
  <2>3. /\ worker = "waiting" /\ requested
        /\ worker' = IF link = "offline" THEN "overtaken" ELSE "collecting"
        /\ UNCHANGED <<interval, timeout, untilTick, link, age>>
    BY <1>2 DEF WorkerTake, schedule
  <2> QED
    BY <2>1, <2>2, <2>3, TakeKeepsExpiry
<1>3. CASE WorkerSend
  <2>1. Slowest' = Slowest
    BY <1>3, <1>t DEF WorkerSend, schedule
  <2> USE <1>3, <1>s, <2>1 DEF WorkerSend, schedule, Busy, Collecting, ValidateCollector, ValidateSeconds
  <2>a. ExpiryRanges' /\ WorkerState'
    BY DEF ExpiryInv, ExpiryRanges, WorkerState
  <2>b. FreshBound'
    BY DEF ExpiryInv, ExpiryRanges, WorkerState, FreshBound
  <2>c. RecoveryBound'
    BY DEF ExpiryInv, ExpiryRanges, WorkerState, RecoveryBound
  <2> QED
    BY <2>a, <2>b, <2>c DEF ExpiryInv
<1>4. CASE WorkerClearBusy
  <2>1. Slowest' = Slowest
    BY <1>4, <1>t DEF WorkerClearBusy, schedule
  <2> USE <1>4, <1>s, <2>1 DEF WorkerClearBusy, schedule, Busy, Collecting, ValidateCollector, ValidateSeconds
  <2>a. ExpiryRanges' /\ WorkerState'
    BY DEF ExpiryInv, ExpiryRanges, WorkerState
  <2>b. FreshBound'
    BY DEF ExpiryInv, ExpiryRanges, WorkerState, FreshBound
  <2>c. RecoveryBound'
    BY DEF ExpiryInv, ExpiryRanges, WorkerState, RecoveryBound
  <2> QED
    BY <2>a, <2>b, <2>c DEF ExpiryInv
<1>5. CASE Connect
  <2>1. Slowest' = Slowest
    BY <1>5, <1>t DEF Connect, schedule
  <2> USE <1>5, <1>s, <2>1 DEF Connect, schedule, Busy, Collecting, ValidateCollector, ValidateSeconds
  <2>a. ExpiryRanges' /\ WorkerState'
    BY DEF ExpiryInv, ExpiryRanges, WorkerState
  <2>b. FreshBound'
    BY DEF ExpiryInv, ExpiryRanges, WorkerState, FreshBound
  <2>c. RecoveryBound'
    BY DEF ExpiryInv, ExpiryRanges, WorkerState, RecoveryBound
  <2> QED
    BY <2>a, <2>b, <2>c DEF ExpiryInv
<1>6. CASE ConnectionLost
  <2>1. Slowest' = Slowest
    BY <1>6, <1>t DEF ConnectionLost, schedule
  <2> USE <1>6, <1>s, <2>1 DEF ConnectionLost, schedule, Busy, Collecting, ValidateCollector, ValidateSeconds
  <2>a. ExpiryRanges' /\ WorkerState'
    BY DEF ExpiryInv, ExpiryRanges, WorkerState
  <2>b. FreshBound'
    BY DEF ExpiryInv, ExpiryRanges, WorkerState, FreshBound
  <2>c. RecoveryBound'
    BY DEF ExpiryInv, ExpiryRanges, WorkerState, RecoveryBound
  <2> QED
    BY <2>a, <2>b, <2>c DEF ExpiryInv
<1>7. CASE Pass
  <2>1. Slowest' = Slowest
    BY <1>7, <1>t DEF Pass, schedule
  <2> USE <1>7, <1>s, <2>1 DEF Pass, schedule, Busy, Collecting, ValidateCollector, ValidateSeconds
  <2>a. ExpiryRanges' /\ WorkerState'
    BY DEF ExpiryInv, ExpiryRanges, WorkerState
  <2>b. FreshBound'
    BY DEF ExpiryInv, ExpiryRanges, WorkerState, FreshBound
  <2>c. RecoveryBound'
    BY DEF ExpiryInv, ExpiryRanges, WorkerState, RecoveryBound
  <2> QED
    BY <2>a, <2>b, <2>c DEF ExpiryInv
<1>8. CASE UNCHANGED expiryVars
  BY <1>8, <1>t DEF expiryVars, schedule, ExpiryInv, ExpiryRanges, WorkerState, Collecting, FreshBound, RecoveryBound
<1> QED
  BY <1>1, <1>2, <1>3, <1>4, <1>5, <1>6, <1>7, <1>8 DEF ExpiryNext

\* The longest wait for a state, with the margin of ExpiryAssumption, is within
\* three intervals since a timeout is shorter than an interval.
LEMMA ExpiryBoundsAge == ExpiryInv => NeverExpires /\ RecoversSoon
<1> SUFFICES ASSUME ExpiryInv PROVE NeverExpires /\ RecoversSoon
  OBVIOUS
<1>s. Slowest \in Nat /\ Slowest = 1 + 2 * timeout + Overhead
  BY SlowestIs DEF ExpiryInv, ExpiryRanges
<1> USE <1>s DEF ExpiryInv, ExpiryRanges, ValidateCollector, ValidateSeconds
<1>1. interval + Lateness + Slowest <= ExpireAfterSeconds(interval)
  BY DEF ExpireAfterSeconds, MINIMUM_EXPIRE_AFTER_SECONDS
<1>2. ExpireAfterSeconds(interval) \in Nat
  BY DEF ExpireAfterSeconds, MINIMUM_EXPIRE_AFTER_SECONDS
<1>3. NeverExpires
  BY <1>1, <1>2 DEF NeverExpires, FreshBound, WorkerState, Collecting
<1>4. RecoversSoon
  BY DEF RecoversSoon, RecoveryBound, WorkerState
<1> QED
  BY <1>3, <1>4

\* A published state is followed by another before Home Assistant drops it, for
\* every interval and timeout the configuration admits.
THEOREM StatesNeverExpire == ExpirySpec => []NeverExpires
<1>1. ExpiryInv => NeverExpires
  BY ExpiryBoundsAge
<1> QED
  BY ExpiryInitially, ExpiryStep, <1>1, PTL DEF ExpirySpec

\* The first state of a connection comes within two collections.
THEOREM ConnectionsRecover == ExpirySpec => []RecoversSoon
<1>1. ExpiryInv => RecoversSoon
  BY ExpiryBoundsAge
<1> QED
  BY ExpiryInitially, ExpiryStep, <1>1, PTL DEF ExpirySpec
=============================================================================
