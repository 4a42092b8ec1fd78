----------------------------- MODULE SumLemmas -----------------------------
(***************************************************************************)
(* Lemmas about the folds of the community modules: a sum over a finite    *)
(* set, whatever order its elements are picked in, and a count over the    *)
(* lines of a sale.                                                        *)
(***************************************************************************)
EXTENDS FiniteSetsExt, Sequences, TLAPS, FiniteSetTheorems

\* A nonempty set of natural numbers has a least element.
LEMMA LeastNumber ==
    ASSUME NEW T, T \subseteq Nat, T # {}
    PROVE  \E n \in T : \A m \in T : ~(m < n)
  <1>1. PICK n \in T : \A m \in T : ~(<<m, n>> \in OpToRel(<, Nat))
    BY NatLessThanWellFounded, WFMin
  <1> QED
    BY <1>1 DEF OpToRel

\* A nonempty set of numbers below a bound has a greatest element.
LEMMA Greatest ==
    ASSUME NEW m \in Nat, NEW T, T \subseteq 0 .. m, T # {}
    PROVE  \E t \in T : \A u \in T : u <= t
  <1> DEFINE D == {m - t : t \in T}
  <1>1. D \subseteq Nat /\ D # {}
    <2>1. \A t \in T : m - t \in Nat
      OBVIOUS
    <2> QED
      BY <2>1
  <1>2. PICK d \in D : \A e \in D : ~(e < d)
    <2> HIDE DEF D
    <2> QED
      BY <1>1, LeastNumber
  <1>3. PICK t \in T : d = m - t
    OBVIOUS
  <1>4. ASSUME NEW u \in T PROVE u <= t
    <2>1. u \in Nat /\ t \in Nat /\ m - u \in D
      OBVIOUS
    <2> HIDE DEF D
    <2> QED
      BY <1>2, <1>3, <2>1
  <1> QED
    BY <1>4

\* Among sets of a finite set's elements one is of the least size.
LEMMA LeastSet ==
    ASSUME NEW S, IsFiniteSet(S), NEW Bad, Bad \subseteq SUBSET S, Bad # {}
    PROVE  \E s \in Bad : \A u \in Bad : ~(Cardinality(u) < Cardinality(s))
  <1> DEFINE Sizes == {Cardinality(s) : s \in Bad}
  <1>1. \A s \in Bad : Cardinality(s) \in Nat
    BY FS_Subset, FS_CardinalityType
  <1>2. PICK n \in Sizes : \A m \in Sizes : ~(m < n)
    <2>1. Sizes \subseteq Nat /\ Sizes # {}
      BY <1>1
    <2> HIDE DEF Sizes
    <2> QED
      BY <2>1, LeastNumber
  <1> QED
    BY <1>2

-----------------------------------------------------------------------------
\* f adds the weights of the elements of a set one by one, as pick takes them.
Adds(f, S, pick, weight) ==
    f = [s \in SUBSET S |->
            IF s = {} THEN 0 ELSE weight[pick[s]] + f[s \ {pick[s]}]]

LEMMA AddsExists ==
    ASSUME NEW S, IsFiniteSet(S),
           NEW pick, \A s \in SUBSET S : s # {} => pick[s] \in s,
           NEW weight, \A x \in S : weight[x] \in Nat
    PROVE  \E f : Adds(f, S, pick, weight)
  <1> DEFINE Upto(n) == {s \in SUBSET S : Cardinality(s) <= n}
             Good(f, n) == f = [s \in Upto(n) |->
                    IF s = {} THEN 0 ELSE weight[pick[s]] + f[s \ {pick[s]}]]
             Bad == {n \in Nat : ~\E f : Good(f, n)}
  <1>0. \A s \in SUBSET S : IsFiniteSet(s) /\ Cardinality(s) \in Nat
    BY FS_Subset, FS_CardinalityType
  <1>1. Bad = {}
    <2> SUFFICES ASSUME Bad # {} PROVE FALSE
      OBVIOUS
    <2>1. PICK n \in Bad : \A m \in Bad : ~(m < n)
      BY LeastNumber
    <2>2. n \in Nat /\ ~\E f : Good(f, n)
      OBVIOUS
    <2>3. PICK f : n = 0 \/ Good(f, n - 1)
      <3>1. CASE n # 0
        <4>1. n - 1 \in Nat /\ n - 1 < n
          BY <2>2, <3>1
        <4> HIDE DEF Good
        <4> QED
          BY <2>1, <4>1
      <3> QED
        BY <3>1
    <2> DEFINE g == [s \in Upto(n) |->
                       IF s = {} THEN 0 ELSE weight[pick[s]] + f[s \ {pick[s]}]]
    <2>4. \A s \in Upto(n) : s # {} => 
             n # 0 /\ s \ {pick[s]} \in Upto(n - 1) /\ s \ {pick[s]} \in Upto(n)
      <3> TAKE s \in Upto(n)
      <3> SUFFICES ASSUME s # {}
                   PROVE  n # 0 /\ s \ {pick[s]} \in Upto(n - 1) /\ s \ {pick[s]} \in Upto(n)
        OBVIOUS
      <3>1. Cardinality(s \ {pick[s]}) = Cardinality(s) - 1
        BY <1>0, FS_RemoveElement
      <3>2. /\ Cardinality(s \ {pick[s]}) \in Nat /\ Cardinality(s) \in Nat
            /\ s \ {pick[s]} \in SUBSET S
        BY <1>0
      <3> QED
        BY <2>2, <3>1, <3>2
    <2>5. \A s \in Upto(n - 1) : n # 0 => s \in Upto(n) /\ g[s] = f[s]
      <3> SUFFICES ASSUME NEW s \in Upto(n - 1), n # 0 PROVE s \in Upto(n) /\ g[s] = f[s]
        OBVIOUS
      <3>1. s \in Upto(n)
        BY <1>0, <2>2
      <3>2. f[s] = IF s = {} THEN 0 ELSE weight[pick[s]] + f[s \ {pick[s]}]
        BY <2>3
      <3> HIDE DEF Upto
      <3> QED
        BY <3>1, <3>2
    <2>6. Good(g, n)
      <3>1. \A s \in Upto(n) : s # {} => g[s \ {pick[s]}] = f[s \ {pick[s]}]
        BY <2>4, <2>5
      <3> QED
        BY <3>1
    <2> HIDE DEF Good
    <2> QED
      BY <2>2, <2>6
  <1>2. PICK f : Good(f, Cardinality(S))
    <2>1. Cardinality(S) \in Nat
      BY FS_CardinalityType
    <2> HIDE DEF Good
    <2> QED
      BY <1>1, <2>1
  <1>3. Upto(Cardinality(S)) = SUBSET S
    BY FS_Subset
  <1> HIDE DEF Upto
  <1> QED
    BY <1>2, <1>3 DEF Adds

\* Sums of numbers are numbers.
LEMMA AddsNat ==
    ASSUME NEW S, IsFiniteSet(S),
           NEW pick, \A s \in SUBSET S : s # {} => pick[s] \in s,
           NEW weight, \A x \in S : weight[x] \in Nat, NEW f, Adds(f, S, pick, weight)
    PROVE  \A s \in SUBSET S : f[s] \in Nat
  <1> SUFFICES ASSUME NEW t \in SUBSET S, f[t] \notin Nat PROVE FALSE
    OBVIOUS
  <1> DEFINE Bad == {s \in SUBSET S : f[s] \notin Nat}
  <1>0. \A s \in SUBSET S : IsFiniteSet(s) /\ Cardinality(s) \in Nat
    BY FS_Subset, FS_CardinalityType
  <1>2. PICK s \in Bad : \A u \in Bad : ~(Cardinality(u) < Cardinality(s))
    BY LeastSet
  <1>3. f[s] = IF s = {} THEN 0 ELSE weight[pick[s]] + f[s \ {pick[s]}]
    BY DEF Adds
  <1>4. CASE s # {}
    <2>1. Cardinality(s \ {pick[s]}) < Cardinality(s) /\ s \ {pick[s]} \in SUBSET S
      BY <1>0, <1>4, FS_RemoveElement
    <2>2. s \ {pick[s]} \notin Bad
      BY <1>2, <2>1
    <2> QED
      BY <1>3, <1>4, <2>1, <2>2
  <1> QED
    BY <1>3, <1>4

\* after is before with d more for k.
MoreFor(before, after, S, k, d) ==
    \A x \in S : after[x] = IF x = k THEN before[x] + d ELSE before[x]

\* Giving one element d more adds d to the sums of the sets that hold it.
LEMMA AddsMore ==
    ASSUME NEW S, IsFiniteSet(S),
           NEW pick, \A s \in SUBSET S : s # {} => pick[s] \in s,
           NEW wt1, \A x \in S : wt1[x] \in Nat, NEW f, Adds(f, S, pick, wt1),
           NEW k, NEW d \in Nat,
           NEW wt2, MoreFor(wt1, wt2, S, k, d),
           NEW g, Adds(g, S, pick, wt2)
    PROVE  \A s \in SUBSET S : g[s] = IF k \in s THEN f[s] + d ELSE f[s]
  <1> DEFINE Right(s) == g[s] = IF k \in s THEN f[s] + d ELSE f[s]
             Bad == {s \in SUBSET S : ~Right(s)}
  <1> SUFFICES ASSUME Bad # {} PROVE FALSE
    OBVIOUS
  <1>0. \A s \in SUBSET S : IsFiniteSet(s) /\ Cardinality(s) \in Nat
    BY FS_Subset, FS_CardinalityType
  <1>2. PICK s \in Bad : \A u \in Bad : ~(Cardinality(u) < Cardinality(s))
    BY LeastSet
  <1>3. /\ f[s] = IF s = {} THEN 0 ELSE wt1[pick[s]] + f[s \ {pick[s]}]
        /\ g[s] = IF s = {} THEN 0 ELSE wt2[pick[s]] + g[s \ {pick[s]}]
    BY DEF Adds
  <1>4. CASE s # {}
    <2>1. /\ Cardinality(s \ {pick[s]}) < Cardinality(s)
          /\ s \ {pick[s]} \in SUBSET S /\ pick[s] \in s /\ pick[s] \in S
      <3>1. s \in SUBSET S /\ pick[s] \in s
        BY <1>4
      <3> HIDE DEF Bad
      <3> QED
        BY <1>0, <3>1, FS_RemoveElement
    <2>2. Right(s \ {pick[s]})
      BY <1>2, <2>1
    <2>3. f[s \ {pick[s]}] \in Nat
      BY <2>1, AddsNat
    <2>4. /\ wt1[pick[s]] \in Nat
          /\ wt2[pick[s]] = IF pick[s] = k THEN wt1[pick[s]] + d ELSE wt1[pick[s]]
      BY <2>1 DEF MoreFor
    <2>5. k \in s \ {pick[s]} <=> k \in s /\ k # pick[s]
      OBVIOUS
    <2>6. Right(s)
      <3>1. CASE k = pick[s]
        BY <1>3, <1>4, <2>1, <2>2, <2>3, <2>4, <2>5, <3>1
      <3>2. CASE k # pick[s]
        BY <1>3, <1>4, <2>1, <2>2, <2>3, <2>4, <2>5, <3>2
      <3> QED
        BY <3>1, <3>2
    <2> QED
      BY <2>6
  <1> QED
    BY <1>3, <1>4

\* Nothing adds up to nothing.
LEMMA AddsZero ==
    ASSUME NEW S, IsFiniteSet(S),
           NEW pick, \A s \in SUBSET S : s # {} => pick[s] \in s,
           NEW weight, \A x \in S : weight[x] = 0, NEW f, Adds(f, S, pick, weight)
    PROVE  \A s \in SUBSET S : f[s] = 0
  <1> DEFINE Bad == {s \in SUBSET S : f[s] # 0}
  <1> SUFFICES ASSUME Bad # {} PROVE FALSE
    OBVIOUS
  <1>0. \A s \in SUBSET S : IsFiniteSet(s) /\ Cardinality(s) \in Nat
    BY FS_Subset, FS_CardinalityType
  <1>2. PICK s \in Bad : \A u \in Bad : ~(Cardinality(u) < Cardinality(s))
    BY LeastSet
  <1>3. f[s] = IF s = {} THEN 0 ELSE weight[pick[s]] + f[s \ {pick[s]}]
    BY DEF Adds
  <1>4. CASE s # {}
    <2>a. pick[s] \in s /\ s \ {pick[s]} \in SUBSET S
      BY <1>4
    <2>b. Cardinality(s \ {pick[s]}) = Cardinality(s) - 1
      BY <1>0, <2>a, FS_RemoveElement
    <2>1. Cardinality(s \ {pick[s]}) < Cardinality(s) /\ s \ {pick[s]} \in SUBSET S
      BY <1>0, <2>a, <2>b
    <2>2. f[s \ {pick[s]}] = 0 /\ weight[pick[s]] = 0
      BY <1>2, <1>4, <2>1
    <2> QED
      BY <1>3, <1>4, <2>2
  <1> QED
    BY <1>3, <1>4

-----------------------------------------------------------------------------
\* f[1 .. n] is what the first n lines take from batch b.
Counts(f, lines, b) ==
    f = [s \in SUBSET DOMAIN lines |->
            IF s = {} THEN 0
            ELSE IF lines[Max(s)].batch = b THEN f[s \ {Max(s)}] + lines[Max(s)].qty
                 ELSE f[s \ {Max(s)}]]

LEMMA MaxOf ==
    ASSUME NEW s, s # {}, NEW n \in Nat, s \subseteq 1 .. n
    PROVE  Max(s) \in s /\ \A i \in s : i <= Max(s)
  <1>1. s \subseteq 0 .. n
    OBVIOUS
  <1>2. \E t \in s : \A u \in s : u <= t
    BY <1>1, Greatest
  <1>3. \E t \in s : \A u \in s : t >= u
    BY <1>1, <1>2
  <1> QED
    BY <1>1, <1>3 DEF Max

\* taken[n] is what the first n lines take from batch b.
Tallies(taken, lines, b) ==
    /\ taken[0] = 0
    /\ \A n \in 1 .. Len(lines) :
         taken[n] = IF lines[n].batch = b THEN taken[n - 1] + lines[n].qty ELSE taken[n - 1]

\* Counted from the last line or from the first, the lines take the same.
LEMMA CountTallies ==
    ASSUME NEW lines, Len(lines) \in Nat, DOMAIN lines = 1 .. Len(lines),
           \A i \in DOMAIN lines : lines[i].qty \in Nat, NEW b
    PROVE  \E taken \in [0 .. Len(lines) -> Nat] :
             /\ Tallies(taken, lines, b)
             /\ (CHOOSE f : Counts(f, lines, b))[DOMAIN lines] = taken[Len(lines)]
  <1> DEFINE D    == DOMAIN lines
             pick == [s \in SUBSET D |-> Max(s)]
             wt   == [i \in D |-> IF lines[i].batch = b THEN lines[i].qty ELSE 0]
  <1>1. Len(lines) \in Nat /\ D = 1 .. Len(lines) /\ \A i \in D : lines[i].qty \in Nat
    OBVIOUS
  <1>2. IsFiniteSet(D)
    BY <1>1, FS_Interval
  <1>3. \A s \in SUBSET D : s # {} => Max(s) \in s /\ \A i \in s : i <= Max(s)
    BY <1>1, MaxOf
  <1>4. \A s \in SUBSET D : s # {} => pick[s] \in s
    BY <1>3
  <1>5. \A i \in D : wt[i] \in Nat
    BY <1>1
  <1>6. ASSUME NEW f, Adds(f, D, pick, wt) PROVE Counts(f, lines, b)
    <2>1. \A s \in SUBSET D : f[s] \in Nat
      <3> HIDE DEF D, pick, wt
      <3> QED
        BY <1>2, <1>4, <1>5, <1>6, AddsNat
    <2>2. ASSUME NEW s \in SUBSET D, s # {}
          PROVE  wt[pick[s]] + f[s \ {pick[s]}]
                   = IF lines[Max(s)].batch = b THEN f[s \ {Max(s)}] + lines[Max(s)].qty
                     ELSE f[s \ {Max(s)}]
      <3>1. Max(s) \in D /\ s \ {Max(s)} \in SUBSET D
        BY <1>3, <2>2
      <3>2. f[s \ {Max(s)}] \in Nat /\ lines[Max(s)].qty \in Nat
        BY <1>1, <2>1, <3>1
      <3>3. pick[s] = Max(s) /\ wt[Max(s)] = IF lines[Max(s)].batch = b
                                             THEN lines[Max(s)].qty ELSE 0
        BY <3>1
      <3> HIDE DEF pick, wt, D
      <3> QED
        BY <3>2, <3>3
    <2> HIDE DEF pick, wt, D
    <2> QED
      BY <1>6, <2>2 DEF Adds, Counts, D
  <1>7. \E f : Adds(f, D, pick, wt)
    <2> HIDE DEF D, pick, wt
    <2> QED
      BY <1>2, <1>4, <1>5, AddsExists
  <1>8. PICK f : Counts(f, lines, b) /\ (CHOOSE g : Counts(g, lines, b))[D] = f[D]
    BY <1>6, <1>7
  <1>9. /\ f[1 .. 0] = 0
        /\ \A n \in 1 .. Len(lines) :
             f[1 .. n] = IF lines[n].batch = b THEN f[1 .. n - 1] + lines[n].qty
                         ELSE f[1 .. n - 1]
    <2>1. f[1 .. 0] = 0
      BY <1>1, <1>8 DEF Counts
    <2>2. ASSUME NEW n \in 1 .. Len(lines)
          PROVE  f[1 .. n] = IF lines[n].batch = b THEN f[1 .. n - 1] + lines[n].qty
                             ELSE f[1 .. n - 1]
      <3>1. 1 .. n \in SUBSET D /\ 1 .. n # {} /\ n \in 1 .. n
        BY <1>1
      <3>2. Max(1 .. n) = n
        <4>1. Max(1 .. n) \in 1 .. n /\ n <= Max(1 .. n)
          <5> HIDE DEF D
          <5> QED
            BY <1>3, <3>1
        <4> QED
          BY <4>1
      <3>3. (1 .. n) \ {n} = 1 .. n - 1
        BY <1>1
      <3> HIDE DEF D
      <3> QED
        BY <1>8, <3>1, <3>2, <3>3 DEF Counts, D
    <2> QED
      BY <2>1, <2>2
  <1> DEFINE taken == [n \in 0 .. Len(lines) |-> f[1 .. n]]
  <1>10. /\ taken[0] = 0
         /\ \A n \in 1 .. Len(lines) :
              taken[n] = IF lines[n].batch = b THEN taken[n - 1] + lines[n].qty
                         ELSE taken[n - 1]
         /\ (CHOOSE g : Counts(g, lines, b))[D] = taken[Len(lines)]
    BY <1>1, <1>8, <1>9
  <1>11. ASSUME NEW n \in 0 .. Len(lines), taken[n] \notin Nat PROVE FALSE
    <2> DEFINE Bad == {m \in 0 .. Len(lines) : taken[m] \notin Nat}
    <2> HIDE DEF taken
    <2>1. PICK m \in Bad : \A k \in Bad : ~(k < m)
      <3>1. Bad \subseteq Nat /\ Bad # {}
        BY <1>1, <1>11
      <3> QED
        BY <3>1, LeastNumber
    <2>2. m # 0 /\ m \in 1 .. Len(lines) /\ m - 1 \notin Bad /\ m - 1 \in 0 .. Len(lines)
      BY <1>1, <1>10, <2>1
    <2>3. lines[m].qty \in Nat /\ taken[m - 1] \in Nat /\ taken[m] \notin Nat
      BY <1>1, <2>1, <2>2
    <2>4. \/ taken[m] = taken[m - 1] + lines[m].qty
          \/ taken[m] = taken[m - 1]
      BY <1>10, <2>2
    <2> HIDE DEF Bad
    <2> QED
      BY <2>3, <2>4
  <1>12. taken \in [0 .. Len(lines) -> Nat]
    BY <1>11
  <1> HIDE DEF taken
  <1> QED
    BY <1>10, <1>12 DEF Tallies
=============================================================================
