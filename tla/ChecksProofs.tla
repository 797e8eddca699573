---------------------------- MODULE ChecksProofs ----------------------------
(***************************************************************************)
(* Proofs about Checks, for any documents, problems, programs and answers: *)
(* no key is called checked that was not, and what the reader and the      *)
(* student are told of quotations, numbers and answers is so.              *)
(***************************************************************************)
EXTENDS Checks, FiniteSetTheorems, SequenceTheorems, WellFoundedInduction, TLAPS

USE DEF lookups, runs, problems

(* Folds, position by position                                             *)

\* Induction over the natural numbers, for a set.
LEMMA ByNumber ==
  ASSUME NEW S, 0 \in S, \A n \in Nat : n \in S => n + 1 \in S
  PROVE  Nat \subseteq S
<1> DEFINE rest == Nat \ S
<1> SUFFICES ASSUME rest # {} PROVE FALSE
  OBVIOUS
<1>1. PICK m \in rest : \A k \in rest : ~ (<<k, m>> \in OpToRel(<, Nat))
  BY NatLessThanWellFounded, WFMin
<1>2. m # 0 /\ m - 1 \in Nat /\ m - 1 \notin S
  OBVIOUS
<1>3. <<m - 1, m>> \in OpToRel(<, Nat)
  BY <1>2 DEF OpToRel
<1> QED
  BY <1>1, <1>2, <1>3

\* The least of some natural numbers.
LEMMA MinOfSome ==
  ASSUME NEW s \in SUBSET Nat, s # {}
  PROVE  Min(s) \in s /\ \A k \in s : Min(s) <= k
<1>1. PICK m \in s : \A k \in s : ~ (<<k, m>> \in OpToRel(<, Nat))
  BY NatLessThanWellFounded, WFMin
<1>2. ASSUME NEW k \in s, k < m PROVE FALSE
  <2>1. <<k, m>> \in OpToRel(<, Nat)
    BY <1>2 DEF OpToRel
  <2> QED
    BY <1>1, <2>1
<1>3. \A k \in s : m <= k
  BY <1>2
<1> QED
  BY <1>3 DEF Min

\* The greatest of the numbers up to one.
LEMMA MaxOfSome ==
  ASSUME NEW n \in Nat, NEW s \in SUBSET (1..n), s # {}
  PROVE  Max(s) \in s /\ \A k \in s : k <= Max(s)
<1> DEFINE less == {n - k : k \in s}
<1>1. less \in SUBSET Nat /\ less # {}
  <2>1. \A k \in s : n - k \in Nat
    OBVIOUS
  <2>2. \E k \in s : n - k \in less
    OBVIOUS
  <2> QED
    BY <2>1, <2>2
<1>2. PICK l \in less : \A k \in less : l <= k
  <2> HIDE DEF less
  <2> QED
    BY <1>1, MinOfSome
<1>3. n - l \in s /\ \A k \in s : n - l >= k
  <2>1. PICK m \in s : l = n - m
    OBVIOUS
  <2>2. n - l = m
    BY <2>1
  <2>3. ASSUME NEW k \in s PROVE m >= k
    BY <1>2, <2>1
  <2> QED
    BY <2>2, <2>3
<1> QED
  BY <1>3 DEF Max

\* What a fold computes over the numbers up to n, if it stays in T.
Chain(g, n, base, step) ==
  g = [s \in SUBSET (1..n) |-> IF s = {} THEN base ELSE step[<<g[s \ {Max(s)}], Max(s)>>]]

\* There is such a function.
LEMMA ChainExists ==
  ASSUME NEW n \in Nat, NEW T, NEW base \in T, NEW step \in [T \X (1..n) -> T]
  PROVE  \E g \in [SUBSET (1..n) -> T] : Chain(g, n, base, step)
<1> DEFINE S == 1..n
           Low(m) == {s \in SUBSET S : \A i \in s : i <= m}
           Body(g, s) == IF s = {} THEN base ELSE step[<<g[s \ {Max(s)}], Max(s)>>]
           Done == {m \in Nat : \E g \in [Low(m) -> T] : g = [s \in Low(m) |-> Body(g, s)]}
<1>1. \A m \in Nat : \A s \in Low(m + 1) : s # {} => s \ {Max(s)} \in Low(m) /\ Max(s) \in S
  <2> SUFFICES ASSUME NEW m \in Nat, NEW s \in Low(m + 1), s # {}
               PROVE  s \ {Max(s)} \in Low(m) /\ Max(s) \in S
    OBVIOUS
  <2>1. Max(s) \in s /\ \A k \in s : k <= Max(s)
    BY MaxOfSome
  <2>2. ASSUME NEW k \in s \ {Max(s)} PROVE k <= m
    <3>1. \A i \in s : i \in Nat /\ i <= m + 1
      OBVIOUS
    <3> HIDE DEF Low
    <3>2. k \in Nat /\ Max(s) \in Nat /\ k <= Max(s) /\ Max(s) <= m + 1 /\ k # Max(s)
      BY <2>1, <3>1
    <3> QED
      BY <3>2
  <2> QED
    BY <2>1, <2>2
<1>2. 0 \in Done
  <2> DEFINE g == [s \in Low(0) |-> base]
  <2>1. \A s \in Low(0) : s = {}
    OBVIOUS
  <2>2. g = [s \in Low(0) |-> Body(g, s)] /\ g \in [Low(0) -> T]
    BY <2>1
  <2> QED
    BY <2>2
<1>3. ASSUME NEW m \in Nat, m \in Done PROVE m + 1 \in Done
  <2>1. PICK g \in [Low(m) -> T] : g = [s \in Low(m) |-> Body(g, s)]
    BY <1>3
  <2> DEFINE f == [s \in Low(m + 1) |-> Body(g, s)]
  <2>2. \A s \in Low(m) : s \in Low(m + 1)
    OBVIOUS
  <2>3. \A s \in Low(m) : f[s] = g[s]
    BY <2>1, <2>2
  <2>4. \A s \in Low(m + 1) : Body(g, s) = Body(f, s) /\ Body(g, s) \in T
    <3> HIDE DEF f
    <3> SUFFICES ASSUME NEW s \in Low(m + 1) PROVE Body(g, s) = Body(f, s) /\ Body(g, s) \in T
      OBVIOUS
    <3>1. s # {} => s \ {Max(s)} \in Low(m) /\ Max(s) \in S
      BY <1>1
    <3> HIDE DEF Low, S
    <3> QED
      BY <2>1, <2>3, <3>1 DEF S
  <2>5. f = [s \in Low(m + 1) |-> Body(f, s)] /\ f \in [Low(m + 1) -> T]
    <3> HIDE DEF Low, Body
    <3> QED
      BY <2>4
  <2>6. \E k \in [Low(m + 1) -> T] : k = [s \in Low(m + 1) |-> Body(k, s)]
    <3> HIDE DEF f, Low, Body
    <3> QED
      BY <2>5
  <2>7. m + 1 \in Nat
    OBVIOUS
  <2> QED
    <3> HIDE DEF Low, Body
    <3> QED
      BY <2>6, <2>7
<1>4. Nat \subseteq Done
  <2> HIDE DEF Done
  <2> QED
    BY <1>2, <1>3, ByNumber
<1>5. Low(n) = SUBSET S
  OBVIOUS
<1>6. PICK g \in [Low(n) -> T] : g = [s \in Low(n) |-> Body(g, s)]
  BY <1>4
<1> QED
  BY <1>5, <1>6 DEF Chain

\* g folds so as long as it stays in T.
Folding(g, n, T, base, step) ==
  /\ n \in Nat /\ base \in T /\ step \in [T \X (1..n) -> T]
  /\ \A s \in SUBSET (1..n) :
       /\ s = {} => g[s] = base
       /\ s # {} /\ g[s \ {Max(s)}] \in T => g[s] = step[<<g[s \ {Max(s)}], Max(s)>>]

\* f goes from number to number.
Stepping(f, n, base, step) == f[0] = base /\ \A m \in 1..n : f[m] = step[<<f[m - 1], m>>]

\* Such a one leads to what g computes of all.
Steps(g, n, T, base, step) ==
  \E f \in [0..n -> T] : Stepping(f, n, base, step) /\ f[n] = g[1..n]

\* Then it does, and goes from number to number.
LEMMA ChainSteps ==
  ASSUME NEW n, NEW T, NEW base, NEW step, NEW g, Folding(g, n, T, base, step)
  PROVE  Steps(g, n, T, base, step)
<1>1. n \in Nat /\ base \in T /\ step \in [T \X (1..n) -> T]
  BY DEF Folding
<1> USE <1>1
<1>2. g[1..0] = base
  <2>1. 1..0 = {}
    OBVIOUS
  <2> QED
    BY <2>1 DEF Folding
<1>3. ASSUME NEW m \in 1..n, g[1..(m - 1)] \in T PROVE g[1..m] = step[<<g[1..(m - 1)], m>>]
  <2>1. 1..m \in SUBSET (1..n) /\ m \in 1..m /\ 1..m # {}
    <3>1. \A i \in 1..m : i \in 1..n
      OBVIOUS
    <3>2. m \in 1..m
      OBVIOUS
    <3> QED
      BY <3>1, <3>2, Zenon
  <2>2. Max(1..m) = m
    <3> DEFINE s == 1..m
    <3>1. s \in SUBSET (1..n) /\ s # {}
      BY <2>1
    <3> HIDE DEF s
    <3>2. Max(s) \in s /\ \A k \in s : k <= Max(s)
      BY <3>1, MaxOfSome
    <3> USE DEF s
    <3> QED
      BY <2>1, <3>2
  <2>3. (1..m) \ {m} = 1..(m - 1)
    OBVIOUS
  <2> QED
    BY <1>3, <2>1, <2>2, <2>3 DEF Folding
<1> DEFINE f == [m \in 0..n |-> g[1..m]]
           Fine == {m \in Nat : m <= n => f[m] \in T}
<1>4. /\ f[0] = base /\ f[n] = g[1..n]
      /\ \A m \in 1..n : f[m - 1] \in T => f[m] = step[<<f[m - 1], m>>]
  <2>1. 0 \in 0..n /\ n \in 0..n /\ \A m \in 1..n : m \in 0..n /\ m - 1 \in 0..n
    OBVIOUS
  <2> QED
    BY <1>2, <1>3, <2>1
<1> HIDE DEF f
<1>5. 0 \in Fine
  BY <1>4
<1>6. ASSUME NEW m \in Nat, m \in Fine PROVE m + 1 \in Fine
  <2> SUFFICES ASSUME m + 1 <= n PROVE f[m + 1] \in T
    OBVIOUS
  <2>1. m + 1 \in 1..n /\ (m + 1) - 1 = m /\ f[m] \in T
    BY <1>6
  <2>2. f[m + 1] = step[<<f[m], m + 1>>]
    BY <1>4, <2>1
  <2>3. <<f[m], m + 1>> \in T \X (1..n)
    BY <2>1
  <2> QED
    BY <2>2, <2>3
<1>7. Nat \subseteq Fine
  <2> HIDE DEF Fine
  <2> QED
    BY <1>5, <1>6, ByNumber
<1>8. f \in [0..n -> T]
  <2>1. \A m \in 0..n : f[m] \in T
    BY <1>7
  <2> QED
    BY <2>1 DEF f
<1>9. \A m \in 1..n : f[m] = step[<<f[m - 1], m>>]
  <2>1. \A m \in 1..n : m - 1 \in 0..n
    OBVIOUS
  <2> QED
    BY <1>4, <1>8, <2>1
<1> QED
  BY <1>4, <1>8, <1>9 DEF Stepping, Steps

-----------------------------------------------------------------------------
(* Quotations *)

\* What the fold of In does with a fragment.
After(at, f, text) == IF at = 0 \/ Places(f, text, at) = {} THEN 0
                      ELSE Min(Places(f, text, at)) + Len(f)

\* A fragment's places are positions of the text.
LEMMA PlacesAre ==
  ASSUME NEW text \in Seq(Words), NEW f \in Seq(Words), NEW at \in Nat
  PROVE  /\ Places(f, text, at) \in SUBSET Nat
         /\ \A i \in Places(f, text, at) : at <= i /\ i + Len(f) <= Len(text) + 1
         /\ \A from \in Nat : from <= at =>
              \A i \in Nat : i \in Places(f, text, at) <=> at <= i /\ i \in Places(f, text, from)
<1>1. Len(text) \in Nat /\ Len(f) \in Nat
  OBVIOUS
<1> DEFINE here(i) == SubSeq(text, i, i + Len(f) - 1) = f
<1>2. \A from \in Nat : Places(f, text, from) = {i \in from..(Len(text) - Len(f) + 1) : here(i)}
  BY DEF Places
<1> HIDE DEF here
<1> QED
  BY <1>1, <1>2

\* The fold is there: from the first position, fragment by fragment.
LEMMA RunsIn ==
  ASSUME NEW text \in Seq(Words), NEW frags \in Seq(Seq(Words))
  PROVE  \E f \in [0..Len(frags) -> Nat] :
           /\ f[0] = 1 /\ (In(frags, text) <=> f[Len(frags)] # 0)
           /\ \A m \in 1..Len(frags) : f[m] = After(f[m - 1], frags[m], text)
<1> DEFINE n == Len(frags)
           step == [x \in Nat \X (1..n) |-> After(x[1], frags[x[2]], text)]
           Body(g, s) == IF s = {} THEN 1 ELSE After(g[s \ {Max(s)}], frags[Max(s)], text)
           g == CHOOSE k : k = [s \in SUBSET (1..n) |-> Body(k, s)]
<1>1. n \in Nat /\ DOMAIN frags = 1..n /\ \A m \in 1..n : frags[m] \in Seq(Words) /\ Len(frags[m]) \in Nat
  OBVIOUS
<1>2. \A at \in Nat, m \in 1..n : After(at, frags[m], text) \in Nat
  <2> SUFFICES ASSUME NEW at \in Nat, NEW m \in 1..n PROVE After(at, frags[m], text) \in Nat
    OBVIOUS
  <2>1. Places(frags[m], text, at) \in SUBSET Nat
    BY <1>1, PlacesAre
  <2>2. Places(frags[m], text, at) # {} => Min(Places(frags[m], text, at)) \in Nat
    BY <2>1, MinOfSome
  <2> QED
    BY <1>1, <2>2 DEF After
<1>3. step \in [Nat \X (1..n) -> Nat]
  BY <1>2
<1>4. \A at \in Nat, m \in 1..n : step[<<at, m>>] = After(at, frags[m], text)
  OBVIOUS
<1>5. In(frags, text) <=> g[1..n] # 0
  BY <1>1 DEF In, FoldLeft, MapThenFoldSet, After
<1>6. \E k : k = [s \in SUBSET (1..n) |-> Body(k, s)]
  <2> HIDE DEF step
  <2>1. PICK k \in [SUBSET (1..n) -> Nat] : Chain(k, n, 1, step)
    BY <1>1, <1>3, ChainExists
  <2>2. ASSUME NEW s \in SUBSET (1..n), s # {} PROVE step[<<k[s \ {Max(s)}], Max(s)>>] = Body(k, s)
    <3>1. Max(s) \in 1..n
      BY <1>1, <2>2, MaxOfSome
    <3>2. s \ {Max(s)} \in SUBSET (1..n)
      OBVIOUS
    <3> QED
      BY <1>4, <2>1, <2>2, <3>1, <3>2
  <2>3. k = [s \in SUBSET (1..n) |-> Body(k, s)]
    <3> HIDE DEF Body
    <3>1. Body(k, {}) = 1
      BY DEF Body
    <3> QED
      BY <2>1, <2>2, <3>1 DEF Chain
  <2> QED
    BY <2>3
<1>7. g = [s \in SUBSET (1..n) |-> Body(g, s)]
  <2> HIDE DEF Body
  <2> QED
    BY <1>6
<1>8. ASSUME NEW s \in SUBSET (1..n)
      PROVE  /\ s = {} => g[s] = 1
             /\ s # {} /\ g[s \ {Max(s)}] \in Nat => g[s] = step[<<g[s \ {Max(s)}], Max(s)>>]
  <2> HIDE DEF g, step
  <2>1. g[s] = Body(g, s)
    BY <1>7
  <2>2. s # {} => Max(s) \in 1..n
    BY <1>1, MaxOfSome
  <2> QED
    BY <1>4, <2>1, <2>2
<1>9. PICK f \in [0..n -> Nat] : Stepping(f, n, 1, step) /\ f[n] = g[1..n]
  <2> HIDE DEF g, step
  <2>1. Folding(g, n, Nat, 1, step)
    BY <1>1, <1>3, <1>8 DEF Folding
  <2> HIDE DEF n
  <2> QED
    BY <2>1, ChainSteps DEF Steps
<1>10. ASSUME NEW m \in 1..n PROVE f[m] = After(f[m - 1], frags[m], text)
  <2>1. m - 1 \in 0..n
    BY <1>1
  <2> HIDE DEF g, step
  <2> QED
    BY <1>4, <1>9, <2>1 DEF Stepping
<1> HIDE DEF g, step
<1> QED
  BY <1>5, <1>9, <1>10 DEF Stepping

\* Fragments as the server keeps them: none is empty.
Fragments == Seq(Seq(Words) \ {<<>>})

\* In is right: it finds the fragments just when they can be laid out in the text,
\* since taking the first place for each leaves the most room for the next.
LEMMA InIsPlaced ==
  ASSUME NEW text \in Seq(Words), NEW frags \in Fragments
  PROVE  In(frags, text) <=> Placed(frags, text)
<1> DEFINE n == Len(frags)
<1>1. /\ n \in Nat /\ frags \in Seq(Seq(Words)) /\ Len(text) \in Nat
      /\ \A m \in 1..n : frags[m] \in Seq(Words) /\ Len(frags[m]) \in Nat \ {0}
  <2>1. \A m \in 1..n : frags[m] \in Seq(Words) \ {<<>>}
    BY DEF Fragments
  <2>2. \A s \in Seq(Words) \ {<<>>} : Len(s) \in Nat \ {0}
    BY EmptySeq
  <2> QED
    BY <2>1, <2>2 DEF Fragments
<1>2. PICK f \in [0..n -> Nat] : /\ f[0] = 1 /\ (In(frags, text) <=> f[n] # 0)
                                 /\ \A m \in 1..n : f[m] = After(f[m - 1], frags[m], text)
  BY <1>1, RunsIn
<1> HIDE DEF n
<1>3. \A m \in 1..n : m - 1 \in 0..n /\ m \in 0..n /\ f[m - 1] \in Nat /\ f[m] \in Nat
  BY <1>1
<1> DEFINE P(m, at) == Places(frags[m], text, at)
<1>4. ASSUME NEW m \in 1..n, NEW at \in Nat
      PROVE  /\ P(m, at) \in SUBSET Nat
             /\ \A i \in P(m, at) : at <= i /\ i + Len(frags[m]) <= Len(text) + 1
             /\ \A i \in Nat : i \in P(m, at) => i \in P(m, 1) \/ at = 0
             /\ \A i \in Nat : at >= 1 /\ i \in P(m, 1) /\ at <= i => i \in P(m, at)
             /\ P(m, at) # {} => Min(P(m, at)) \in P(m, at) /\ \A k \in P(m, at) : Min(P(m, at)) <= k
  <2>1. /\ P(m, at) \in SUBSET Nat
        /\ \A i \in P(m, at) : at <= i /\ i + Len(frags[m]) <= Len(text) + 1
        /\ \A from \in Nat : from <= at =>
             \A i \in Nat : i \in P(m, at) <=> at <= i /\ i \in Places(frags[m], text, from)
    BY <1>1, PlacesAre
  <2>2. 1 \in Nat /\ (1 <= at \/ at = 0)
    OBVIOUS
  <2>3. P(m, at) # {} => Min(P(m, at)) \in P(m, at) /\ \A k \in P(m, at) : Min(P(m, at)) <= k
    BY <2>1, MinOfSome
  <2> HIDE DEF P
  <2>4. 1 <= at => \A i \in Nat : i \in P(m, at) <=> at <= i /\ i \in P(m, 1)
    BY <2>1 DEF P
  <2> QED
    BY <2>1, <2>2, <2>3, <2>4
<1> HIDE DEF P
<1>5. ASSUME In(frags, text) PROVE Placed(frags, text)
  <2> DEFINE at == [m \in 1..n |-> Min(P(m, f[m - 1]))]
             Fine == {k \in Nat : k <= n => f[n - k] # 0}
  <2>1. 0 \in Fine
    BY <1>1, <1>2, <1>5
  <2>2. ASSUME NEW k \in Nat, k \in Fine PROVE k + 1 \in Fine
    <3> SUFFICES ASSUME k + 1 <= n PROVE f[n - (k + 1)] # 0
      OBVIOUS
    <3>1. n - k \in 1..n /\ (n - k) - 1 = n - (k + 1) /\ f[n - k] # 0
      BY <1>1, <2>2
    <3>2. f[n - k] = After(f[n - (k + 1)], frags[n - k], text)
      BY <1>2, <3>1
    <3> QED
      BY <3>1, <3>2 DEF After
  <2>3. Nat \subseteq Fine
    <3> HIDE DEF Fine
    <3> QED
      BY <2>1, <2>2, ByNumber
  <2>4. \A m \in 0..n : f[m] # 0
    <3> SUFFICES ASSUME NEW m \in 0..n PROVE f[m] # 0
      OBVIOUS
    <3>1. n - m \in Nat /\ n - m <= n /\ n - (n - m) = m
      BY <1>1
    <3> QED
      BY <2>3, <3>1
  <2>5. ASSUME NEW m \in 1..n
        PROVE  /\ at[m] \in P(m, f[m - 1]) /\ f[m] = at[m] + Len(frags[m])
               /\ at[m] \in Nat /\ f[m - 1] <= at[m] /\ at[m] \in P(m, 1) /\ at[m] \in 1..Len(text)
    <3>1. f[m - 1] # 0 /\ f[m] # 0 /\ f[m - 1] \in Nat /\ f[m] = After(f[m - 1], frags[m], text)
      BY <1>2, <1>3, <2>4
    <3>2. P(m, f[m - 1]) # {} /\ f[m] = Min(P(m, f[m - 1])) + Len(frags[m])
      BY <3>1 DEF After, P
    <3>3. at[m] = Min(P(m, f[m - 1])) /\ at[m] \in P(m, f[m - 1])
      BY <1>4, <3>1, <3>2
    <3> HIDE DEF at
    <3>4. /\ at[m] \in Nat /\ f[m - 1] <= at[m] /\ at[m] \in P(m, 1)
          /\ at[m] + Len(frags[m]) <= Len(text) + 1
      BY <1>4, <3>1, <3>3
    <3> HIDE DEF P
    <3>6. Len(text) \in Nat /\ Len(frags[m]) \in Nat \ {0}
      BY <1>1
    <3>5. at[m] \in 1..Len(text)
      BY <3>1, <3>4, <3>6
    <3> QED
      BY <1>1, <3>2, <3>3, <3>4, <3>5
  <2>6. at \in [1..n -> 1..Len(text)]
    BY <2>5
  <2> HIDE DEF at
  <2>7. ASSUME NEW m \in 2..n PROVE at[m] >= at[m - 1] + Len(frags[m - 1])
    <3>1. m \in 1..n /\ m - 1 \in 1..n
      BY <1>1
    <3> QED
      BY <2>5, <3>1
  <2> QED
    BY <2>5, <2>6, <2>7 DEF Placed, P, n
<1>6. ASSUME Placed(frags, text) PROVE In(frags, text)
  <2>1. PICK at \in [1..n -> 1..Len(text)] :
             /\ \A i \in 1..n : at[i] \in P(i, 1)
             /\ \A i \in 2..n : at[i] >= at[i - 1] + Len(frags[i - 1])
    BY <1>6 DEF Placed, P, n
  <2>2. \A i \in 1..n : at[i] \in Nat /\ at[i] >= 1
    BY <1>1, <2>1
  <2> DEFINE Fine == {m \in Nat : m <= n => f[m] # 0 /\ (m > 0 => f[m] <= at[m] + Len(frags[m]))}
  <2>3. 0 \in Fine
    BY <1>2
  <2>4. ASSUME NEW k \in Nat, k \in Fine PROVE k + 1 \in Fine
    <3> DEFINE m == k + 1
    <3> SUFFICES ASSUME m <= n PROVE f[m] # 0 /\ f[m] <= at[m] + Len(frags[m])
      BY <2>4
    <3>1. m \in 1..n /\ k \in 0..n /\ m - 1 = k /\ f[k] # 0 /\ (k > 0 => f[k] <= at[k] + Len(frags[k]))
      BY <1>1, <2>4
    <3> HIDE DEF m
    <3>2. f[m] = After(f[k], frags[m], text) /\ f[k] \in Nat
      BY <1>2, <1>3, <3>1
    <3>3. f[k] <= at[m]
      <4>1. CASE k = 0
        BY <1>2, <2>2, <3>1, <4>1
      <4>2. CASE k # 0
        <5>1. m \in 2..n /\ k \in 1..n
          BY <1>1, <3>1, <4>2
        <5>2. at[m] >= at[k] + Len(frags[k])
          BY <2>1, <3>1, <5>1
        <5>3. f[k] <= at[k] + Len(frags[k])
          BY <3>1, <4>2, <5>1
        <5>4. at[k] \in Nat /\ at[m] \in Nat /\ Len(frags[k]) \in Nat
          BY <1>1, <2>2, <3>1, <5>1
        <5> QED
          BY <3>2, <5>2, <5>3, <5>4
      <4> QED
        BY <4>1, <4>2
    <3>4. at[m] \in P(m, f[k])
      BY <1>4, <2>1, <2>2, <3>1, <3>2, <3>3
    <3>5. f[m] = Min(P(m, f[k])) + Len(frags[m])
      BY <3>1, <3>2, <3>4 DEF After, P
    <3>6. Min(P(m, f[k])) \in Nat /\ Min(P(m, f[k])) <= at[m]
      BY <1>4, <3>1, <3>2, <3>4
    <3>7. Len(frags[m]) \in Nat \ {0} /\ at[m] \in Nat
      BY <1>1, <2>2, <3>1
    <3> QED
      BY <3>5, <3>6, <3>7
  <2>5. Nat \subseteq Fine
    <3> HIDE DEF Fine
    <3> QED
      BY <2>3, <2>4, ByNumber
  <2> QED
    BY <1>1, <1>2, <2>5
<1> QED
  BY <1>5, <1>6

\* f strings pages together, one after the other.
Stringing(f, pages, ps, mark) ==
  /\ f[0] = <<>> /\ Joined(pages, ps, mark) = f[Len(pages)]
  /\ \A m \in 1..Len(pages) : f[m] = IF m \in ps THEN f[m - 1] \o mark \o pages[m] ELSE f[m - 1]

\* Pages are strung together so, and stay a text.
LEMMA JoinedSteps ==
  ASSUME NEW pages \in Seq(Seq(Words)), NEW ps, NEW mark \in Seq(Words)
  PROVE  \E f \in [0..Len(pages) -> Seq(Words)] : Stringing(f, pages, ps, mark)
<1> DEFINE n == Len(pages)
           T == Seq(Words)
           Put(text, p) == IF p \in ps THEN text \o mark \o pages[p] ELSE text
           step == [x \in T \X (1..n) |-> Put(x[1], x[2])]
           numbers == [i \in DOMAIN pages |-> i]
           Body(g, s) == IF s = {} THEN <<>> ELSE Put(g[s \ {Max(s)}], numbers[Max(s)])
           g == CHOOSE k : k = [s \in SUBSET (1..n) |-> Body(k, s)]
<1>1. n \in Nat /\ DOMAIN pages = 1..n /\ DOMAIN numbers = 1..n /\ <<>> \in T
  OBVIOUS
<1>2. \A text \in T, p \in 1..n : Put(text, p) \in T
  <2> SUFFICES ASSUME NEW text \in T, NEW p \in 1..n PROVE Put(text, p) \in T
    OBVIOUS
  <2>1. pages[p] \in Seq(Words) /\ text \o mark \in Seq(Words)
    OBVIOUS
  <2> QED
    BY <2>1
<1>3. Joined(pages, ps, mark) = g[1..n]
  BY <1>1 DEF Joined, FoldLeftDomain, FoldLeft, MapThenFoldSet
<1>4. step \in [T \X (1..n) -> T] /\ \A text \in T, p \in 1..n : step[<<text, p>>] = Put(text, p)
  <2> HIDE DEF T, Put
  <2> QED
    BY <1>2
<1>5. \A p \in 1..n : numbers[p] = p
  BY <1>1
<1> HIDE DEF numbers, step, Put, T
<1>6. \E k : k = [s \in SUBSET (1..n) |-> Body(k, s)]
  <2>1. PICK k \in [SUBSET (1..n) -> T] : Chain(k, n, <<>>, step)
    BY <1>1, <1>4, ChainExists
  <2>2. ASSUME NEW s \in SUBSET (1..n), s # {} PROVE step[<<k[s \ {Max(s)}], Max(s)>>] = Body(k, s)
    <3>1. Max(s) \in 1..n
      BY <1>1, <2>2, MaxOfSome
    <3>2. s \ {Max(s)} \in SUBSET (1..n)
      OBVIOUS
    <3> QED
      BY <1>4, <1>5, <2>1, <2>2, <3>1, <3>2
  <2>3. k = [s \in SUBSET (1..n) |-> Body(k, s)]
    <3>1. Body(k, {}) = <<>>
      OBVIOUS
    <3> HIDE DEF Body
    <3> QED
      BY <2>1, <2>2, <3>1 DEF Chain
  <2> QED
    BY <2>3
<1>7. g = [s \in SUBSET (1..n) |-> Body(g, s)]
  <2> HIDE DEF Body
  <2> QED
    BY <1>6
<1>8. ASSUME NEW s \in SUBSET (1..n)
      PROVE  /\ s = {} => g[s] = <<>>
             /\ s # {} /\ g[s \ {Max(s)}] \in T => g[s] = step[<<g[s \ {Max(s)}], Max(s)>>]
  <2> HIDE DEF g
  <2>1. g[s] = Body(g, s)
    BY <1>7
  <2>2. s # {} => Max(s) \in 1..n
    BY <1>1, MaxOfSome
  <2> QED
    BY <1>4, <1>5, <2>1, <2>2
<1> HIDE DEF g
<1>9. Folding(g, n, T, <<>>, step)
  BY <1>1, <1>4, <1>8 DEF Folding
<1>10. PICK f \in [0..n -> T] : Stepping(f, n, <<>>, step) /\ f[n] = g[1..n]
  <2> HIDE DEF n
  <2> QED
    BY <1>9, ChainSteps DEF Steps
<1>11. ASSUME NEW m \in 1..n PROVE f[m] = Put(f[m - 1], m)
  <2>1. m - 1 \in 0..n
    BY <1>1
  <2> QED
    BY <1>4, <1>10, <2>1 DEF Stepping
<1> QED
  BY <1>3, <1>10, <1>11 DEF T, Put, Stepping, Stringing

\* So pages strung together are a text.
LEMMA JoinedIsText ==
  ASSUME NEW pages \in Seq(Seq(Words)), NEW ps, NEW mark \in Seq(Words)
  PROVE  Joined(pages, ps, mark) \in Seq(Words)
<1>1. PICK f \in [0..Len(pages) -> Seq(Words)] : Stringing(f, pages, ps, mark)
  BY JoinedSteps
<1>2. Len(pages) \in 0..Len(pages)
  OBVIOUS
<1> QED
  BY <1>1, <1>2 DEF Stringing

\* What the course holds, and what is strung together from it, are texts.
LEMMA MaterialsAreTexts ==
  ASSUME ChecksAssumption, NEW d \in Docs
  PROVE  /\ \A p \in 1..Len(d.pages) : d.pages[p] \in Seq(Words)
         /\ \A ps : Strung(d, ps) \in Seq(Words)
         /\ Whole(d) \in Seq(Words)
         /\ Texts(d) \subseteq Seq(Words)
<1>1. d.pages \in Seq(Seq(Words)) /\ <<Aside>> \in Seq(Words) /\ <<>> \in Seq(Words)
  BY DEF ChecksAssumption
<1>2. \A p \in 1..Len(d.pages) : d.pages[p] \in Seq(Words)
  BY <1>1
<1>3. \A ps : Strung(d, ps) \in Seq(Words)
  BY <1>1, JoinedIsText DEF Strung
<1>4. Whole(d) \in Seq(Words)
  <2>1. (IF d.paged THEN <<Aside>> ELSE <<>>) \in Seq(Words)
    BY <1>1
  <2> QED
    BY <1>1, <2>1, JoinedIsText DEF Whole
<1>5. DOMAIN d.pages = 1..Len(d.pages)
  BY <1>1
<1> QED
  BY <1>2, <1>3, <1>4, <1>5 DEF Texts, Range

\* A document's pages with a quotation are those it can be laid out in.
LEMMA PagesArePlaced ==
  ASSUME ChecksAssumption, NEW d \in Docs, NEW frags \in Fragments
  PROVE  PagesOf(frags, d) = {p \in 1..Len(d.pages) : d.paged /\ Placed(frags, d.pages[p])}
<1>1. \A p \in 1..Len(d.pages) : In(frags, d.pages[p]) <=> Placed(frags, d.pages[p])
  BY MaterialsAreTexts, InIsPlaced
<1> QED
  BY <1>1 DEF PagesOf

\* What is found stands in the materials, and the other way round.
LEMMA MaterialsAreSearched ==
  ASSUME ChecksAssumption, NEW frags \in Fragments
  PROVE  InDocuments(frags) <=> \E text \in Materials : Placed(frags, text)
<1>1. ASSUME NEW d \in Docs
      PROVE  (PagesOf(frags, d) # {} \/ In(frags, Whole(d))) <=> \E text \in Texts(d) : Placed(frags, text)
  <2>1. DOMAIN d.pages = 1..Len(d.pages)
    BY DEF ChecksAssumption
  <2>2. In(frags, Whole(d)) <=> Placed(frags, Whole(d))
    BY MaterialsAreTexts, InIsPlaced
  <2>3. PagesOf(frags, d) # {} <=> d.paged /\ \E p \in 1..Len(d.pages) : Placed(frags, d.pages[p])
    BY PagesArePlaced
  <2>4. d.paged \in BOOLEAN
    BY DEF ChecksAssumption
  <2> QED
    BY <2>1, <2>2, <2>3, <2>4 DEF Texts, Range
<1> QED
  BY <1>1 DEF InDocuments, Materials

\* So add_problem and the reply's check take a quotation for found just when it
\* stands somewhere.
LEMMA FoundIsPlaced ==
  ASSUME ChecksAssumption, seen \subseteq Seq(Words), NEW frags \in Fragments
  PROVE  Find(frags) <=> frags # <<>> /\ \E text \in Materials \union seen : Placed(frags, text)
<1>1. \A text \in seen : In(frags, text) <=> Placed(frags, text)
  BY InIsPlaced
<1> QED
  BY <1>1, MaterialsAreSearched DEF Find

\* A fragment stands in a text word for word.
WordForWord(g, text) ==
  \A i : i \in Places(g, text, 1) <=>
           /\ i \in Nat /\ 1 <= i /\ i + Len(g) <= Len(text) + 1
           /\ \A k \in 1..Len(g) : text[i + k - 1] = g[k]

\* The places of a text are where it has the words of g.
LEMMA PlacesWordForWord ==
  ASSUME NEW text \in Seq(Words), NEW g \in Seq(Words)
  PROVE  WordForWord(g, text)
<1>1. Len(text) \in Nat /\ Len(g) \in Nat
  OBVIOUS
<1>2. ASSUME NEW i \in Nat, 1 <= i, i + Len(g) <= Len(text) + 1
      PROVE  SubSeq(text, i, i + Len(g) - 1) = g <=> \A k \in 1..Len(g) : text[i + k - 1] = g[k]
  <2> DEFINE s == SubSeq(text, i, i + Len(g) - 1)
  <2>1. s \in Seq(Words) /\ Len(s) = Len(g) /\ \A k \in 1..Len(g) : s[k] = text[i + k - 1]
    BY <1>1, <1>2
  <2> HIDE DEF s
  <2>2. (\A k \in 1..Len(g) : s[k] = g[k]) => s = g
    BY <2>1
  <2>3. s = g <=> \A k \in 1..Len(g) : text[i + k - 1] = g[k]
    BY <2>1, <2>2
  <2> QED
    BY <2>3 DEF s
<1>3. \A i : i \in Places(g, text, 1) <=>
               /\ i \in Nat /\ 1 <= i /\ i + Len(g) <= Len(text) + 1
               /\ SubSeq(text, i, i + Len(g) - 1) = g
  BY <1>1 DEF Places
<1> QED
  BY <1>2, <1>3 DEF WordForWord

\* A word of the server's own parts a text in two.
LEMMA PlacesApart ==
  ASSUME NEW s \in Seq(Words), NEW t \in Seq(Words), NEW g \in Seq(Words) \ {<<>>}, Aside \in Words
  PROVE  LET text == s \o <<Aside>> \o t IN
         /\ \A i \in Places(g, s, 1) : i \in Places(g, text, 1)
         /\ \A i \in Places(g, t, 1) : i + Len(s) + 1 \in Places(g, text, 1)
         /\ Aside \notin Range(g) =>
              \A i \in Places(g, text, 1) :
                i \in Places(g, s, 1) \/ i - Len(s) - 1 \in Places(g, t, 1)
<1> DEFINE text == s \o <<Aside>> \o t
<1>1. /\ text \in Seq(Words) /\ Len(s) \in Nat /\ Len(t) \in Nat /\ Len(text) = Len(s) + 1 + Len(t)
      /\ \A k \in 1..Len(s) : text[k] = s[k]
      /\ text[Len(s) + 1] = Aside
      /\ \A k \in 1..Len(t) : text[Len(s) + 1 + k] = t[k]
  OBVIOUS
<1>2. Len(g) \in Nat /\ Len(g) # 0
  <2>1. Len(g) = 0 => g = <<>>
    BY EmptySeq
  <2> QED
    BY <2>1
<1> HIDE DEF text
<1>3. WordForWord(g, s) /\ WordForWord(g, t) /\ WordForWord(g, text)
  BY <1>1, PlacesWordForWord
<1>4. ASSUME NEW i \in Places(g, s, 1) PROVE i \in Places(g, text, 1)
  <2>1. i \in Nat /\ 1 <= i /\ i + Len(g) <= Len(s) + 1 /\ \A k \in 1..Len(g) : s[i + k - 1] = g[k]
    BY <1>3 DEF WordForWord
  <2>2. ASSUME NEW k \in 1..Len(g) PROVE text[i + k - 1] = g[k]
    <3>1. i + k - 1 \in 1..Len(s)
      BY <1>1, <1>2, <2>1
    <3> QED
      BY <1>1, <2>1, <3>1
  <2>3. i + Len(g) <= Len(text) + 1
    BY <1>1, <1>2, <2>1
  <2> QED
    BY <1>3, <2>1, <2>2, <2>3 DEF WordForWord
<1>5. ASSUME NEW i \in Places(g, t, 1) PROVE i + Len(s) + 1 \in Places(g, text, 1)
  <2>1. i \in Nat /\ 1 <= i /\ i + Len(g) <= Len(t) + 1 /\ \A k \in 1..Len(g) : t[i + k - 1] = g[k]
    BY <1>3 DEF WordForWord
  <2> DEFINE j == i + Len(s) + 1
  <2>2. ASSUME NEW k \in 1..Len(g) PROVE text[j + k - 1] = g[k]
    <3>1. i + k - 1 \in 1..Len(t) /\ Len(s) + 1 + (i + k - 1) = j + k - 1
      BY <1>1, <1>2, <2>1
    <3> HIDE DEF j
    <3>2. text[Len(s) + 1 + (i + k - 1)] = t[i + k - 1]
      BY <1>1, <3>1
    <3> QED
      BY <2>1, <3>1, <3>2
  <2>3. j \in Nat /\ 1 <= j /\ j + Len(g) <= Len(text) + 1
    BY <1>1, <1>2, <2>1
  <2> HIDE DEF j
  <2>4. j \in Places(g, text, 1)
    BY <1>3, <2>2, <2>3 DEF WordForWord
  <2> QED
    BY <2>4 DEF j
<1>6. ASSUME Aside \notin Range(g), NEW i \in Places(g, text, 1)
      PROVE  i \in Places(g, s, 1) \/ i - Len(s) - 1 \in Places(g, t, 1)
  <2>1. i \in Nat /\ 1 <= i /\ i + Len(g) <= Len(text) + 1 /\ \A k \in 1..Len(g) : text[i + k - 1] = g[k]
    BY <1>3 DEF WordForWord
  <2>2. \A k \in 1..Len(g) : g[k] # Aside
    BY <1>6 DEF Range
  <2>3. CASE i + Len(g) <= Len(s) + 1
    <3>1. ASSUME NEW k \in 1..Len(g) PROVE s[i + k - 1] = g[k]
      <4>1. i + k - 1 \in 1..Len(s)
        BY <1>1, <1>2, <2>1, <2>3
      <4> QED
        BY <1>1, <2>1, <4>1
    <3> QED
      BY <1>3, <2>1, <2>3, <3>1 DEF WordForWord
  <2>4. CASE i > Len(s) + 1
    <3> DEFINE j == i - Len(s) - 1
    <3>1. j \in Nat /\ 1 <= j /\ j + Len(g) <= Len(t) + 1
      BY <1>1, <1>2, <2>1, <2>4
    <3>2. ASSUME NEW k \in 1..Len(g) PROVE t[j + k - 1] = g[k]
      <4>1. j + k - 1 \in 1..Len(t) /\ Len(s) + 1 + (j + k - 1) = i + k - 1
        BY <1>1, <1>2, <2>1, <3>1
      <4> HIDE DEF j
      <4>2. text[Len(s) + 1 + (j + k - 1)] = t[j + k - 1]
        BY <1>1, <4>1
      <4> QED
        BY <2>1, <4>1, <4>2
    <3> HIDE DEF j
    <3>3. j \in Places(g, t, 1)
      BY <1>3, <3>1, <3>2 DEF WordForWord
    <3> QED
      BY <3>3 DEF j
  <2>5. CASE i <= Len(s) + 1 /\ i + Len(g) > Len(s) + 1
    <3> DEFINE k == Len(s) + 2 - i
    <3>1. k \in 1..Len(g) /\ i + k - 1 = Len(s) + 1
      BY <1>1, <1>2, <2>1, <2>5
    <3> HIDE DEF k
    <3>2. text[Len(s) + 1] = g[k]
      BY <2>1, <3>1
    <3> QED
      BY <1>1, <2>2, <3>1, <3>2
  <2> QED
    BY <1>1, <1>2, <2>1, <2>3, <2>4, <2>5
<1> QED
  BY <1>4, <1>5, <1>6 DEF text

\* Where the pages start that f strings together, each behind a mark.
Starts(f, m) == Len(f[m - 1]) + 1

\* A fragment stands in a marked text just where it stands on a page.
OnPages(g, pages, f, n) ==
  /\ \A p \in 1..n : \A i \in Places(g, pages[p], 1) : i + Starts(f, p) \in Places(g, f[n], 1)
  /\ Aside \notin Range(g) =>
       \A i \in Places(g, f[n], 1) : \E p \in 1..n : i - Starts(f, p) \in Places(g, pages[p], 1)

\* Pages strung together are such a text: a fragment without marks is on one page.
LEMMA PlacesOnPages ==
  ASSUME NEW pages \in Seq(Seq(Words)), Aside \in Words, NEW g \in Seq(Words) \ {<<>>},
         NEW f \in [0..Len(pages) -> Seq(Words)], NEW n, n = Len(pages),
         Stringing(f, pages, 1..n, <<Aside>>)
  PROVE  OnPages(g, pages, f, n)
<1> DEFINE There(m) == \A p \in 1..m : \A i \in Places(g, pages[p], 1) : i + Starts(f, p) \in Places(g, f[m], 1)
           Back(m) == Aside \notin Range(g) =>
              \A i \in Places(g, f[m], 1) : \E p \in 1..m : i - Starts(f, p) \in Places(g, pages[p], 1)
           Fine == {m \in Nat : m <= n => There(m) /\ Back(m)}
<1>1. /\ n \in Nat /\ f \in [0..n -> Seq(Words)] /\ f[0] = <<>>
      /\ \A m \in 1..n : pages[m] \in Seq(Words) /\ f[m] = f[m - 1] \o <<Aside>> \o pages[m]
  <2>1. n \in Nat /\ \A m \in 1..n : pages[m] \in Seq(Words)
    OBVIOUS
  <2>2. \A m \in 1..n : f[m] = f[m - 1] \o <<Aside>> \o pages[m]
    BY Zenon DEF Stringing
  <2> QED
    BY <2>1, <2>2 DEF Stringing
<1>2. 0 \in Fine
  <2>1. Places(g, <<>>, 1) = {}
    <3>1. Len(g) \in Nat /\ (Len(g) = 0 => g = <<>>) /\ Len(<<>>) = 0
      BY EmptySeq
    <3> QED
      BY <3>1 DEF Places
  <2> QED
    BY <1>1, <2>1
<1>3. ASSUME NEW k \in Nat, k \in Fine PROVE k + 1 \in Fine
  <2> DEFINE m == k + 1
  <2> SUFFICES ASSUME m <= n PROVE There(m) /\ Back(m)
    OBVIOUS
  <2>1. m \in 1..n /\ m - 1 = k /\ k \in 0..n /\ There(k) /\ Back(k)
    BY <1>1, <1>3
  <2> HIDE DEF Fine, There, Back, m
  <2>2. f[m] = f[k] \o <<Aside>> \o pages[m] /\ f[k] \in Seq(Words) /\ pages[m] \in Seq(Words)
    BY <1>1, <2>1
  <2>3. Starts(f, m) = Len(f[k]) + 1 /\ Len(f[k]) \in Nat
    BY <2>1, <2>2 DEF Starts
  <2>4. /\ \A i \in Places(g, f[k], 1) : i \in Places(g, f[m], 1)
        /\ \A i \in Places(g, pages[m], 1) : i + Len(f[k]) + 1 \in Places(g, f[m], 1)
        /\ Aside \notin Range(g) =>
             \A i \in Places(g, f[m], 1) :
               i \in Places(g, f[k], 1) \/ i - Len(f[k]) - 1 \in Places(g, pages[m], 1)
    BY <2>2, PlacesApart
  <2>5. f[m] \in Seq(Words) /\ g \in Seq(Words)
    <3>1. m \in 0..n
      BY <1>1, <2>1
    <3> QED
      BY <1>1, <3>1, Zenon
  <2>6. \A i : i \in Places(g, f[m], 1) \/ i \in Places(g, pages[m], 1) => i \in Nat
    BY <2>2, <2>5, PlacesWordForWord DEF WordForWord
  <2>7. There(m)
    <3> SUFFICES ASSUME NEW p \in 1..m, NEW i \in Places(g, pages[p], 1)
                 PROVE  i + Starts(f, p) \in Places(g, f[m], 1)
      BY DEF There
    <3>1. CASE p = m
      <4>1. i \in Nat /\ i \in Places(g, pages[m], 1)
        BY <2>6, <3>1
      <4>2. i + Starts(f, p) = i + Len(f[k]) + 1
        BY <2>3, <3>1, <4>1
      <4> QED
        BY <2>4, <4>1, <4>2
    <3>2. CASE p # m
      <4>1. p \in 1..k
        BY <2>1, <3>2
      <4> QED
        BY <2>1, <2>4, <4>1 DEF There
    <3> QED
      BY <3>1, <3>2
  <2>8. Back(m)
    <3> SUFFICES ASSUME Aside \notin Range(g), NEW i \in Places(g, f[m], 1)
                 PROVE  \E p \in 1..m : i - Starts(f, p) \in Places(g, pages[p], 1)
      BY DEF Back
    <3>1. CASE i \in Places(g, f[k], 1)
      <4>1. PICK p \in 1..k : i - Starts(f, p) \in Places(g, pages[p], 1)
        BY <2>1, <3>1 DEF Back
      <4>2. p \in 1..m
        BY <2>1, <4>1
      <4> QED
        BY <4>1, <4>2
    <3>2. CASE i - Len(f[k]) - 1 \in Places(g, pages[m], 1)
      <4>1. i - Starts(f, m) = i - Len(f[k]) - 1 /\ m \in 1..m
        BY <2>1, <2>3, <2>6
      <4> QED
        BY <3>2, <4>1
    <3> QED
      BY <2>4, <3>1, <3>2
  <2> QED
    BY <2>7, <2>8
<1>4. Nat \subseteq Fine
  <2> HIDE DEF Fine
  <2> QED
    BY <1>2, <1>3, ByNumber
<1>5. There(n) /\ Back(n)
  <2> HIDE DEF There, Back
  <2> QED
    BY <1>1, <1>4
<1> QED
  BY <1>5 DEF OnPages

\* The pages start one behind the other.
LEMMA StartsFollow ==
  ASSUME NEW pages \in Seq(Seq(Words)), Aside \in Words,
         NEW f \in [0..Len(pages) -> Seq(Words)], NEW n, n = Len(pages),
         Stringing(f, pages, 1..n, <<Aside>>)
  PROVE  /\ \A p \in 1..n : Starts(f, p) \in Nat
         /\ \A p, q \in 1..n : p < q => Starts(f, p) + Len(pages[p]) < Starts(f, q)
<1>1. /\ n \in Nat /\ f \in [0..n -> Seq(Words)]
      /\ \A m \in 1..n : pages[m] \in Seq(Words) /\ f[m] = f[m - 1] \o <<Aside>> \o pages[m]
  <2>1. n \in Nat /\ \A m \in 1..n : pages[m] \in Seq(Words)
    OBVIOUS
  <2>2. \A m \in 1..n : f[m] = f[m - 1] \o <<Aside>> \o pages[m]
    BY Zenon DEF Stringing
  <2> QED
    BY <2>1, <2>2
<1>2. ASSUME NEW p \in 1..n
      PROVE  /\ Starts(f, p) \in Nat /\ Len(pages[p]) \in Nat /\ p - 1 \in 0..n
             /\ Len(f[p]) = Starts(f, p) + Len(pages[p]) /\ Len(f[p]) \in Nat
  <2>1. p - 1 \in 0..n
    BY <1>1
  <2>2. f[p - 1] \in Seq(Words) /\ pages[p] \in Seq(Words)
    BY <1>1, <2>1, Zenon
  <2>3. f[p] = f[p - 1] \o <<Aside>> \o pages[p]
    BY <1>1
  <2>4. Len(f[p]) = Len(f[p - 1]) + 1 + Len(pages[p])
    BY <2>2, <2>3
  <2>5. Len(f[p - 1]) \in Nat /\ Len(pages[p]) \in Nat
    BY <2>2
  <2>6. PICK a \in Nat, l \in Nat : a = Len(f[p - 1]) /\ l = Len(pages[p])
    BY <2>5
  <2>7. Starts(f, p) = a + 1 /\ Len(f[p]) = (a + 1) + l
    BY <2>4, <2>6 DEF Starts
  <2>8. a + 1 \in Nat /\ (a + 1) + l \in Nat
    OBVIOUS
  <2> QED
    BY <2>1, <2>6, <2>7, <2>8
<1>3. ASSUME NEW p \in 1..n PROVE \A q \in 1..n : p < q => Starts(f, p) + Len(pages[p]) < Starts(f, q)
  <2> DEFINE end == Starts(f, p) + Len(pages[p])
             Fine == {k \in Nat : \A q \in 1..n : q = p + k + 1 => end < Starts(f, q)}
  <2>1. ASSUME NEW q \in 1..n, NEW h \in 1..n, q = h + 1 PROVE Starts(f, q) = Len(f[h]) + 1
    <3>1. q - 1 = h
      BY <2>1
    <3> QED
      BY <3>1 DEF Starts
  <2>2. 0 \in Fine
    <3> SUFFICES ASSUME NEW q \in 1..n, q = p + 1 PROVE end < Starts(f, q)
      OBVIOUS
    <3>1. Starts(f, q) = Len(f[p]) + 1
      BY <2>1
    <3> QED
      BY <1>2, <3>1
  <2>3. ASSUME NEW k \in Nat, k \in Fine PROVE k + 1 \in Fine
    <3> SUFFICES ASSUME NEW q \in 1..n, q = p + (k + 1) + 1 PROVE end < Starts(f, q)
      OBVIOUS
    <3>1. PICK h \in 1..n : h = p + k + 1 /\ q = h + 1
      BY <1>1
    <3>2. end < Starts(f, h)
      BY <2>3, <3>1
    <3>3. Starts(f, q) = Len(f[h]) + 1
      BY <2>1, <3>1
    <3>4. Len(f[h]) = Starts(f, h) + Len(pages[h]) /\ Starts(f, h) \in Nat /\ Len(pages[h]) \in Nat
      BY <1>2
    <3>5. end \in Nat
      BY <1>2
    <3> HIDE DEF end
    <3>6. PICK e \in Nat, s \in Nat, l \in Nat : e = end /\ s = Starts(f, h) /\ l = Len(pages[h])
      BY <3>4, <3>5
    <3>7. e < s /\ Starts(f, q) = (s + l) + 1
      BY <3>2, <3>3, <3>4, <3>6
    <3>8. e < (s + l) + 1
      BY <3>7
    <3> QED
      BY <3>6, <3>7, <3>8
  <2>4. Nat \subseteq Fine
    <3> HIDE DEF Fine
    <3> QED
      BY <2>2, <2>3, ByNumber
  <2> SUFFICES ASSUME NEW q \in 1..n, p < q PROVE end < Starts(f, q)
    OBVIOUS
  <2>5. PICK k \in Nat : q = p + k + 1
    <3>1. q - p - 1 \in Nat /\ q = p + (q - p - 1) + 1
      OBVIOUS
    <3> QED
      BY <3>1
  <2>6. k \in Fine
    BY <2>4
  <2> QED
    BY <2>5, <2>6
<1> QED
  BY <1>2, <1>3

\* So a quotation of no word of the server's own can be laid out in a paged
\* document just when it can be laid out on its pages, each fragment on one.
LEMMA PlacedIsLaid ==
  ASSUME ChecksAssumption, NEW d \in Docs, d.paged, NEW frags \in Fragments,
         \A i \in 1..Len(frags) : Aside \notin Range(frags[i])
  PROVE  Placed(frags, Whole(d)) <=> Laid(frags, d.pages)
<1> DEFINE pages == d.pages
           n == Len(pages)
           c == Len(frags)
           text == Whole(d)
<1>1. pages \in Seq(Seq(Words)) /\ Aside \in Words /\ <<Aside>> \in Seq(Words)
  BY DEF ChecksAssumption
<1>2. c \in Nat /\ \A i \in 1..c : frags[i] \in Seq(Words) \ {<<>>} /\ Len(frags[i]) \in Nat
  BY DEF Fragments
<1>3. PICK f \in [0..n -> Seq(Words)] : Stringing(f, pages, 1..n, <<Aside>>) /\ text = f[n]
  <2>1. \E f \in [0..n -> Seq(Words)] : Stringing(f, pages, 1..n, <<Aside>>)
    BY <1>1, JoinedSteps
  <2>2. text = Joined(pages, 1..n, <<Aside>>)
    BY DEF Whole
  <2> QED
    BY <2>1, <2>2 DEF Stringing
<1>4. /\ n \in Nat /\ text \in Seq(Words) /\ Len(text) \in Nat
      /\ \A p \in 1..n : pages[p] \in Seq(Words) /\ Len(pages[p]) \in Nat
  <2>1. n \in Nat /\ \A p \in 1..n : pages[p] \in Seq(Words) /\ Len(pages[p]) \in Nat
    BY <1>1
  <2>2. text \in Seq(Words)
    BY MaterialsAreTexts
  <2> QED
    BY <2>1, <2>2
<1> DEFINE O(p) == Starts(f, p)
           P(i, p) == Places(frags[i], pages[p], 1)
           W(i) == Places(frags[i], text, 1)
<1> HIDE DEF pages, n, c, text
<1>5. /\ \A p \in 1..n : O(p) \in Nat
      /\ \A p, q \in 1..n : p < q => O(p) + Len(pages[p]) < O(q)
  <2> HIDE DEF O
  <2>1. Len(pages) = n
    BY DEF n
  <2> QED
    BY <1>1, <1>3, <2>1, StartsFollow DEF O
<1>6. ASSUME NEW i \in 1..c
      PROVE  /\ \A p \in 1..n : \A x \in P(i, p) : x + O(p) \in W(i)
             /\ \A x \in W(i) : \E p \in 1..n : x - O(p) \in P(i, p)
  <2>1. Len(pages) = n /\ Aside \notin Range(frags[i]) /\ frags[i] \in Seq(Words) \ {<<>>}
    BY <1>2 DEF n, c
  <2> DEFINE g == frags[i]
  <2> HIDE DEF g
  <2>2. /\ g \in Seq(Words) \ {<<>>} /\ Aside \notin Range(g)
        /\ f \in [0..Len(pages) -> Seq(Words)] /\ n = Len(pages)
        /\ Stringing(f, pages, 1..n, <<Aside>>)
    BY <1>3, <2>1 DEF g
  <2>3. OnPages(g, pages, f, n)
    BY <1>1, <2>2, PlacesOnPages
  <2> QED
    BY <1>3, <2>2, <2>3 DEF O, P, W, g, OnPages
<1>7. ASSUME NEW i \in 1..c
      PROVE  /\ \A p \in 1..n : \A x \in P(i, p) :
                    x \in Nat /\ 1 <= x /\ x + Len(frags[i]) <= Len(pages[p]) + 1
             /\ \A x \in W(i) : x \in 1..Len(text)
  <2>1. frags[i] \in Seq(Words) /\ Len(frags[i]) \in Nat /\ Len(frags[i]) # 0
    <3>1. Len(frags[i]) = 0 => frags[i] = <<>>
      BY <1>2, EmptySeq
    <3> QED
      BY <1>2, <3>1
  <2>2. ASSUME NEW p \in 1..n, NEW x \in P(i, p)
        PROVE  x \in Nat /\ 1 <= x /\ x + Len(frags[i]) <= Len(pages[p]) + 1
    BY <1>4, <2>1, PlacesWordForWord DEF WordForWord
  <2>3. ASSUME NEW x \in W(i) PROVE x \in 1..Len(text)
    <3>1. x \in Nat /\ 1 <= x /\ x + Len(frags[i]) <= Len(text) + 1
      BY <1>4, <2>1, PlacesWordForWord DEF WordForWord
    <3> QED
      BY <1>4, <2>1, <3>1
  <2> QED
    BY <2>2, <2>3
<1> HIDE DEF O, P, W
<1>8. ASSUME Placed(frags, text) PROVE Laid(frags, pages)
  <2>1. PICK at \in [1..c -> 1..Len(text)] :
             /\ \A i \in 1..c : at[i] \in W(i)
             /\ \A i \in 2..c : at[i] >= at[i - 1] + Len(frags[i - 1])
    BY <1>8 DEF Placed, W, c
  <2> DEFINE on(i) == CHOOSE p \in 1..n : at[i] - O(p) \in P(i, p)
             spot == [i \in 1..c |-> <<on(i), at[i] - O(on(i))>>]
  <2>2. ASSUME NEW i \in 1..c
        PROVE  /\ on(i) \in 1..n /\ at[i] - O(on(i)) \in P(i, on(i))
               /\ at[i] \in Nat /\ O(on(i)) \in Nat /\ Len(pages[on(i)]) \in Nat
               /\ at[i] - O(on(i)) >= 1
               /\ at[i] - O(on(i)) + Len(frags[i]) <= Len(pages[on(i)]) + 1
    <3>1. \E p \in 1..n : at[i] - O(p) \in P(i, p)
      BY <1>6, <2>1
    <3>2. on(i) \in 1..n /\ at[i] - O(on(i)) \in P(i, on(i))
      BY <3>1
    <3>3. at[i] \in Nat
      <4>1. at[i] \in 1..Len(text)
        BY <2>1, Zenon
      <4> QED
        BY <1>4, <4>1
    <3> HIDE DEF on
    <3> QED
      BY <1>4, <1>5, <1>7, <3>2, <3>3
  <2> HIDE DEF on
  <2>3. \A i \in 1..c : spot[i][1] = on(i) /\ spot[i][2] = at[i] - O(on(i)) /\ spot[i] = <<on(i), at[i] - O(on(i))>>
    OBVIOUS
  <2>4. \A i \in 1..c : spot[i] \in Spots(frags[i], pages)
    BY <2>2, <2>3 DEF Spots, P, n
  <2>5. spot \in [1..c -> UNION {Spots(frags[i], pages) : i \in 1..c}]
    <3>1. \A i \in 1..c : spot[i] \in UNION {Spots(frags[j], pages) : j \in 1..c}
      BY <2>4
    <3>2. spot = [i \in 1..c |-> spot[i]]
      OBVIOUS
    <3> HIDE DEF spot
    <3> QED
      BY <3>1, <3>2
  <2> HIDE DEF spot
  <2>6. ASSUME NEW i \in 2..c
        PROVE  \/ spot[i - 1][1] < spot[i][1]
               \/ /\ spot[i - 1][1] = spot[i][1]
                  /\ spot[i][2] >= spot[i - 1][2] + Len(frags[i - 1])
    <3> DEFINE h == i - 1
    <3>1. i \in 1..c /\ h \in 1..c
      BY <1>2
    <3>2. at[i] >= at[h] + Len(frags[h])
      BY <2>1
    <3> HIDE DEF h
    <3>3. /\ on(i) \in 1..n /\ at[i] \in Nat /\ O(on(i)) \in Nat /\ Len(pages[on(i)]) \in Nat
          /\ at[i] - O(on(i)) >= 1 /\ Len(frags[i]) \in Nat
          /\ at[i] - O(on(i)) + Len(frags[i]) <= Len(pages[on(i)]) + 1
      BY <1>2, <2>2, <3>1
    <3>4. /\ on(h) \in 1..n /\ at[h] \in Nat /\ O(on(h)) \in Nat /\ Len(pages[on(h)]) \in Nat
          /\ at[h] - O(on(h)) >= 1 /\ Len(frags[h]) \in Nat
          /\ at[h] - O(on(h)) + Len(frags[h]) <= Len(pages[on(h)]) + 1
      BY <1>2, <2>2, <3>1
    <3>5. ~(on(i) < on(h))
      <4> SUFFICES ASSUME on(i) < on(h) PROVE FALSE
        OBVIOUS
      <4>1. O(on(i)) + Len(pages[on(i)]) < O(on(h))
        BY <1>5, <3>3, <3>4
      <4>2. Len(frags[i]) # 0
        <5>1. Len(frags[i]) = 0 => frags[i] = <<>>
          BY <1>2, <3>1, EmptySeq
        <5> QED
          BY <1>2, <3>1, <5>1
      <4>3. PICK a \in Nat, b \in Nat, oa \in Nat, ob \in Nat, l \in Nat, la \in Nat, lb \in Nat :
               /\ a = at[i] /\ b = at[h] /\ oa = O(on(i)) /\ ob = O(on(h))
               /\ l = Len(pages[on(i)]) /\ la = Len(frags[i]) /\ lb = Len(frags[h])
        BY <3>3, <3>4
      <4>4. a - oa + la <= l + 1 /\ b - ob >= 1 /\ oa + l < ob /\ la # 0 /\ a >= b + lb
        BY <3>2, <3>3, <3>4, <4>1, <4>2, <4>3
      <4> QED
        BY <4>4
    <3>6. CASE on(h) = on(i)
      <4>1. PICK a \in Nat, b \in Nat, o \in Nat, l \in Nat :
               a = at[i] /\ b = at[h] /\ o = O(on(i)) /\ o = O(on(h)) /\ l = Len(frags[h])
        BY <3>3, <3>4, <3>6
      <4>2. a >= b + l
        BY <3>2, <4>1
      <4>3. a - o >= (b - o) + l
        BY <4>2
      <4>4. at[i] - O(on(i)) >= at[h] - O(on(h)) + Len(frags[h])
        BY <4>1, <4>3
      <4> QED
        BY <2>3, <3>1, <3>6, <4>4 DEF h
    <3>7. CASE on(h) < on(i)
      BY <2>3, <3>1, <3>7 DEF h
    <3> QED
      BY <3>3, <3>4, <3>5, <3>6, <3>7
  <2> QED
    BY <2>4, <2>5, <2>6 DEF Laid, c
<1>9. ASSUME Laid(frags, pages) PROVE Placed(frags, text)
  <2>1. PICK spot \in [1..c -> UNION {Spots(frags[i], pages) : i \in 1..c}] :
          /\ \A i \in 1..c : spot[i] \in Spots(frags[i], pages)
          /\ \A i \in 2..c :
                \/ spot[i - 1][1] < spot[i][1]
                \/ /\ spot[i - 1][1] = spot[i][1]
                   /\ spot[i][2] >= spot[i - 1][2] + Len(frags[i - 1])
    BY <1>9 DEF Laid, c
  <2> DEFINE on(i) == spot[i][1]
             x(i) == spot[i][2]
             at == [i \in 1..c |-> x(i) + O(on(i))]
  <2>2. ASSUME NEW i \in 1..c
        PROVE  /\ on(i) \in 1..n /\ x(i) \in P(i, on(i))
               /\ x(i) \in Nat /\ O(on(i)) \in Nat /\ Len(pages[on(i)]) \in Nat
               /\ x(i) >= 1 /\ x(i) + Len(frags[i]) <= Len(pages[on(i)]) + 1
    <3>1. PICK p \in 1..n : \E y \in P(i, p) : spot[i] = <<p, y>>
      <4> DEFINE s == spot[i]
      <4>1. s \in Spots(frags[i], pages)
        BY <2>1
      <4> HIDE DEF s
      <4>2. \E p \in 1..n : \E y \in P(i, p) : s = <<p, y>>
        BY <4>1 DEF Spots, P, n
      <4> QED
        BY <4>2 DEF s
    <3>2. on(i) = p /\ x(i) \in P(i, p)
      BY <3>1
    <3> HIDE DEF on, x
    <3> QED
      BY <1>4, <1>5, <1>7, <3>1, <3>2
  <2>3. ASSUME NEW i \in 2..c PROVE on(i - 1) < on(i) \/ (on(i - 1) = on(i) /\ x(i) >= x(i - 1) + Len(frags[i - 1]))
    BY <2>1
  <2> HIDE DEF on, x
  <2>4. \A i \in 1..c : at[i] = x(i) + O(on(i)) /\ at[i] \in W(i) /\ at[i] \in 1..Len(text)
    <3>1. ASSUME NEW i \in 1..c PROVE x(i) + O(on(i)) \in W(i)
      BY <1>6, <2>2
    <3> QED
      BY <1>7, <3>1
  <2>5. at \in [1..c -> 1..Len(text)]
    <3>1. \A i \in 1..c : x(i) + O(on(i)) \in 1..Len(text)
      BY <2>4
    <3> QED
      BY <3>1
  <2> HIDE DEF at
  <2>6. ASSUME NEW i \in 2..c PROVE at[i] >= at[i - 1] + Len(frags[i - 1])
    <3> DEFINE h == i - 1
    <3>1. i \in 1..c /\ h \in 1..c
      BY <1>2
    <3>2. on(h) < on(i) \/ (on(h) = on(i) /\ x(i) >= x(h) + Len(frags[h]))
      BY <2>3
    <3> HIDE DEF h
    <3>3. /\ on(i) \in 1..n /\ x(i) \in Nat /\ O(on(i)) \in Nat /\ x(i) >= 1
          /\ at[i] = x(i) + O(on(i))
      BY <2>2, <2>4, <3>1
    <3>4. /\ on(h) \in 1..n /\ x(h) \in Nat /\ O(on(h)) \in Nat /\ Len(pages[on(h)]) \in Nat
          /\ x(h) + Len(frags[h]) <= Len(pages[on(h)]) + 1 /\ Len(frags[h]) \in Nat
          /\ at[h] = x(h) + O(on(h))
      BY <1>2, <2>2, <2>4, <3>1
    <3>5. CASE on(h) < on(i)
      <4>1. O(on(h)) + Len(pages[on(h)]) < O(on(i))
        BY <1>5, <3>3, <3>4, <3>5
      <4>2. PICK a \in Nat, b \in Nat, oa \in Nat, ob \in Nat, l \in Nat, lb \in Nat :
               /\ a = x(i) /\ b = x(h) /\ oa = O(on(i)) /\ ob = O(on(h))
               /\ l = Len(pages[on(h)]) /\ lb = Len(frags[h])
        BY <3>3, <3>4
      <4>3. b + lb <= l + 1 /\ ob + l < oa /\ a >= 1
        BY <3>3, <3>4, <4>1, <4>2
      <4>4. a + oa >= (b + ob) + lb
        BY <4>3
      <4> QED
        BY <3>3, <3>4, <4>2, <4>4 DEF h
    <3>6. CASE on(h) = on(i) /\ x(i) >= x(h) + Len(frags[h])
      <4>1. PICK a \in Nat, b \in Nat, o \in Nat, l \in Nat :
               a = x(i) /\ b = x(h) /\ o = O(on(i)) /\ o = O(on(h)) /\ l = Len(frags[h])
        BY <3>3, <3>4, <3>6
      <4>2. a >= b + l
        BY <3>6, <4>1
      <4>3. a + o >= (b + o) + l
        BY <4>2
      <4>4. at[i] >= at[h] + Len(frags[h])
        BY <3>3, <3>4, <4>1, <4>3
      <4> QED
        BY <4>4 DEF h
    <3> QED
      BY <3>2, <3>5, <3>6
  <2>7. \A i \in 1..c : at[i] \in W(i)
    BY <2>4
  <2> QED
    BY <2>5, <2>6, <2>7 DEF Placed, W, c
<1> QED
  BY <1>8, <1>9 DEF text, pages

-----------------------------------------------------------------------------
(* Sources *)

\* What a text says, but for the server's own words, is in one of the texts.
Sourced(text, texts) ==
  \A g \in Seq(Words) \ {<<>>} :
    Aside \notin Range(g) /\ Places(g, text, 1) # {} => \E s \in texts : Places(g, s, 1) # {}

\* One of them says no more than they do, ...
LEMMA OneIsSourced ==
  ASSUME NEW texts, NEW text \in texts
  PROVE  Sourced(text, texts)
BY DEF Sourced

\* ... nothing says nothing, ...
LEMMA NothingIsSourced ==
  ASSUME NEW texts
  PROVE  Sourced(<<>>, texts)
<1>1. ASSUME NEW g \in Seq(Words) \ {<<>>} PROVE Places(g, <<>>, 1) = {}
  <2>1. Len(g) \in Nat /\ (Len(g) = 0 => g = <<>>) /\ Len(<<>>) = 0
    BY EmptySeq
  <2>2. Len(g) # 0
    BY <2>1
  <2>3. 1..(Len(<<>>) - Len(g) + 1) = {}
    BY <2>1, <2>2
  <2> QED
    BY <2>3, Zenon DEF Places
<1> QED
  BY <1>1 DEF Sourced

\* ... two texts with a word of the server's own between them say what the two
\* say, ...
LEMMA ApartIsSourced ==
  ASSUME Aside \in Words, NEW texts, NEW s \in Seq(Words), NEW t \in Seq(Words),
         Sourced(s, texts), Sourced(t, texts)
  PROVE  Sourced(s \o <<Aside>> \o t, texts)
<1> DEFINE text == s \o <<Aside>> \o t
<1>1. ASSUME NEW g \in Seq(Words) \ {<<>>}, Aside \notin Range(g), Places(g, text, 1) # {}
      PROVE  Places(g, s, 1) # {} \/ Places(g, t, 1) # {}
  <2>1. \A i \in Places(g, text, 1) : i \in Places(g, s, 1) \/ i - Len(s) - 1 \in Places(g, t, 1)
    BY <1>1, PlacesApart
  <2> HIDE DEF text
  <2> QED
    BY <1>1, <2>1
<1> HIDE DEF text
<1>2. Sourced(text, texts)
  BY <1>1 DEF Sourced
<1> QED
  BY <1>2 DEF text

\* ... and so does a text behind such a word, or before one.
LEMMA BesideIsSourced ==
  ASSUME Aside \in Words, NEW texts, NEW t \in Seq(Words), Sourced(t, texts)
  PROVE  /\ <<Aside>> \o t \in Seq(Words) /\ Sourced(<<Aside>> \o t, texts)
         /\ t \o <<Aside>> \in Seq(Words) /\ Sourced(t \o <<Aside>>, texts)
<1>1. <<>> \in Seq(Words) /\ <<Aside>> \in Seq(Words)
  OBVIOUS
<1>2. <<>> \o <<Aside>> \o t = <<Aside>> \o t /\ t \o <<Aside>> \o <<>> = t \o <<Aside>>
  <2>1. <<>> \o <<Aside>> = <<Aside>>
    BY <1>1
  <2>2. t \o <<Aside>> \in Seq(Words)
    BY <1>1
  <2>3. (t \o <<Aside>>) \o <<>> = t \o <<Aside>>
    BY <2>2
  <2> QED
    BY <2>1, <2>3
<1>3. Sourced(<<>> \o <<Aside>> \o t, texts) /\ Sourced(t \o <<Aside>> \o <<>>, texts)
  BY <1>1, NothingIsSourced, ApartIsSourced
<1>4. <<Aside>> \o t \in Seq(Words) /\ t \o <<Aside>> \in Seq(Words)
  BY <1>1
<1> QED
  BY <1>2, <1>3, <1>4

\* More texts say no less.
LEMMA SourcedGrows ==
  ASSUME NEW texts, NEW more, texts \subseteq more, NEW text, Sourced(text, texts)
  PROVE  Sourced(text, more)
BY DEF Sourced

\* Pages strung together say what they say.
LEMMA StrungIsSourced ==
  ASSUME Aside \in Words, NEW pages \in Seq(Seq(Words)), NEW ps, NEW texts,
         Range(pages) \subseteq texts
  PROVE  Sourced(Joined(pages, ps, <<Aside>>), texts)
<1> DEFINE n == Len(pages)
<1>1. <<Aside>> \in Seq(Words) /\ n \in Nat
  OBVIOUS
<1>2. PICK f \in [0..n -> Seq(Words)] : Stringing(f, pages, ps, <<Aside>>)
  BY <1>1, JoinedSteps
<1>3. \A m \in 1..n : pages[m] \in Seq(Words) /\ Sourced(pages[m], texts)
  <2>1. \A m \in 1..n : pages[m] \in Seq(Words) /\ pages[m] \in texts
    BY DEF Range
  <2> QED
    BY <2>1, OneIsSourced
<1>4. /\ f[0] = <<>> /\ Joined(pages, ps, <<Aside>>) = f[n]
      /\ \A m \in 1..n : f[m] = IF m \in ps THEN f[m - 1] \o <<Aside>> \o pages[m] ELSE f[m - 1]
  BY <1>2, Zenon DEF Stringing
<1> DEFINE Fine == {m \in Nat : m <= n => Sourced(f[m], texts)}
<1> HIDE DEF n
<1>5. 0 \in Fine
  BY <1>4, NothingIsSourced
<1>6. ASSUME NEW k \in Nat, k \in Fine PROVE k + 1 \in Fine
  <2> SUFFICES ASSUME k + 1 <= n PROVE Sourced(f[k + 1], texts)
    OBVIOUS
  <2> DEFINE m == k + 1
  <2>1. m \in 1..n /\ k \in 0..n /\ m - 1 = k /\ Sourced(f[k], texts)
    BY <1>1, <1>6
  <2> HIDE DEF m
  <2>2. f[k] \in Seq(Words)
    BY <1>2, <2>1, Zenon
  <2>3. f[m] = IF m \in ps THEN f[k] \o <<Aside>> \o pages[m] ELSE f[k]
    BY <1>4, <2>1
  <2>4. Sourced(f[k] \o <<Aside>> \o pages[m], texts)
    BY <1>3, <2>1, <2>2, ApartIsSourced
  <2>5. Sourced(f[m], texts)
    BY <2>1, <2>3, <2>4, Zenon
  <2> QED
    BY <2>5 DEF m
<1>7. n \in Fine
  <2> HIDE DEF Fine
  <2> QED
    BY <1>1, <1>5, <1>6, ByNumber
<1> QED
  BY <1>1, <1>4, <1>7

\* So the documents say what their pages say.
LEMMA MaterialsAreSourced ==
  ASSUME ChecksAssumption, NEW d \in Docs
  PROVE  /\ \A ps : Sourced(Strung(d, ps), Sources)
         /\ \A text \in Texts(d) : Sourced(text, Sources)
<1>1. d.pages \in Seq(Seq(Words)) /\ Aside \in Words /\ d.paged \in BOOLEAN
  BY DEF ChecksAssumption
<1>2. Range(d.pages) \union (IF d.paged THEN {} ELSE {Whole(d)}) \subseteq Sources
  BY DEF Sources
<1>3. \A ps : Sourced(Joined(d.pages, ps, <<Aside>>), Sources)
  BY <1>1, <1>2, StrungIsSourced
<1>4. Sourced(Whole(d), Sources)
  <2>1. CASE d.paged
    <3>1. Whole(d) = Joined(d.pages, 1..Len(d.pages), <<Aside>>)
      BY <2>1 DEF Whole
    <3> QED
      BY <1>3, <3>1
  <2>2. CASE ~d.paged
    BY <1>2, <2>2, OneIsSourced
  <2> QED
    BY <2>1, <2>2
<1>5. \A text \in Range(d.pages) : Sourced(text, Sources)
  BY <1>2, OneIsSourced
<1> QED
  BY <1>3, <1>4, <1>5 DEF Strung, Texts

\* A quotation's fragments stand in the texts, but for those with a word of the
\* server's own.
Stand(frags, texts) ==
  \A j \in 1..Len(frags) :
    Aside \notin Range(frags[j]) => \E text \in texts : Places(frags[j], text, 1) # {}

\* One that can be laid out in what the texts say stands in them.
LEMMA PlacedStands ==
  ASSUME NEW frags \in Fragments, NEW text, Placed(frags, text), NEW texts, Sourced(text, texts)
  PROVE  Stand(frags, texts)
<1>1. \A j \in 1..Len(frags) : frags[j] \in Seq(Words) \ {<<>>}
  BY DEF Fragments
<1>2. \A j \in 1..Len(frags) : Places(frags[j], text, 1) # {}
  BY DEF Placed
<1> QED
  BY <1>1, <1>2 DEF Sourced, Stand

-----------------------------------------------------------------------------
(* Types *)

Programs == [state : {"none", "running", "exited", "killed"}, printed : Seq(Prints),
             status : {"none", "ok", "error", "lost"}]

Calls == [tool : {"none", "run_python"}] \union [tool : {"add_problem"}, problem : Problems]

Rows == [problem : Problems, n : Nat, ran : Programs, verified : {"quote", "code", "none"}]

\* A program is there for the call in hand, which its turn waits for.
ProgramTyped ==
  /\ call \in Calls /\ program \in Programs /\ Len(program.printed) <= MaxPrints
  /\ program.state = "none" <=> call = Idle
  /\ call = Idle => program = NoProgram
  /\ call # Idle => turn = "working"

\* A set has room for the problem whose key is being computed.
SetTyped ==
  /\ set \in Seq(Rows) /\ added = Len(set) /\ Len(set) <= MaxPerSet
  /\ call.tool = "add_problem" => Len(set) < MaxPerSet /\ RunsCode(call.problem)

\* What the tools returned says what others wrote, and the queries.
TextsTyped ==
  /\ asked \subseteq Queries /\ fetched \subseteq Web \union {<<>>}
  /\ seen \subseteq Seq(Words) /\ \A text \in seen : Sourced(text, Sources)

\* What a turn's programs printed is in the outputs, and if none was cut nothing
\* else is.
OutputsTyped ==
  /\ printed \subseteq Prints /\ Range(program.printed) \subseteq printed /\ whole \in BOOLEAN
  /\ \A out \in outputs : out \subseteq printed \union IF whole THEN {} ELSE Scraps
  /\ turn # "stopped" /\ whole => printed \subseteq (UNION outputs) \union Range(program.printed)

Typed ==
  /\ course \in [compute : BOOLEAN, quantitative : BOOLEAN, web : BOOLEAN]
  /\ turn \in {"working", "stopped", "replied"} /\ calls \in 0..MaxCalls
  /\ ProgramTyped /\ SetTyped /\ TextsTyped /\ OutputsTyped
  /\ \A v, w \in verdict : v = w
  /\ \A g, h \in grade : g = h

\* They hold at first, ...
LEMMA TypedAtFirst == ASSUME ChecksAssumption, Init PROVE Typed
<1>1. Idle \in Calls /\ NoProgram \in Programs /\ Idle.tool = "none"
      /\ NoProgram.state = "none" /\ NoProgram.printed = <<>>
  BY DEF Idle, Calls, NoProgram, Programs
<1>2. MaxCalls \in Nat /\ MaxPrints \in Nat /\ MaxPerSet \in Nat
  BY DEF ChecksAssumption
<1>3. ProgramTyped
  BY <1>1, <1>2 DEF Init, ProgramTyped
<1>4. SetTyped
  BY <1>1, <1>2 DEF Init, SetTyped
<1>5. TextsTyped
  BY DEF Init, TextsTyped
<1>6. OutputsTyped
  <2>1. Range(program.printed) = {}
    BY <1>1 DEF Init, Range
  <2> QED
    BY <2>1 DEF Init, OutputsTyped
<1> QED
  BY <1>2, <1>3, <1>4, <1>5, <1>6 DEF Init, Typed

\* Another text, which says no more than what was looked up.
LEMMA TextsGrow ==
  ASSUME TextsTyped, NEW text \in Seq(Words), Sourced(text, Sources'), seen' = seen \union {text},
         asked \subseteq asked', asked' \subseteq Queries,
         fetched \subseteq fetched', fetched' \subseteq Web \union {<<>>}
  PROVE  TextsTyped'
<1>1. Sources \subseteq Sources'
  BY DEF Sources
<1>2. \A s \in seen : s \in Seq(Words) /\ Sourced(s, Sources)
  BY DEF TextsTyped
<1>3. \A s \in seen' : s \in Seq(Words) /\ Sourced(s, Sources')
  <2> HIDE DEF Sources
  <2> QED
    BY <1>1, <1>2, SourcedGrows
<1>4. \A s \in seen' : Sourced(s, Sources)'
  BY <1>3 DEF Sourced
<1> QED
  BY <1>3, <1>4 DEF TextsTyped

\* No other text.
LEMMA TextsStay ==
  ASSUME TextsTyped, UNCHANGED <<seen, asked, fetched>>
  PROVE  TextsTyped'
<1>1. Sources' = Sources
  BY DEF Sources
<1>2. \A text \in seen' : text \in Seq(Words) /\ Sourced(text, Sources')
  BY <1>1 DEF TextsTyped
<1>3. \A text \in seen' : Sourced(text, Sources)'
  BY <1>2 DEF Sourced
<1> QED
  BY <1>2, <1>3 DEF TextsTyped

\* A call that returns a text.
LEMMA ReturnsKeepsTyped ==
  ASSUME Typed, ChecksAssumption, calls < MaxCalls, NEW text \in Seq(Words),
         NEW queries \in SUBSET Queries, NEW texts \in SUBSET (Web \union {<<>>}),
         Returns(text, queries, texts), Sourced(text, Sources')
  PROVE  Typed'
<1>1. calls' \in 0..MaxCalls
  BY DEF Typed, Returns, ChecksAssumption
<1>2. ProgramTyped'
  BY DEF Typed, ProgramTyped, Returns
<1>3. SetTyped'
  BY DEF Typed, SetTyped, Returns, RunsCode
<1>4. TextsTyped'
  <2>1. /\ TextsTyped /\ seen' = seen \union {text}
        /\ asked' = asked \union queries /\ fetched' = fetched \union texts
    BY DEF Typed, Returns
  <2>2. asked \subseteq Queries /\ fetched \subseteq Web \union {<<>>}
    BY <2>1 DEF TextsTyped
  <2>3. /\ asked \subseteq asked' /\ asked' \subseteq Queries
        /\ fetched \subseteq fetched' /\ fetched' \subseteq Web \union {<<>>}
    BY <2>1, <2>2
  <2> QED
    BY <2>1, <2>3, TextsGrow
<1>5. OutputsTyped'
  BY DEF Typed, OutputsTyped, Returns
<1> QED
  BY <1>1, <1>2, <1>3, <1>4, <1>5 DEF Typed, Returns

\* A problem that is stored, or sent back at the last.
LEMMA StoreKeepsTyped ==
  ASSUME ChecksAssumption, set \in Seq(Rows), added = Len(set), Len(set) < MaxPerSet, TextsTyped,
         NEW a \in Problems, NEW ran \in Programs, Store(a, ran)
  PROVE  set' \in Seq(Rows) /\ added' = Len(set') /\ Len(set') <= MaxPerSet /\ TextsTyped'
<1> DEFINE row == [problem |-> a, n |-> added + 1, ran |-> ran,
                   verified |-> Mark(a, ran # NoProgram)]
<1>1. Len(set) \in Nat /\ MaxPerSet \in Nat /\ <<Aside>> \in Seq(Words) /\ Aside \in Words
  BY DEF ChecksAssumption
<1>2. row \in Rows
  BY <1>1 DEF Mark, Rows
<1> HIDE DEF row
<1>3. Append(set, row) \in Seq(Rows) /\ Len(Append(set, row)) = Len(set) + 1
  BY <1>2
<1>4. asked' = asked /\ fetched' = fetched
  BY DEF Store
<1>5. CASE set' = Append(set, row) /\ added' = added + 1 /\ seen' = seen \union {<<Aside>>}
  <2>1. Len(set) + 1 <= MaxPerSet
    BY <1>1
  <2>2. set' \in Seq(Rows) /\ Len(set') = Len(set) + 1
    BY <1>3, <1>5, Zenon
  <2>3. Sourced(<<Aside>>, Sources')
    <3>1. <<Aside>> \o <<>> = <<Aside>> /\ <<>> \in Seq(Words)
      BY <1>1
    <3> QED
      BY <1>1, <3>1, NothingIsSourced, BesideIsSourced
  <2>4. asked' \subseteq Queries /\ fetched' \subseteq Web \union {<<>>}
    BY <1>4 DEF TextsTyped
  <2>5. TextsTyped'
    BY <1>1, <1>4, <1>5, <2>3, <2>4, TextsGrow
  <2> QED
    BY <1>5, <2>1, <2>2, <2>5
<1>6. CASE UNCHANGED <<set, added, seen>>
  <2>1. TextsTyped'
    BY <1>4, <1>6, TextsStay
  <2> QED
    BY <1>1, <1>6, <2>1
<1> QED
  BY <1>5, <1>6 DEF Store, row

\* What of a number may be left at a cut is a scrap.
LEMMA TornIsScrap ==
  ASSUME NEW out \in Seq(Prints), NEW i, NEW torn \in Torn(out, i)
  PROVE  torn \subseteq Scraps /\ (i \in DOMAIN out => torn \subseteq Parts[out[i]])
<1>1. i \in DOMAIN out => out[i] \in Prints
  OBVIOUS
<1>2. torn = {} \/ (i \in DOMAIN out /\ \E w \in Parts[out[i]] : torn = {w})
  BY DEF Torn
<1> QED
  BY <1>1, <1>2 DEF Scraps

\* What is kept of an output was printed, or is a scrap of the cut.
LEMMA KeptIsPrinted ==
  ASSUME ChecksAssumption, NEW out \in Seq(Prints), NEW kept \in Kept(out)
  PROVE  /\ kept \subseteq Range(out) \union Scraps
         /\ Len(out) <= MaxOutput => kept = Range(out)
         /\ kept \subseteq Range(out) \union
                IF Len(out) <= MaxOutput THEN {} ELSE Parts[out[MaxOutput + 1]] \union CutNotes
<1>1. MaxOutput \in Nat /\ Len(out) \in Nat /\ DOMAIN out = 1..Len(out)
  BY DEF ChecksAssumption
<1>2. CASE Len(out) <= MaxOutput
  BY <1>2 DEF Kept
<1>3. CASE ~(Len(out) <= MaxOutput)
  <2> DEFINE head == SubSeq(out, 1, MaxOutput)
             m == MaxOutput + 1
  <2>1. PICK torn \in Torn(out, m), cut \in CutNotes : kept = Range(head) \union torn \union {cut}
    BY <1>3 DEF Kept
  <2>2. Range(head) \subseteq Range(out)
    <3>1. \A i \in 1..Len(head) : head[i] = out[i] /\ i \in DOMAIN out
      BY <1>1, <1>3
    <3>2. DOMAIN head = 1..Len(head)
      BY <1>1, <1>3
    <3> HIDE DEF head
    <3> QED
      BY <3>1, <3>2 DEF Range
  <2>3. m \in DOMAIN out
    BY <1>1, <1>3
  <2> HIDE DEF head, m
  <2>4. torn \subseteq Scraps /\ torn \subseteq Parts[out[m]]
    BY <2>1, <2>3, TornIsScrap
  <2>5. cut \in Scraps
    BY <2>1 DEF Scraps
  <2>6. kept \subseteq Range(out) \union Scraps /\ kept \subseteq Range(out) \union (Parts[out[m]] \union CutNotes)
    BY <2>1, <2>2, <2>4, <2>5
  <2> QED
    BY <1>3, <2>6 DEF m
<1> QED
  BY <1>2, <1>3

\* And so is what is left of a killed program's.
LEMMA LeftIsPrinted ==
  ASSUME ChecksAssumption, NEW out \in Seq(Prints), NEW left \in Left(out)
  PROVE  left \subseteq Range(out) \union Scraps
<1>1. PICK a \in 1..(Len(out) + 1), b \in 0..Len(out) : left \in Piece(out, a, b)
  BY DEF Left
<1> DEFINE cut == SubSeq(out, a, b)
           after == IF b - a < MaxOutput THEN b + 1 ELSE 0
<1>2. PICK kept \in Kept(cut), first \in Torn(out, a - 1), last \in Torn(out, after) :
        left = kept \union first \union last
  <2>1. Piece(out, a, b) = {kept \union first \union last :
                              kept \in Kept(cut), first \in Torn(out, a - 1), last \in Torn(out, after)}
    BY DEF Piece
  <2> HIDE DEF cut, after
  <2> QED
    BY <1>1, <2>1
<1>3. cut \in Seq(Prints) /\ \A i \in 1..Len(cut) : cut[i] = out[a + i - 1] /\ a + i - 1 \in 1..Len(out)
  <2>1. Len(out) \in Nat /\ a \in Nat /\ a >= 1 /\ b \in Nat /\ b <= Len(out)
    OBVIOUS
  <2>2. cut \in Seq(Prints)
    BY <2>1
  <2>3. Len(cut) = IF a <= b THEN b - a + 1 ELSE 0
    BY <2>1
  <2>4. \A i \in 1..Len(cut) : cut[i] = out[a + i - 1]
    BY <2>1, <2>3
  <2>5. \A i \in 1..Len(cut) : a + i - 1 \in 1..Len(out)
    <3> HIDE DEF cut
    <3> QED
      BY <2>1, <2>3
  <2> QED
    BY <2>2, <2>4, <2>5
<1> HIDE DEF cut, after
<1>4. Range(cut) \subseteq Range(out)
  <2>1. DOMAIN cut = 1..Len(cut) /\ DOMAIN out = 1..Len(out)
    BY <1>3
  <2> QED
    BY <1>3, <2>1 DEF Range
<1>5. kept \subseteq Range(cut) \union Scraps
  BY <1>3, KeptIsPrinted
<1>6. first \subseteq Scraps /\ last \subseteq Scraps
  BY TornIsScrap
<1> QED
  BY <1>2, <1>4, <1>5, <1>6

\* A result of the run at hand: what its program printed, and scraps if it was
\* cut or killed.
Result(out) ==
  /\ out \subseteq Range(program.printed) \union Scraps
  /\ program.state = "exited" /\ Len(program.printed) <= MaxOutput => out = Range(program.printed)

\* Such a result is delivered.
LEMMA FinishDelivers ==
  ASSUME ChecksAssumption, program.printed \in Seq(Prints), Finish
  PROVE  \E out : /\ Deliver(out) /\ Result(out) /\ program.state # "none"
                  /\ Ok => program.state = "exited" /\ out \in Kept(program.printed)
<1>1. CASE program.state = "exited" /\ \E out \in Kept(program.printed) : Deliver(out)
  <2>1. PICK out \in Kept(program.printed) : Deliver(out)
    BY <1>1
  <2>2. Result(out)
    BY KeptIsPrinted DEF Result
  <2> QED
    BY <1>1, <2>1, <2>2
<1>2. CASE program.state = "killed" /\ \E out \in Left(program.printed) : Deliver(out)
  <2>1. PICK out \in Left(program.printed) : Deliver(out)
    BY <1>2
  <2>2. Result(out)
    BY <1>2, LeftIsPrinted DEF Result
  <2> QED
    BY <1>2, <2>1, <2>2 DEF Ok
<1> QED
  BY <1>1, <1>2 DEF Finish

\* And keeps the types.
LEMMA DeliverKeepsTyped ==
  ASSUME ChecksAssumption, Typed, program.state # "none", NEW out, Result(out), Deliver(out)
  PROVE  Typed'
<1>1. call \in Calls /\ call # Idle /\ turn = "working" /\ program \in Programs
  BY DEF Typed, ProgramTyped
<1>2. /\ Idle \in Calls /\ NoProgram \in Programs /\ Idle.tool = "none"
      /\ NoProgram.state = "none" /\ NoProgram.printed = <<>>
  BY DEF Idle, Calls, NoProgram, Programs
<1>3. call' = Idle /\ program' = NoProgram /\ turn' = turn
  BY DEF Deliver
<1>4. ProgramTyped'
  <2>1. Len(<<>>) = 0 /\ MaxPrints \in Nat
    BY DEF ChecksAssumption
  <2> QED
    BY <1>2, <1>3, <2>1 DEF ProgramTyped
<1>5. OutputsTyped'
  <2> DEFINE fine == program.state = "exited" /\ Len(program.printed) <= MaxOutput
             there == Range(program.printed)
  <2>1. /\ printed' = printed /\ outputs' = outputs \union {out} /\ whole' = (whole /\ fine)
    BY DEF Deliver
  <2>2. /\ out \subseteq there \union Scraps /\ (fine => out = there)
        /\ printed \subseteq Prints /\ there \subseteq printed /\ whole \in BOOLEAN
        /\ \A o \in outputs : o \subseteq printed \union IF whole THEN {} ELSE Scraps
        /\ whole => printed \subseteq (UNION outputs) \union there
    BY <1>1 DEF Result, Typed, OutputsTyped
  <2>3. fine \in BOOLEAN
    OBVIOUS
  <2> HIDE DEF fine, there
  <2>4. \A o \in outputs' : o \subseteq printed' \union IF whole' THEN {} ELSE Scraps
    BY <2>1, <2>2, <2>3
  <2>5. whole' => printed' \subseteq UNION outputs'
    BY <2>1, <2>2, <2>3
  <2>6. Range(program'.printed) = {}
    BY <1>2, <1>3 DEF Range
  <2>7. whole' \in BOOLEAN
    BY <2>1, <2>2, <2>3
  <2> QED
    BY <2>1, <2>2, <2>4, <2>5, <2>6, <2>7 DEF OutputsTyped
<1>6. set' \in Seq(Rows) /\ added' = Len(set') /\ Len(set') <= MaxPerSet /\ TextsTyped'
  <2>1. set \in Seq(Rows) /\ added = Len(set) /\ Len(set) <= MaxPerSet /\ TextsTyped
    BY DEF Typed, SetTyped
  <2>2. CASE UNCHANGED <<problems, lookups>>
    BY <2>1, <2>2, TextsStay
  <2>3. CASE call.tool = "add_problem" /\ Store(call.problem, program)
    <3>1. call.problem \in Problems
      BY <1>1, <2>3 DEF Calls
    <3>2. Len(set) < MaxPerSet
      BY <2>3 DEF Typed, SetTyped
    <3> QED
      BY <1>1, <2>1, <2>3, <3>1, <3>2, StoreKeepsTyped
  <2> QED
    BY <2>2, <2>3 DEF Deliver
<1>7. SetTyped'
  BY <1>2, <1>3, <1>6 DEF SetTyped
<1>8. UNCHANGED <<course, turn, calls, verdict, grade>>
  BY DEF Deliver
<1> QED
  BY <1>4, <1>5, <1>6, <1>7, <1>8 DEF Typed

\* When nothing happens they stay, ...
LEMMA TypedStutters == ASSUME Typed, UNCHANGED vars PROVE Typed'
<1>1. TextsTyped'
  BY TextsStay DEF vars, Typed
<1>2. OutputsTyped'
  BY DEF vars, Typed, OutputsTyped
<1> QED
  BY <1>1, <1>2 DEF vars, Typed, ProgramTyped, SetTyped, RunsCode

\* ... and every step keeps them.
LEMMA TypedKept == ASSUME ChecksAssumption, Typed, Next PROVE Typed'
<1> USE DEF CanCall
<1>1. /\ Idle \in Calls /\ NoProgram \in Programs /\ Idle.tool = "none"
      /\ NoProgram.state = "none" /\ NoProgram.printed = <<>>
  BY DEF Idle, Calls, NoProgram, Programs
<1>2. /\ MaxCalls \in Nat /\ MaxPrints \in Nat /\ MaxPerSet \in Nat /\ <<Aside>> \in Seq(Words) /\ Aside \in Words
      /\ \A query \in Queries : query \in Seq(Words)
      /\ \A text \in Web : text \in Seq(Words)
  BY DEF ChecksAssumption
<1>3. /\ program \in Programs /\ program.printed \in Seq(Prints)
      /\ turn \in {"working", "stopped", "replied"} /\ calls \in 0..MaxCalls
      /\ call.tool = "none" <=> call = Idle
  BY DEF Typed, ProgramTyped, Programs, Calls, Idle
<1>4. /\ \A d \in Docs : \A ps : Strung(d, ps) \in Seq(Words) /\ Sourced(Strung(d, ps), Sources)
      /\ \A query \in asked' : Sourced(query, Sources')
      /\ \A text \in fetched' : Sourced(text, Sources')
  <2>1. asked' \subseteq Sources' /\ fetched' \subseteq Sources'
    BY DEF Sources
  <2> QED
    BY <2>1, MaterialsAreTexts, MaterialsAreSourced, OneIsSourced
<1>5. ASSUME NEW d \in Docs, NEW ps, Returns(Strung(d, ps), {}, {}), calls < MaxCalls PROVE Typed'
  <2>1. asked \subseteq asked' /\ fetched \subseteq fetched'
    BY <1>5 DEF Returns
  <2>2. Sources \subseteq Sources'
    BY <2>1 DEF Sources
  <2>3. Strung(d, ps) \in Seq(Words) /\ Sourced(Strung(d, ps), Sources')
    BY <1>4, <2>2, SourcedGrows
  <2>4. {} \in SUBSET Queries /\ {} \in SUBSET (Web \union {<<>>})
    OBVIOUS
  <2> QED
    BY <1>5, <2>3, <2>4, ReturnsKeepsTyped
<1>6. CASE SearchDocument
  <2>1. calls < MaxCalls
    BY <1>6 DEF SearchDocument
  <2>2. PICK d \in Docs, query \in Queries :
          \/ Returns(<<Aside>> \o query \o <<Aside>>, {query}, {})
          \/ \E ps : Returns(Strung(d, ps), {}, {})
    BY <1>6 DEF SearchDocument
  <2>3. ASSUME Returns(<<Aside>> \o query \o <<Aside>>, {query}, {}) PROVE Typed'
    <3>1. Sourced(query, Sources') /\ query \in Seq(Words)
      <4>1. query \in asked'
        BY <2>3 DEF Returns
      <4> QED
        BY <1>2, <1>4, <4>1
    <3>2. <<Aside>> \o query \in Seq(Words) /\ Sourced(<<Aside>> \o query, Sources')
      BY <1>2, <3>1, BesideIsSourced
    <3>3. /\ (<<Aside>> \o query) \o <<Aside>> \in Seq(Words)
          /\ Sourced((<<Aside>> \o query) \o <<Aside>>, Sources')
      BY <1>2, <3>2, BesideIsSourced
    <3>4. {query} \in SUBSET Queries /\ {} \in SUBSET (Web \union {<<>>})
      OBVIOUS
    <3> QED
      BY <2>1, <2>3, <3>3, <3>4, ReturnsKeepsTyped
  <2> QED
    BY <1>5, <2>1, <2>2, <2>3
<1>7. CASE ReadDocument \/ SearchWeb \/ ReadPage
  <2>1. calls < MaxCalls
    BY <1>7 DEF ReadDocument, SearchWeb, ReadPage
  <2>2. CASE ReadDocument
    <3>1. PICK d \in Docs : \E ps : Returns(Strung(d, ps), {}, {})
      BY <2>2 DEF ReadDocument
    <3> QED
      BY <1>5, <2>1, <3>1
  <2>3. CASE SearchWeb
    <3>1. PICK query \in Queries, text \in Web \union {<<>>} :
            Returns(<<Aside>> \o query \o <<Aside>> \o text, {query}, {text})
      BY <2>3 DEF SearchWeb
    <3>2. text \in Seq(Words) /\ query \in Seq(Words)
      <4>1. <<>> \in Seq(Words)
        OBVIOUS
      <4> QED
        BY <1>2, <4>1, Zenon
    <3>3. Sourced(query, Sources') /\ Sourced(text, Sources')
      <4>1. query \in asked' /\ text \in fetched'
        BY <3>1 DEF Returns
      <4> QED
        BY <1>4, <4>1
    <3> DEFINE s == <<Aside>> \o query
    <3>4. s \in Seq(Words) /\ Sourced(s, Sources')
      BY <1>2, <3>2, <3>3, BesideIsSourced
    <3> HIDE DEF s
    <3>5. s \o <<Aside>> \o text \in Seq(Words) /\ Sourced(s \o <<Aside>> \o text, Sources')
      <4>1. s \o <<Aside>> \o text \in Seq(Words)
        BY <1>2, <3>2, <3>4
      <4> QED
        BY <1>2, <3>2, <3>3, <3>4, <4>1, ApartIsSourced
    <3>6. {query} \in SUBSET Queries /\ {text} \in SUBSET (Web \union {<<>>})
      OBVIOUS
    <3>7. Returns(s \o <<Aside>> \o text, {query}, {text})
      BY <3>1 DEF s
    <3> QED
      BY <2>1, <3>5, <3>6, <3>7, ReturnsKeepsTyped
  <2>4. CASE ReadPage
    <3>1. PICK text \in Web : Returns(<<Aside>> \o text, {}, {text})
      BY <2>4 DEF ReadPage
    <3>2. text \in fetched' /\ text \in Seq(Words)
      BY <1>2, <3>1 DEF Returns
    <3>3. <<Aside>> \o text \in Seq(Words) /\ Sourced(<<Aside>> \o text, Sources')
      BY <1>2, <1>4, <3>2, BesideIsSourced
    <3>4. {} \in SUBSET Queries /\ {text} \in SUBSET (Web \union {<<>>})
      OBVIOUS
    <3> QED
      BY <2>1, <3>1, <3>3, <3>4, ReturnsKeepsTyped
  <2> QED
    BY <1>7, <2>2, <2>3, <2>4
<1>texts. ASSUME Typed, UNCHANGED lookups PROVE TextsTyped'
  BY <1>texts, TextsStay DEF Typed
<1>outputs. ASSUME Typed, UNCHANGED <<turn, program, runs>> PROVE OutputsTyped'
  BY <1>outputs DEF Typed, OutputsTyped
<1>idle. ASSUME Typed, call = Idle, turn' = turn, UNCHANGED runs, program'.printed = <<>>
      PROVE  OutputsTyped'
  <2>1. program.printed = <<>>
    BY <1>idle DEF Typed, ProgramTyped, NoProgram
  <2> QED
    BY <1>idle, <2>1 DEF Typed, OutputsTyped
<1>8. CASE CallFails
  <2>1. calls' \in 0..MaxCalls
    BY <1>2, <1>3, <1>8 DEF CallFails
  <2>2. UNCHANGED <<course, turn, call, program, lookups, runs, problems, verdict, grade>>
    BY <1>8 DEF CallFails
  <2>3. TextsTyped' /\ OutputsTyped'
    BY <1>texts, <1>outputs, <2>2
  <2> QED
    BY <2>1, <2>2, <2>3 DEF Typed, ProgramTyped, SetTyped, RunsCode
<1>9. CASE AddProblem
  <2>1. /\ turn = "working" /\ call = Idle /\ calls < MaxCalls /\ calls' = calls + 1
        /\ UNCHANGED <<course, turn, verdict, grade>>
    BY <1>9 DEF AddProblem
  <2>2. calls' \in 0..MaxCalls
    BY <1>2, <1>3, <2>1
  <2>3. PICK a \in Problems :
          \/ /\ SentBack(a)
             /\ UNCHANGED <<call, program, runs, problems, lookups>>
          \/ /\ ~SentBack(a) /\ RunsCode(a)
             /\ Start([tool |-> "add_problem", problem |-> a])
             /\ UNCHANGED <<runs, problems, lookups>>
          \/ /\ ~SentBack(a) /\ RunsCode(a)
             /\ outputs' = outputs \union {{}}
             /\ UNCHANGED <<call, program, printed, whole, problems, lookups>>
          \/ /\ ~SentBack(a) /\ ~RunsCode(a)
             /\ UNCHANGED <<call, program, runs>>
             /\ Store(a, NoProgram)
    BY <1>9 DEF AddProblem
  <2>4. /\ call \in Calls /\ Len(program.printed) <= MaxPrints /\ program.state = "none"
        /\ set \in Seq(Rows) /\ added = Len(set) /\ Len(set) <= MaxPerSet /\ Len(set) \in Nat
    BY <2>1 DEF Typed, ProgramTyped, SetTyped
  <2>5. ~SentBack(a) => Len(set) < MaxPerSet
    BY <1>2, <2>4 DEF SentBack, Full
  <2>6. CASE UNCHANGED <<call, program, runs, problems, lookups>>
    <3>1. TextsTyped' /\ OutputsTyped'
      BY <1>texts, <1>outputs, <2>1, <2>6
    <3> QED
      BY <2>1, <2>2, <2>6, <3>1 DEF Typed, ProgramTyped, SetTyped, RunsCode
  <2>7. CASE /\ ~SentBack(a) /\ RunsCode(a)
             /\ Start([tool |-> "add_problem", problem |-> a])
             /\ UNCHANGED <<runs, problems, lookups>>
    <3>1. call' = [tool |-> "add_problem", problem |-> a]
          /\ program' = [state |-> "running", printed |-> <<>>, status |-> "none"]
      BY <2>7 DEF Start
    <3>2. call' \in Calls /\ call'.tool = "add_problem" /\ call'.problem = a /\ call' # Idle
      BY <3>1 DEF Calls, Idle
    <3>3. program' \in Programs /\ Len(program'.printed) = 0 /\ program'.state # "none"
      BY <3>1 DEF Programs
    <3>4. ProgramTyped'
      BY <1>2, <2>1, <3>2, <3>3 DEF ProgramTyped
    <3>5. RunsCode(a)'
      BY <2>1, <2>7 DEF RunsCode
    <3>6. SetTyped'
      BY <2>4, <2>5, <2>7, <3>2, <3>5 DEF SetTyped, RunsCode
    <3>7. TextsTyped'
      BY <1>texts, <2>7
    <3>8. OutputsTyped'
      BY <1>idle, <2>1, <2>7, <3>1
    <3> QED
      BY <2>1, <2>2, <3>4, <3>6, <3>7, <3>8 DEF Typed
  <2>8. CASE outputs' = outputs \union {{}} /\ UNCHANGED <<call, program, printed, whole, problems, lookups>>
    <3>1. TextsTyped'
      BY <1>texts, <2>8
    <3>2. OutputsTyped'
      BY <2>1, <2>8 DEF Typed, OutputsTyped
    <3> QED
      BY <2>1, <2>2, <2>8, <3>1, <3>2 DEF Typed, ProgramTyped, SetTyped, RunsCode
  <2>9. CASE ~SentBack(a) /\ UNCHANGED <<call, program, runs>> /\ Store(a, NoProgram)
    <3>1. set' \in Seq(Rows) /\ added' = Len(set') /\ Len(set') <= MaxPerSet /\ TextsTyped'
      <4>1. TextsTyped
        BY DEF Typed
      <4> QED
        BY <1>1, <2>4, <2>5, <2>9, <4>1, StoreKeepsTyped
    <3>2. call'.tool # "add_problem"
      BY <1>1, <2>1, <2>9
    <3>3. SetTyped' /\ OutputsTyped'
      <4>1. SetTyped'
        BY <3>1, <3>2 DEF SetTyped
      <4> QED
        BY <1>outputs, <2>1, <2>9, <4>1
    <3> QED
      BY <2>1, <2>2, <2>9, <3>1, <3>3 DEF Typed, ProgramTyped
  <2> QED
    BY <2>3, <2>6, <2>7, <2>8, <2>9
<1>10. CASE RunPython
  <2>1. /\ turn = "working" /\ call = Idle /\ calls < MaxCalls /\ calls' = calls + 1
        /\ UNCHANGED <<course, turn, lookups, runs, problems, verdict, grade>>
        /\ call' = [tool |-> "run_python"]
        /\ program' = [state |-> "running", printed |-> <<>>, status |-> "none"]
    BY <1>10 DEF RunPython, Start
  <2>2. call' \in Calls /\ call'.tool = "run_python" /\ call' # Idle
    BY <2>1 DEF Calls, Idle
  <2>3. program' \in Programs /\ Len(program'.printed) = 0 /\ program'.state # "none"
    BY <2>1 DEF Programs
  <2>4. ProgramTyped'
    BY <1>2, <2>1, <2>2, <2>3 DEF ProgramTyped
  <2>5. SetTyped'
    BY <2>1, <2>2 DEF Typed, SetTyped
  <2>6. TextsTyped' /\ OutputsTyped'
    BY <1>texts, <1>idle, <2>1
  <2>7. calls' \in 0..MaxCalls
    BY <1>2, <1>3, <2>1
  <2> QED
    BY <2>1, <2>4, <2>5, <2>6, <2>7 DEF Typed
<1>11. ASSUME NEW p \in Programs, Process(p), Len(p.printed) <= MaxPrints, p.state # "none",
              program.state # "none", printed' \subseteq Prints,
              \/ p.printed = program.printed /\ printed' = printed
              \/ \E v : /\ Range(p.printed) = Range(program.printed) \union {v}
                        /\ printed' = printed \union {v}
       PROVE  Typed'
  <2>1. /\ program' = p
        /\ UNCHANGED <<course, turn, calls, call, lookups, outputs, whole, problems, verdict, grade>>
    BY <1>11 DEF Process
  <2>2. ProgramTyped'
    BY <1>11, <2>1 DEF Typed, ProgramTyped
  <2>3. SetTyped' /\ TextsTyped'
    <3>1. SetTyped'
      BY <2>1 DEF Typed, SetTyped, RunsCode
    <3> QED
      BY <1>texts, <2>1, <3>1
  <2>4. OutputsTyped'
    <3> DEFINE old == Range(program.printed)
               new == Range(p.printed)
    <3>1. \E more : new = old \union more /\ printed' = printed \union more
      <4>1. CASE p.printed = program.printed /\ printed' = printed
        <5>1. new = old \union {} /\ printed' = printed \union {}
          BY <4>1
        <5> QED
          BY <5>1
      <4>2. CASE \E v : new = old \union {v} /\ printed' = printed \union {v}
        BY <4>2
      <4> QED
        BY <1>11, <4>1, <4>2
    <3>2. /\ old \subseteq printed /\ whole \in BOOLEAN
          /\ \A out \in outputs : out \subseteq printed \union IF whole THEN {} ELSE Scraps
          /\ turn # "stopped" /\ whole => printed \subseteq (UNION outputs) \union old
      BY DEF Typed, OutputsTyped
    <3>3. Range(program'.printed) = new
      BY <2>1
    <3> HIDE DEF old, new
    <3> QED
      BY <1>11, <2>1, <3>1, <3>2, <3>3 DEF OutputsTyped
  <2> QED
    BY <2>1, <2>2, <2>3, <2>4 DEF Typed
<1>12. CASE Write
  <2>1. PICK v \in Prints : /\ Process([program EXCEPT !.printed = Append(@, v)])
                            /\ printed' = printed \union {v}
    BY <1>12 DEF Write
  <2> DEFINE p == [program EXCEPT !.printed = Append(@, v)]
  <2>2. program.state = "running" /\ Len(program.printed) < MaxPrints
    BY <1>12 DEF Write
  <2>3. p.printed = Append(program.printed, v) /\ p.state = "running"
    BY <1>3, <2>2 DEF Programs
  <2>4. p.printed \in Seq(Prints) /\ Len(p.printed) = Len(program.printed) + 1
    BY <1>3, <2>3
  <2>5. p \in Programs
    BY <1>3, <2>4 DEF Programs
  <2>6. Len(p.printed) <= MaxPrints
    <3>1. Len(program.printed) \in Nat
      BY <1>3
    <3> HIDE DEF p
    <3> QED
      BY <1>2, <2>2, <2>4, <3>1
  <2>7. Range(p.printed) = Range(program.printed) \union {v}
    <3> DEFINE s == program.printed
               r == Append(s, v)
    <3>1. /\ DOMAIN s = 1..Len(s) /\ DOMAIN r = 1..(Len(s) + 1) /\ Len(s) \in Nat
          /\ \A i \in 1..Len(s) : r[i] = s[i]
          /\ r[Len(s) + 1] = v
      BY <1>3
    <3> HIDE DEF s, r
    <3>2. Range(r) = Range(s) \union {v}
      <4>1. 1..(Len(s) + 1) = (1..Len(s)) \union {Len(s) + 1}
        BY <3>1
      <4> QED
        BY <3>1, <4>1 DEF Range
    <3> HIDE DEF p
    <3> QED
      BY <2>3, <3>2 DEF s, r
  <2>8. printed' \subseteq Prints
    BY <2>1 DEF Typed, OutputsTyped
  <2> HIDE DEF p
  <2> QED
    BY <1>11, <2>1, <2>2, <2>3, <2>5, <2>6, <2>7, <2>8 DEF p
<1>13. ASSUME NEW state \in {"exited", "killed"}, NEW status \in {"none", "ok", "error", "lost"},
              Process([program EXCEPT !.state = state, !.status = status]), UNCHANGED printed,
              program.state # "none"
       PROVE  Typed'
  <2> DEFINE p == [program EXCEPT !.state = state, !.status = status]
  <2>1. p \in Programs /\ p.printed = program.printed /\ p.state = state
    BY <1>3 DEF Programs
  <2>2. Len(p.printed) <= MaxPrints
    BY <2>1 DEF Typed, ProgramTyped
  <2>3. printed' \subseteq Prints
    BY <1>13 DEF Typed, OutputsTyped
  <2> HIDE DEF p
  <2> QED
    BY <1>11, <1>13, <2>1, <2>2, <2>3 DEF p
<1>14. CASE Exit \/ TimeOut
  <2>1. CASE Exit
    <3>1. PICK status \in {"ok", "error", "lost"} :
            /\ Process([program EXCEPT !.state = "exited", !.status = status])
            /\ UNCHANGED printed /\ program.state # "none"
      BY <2>1 DEF Exit
    <3> QED
      BY <1>13, <3>1
  <2>2. CASE TimeOut
    <3>1. /\ Process([program EXCEPT !.state = "killed"])
          /\ UNCHANGED printed /\ program.state # "none"
      BY <2>2 DEF TimeOut
    <3>2. [program EXCEPT !.state = "killed"] = [program EXCEPT !.state = "killed", !.status = program.status]
          /\ program.status \in {"none", "ok", "error", "lost"}
      BY <1>3 DEF Programs
    <3> QED
      BY <1>13, <3>1, <3>2
  <2> QED
    BY <1>14, <2>1, <2>2
<1>15. CASE Finish
  BY <1>3, <1>15, FinishDelivers, DeliverKeepsTyped
<1>16. CASE Stop
  <2>1. /\ turn' = "stopped" /\ call' = Idle /\ program' = NoProgram
        /\ UNCHANGED <<course, calls, lookups, runs, problems, verdict, grade>>
    BY <1>16 DEF Stop
  <2>2. Len(<<>>) = 0
    OBVIOUS
  <2>3. ProgramTyped'
    BY <1>1, <1>2, <2>1, <2>2 DEF ProgramTyped
  <2>4. SetTyped' /\ TextsTyped'
    <3>1. SetTyped'
      BY <1>1, <2>1 DEF Typed, SetTyped
    <3> QED
      BY <1>texts, <2>1, <3>1
  <2>5. OutputsTyped'
    <3>1. Range(program'.printed) = {}
      BY <1>1, <2>1 DEF Range
    <3> QED
      BY <2>1, <3>1 DEF Typed, OutputsTyped
  <2> QED
    BY <2>1, <2>3, <2>4, <2>5 DEF Typed
<1>17. CASE Reply
  <2>1. /\ turn = "working" /\ turn' = "replied" /\ call = Idle
        /\ UNCHANGED <<course, calls, call, program, lookups, runs, problems, grade>>
    BY <1>17 DEF Reply
  <2>2. \A v, w \in verdict' : v = w
    BY <1>17 DEF Reply
  <2>3. TextsTyped' /\ OutputsTyped'
    <3>1. OutputsTyped'
      BY <2>1 DEF Typed, OutputsTyped
    <3> QED
      BY <1>texts, <2>1, <3>1
  <2> QED
    BY <2>1, <2>2, <2>3 DEF Typed, ProgramTyped, SetTyped, RunsCode
<1>18. CASE Answer
  <2>1. UNCHANGED <<course, turn, calls, call, program, lookups, runs, problems, verdict>>
    BY <1>18 DEF Answer
  <2>2. \A g, h \in grade' : g = h
    BY <1>18 DEF Answer
  <2>3. TextsTyped' /\ OutputsTyped'
    BY <1>texts, <1>outputs, <2>1
  <2> QED
    BY <2>1, <2>2, <2>3 DEF Typed, ProgramTyped, SetTyped, RunsCode
<1>19. CASE Rest
  BY <1>19, TypedStutters DEF Rest
<1> QED
  BY <1>6, <1>7, <1>8, <1>9, <1>10, <1>12, <1>14, <1>15, <1>16, <1>17, <1>18, <1>19 DEF Next

\* So they always hold.
LEMMA TypedAlways == Spec => []Typed
<1> USE ChecksAssumption
<1>1. Init => Typed
  BY TypedAtFirst
<1>2. Typed /\ [Next]_vars => Typed'
  BY TypedKept, TypedStutters
<1> QED
  BY <1>1, <1>2, PTL DEF Spec

\* No more than one, as a number.
LEMMA AtMostOne ==
  ASSUME NEW s, \A v, w \in s : v = w
  PROVE  Cardinality(s) <= 1
<1>1. CASE s = {}
  BY <1>1, FS_EmptySet
<1>2. CASE s # {}
  <2>1. PICK v \in s : TRUE
    BY <1>2
  <2>2. s = {v}
    BY <2>1
  <2> QED
    BY <2>2, FS_Singleton
<1> QED
  BY <1>1, <1>2

\* Every variable stays in its range: a set is never longer than allowed
\* (add_problem_tool), and a program runs only for a call of a turn at work.
THEOREM ChecksTyped == Spec => []TypeOK
<1>1. ASSUME Typed PROVE TypeOK
  <2>1. call.tool \in {"none", "run_python", "add_problem"}
    BY <1>1 DEF Typed, ProgramTyped, Calls
  <2>2. /\ program.state \in {"none", "running", "exited", "killed"}
        /\ program.status \in {"none", "ok", "error", "lost"}
        /\ Len(program.printed) <= MaxPrints
        /\ program.state # "none" <=> call # Idle
        /\ call # Idle => turn = "working"
    BY <1>1 DEF Typed, ProgramTyped, Programs
  <2>3. /\ printed \subseteq Prints /\ whole \in BOOLEAN
        /\ \A out \in outputs : out \subseteq Prints \union Scraps
        /\ asked \subseteq Queries /\ fetched \subseteq Web \union {<<>>}
    BY <1>1 DEF Typed, TextsTyped, OutputsTyped
  <2>4. Len(set) \in 0..MaxPerSet /\ added \in 0..MaxPerSet
    BY <1>1, ChecksAssumption DEF Typed, SetTyped, ChecksAssumption
  <2>5. Cardinality(verdict) <= 1 /\ Cardinality(grade) <= 1
    BY <1>1, AtMostOne DEF Typed
  <2> QED
    BY <1>1, <2>1, <2>2, <2>3, <2>4, <2>5 DEF Typed, TypeOK
<1> QED
  BY <1>1, TypedAlways, PTL

-----------------------------------------------------------------------------
(* Keys *)

\* The key is in what the run put out, or is a scrap of the cut.
Shown(key, out) ==
  key \subseteq Range(out) \union
      IF Len(out) <= MaxOutput THEN {} ELSE Parts[out[MaxOutput + 1]] \union CutNotes

\* What KeysAreEarned says of the i-th problem of a set.
Earned(row, i, texts, sources) ==
  /\ row.n = i
  /\ row.verified = "code" =>
        /\ row.ran.state = "exited" /\ row.ran.status = "ok"
        /\ Key(row.problem) # {} /\ Shown(Key(row.problem), row.ran.printed)
  /\ course.compute /\ course.quantitative /\ Key(row.problem) # {} => row.verified = "code"
  /\ row.verified = "quote" => row.problem.quote # <<>>
  /\ row.problem.quote # <<>> => \E text \in texts : Placed(row.problem.quote, text)
  /\ Stand(row.problem.quote, sources)

\* The property, one problem of the set at a time.
LEMMA KeysAreEarnedRowByRow ==
  KeysAreEarned <=> \A i \in 1..Len(set) : Earned(set[i], i, Materials \union seen, Sources)
BY DEF KeysAreEarned, Earned, Shown, Stand

\* It stays so as long as the set grows by such problems, and nothing of what was
\* looked up is forgotten.
LEMMA EarnedGrows ==
  ASSUME set \in Seq(Rows), KeysAreEarned, course' = course,
         seen \subseteq seen', asked \subseteq asked', fetched \subseteq fetched', NEW row,
         \/ set' = set
         \/ set' = Append(set, row) /\ Earned(row, Len(set) + 1, Materials \union seen', Sources')
  PROVE  KeysAreEarned'
<1>1. \A i \in 1..Len(set) : Earned(set[i], i, Materials \union seen, Sources)
  BY KeysAreEarnedRowByRow
<1>2. ASSUME NEW r, NEW i, Earned(r, i, Materials \union seen, Sources)
      PROVE  Earned(r, i, Materials \union seen', Sources')
  <2>1. Sources \subseteq Sources'
    BY DEF Sources
  <2>2. Stand(r.problem.quote, Sources')
    <3>1. Stand(r.problem.quote, Sources)
      BY <1>2 DEF Earned
    <3> QED
      BY <2>1, <3>1 DEF Stand
  <2> QED
    BY <1>2, <2>2 DEF Earned
<1>3. \A i \in 1..Len(set') : Earned(set'[i], i, Materials \union seen', Sources')
  <2>1. CASE set' = set
    BY <1>1, <1>2, <2>1
  <2>2. CASE set' = Append(set, row) /\ Earned(row, Len(set) + 1, Materials \union seen', Sources')
    <3> SUFFICES ASSUME NEW i \in 1..Len(set') PROVE Earned(set'[i], i, Materials \union seen', Sources')
      OBVIOUS
    <3>1. Len(set) \in Nat /\ Len(set') = Len(set) + 1
      BY <2>2
    <3>2. CASE i = Len(set) + 1
      <4>1. set'[i] = row
        BY <2>2, <3>2
      <4> QED
        BY <2>2, <3>2, <4>1
    <3>3. CASE i # Len(set) + 1
      <4>1. i \in 1..Len(set) /\ set'[i] = set[i]
        BY <2>2, <3>1, <3>3
      <4> QED
        BY <1>1, <1>2, <4>1
    <3> QED
      BY <3>2, <3>3
  <2> QED
    BY <2>1, <2>2
<1>4. (\A i \in 1..Len(set) : Earned(set[i], i, Materials \union seen, Sources))'
  BY <1>3 DEF Earned
<1> QED
  BY <1>4, KeysAreEarnedRowByRow, PTL

\* A problem is stored with what its mark says.
LEMMA StoredIsEarned ==
  ASSUME ChecksAssumption, set \in Seq(Rows), added = Len(set), TextsTyped, KeysAreEarned,
         course' = course, NEW a \in Problems, NEW ran, Store(a, ran),
         ran # NoProgram => /\ ran.state = "exited" /\ ran.status = "ok"
                            /\ Key(a) # {} /\ Shown(Key(a), ran.printed),
         ran = NoProgram => ~(course.compute /\ course.quantitative /\ Key(a) # {})
  PROVE  KeysAreEarned'
<1> DEFINE mark == Mark(a, ran # NoProgram)
           row == [problem |-> a, n |-> added + 1, ran |-> ran, verified |-> mark]
<1>1. asked' = asked /\ fetched' = fetched /\ Sources' = Sources
  BY DEF Store, Sources
<1>2. CASE UNCHANGED <<set, seen>>
  BY <1>1, <1>2, EarnedGrows
<1>3. CASE /\ a.quote = <<>> \/ Find(a.quote)
           /\ set' = Append(set, row) /\ seen' = seen \union {<<Aside>>}
  <2>1. row.problem = a /\ row.n = Len(set) + 1 /\ row.ran = ran /\ row.verified = mark
    OBVIOUS
  <2>2. mark = "code" => ran # NoProgram
    BY DEF Mark
  <2>3. course.quantitative /\ ran # NoProgram => mark = "code"
    BY DEF Mark
  <2>4. mark = "quote" => a.quote # <<>>
    BY DEF Mark
  <2>5. a.quote \in Fragments /\ seen \subseteq Seq(Words)
    BY DEF ChecksAssumption, Fragments, TextsTyped
  <2>6. a.quote # <<>> => \E text \in Materials \union seen : Placed(a.quote, text)
    BY <1>3, <2>5, FoundIsPlaced
  <2>7. Stand(a.quote, Sources')
    <3>1. CASE a.quote = <<>>
      <4>1. Len(<<>>) = 0
        OBVIOUS
      <4> QED
        BY <3>1, <4>1 DEF Stand
    <3>2. CASE a.quote # <<>>
      <4>1. PICK text \in Materials \union seen : Placed(a.quote, text)
        BY <2>6, <3>2
      <4>2. Sourced(text, Sources)
        BY <4>1, MaterialsAreSourced DEF Materials, TextsTyped
      <4> QED
        BY <1>1, <2>5, <4>1, <4>2, PlacedStands
    <3> QED
      BY <3>1, <3>2
  <2> HIDE DEF row, mark
  <2>8. Earned(row, Len(set) + 1, Materials \union seen', Sources')
    BY <1>3, <2>1, <2>2, <2>3, <2>4, <2>6, <2>7 DEF Earned
  <2> QED
    BY <1>1, <1>3, <2>8, EarnedGrows
<1> QED
  BY <1>2, <1>3 DEF Store

\* The result of a run is stored with its program, if the program is fine and
\* the key is in its output.
LEMMA DeliveredIsEarned ==
  ASSUME ChecksAssumption, Typed, KeysAreEarned, NEW out, Deliver(out), program.state # "none",
         Ok => program.state = "exited" /\ out \in Kept(program.printed)
  PROVE  KeysAreEarned'
<1>1. set \in Seq(Rows) /\ added = Len(set) /\ TextsTyped /\ course' = course
  BY DEF Typed, SetTyped, Deliver
<1>2. CASE UNCHANGED <<problems, lookups>>
  BY <1>1, <1>2, EarnedGrows
<1>3. CASE /\ call.tool = "add_problem" /\ Ok /\ Key(call.problem) \subseteq out
           /\ Store(call.problem, program)
  <2>1. call.problem \in Problems
    BY <1>3 DEF Typed, ProgramTyped, Calls
  <2>2. Key(call.problem) # {}
    BY <1>3 DEF Typed, SetTyped, RunsCode
  <2>3. program # NoProgram
    BY DEF NoProgram
  <2>4. Shown(Key(call.problem), program.printed)
    <3>1. program.printed \in Seq(Prints) /\ out \in Kept(program.printed)
      BY <1>3 DEF Typed, ProgramTyped, Programs
    <3> QED
      BY <1>3, <3>1, KeptIsPrinted DEF Shown
  <2> QED
    BY <1>1, <1>3, <2>1, <2>2, <2>3, <2>4, StoredIsEarned DEF Ok
<1> QED
  BY <1>2, <1>3 DEF Deliver

\* Every step keeps the keys earned.
LEMMA KeysKept ==
  ASSUME ChecksAssumption, Typed, KeysAreEarned, [Next]_vars
  PROVE  KeysAreEarned'
<1>1. /\ set \in Seq(Rows) /\ added = Len(set) /\ TextsTyped /\ program.printed \in Seq(Prints)
  BY DEF Typed, SetTyped, ProgramTyped, Programs
<1>2. ASSUME course' = course, set' = set, seen \subseteq seen', asked \subseteq asked', fetched \subseteq fetched'
      PROVE  KeysAreEarned'
  BY <1>1, <1>2, EarnedGrows
<1>3. ASSUME NEW text, NEW queries, NEW texts, Returns(text, queries, texts) PROVE KeysAreEarned'
  BY <1>2, <1>3 DEF Returns
<1>4. CASE SearchDocument
  BY <1>3, <1>4 DEF SearchDocument
<1>5. CASE ReadDocument
  BY <1>3, <1>5 DEF ReadDocument
<1>6. CASE SearchWeb
  BY <1>3, <1>6 DEF SearchWeb
<1>7. CASE ReadPage
  BY <1>3, <1>7 DEF ReadPage
<1>8. CASE AddProblem
  <2>1. course' = course
    BY <1>8 DEF AddProblem
  <2>2. CASE UNCHANGED <<problems, lookups>>
    BY <1>2, <2>1, <2>2
  <2>3. CASE \E a \in Problems : ~SentBack(a) /\ ~RunsCode(a) /\ Store(a, NoProgram)
    <3>1. PICK a \in Problems : ~SentBack(a) /\ ~RunsCode(a) /\ Store(a, NoProgram)
      BY <2>3
    <3>2. ~(course.compute /\ course.quantitative /\ Key(a) # {})
      BY <3>1 DEF SentBack, RunsCode
    <3> QED
      BY <1>1, <2>1, <3>1, <3>2, StoredIsEarned
  <2> QED
    BY <1>8, <2>2, <2>3 DEF AddProblem
<1>9. CASE Finish
  BY <1>1, <1>9, FinishDelivers, DeliveredIsEarned
<1>10. CASE CallFails \/ RunPython \/ Stop \/ Reply \/ Answer \/ Rest \/ UNCHANGED vars
  BY <1>2, <1>10 DEF CallFails, RunPython, Stop, Reply, Answer, Rest, vars
<1>11. CASE Write \/ Exit \/ TimeOut
  BY <1>2, <1>11 DEF Write, Exit, TimeOut, Process
<1> QED
  BY <1>4, <1>5, <1>6, <1>7, <1>8, <1>9, <1>10, <1>11 DEF Next

\* No key that a card calls checked was taken on trust (practice.add_problem_tool),
\* whatever runs fail, are cut off or time out in between.  "code": the very
\* program of the problem ended well and in time, and printed the key; if its
\* output was cut, the key may be what is left of a number at the cut, or how
\* much was cut.  "quote": the words stand in the materials or in what a tool
\* returned, and are others', or those of a query of the model's.
THEOREM KeysEarned == Spec => []KeysAreEarned
<1>1. Init => KeysAreEarned
  BY DEF Init, KeysAreEarned
<1>2. Typed /\ KeysAreEarned /\ [Next]_vars => KeysAreEarned'
  BY ChecksAssumption, KeysKept
<1> QED
  BY <1>1, <1>2, TypedAlways, PTL DEF Spec
-----------------------------------------------------------------------------
(* Numbers *)

\* The powers of ten, and what a power divides, as names of their own: of 10^k
\* the provers know something only if k is written out.
Ten(k) == 10^k

Divides(p, w) == w % p = 0

\* They are what they are, ...
LEMMA Tens ==
  /\ Ten(0) = 1 /\ Ten(1) = 10 /\ Ten(2) = 100 /\ Ten(3) = 1000 /\ Ten(4) = 10000
  /\ Ten(5) = 100000 /\ Ten(6) = 1000000 /\ Ten(7) = 10000000 /\ Ten(8) = 100000000
  /\ Ten(9) = 1000000000
BY DEF Ten

\* ... each ten times the one before, ...
LEMMA TensGrow ==
  /\ \A k \in 0..9 : Ten(k) \in Nat \ {0}
  /\ \A k \in 0..8 : Ten(k + 1) = 10 * Ten(k)
  /\ \A j, k \in 0..9 : j <= k => Ten(j) <= Ten(k)
<1>1. \A k \in 0..9 : Ten(k) \in Nat \ {0}
  BY Tens
<1>2. \A k \in 0..8 : Ten(k + 1) = 10 * Ten(k)
  BY Tens
<1>3. \A j, k \in 0..9 : j <= k => Ten(j) <= Ten(k)
  BY Tens
<1> QED
  BY <1>1, <1>2, <1>3

\* ... and multiply by adding their exponents.
LEMMA TensAdd == \A n, k \in 0..8 : n + k <= 8 => Ten(n) * Ten(k) = Ten(n + k)
<1> SUFFICES ASSUME NEW n \in 0..8, NEW k \in 0..8, n + k <= 8 PROVE Ten(n) * Ten(k) = Ten(n + k)
  OBVIOUS
<1>1. \A j \in 0..8 : Ten(j) \in Nat /\ (j # 8 => Ten(j + 1) = 10 * Ten(j))
  BY TensGrow
<1>2. CASE k = 0
  BY <1>1, <1>2, Tens
<1>3. CASE k = 1
  BY <1>1, <1>3, Tens
<1>4. CASE k = 2
  BY <1>1, <1>4, Tens
<1>5. CASE k = 3
  BY <1>1, <1>5, Tens
<1>6. CASE k = 4
  BY <1>1, <1>6, Tens
<1>7. CASE k = 5
  BY <1>1, <1>7, Tens
<1>8. CASE k = 6
  BY <1>1, <1>8, Tens
<1>9. CASE k = 7
  BY <1>1, <1>9, Tens
<1>10. CASE k = 8
  BY <1>1, <1>10, Tens
<1> QED
  BY <1>2, <1>3, <1>4, <1>5, <1>6, <1>7, <1>8, <1>9, <1>10

\* What a number of at most eight digits is rounded to, to two figures or more.
Places10 == {10, 100, 1000, 10000, 100000, 1000000}

\* The multiple of p next to x, upwards of two.
Near(x, p) == ((2 * x + p) \div (2 * p)) * p

\* No multiple of p is nearer to x, nor as near and larger.
LEMMA Nearest ==
  ASSUME NEW p \in Places10, NEW x \in Nat, NEW w \in Nat, w % p = 0
  PROVE  /\ Near(x, p) \in Nat /\ Near(x, p) % p = 0
         /\ 2 * Near(x, p) <= 2 * x + p /\ 2 * x < 2 * Near(x, p) + p
         /\ Abs(w - x) <= Abs(Near(x, p) - x) =>
              Abs(w - x) = Abs(Near(x, p) - x) /\ w <= Near(x, p)
<1>1. CASE p = 10
  BY <1>1 DEF Near, Abs
<1>2. CASE p = 100
  BY <1>2 DEF Near, Abs
<1>3. CASE p = 1000
  BY <1>3 DEF Near, Abs
<1>4. CASE p = 10000
  BY <1>4 DEF Near, Abs
<1>5. CASE p = 100000
  BY <1>5 DEF Near, Abs
<1>6. CASE p = 1000000
  BY <1>6 DEF Near, Abs
<1> QED
  BY <1>1, <1>2, <1>3, <1>4, <1>5, <1>6 DEF Places10

\* A number's size has at most eight digits.
LEMMA NumbersAre ==
  ASSUME NEW x \in Numbers
  PROVE  x \in Int /\ Abs(x) \in Nat /\ Abs(x) < Ten(8) /\ Abs(x) = (IF x < 0 THEN -x ELSE x)
BY DEF Numbers, Abs, Ten

\* What a power of ten divides, the smaller ones divide.
LEMMA DividesDown ==
  ASSUME NEW w \in Int, NEW e \in 0..8, NEW k \in 0..e, Divides(Ten(e), w)
  PROVE  Divides(Ten(k), w) /\ Divides(Ten(k), Abs(w))
<1>1. /\ Divides(100000000, w) => Divides(10000000, w)
      /\ Divides(10000000, w) => Divides(1000000, w)
      /\ Divides(1000000, w) => Divides(100000, w)
      /\ Divides(100000, w) => Divides(10000, w)
  BY DEF Divides
<1>2. /\ Divides(10000, w) => Divides(1000, w)
      /\ Divides(1000, w) => Divides(100, w)
      /\ Divides(100, w) => Divides(10, w)
      /\ Divides(10, w) => Divides(1, w)
  BY DEF Divides
<1>3. Divides(Ten(k), w)
  BY <1>1, <1>2, Tens
<1>4. \A p \in {1, 10, 100, 1000, 10000, 100000, 1000000, 10000000, 100000000} :
         Divides(p, w) => Divides(p, Abs(w))
  BY DEF Divides, Abs
<1>5. Ten(k) \in {1, 10, 100, 1000, 10000, 100000, 1000000, 10000000, 100000000}
  BY Tens
<1> QED
  BY <1>3, <1>4, <1>5

\* Digits are as many as there are.
LEMMA DigitsAre ==
  ASSUME NEW x \in Numbers
  PROVE  /\ Digits(x) \in 1..8 /\ Abs(x) < Ten(Digits(x))
         /\ Digits(x) > 1 => Ten(Digits(x) - 1) <= Abs(x)
<1> DEFINE some == {d \in 1..9 : Abs(x) < 10^d}
<1>1. \A d \in 1..9 : d \in some <=> Abs(x) < Ten(d)
  BY DEF Ten
<1>2. some \in SUBSET Nat /\ Digits(x) = Min(some)
  BY DEF Digits
<1>3. \A d \in some : d \in 1..9
  OBVIOUS
<1> HIDE DEF some
<1>4. 8 \in some
  BY <1>1, NumbersAre
<1>5. Digits(x) \in some /\ \A d \in some : Digits(x) <= d
  BY <1>2, <1>4, MinOfSome
<1>6. Digits(x) \in 1..9 /\ Digits(x) <= 8
  BY <1>3, <1>4, <1>5
<1>7. Abs(x) < Ten(Digits(x))
  BY <1>1, <1>5, <1>6
<1>8. ASSUME Digits(x) > 1 PROVE Ten(Digits(x) - 1) <= Abs(x)
  <2>1. Digits(x) - 1 \in 1..9 /\ Digits(x) - 1 \notin some
    BY <1>5, <1>6, <1>8
  <2>2. Abs(x) \in Nat /\ Ten(Digits(x) - 1) \in Nat
    BY <2>1, NumbersAre, TensGrow
  <2> QED
    BY <1>1, <2>1, <2>2
<1> QED
  BY <1>6, <1>7, <1>8

\* A number of n figures, large enough, is a multiple of what is rounded to.
LEMMA WritableAre ==
  ASSUME NEW w \in Int, NEW n \in 2..9, NEW k \in 1..6, n + k <= 8, Writable(w, n),
         Ten(n + k - 1) <= Abs(w)
  PROVE  Divides(Ten(k), Abs(w))
<1>1. PICK e \in 0..8 : w % 10^e = 0 /\ Abs(w) \div 10^e < 10^n
  BY DEF Writable
<1>2. Divides(Ten(e), w) /\ Abs(w) \div Ten(e) < Ten(n)
  BY <1>1, Zenon DEF Divides, Ten
<1>3. CASE k <= e
  <2>1. k \in 0..e
    BY <1>3
  <2> QED
    BY <1>2, <2>1, DividesDown
<1>4. CASE e < k
  <2>1. Abs(w) \in Nat /\ Ten(n) \in Nat
    BY TensGrow DEF Abs
  <2>2. \A x, y \in Nat : \A p \in {1, 10, 100, 1000, 10000, 100000} : x \div p < y => x < y * p
    OBVIOUS
  <2>3. Ten(e) \in {1, 10, 100, 1000, 10000, 100000}
    BY <1>4, Tens
  <2>4. Abs(w) < Ten(n) * Ten(e)
    BY <1>2, <2>1, <2>2, <2>3
  <2>5. Ten(n) * Ten(e) = Ten(n + e)
    BY <1>4, TensAdd
  <2>6. Ten(n + e) <= Ten(n + k - 1) /\ Ten(n + e) \in Nat /\ Ten(n + k - 1) \in Nat
    BY <1>4, TensGrow
  <2> HIDE DEF Abs
  <2> QED
    BY <2>1, <2>4, <2>5, <2>6
<1> QED
  BY <1>3, <1>4

\* What RoundSig does: nothing to a number of few digits, and else what Near does.
LEMMA RoundSigIs ==
  ASSUME NEW x \in Numbers, NEW n \in 2..9
  PROVE  \/ RoundSig(x, n) = x /\ Abs(x) < Ten(n)
         \/ \E k \in 1..6 : /\ n + k <= 8 /\ Ten(n + k - 1) <= Abs(x) /\ Abs(x) < Ten(n + k)
                            /\ RoundSig(x, n) = IF x < 0 THEN -Near(Abs(x), Ten(k))
                                                ELSE Near(Abs(x), Ten(k))
<1> DEFINE d == Digits(x)
<1>1. d \in 1..8 /\ Abs(x) < Ten(d) /\ (d > 1 => Ten(d - 1) <= Abs(x))
  BY DigitsAre
<1>2. x \in Int /\ Abs(x) \in Nat /\ Abs(x) = (IF x < 0 THEN -x ELSE x)
  BY NumbersAre
<1>3. CASE d <= n
  <2>1. RoundSig(x, n) = LET size == ((2 * Abs(x) + 1) \div (2 * 1)) * 1 IN IF x < 0 THEN -size ELSE size
    BY <1>1, <1>3 DEF RoundSig
  <2>2. ((2 * Abs(x) + 1) \div (2 * 1)) * 1 = Abs(x)
    BY <1>2
  <2>3. Ten(d) <= Ten(n) /\ Ten(d) \in Nat /\ Ten(n) \in Nat
    BY <1>1, <1>3, TensGrow
  <2> HIDE DEF d
  <2>4. RoundSig(x, n) = x
    BY <1>2, <2>1, <2>2
  <2> QED
    BY <1>1, <1>2, <2>3, <2>4
<1>4. CASE d > n
  <2> DEFINE k == d - n
  <2>1. k \in 1..6 /\ n + k = d /\ n + k <= 8 /\ n + k - 1 = d - 1 /\ d > 1
    BY <1>1, <1>4
  <2>2. RoundSig(x, n) = IF x < 0 THEN -Near(Abs(x), Ten(k)) ELSE Near(Abs(x), Ten(k))
    BY <1>4, Zenon DEF RoundSig, Near, Ten
  <2> HIDE DEF d, k
  <2> QED
    BY <1>1, <2>1, <2>2
<1> QED
  BY <1>1, <1>3, <1>4

\* A number of n figures is not rounded to n.
LEMMA WritableStays ==
  ASSUME NEW v \in Numbers, NEW n \in 2..9, Writable(v, n)
  PROVE  RoundSig(v, n) = v
<1>1. v \in Int /\ Abs(v) \in Nat /\ Abs(v) = (IF v < 0 THEN -v ELSE v)
  BY NumbersAre
<1>2. ASSUME NEW k \in 1..6, n + k <= 8, Ten(n + k - 1) <= Abs(v)
      PROVE  Near(Abs(v), Ten(k)) = Abs(v)
  <2>1. Divides(Ten(k), Abs(v)) /\ Ten(k) \in Places10
    BY <1>1, <1>2, WritableAre, Tens DEF Places10
  <2>2. Abs(v) % Ten(k) = 0
    BY <2>1 DEF Divides
  <2> DEFINE x == Abs(v)
             p == Ten(k)
             s == Near(x, p)
  <2> HIDE DEF x, p, s
  <2>3. x \in Nat /\ p \in Places10 /\ x % p = 0
    BY <1>1, <2>1, <2>2 DEF x, p
  <2>4. s \in Nat /\ (Abs(x - x) <= Abs(s - x) => Abs(x - x) = Abs(s - x))
    BY <2>3, Nearest DEF s
  <2>5. s = x
    BY <2>3, <2>4 DEF Abs
  <2> QED
    BY <2>5 DEF s, x, p
<1>3. CASE RoundSig(v, n) = v
  BY <1>3
<1>4. CASE \E k \in 1..6 : /\ n + k <= 8 /\ Ten(n + k - 1) <= Abs(v)
                           /\ RoundSig(v, n) = IF v < 0 THEN -Near(Abs(v), Ten(k)) ELSE Near(Abs(v), Ten(k))
  <2>1. PICK k \in 1..6 : /\ n + k <= 8 /\ Ten(n + k - 1) <= Abs(v)
                          /\ RoundSig(v, n) = IF v < 0 THEN -Near(Abs(v), Ten(k)) ELSE Near(Abs(v), Ten(k))
    BY <1>4
  <2>2. Near(Abs(v), Ten(k)) = Abs(v)
    BY <1>2, <2>1
  <2> QED
    BY <1>1, <2>1, <2>2
<1> QED
  BY <1>3, <1>4, RoundSigIs

\* What is rounded to n figures can be written with them.
LEMMA RoundedIsWritable ==
  ASSUME NEW x \in Numbers, NEW n \in 2..9
  PROVE  RoundSig(x, n) \in Int /\ Writable(RoundSig(x, n), n)
<1>1. x \in Int /\ Abs(x) \in Nat /\ Abs(x) = (IF x < 0 THEN -x ELSE x)
  BY NumbersAre
<1>2. ASSUME NEW w \in Int, NEW e \in 0..8, Divides(Ten(e), w), Abs(w) \div Ten(e) < Ten(n)
      PROVE  Writable(w, n)
  <2>1. w % 10^e = 0 /\ Abs(w) \div 10^e < 10^n
    BY <1>2, Zenon DEF Divides, Ten
  <2> QED
    BY <2>1, Zenon DEF Writable
<1>3. CASE RoundSig(x, n) = x /\ Abs(x) < Ten(n)
  <2>1. Divides(Ten(0), x)
    BY <1>1, Tens DEF Divides
  <2>2. Abs(x) \div Ten(0) < Ten(n)
    BY <1>1, <1>3, Tens
  <2> QED
    BY <1>1, <1>2, <1>3, <2>1, <2>2
<1>4. ASSUME NEW k \in 1..6, n + k <= 8, Abs(x) < Ten(n + k)
      PROVE  LET s == Near(Abs(x), Ten(k)) IN
             /\ s \in Nat
             /\ \A r \in {s, -s} : Writable(r, n)
  <2> DEFINE s == Near(Abs(x), Ten(k))
             p == Ten(k)
             q == Ten(n + k)
             t == Ten(n)
  <2>1. p \in Places10 /\ q = t * p /\ t \in Nat /\ q \in Nat /\ Abs(x) < q
    <3>1. n \in 0..8 /\ k \in 0..8 /\ n + k \in 0..9 /\ n + k <= 8
      BY <1>4
    <3>2. p \in Places10
      BY Tens DEF Places10
    <3>3. Ten(n) * Ten(k) = Ten(n + k)
      BY <3>1, TensAdd
    <3>4. t \in Nat /\ q \in Nat
      BY <3>1, TensGrow
    <3> QED
      BY <1>4, <3>2, <3>3, <3>4
  <2>2. 0 % p = 0
    BY <2>1 DEF Places10
  <2>3. s \in Nat /\ s % p = 0 /\ 2 * s <= 2 * Abs(x) + p
    <3> HIDE DEF p
    <3>1. 0 \in Nat
      OBVIOUS
    <3> QED
      BY <1>1, <2>1, <2>2, <3>1, Nearest DEF p
  <2> HIDE DEF s, p, q, t
  <2>4. s <= q
    <3>1. ASSUME NEW m \in {10, 100, 1000, 10000, 100000, 1000000}, m = p PROVE s <= q
      BY <1>1, <2>1, <2>3, <3>1
    <3> QED
      BY <2>1, <3>1 DEF Places10
  <2>5. \A r \in {s, -s} : r \in Int /\ Abs(r) = s
    BY <2>3 DEF Abs
  <2>6. CASE s < q
    <3>1. s \div p < t
      BY <2>1, <2>3, <2>6 DEF Places10
    <3>2. \A r \in {s, -s} : Divides(p, r)
      BY <2>1, <2>3 DEF Places10, Divides
    <3>3. k \in 0..8
      OBVIOUS
    <3> QED
      BY <1>2, <2>3, <2>5, <3>1, <3>2, <3>3 DEF p, t, s
  <2>7. CASE s = q
    <3> DEFINE l == Ten(k + 1)
    <3>1. l = 10 * p /\ k + 1 \in 0..8
      BY TensGrow DEF p
    <3>2. t = 10 * Ten(n - 1) /\ Ten(n - 1) \in Nat \ {0}
      BY <1>4, TensGrow DEF t
    <3> HIDE DEF l
    <3>3. s = Ten(n - 1) * l /\ l \in {100, 1000, 10000, 100000, 1000000, 10000000}
      BY <2>1, <2>7, <3>1, <3>2 DEF Places10
    <3>4. s \div l = Ten(n - 1) /\ \A r \in {s, -s} : Divides(l, r)
      BY <2>3, <3>2, <3>3 DEF Divides
    <3>5. s \div l < t
      BY <3>2, <3>4
    <3> QED
      BY <1>2, <2>3, <2>5, <3>1, <3>4, <3>5 DEF l, t, s
  <2> QED
    BY <2>1, <2>3, <2>4, <2>6, <2>7 DEF s
<1>5. CASE \E k \in 1..6 : /\ n + k <= 8 /\ Abs(x) < Ten(n + k)
                           /\ RoundSig(x, n) = IF x < 0 THEN -Near(Abs(x), Ten(k)) ELSE Near(Abs(x), Ten(k))
  <2>1. PICK k \in 1..6 : /\ n + k <= 8 /\ Abs(x) < Ten(n + k)
                          /\ RoundSig(x, n) = IF x < 0 THEN -Near(Abs(x), Ten(k)) ELSE Near(Abs(x), Ten(k))
    BY <1>5
  <2> QED
    BY <1>4, <2>1
<1> QED
  BY <1>3, <1>5, RoundSigIs

\* Nothing with n figures is closer than what is rounded to them, nor as close
\* and larger.
LEMMA RoundedIsNearest ==
  ASSUME NEW x \in Numbers, x # 0, NEW n \in 2..9, NEW w \in Int, Writable(w, n),
         Abs(w - x) <= Abs(RoundSig(x, n) - x)
  PROVE  Abs(w - x) = Abs(RoundSig(x, n) - x) /\ Abs(w) <= Abs(RoundSig(x, n))
<1>1. x \in Int /\ Abs(x) \in Nat /\ Abs(x) = (IF x < 0 THEN -x ELSE x)
  BY NumbersAre
<1>2. CASE RoundSig(x, n) = x
  BY <1>1, <1>2 DEF Abs
<1>3. CASE \E k \in 1..6 : /\ n + k <= 8 /\ Ten(n + k - 1) <= Abs(x)
                           /\ RoundSig(x, n) = IF x < 0 THEN -Near(Abs(x), Ten(k)) ELSE Near(Abs(x), Ten(k))
  <2>1. PICK k \in 1..6 : /\ n + k <= 8 /\ Ten(n + k - 1) <= Abs(x)
                          /\ RoundSig(x, n) = IF x < 0 THEN -Near(Abs(x), Ten(k)) ELSE Near(Abs(x), Ten(k))
    BY <1>3
  <2> DEFINE p == Ten(k)
             q == Ten(n + k - 1)
             size == Abs(x)
             s == Near(size, p)
             r == RoundSig(x, n)
             v == Abs(w)
  <2>2. p \in Places10 /\ n + k - 1 \in k..8 /\ q \in Nat /\ size \in Nat /\ q <= size
    BY <1>1, <2>1, Tens, TensGrow DEF Places10
  <2>3. 10 * p <= q
    <3>1. Ten(k + 1) = 10 * p /\ Ten(k + 1) <= q
      BY <2>1, TensGrow
    <3> QED
      BY <3>1
  <2>4. q % p = 0
    <3>1. Ten(n - 1) * p = q /\ Ten(n - 1) \in Nat
      <4>1. n - 1 \in 0..8 /\ k \in 0..8 /\ (n - 1) + k = n + k - 1 /\ (n - 1) + k <= 8
        BY <2>1
      <4>2. Ten(n - 1) * Ten(k) = Ten((n - 1) + k)
        BY <4>1, TensAdd
      <4>3. Ten(n - 1) \in Nat
        BY <4>1, TensGrow
      <4> QED
        BY <4>1, <4>2, <4>3
    <3> HIDE DEF p, q
    <3> QED
      BY <2>2, <3>1 DEF Places10
  <2> HIDE DEF p, q, size
  <2>5. /\ s \in Nat /\ 2 * s <= 2 * size + p /\ 2 * size < 2 * s + p
        /\ Abs(q - size) <= Abs(s - size) => Abs(q - size) = Abs(s - size)
    BY <2>2, <2>4, Nearest
  <2>6. v \in Nat /\ (v % p = 0 => (Abs(v - size) <= Abs(s - size) =>
                                      Abs(v - size) = Abs(s - size) /\ v <= s))
    <3>1. v \in Nat
      BY DEF Abs
    <3> HIDE DEF v
    <3> QED
      BY <2>2, <3>1, Nearest
  <2>7. q <= v => v % p = 0
    BY <2>1, WritableAre DEF p, q, Divides
  <2>8. p \in Nat
    BY <2>2 DEF Places10
  <2> HIDE DEF s
  <2>9. r = (IF x < 0 THEN -s ELSE s) /\ size = (IF x < 0 THEN -x ELSE x) /\ v = (IF w < 0 THEN -w ELSE w)
    BY <1>1, <2>1 DEF s, p, size, Abs
  <2> HIDE DEF r, v
  <2>10. Abs(w - x) <= Abs(r - x)
    BY DEF r
  <2>11. Abs(r - x) = Abs(s - size) /\ Abs(r) = s
    BY <1>1, <2>2, <2>5, <2>9 DEF Abs
  <2>12. 2 * Abs(s - size) <= p
    BY <2>2, <2>5, <2>8 DEF Abs
  <2>13. Abs(w - x) = Abs(v - size)
    BY <1>1, <2>2, <2>3, <2>5, <2>8, <2>9, <2>10, <2>11, <2>12 DEF Abs
  <2>14. q <= v
    BY <2>2, <2>5, <2>6, <2>10, <2>11, <2>13 DEF Abs
  <2> QED
    BY <2>6, <2>7, <2>10, <2>11, <2>13, <2>14 DEF r, v
<1> QED
  BY <1>2, <1>3, RoundSigIs

\* So a number matches the key just when it is the key, or the key fairly
\* rounded to the figures it is written with.
LEMMA MatchesFairly ==
  ASSUME NEW v \in Numbers, NEW key \in Numbers, NEW figs \in 0..9, figs >= 2 => Writable(v, figs)
  PROVE  NumberMatches(v, figs, key) <=> v = key \/ (figs >= 2 /\ FairlyRounded(v, figs, key))
<1>1. v \in Int /\ key \in Int
  BY NumbersAre
<1>2. CASE v = key \/ figs < 2
  BY <1>2 DEF NumberMatches
<1>3. CASE v # key /\ figs >= 2 /\ key = 0
  <2>1. Writable(0, figs)
    <3>1. 0 % 10^0 = 0 /\ Abs(0) \div 10^0 < Ten(figs)
      BY TensGrow DEF Abs
    <3> QED
      BY <3>1 DEF Writable, Ten
  <2>2. 0 \in (key - Abs(v - key))..(key + Abs(v - key)) /\ Abs(0 - key) # Abs(v - key)
    BY <1>1, <1>3 DEF Abs
  <2>3. ~FairlyRounded(v, figs, key)
    BY <2>1, <2>2 DEF FairlyRounded
  <2> QED
    BY <1>3, <2>3 DEF NumberMatches
<1>4. CASE v # key /\ figs >= 2 /\ key # 0
  <2> DEFINE r == RoundSig(key, figs)
             off == Abs(v - key)
  <2>1. figs \in 2..9 /\ Writable(v, figs) /\ RoundSig(v, figs) = v
    BY <1>4, WritableStays
  <2>2. r \in Int /\ Writable(r, figs)
    BY <2>1, RoundedIsWritable
  <2>3. \A w \in Int : Writable(w, figs) /\ Abs(w - key) <= Abs(r - key) =>
           Abs(w - key) = Abs(r - key) /\ Abs(w) <= Abs(r)
    BY <1>4, <2>1, RoundedIsNearest
  <2> HIDE DEF r
  <2>4. ASSUME v = r PROVE FairlyRounded(v, figs, key)
    <3> SUFFICES ASSUME NEW w \in (key - off)..(key + off), Writable(w, figs)
                 PROVE  Abs(w - key) = off /\ Abs(w) <= Abs(v)
      BY DEF FairlyRounded
    <3>1. w \in Int /\ Abs(w - key) <= Abs(r - key)
      BY <1>1, <2>4 DEF Abs
    <3> QED
      BY <2>3, <2>4, <3>1
  <2>5. ASSUME FairlyRounded(v, figs, key) PROVE v = r
    <3>1. Abs(r - key) <= off => Abs(r - key) = off /\ Abs(r) <= Abs(v)
      <4>1. Abs(r - key) <= off => r \in (key - off)..(key + off)
        BY <1>1, <2>2 DEF Abs
      <4> QED
        BY <2>2, <2>5, <4>1 DEF FairlyRounded
    <3>2. off <= Abs(r - key) => off = Abs(r - key) /\ Abs(v) <= Abs(r)
      BY <1>1, <2>1, <2>3
    <3> QED
      BY <1>1, <1>4, <2>2, <3>1, <3>2 DEF Abs
  <2>6. NumberMatches(v, figs, key) <=> v = r
    BY <1>4, <2>1 DEF NumberMatches, r
  <2> QED
    BY <1>4, <2>4, <2>5, <2>6
<1> QED
  BY <1>2, <1>3, <1>4
-----------------------------------------------------------------------------
(* What is told of numbers *)

\* A value, as a fraction of the unit.
Fraction(v) == v[1] \in Int /\ v[2] \in Nat \ {0}

\* What the code compares with is such a value, and so are its multiples and parts.
LEMMA ValuesAreFractions ==
  ASSUME One \in Nat \ {0}, NEW pool \in SUBSET Int
  PROVE  \A v \in Values(pool) \union Inverses(pool) : Fraction(v)
<1>1. ASSUME NEW o \in pool PROVE Fraction(<<o, 1>>)
  BY DEF Fraction
<1>2. ASSUME NEW o \in pool \ {0}
      PROVE  Fraction(<<IF o < 0 THEN -(One * One) ELSE One * One, Abs(o)>>)
  <2>1. One * One \in Int /\ -(One * One) \in Int /\ Abs(o) \in Nat \ {0}
    BY DEF Abs
  <2> QED
    BY <2>1 DEF Fraction
<1> QED
  BY <1>1, <1>2 DEF Values, Inverses

\* Restated in another unit, a value is still a fraction.
LEMMA MultiplesAreFractions ==
  ASSUME NEW v, Fraction(v), NEW k \in Nat \ {0}
  PROVE  Fraction(Times(k, v)) /\ Fraction(Over(k, v))
<1>1. PICK p \in Int, q \in Nat \ {0} : p = v[1] /\ q = v[2]
  BY DEF Fraction
<1>2. k * p \in Int /\ k * q \in Nat \ {0}
  OBVIOUS
<1> QED
  BY <1>1, <1>2 DEF Fraction, Times, Over

\* A number is within half its last decimal of a value just when no number
\* with that decimal is closer.
Within(s, a, u, q) == 2 * Abs(s - a * q) <= u * q

Closest(s, a, u, q) ==
  IF u = 0 THEN Abs(s - a * q) = 0
  ELSE \A m \in {a - u, a + u} : Abs(s - a * q) <= Abs(s - m * q)

\* Within half a unit is as close as the neighbours.
LEMMA HalfAUnit ==
  ASSUME NEW s \in Nat, NEW a \in Nat, NEW u \in Nat, NEW q \in Nat \ {0}
  PROVE  Within(s, a, u, q) <=> Closest(s, a, u, q)
<1> DEFINE x == s - a * q
           w == u * q
<1>1. x \in Int /\ w \in Nat /\ (u = 0 <=> w = 0)
  OBVIOUS
<1>2. s - (a - u) * q = x + w /\ s - (a + u) * q = x - w
  OBVIOUS
<1> HIDE DEF x, w
<1>3. w # 0 => (2 * Abs(x) <= w <=> Abs(x) <= Abs(x + w) /\ Abs(x) <= Abs(x - w))
  <2>1. CASE x >= 0
    BY <1>1, <2>1 DEF Abs
  <2>2. CASE x < 0
    BY <1>1, <2>2 DEF Abs
  <2> QED
    BY <1>1, <2>1, <2>2
<1>4. w = 0 => (2 * Abs(x) <= w <=> Abs(x) = 0)
  BY <1>1 DEF Abs
<1>5. (\A m \in {a - u, a + u} : Abs(x) <= Abs(s - m * q)) <=>
        Abs(x) <= Abs(x + w) /\ Abs(x) <= Abs(x - w)
  <2> DEFINE far(m) == Abs(x) <= Abs(s - m * q)
  <2>1. far(a - u) <=> Abs(x) <= Abs(x + w)
    BY <1>2
  <2>2. far(a + u) <=> Abs(x) <= Abs(x - w)
    BY <1>2
  <2> HIDE DEF far
  <2>3. (\A m \in {a - u, a + u} : far(m)) <=> far(a - u) /\ far(a + u)
    OBVIOUS
  <2> QED
    BY <2>1, <2>2, <2>3 DEF far
<1>6. 2 * Abs(x) <= w <=> IF u = 0 THEN Abs(x) = 0
                          ELSE \A m \in {a - u, a + u} : Abs(x) <= Abs(s - m * q)
  BY <1>1, <1>3, <1>4, <1>5
<1> QED
  BY <1>6 DEF x, w, Within, Closest

\* So what a value rounds to states it, and nothing else does.
LEMMA RoundedIsStated ==
  ASSUME NEW n, n.value \in Int, n.unit \in Nat, NEW v, Fraction(v)
  PROVE  RoundsTo(v, n) <=> Stated(n, v)
<1>1. PICK s \in Nat, a \in Nat, u \in Nat, q \in Nat \ {0} :
        s = Abs(v[1]) /\ a = Abs(n.value) /\ u = n.unit /\ q = v[2]
  BY DEF Fraction, Abs
<1>2. RoundsTo(v, n) <=> Within(s, a, u, q)
  BY <1>1 DEF RoundsTo, Off, Within
<1>3. Stated(n, v) <=> Closest(s, a, u, q)
  <2>1. \A m : Off(m, v) = Abs(s - m * q)
    BY <1>1 DEF Off
  <2>2. Stated(n, v) <=> IF u = 0 THEN Off(a, v) = 0
                         ELSE \A m \in {a - u, a + u} : Off(a, v) <= Off(m, v)
    BY <1>1 DEF Stated
  <2> QED
    BY <2>1, <2>2 DEF Closest
<1> QED
  BY <1>2, <1>3, HalfAUnit

\* So what the code compares a number with is what it tells a reader.
LEMMA ComparedIsTold ==
  ASSUME One \in Nat \ {0}, SI \subseteq Nat \ {0},
         NEW n, n.value \in Int, n.unit \in Nat, NEW pool \in SUBSET Int
  PROVE  Compared(n, pool) <=> \E o \in pool : Told(n, o)
<1> DEFINE Matched(v) ==
             /\ ~(n.value < 0 /\ v[1] > 0)
             /\ \/ RoundsTo(v, n) \/ RoundsTo(Times(100, v), n)
                \/ \E k \in SI : \E w \in {Times(k, v), Over(k, v)} :
                      RoundsTo(w, n) /\ Close(w, Abs(n.value))
                \/ RoundFigure(v, Abs(n.value))
           Tells(v) ==
             /\ n.value >= 0 \/ v[1] <= 0
             /\ \/ Stated(n, v) \/ Stated(n, Times(100, v))
                \/ \E k \in SI : \E w \in {Times(k, v), Over(k, v)} :
                      Stated(n, w) /\ Close(w, Abs(n.value))
                \/ RoundFigure(v, Abs(n.value))
           Of(s) == Values(s) \union IF n.exact THEN Inverses(s) ELSE {}
<1>1. ASSUME NEW v \in Of(pool) PROVE Matched(v) <=> Tells(v)
  <2>1. Fraction(v)
    <3> v \in Values(pool) \union Inverses(pool)
      OBVIOUS
    <3> QED
      BY ValuesAreFractions
  <2>2. ~(n.value < 0 /\ v[1] > 0) <=> n.value >= 0 \/ v[1] <= 0
    BY <2>1 DEF Fraction
  <2>3. \A w : Fraction(w) => (RoundsTo(w, n) <=> Stated(n, w))
    BY RoundedIsStated
  <2>4. Fraction(Times(100, v))
    <3>1. 100 \in Nat \ {0}
      OBVIOUS
    <3> QED
      BY <2>1, <3>1, MultiplesAreFractions
  <2>5. \A k \in SI : Fraction(Times(k, v)) /\ Fraction(Over(k, v))
    BY <2>1, MultiplesAreFractions
  <2> QED
    BY <2>1, <2>2, <2>3, <2>4, <2>5
<1>2. Compared(n, pool) <=> \E v \in Of(pool) : Matched(v)
  BY DEF Compared, Matches
<1>3. \A o : Told(n, o) <=> \E v \in Of({o}) : Tells(v)
  BY DEF Told
<1>4. \A v : v \in Of(pool) <=> \E o \in pool : v \in Of({o})
  BY DEF Values, Inverses
<1> HIDE DEF Matched, Tells, Of
<1> QED
  BY <1>1, <1>2, <1>3, <1>4

\* What a cut leaves is numbers.
LEMMA ScrapsAreNumbers ==
  ASSUME ChecksAssumption
  PROVE  Scraps \subseteq Int
BY DEF ChecksAssumption, Scraps

-----------------------------------------------------------------------------
(* Verdicts and grades *)

\* What was said of a reply is still what would be said: nothing is looked up and
\* nothing runs after it.
VerdictStands ==
  \A v \in verdict :
    /\ turn = "replied" /\ v.reply \in Replies
    /\ v.quote = QuoteVerdict(v.reply.quotation)
    /\ v.number = NumberVerdict(v.reply.number)

GradeStands ==
  \A g \in grade :
    /\ g.problem \in Problems /\ g.given \in Answers
    /\ g.problem.kind \in {"choice", "number"}
    /\ g.right = Graded(g.problem, g.given)

\* Every step leaves the verdict as it was given, ...
LEMMA VerdictKept ==
  ASSUME Typed, VerdictStands, [Next]_vars
  PROVE  VerdictStands'
<1>1. CASE Reply
  <2>1. turn' = "replied" /\ UNCHANGED <<seen, outputs>>
    BY <1>1 DEF Reply
  <2>2. PICK r \in Replies :
          verdict' = {[reply |-> r, quote |-> QuoteVerdict(r.quotation),
                       number |-> NumberVerdict(r.number)]}
    BY <1>1 DEF Reply
  <2>3. \A q : QuoteVerdict(q)' = QuoteVerdict(q)
    BY <2>1 DEF QuoteVerdict, Find
  <2>4. \A m : NumberVerdict(m)' = NumberVerdict(m)
    BY <2>1 DEF NumberVerdict, Claim, Working
  <2> QED
    BY <2>1, <2>2, <2>3, <2>4 DEF VerdictStands
<1>2. CASE ~Reply /\ verdict = {}
  <2>1. verdict' = verdict
    BY <1>2 DEF Next, SearchDocument, ReadDocument, SearchWeb, ReadPage, Returns, CallFails, AddProblem,
                RunPython, Write, Exit, Process, Finish, TimeOut, Deliver, Stop, Answer, Rest, vars
  <2> QED
    BY <1>2, <2>1 DEF VerdictStands
<1>3. CASE ~Reply /\ verdict # {}
  <2>1. turn = "replied" /\ program.state = "none"
    BY <1>3 DEF VerdictStands, Typed, ProgramTyped
  <2>2. Answer \/ Rest \/ UNCHANGED vars
    BY <1>3, <2>1 DEF Next, CanCall, SearchDocument, ReadDocument, SearchWeb, ReadPage, CallFails,
                      AddProblem, RunPython, Write, Exit, Finish, TimeOut, Stop
  <2>3. UNCHANGED <<turn, seen, outputs, verdict>>
    BY <2>2 DEF Answer, Rest, vars
  <2>4. \A q : QuoteVerdict(q)' = QuoteVerdict(q)
    BY <2>3 DEF QuoteVerdict, Find
  <2>5. \A m : NumberVerdict(m)' = NumberVerdict(m)
    BY <2>3 DEF NumberVerdict, Claim, Working
  <2> QED
    BY <2>3, <2>4, <2>5 DEF VerdictStands
<1> QED
  BY <1>1, <1>2, <1>3

\* ... and a grade as the answer deserved.
LEMMA GradeKept ==
  ASSUME Typed, GradeStands, ChecksAssumption, [Next]_vars
  PROVE  GradeStands'
<1>1. CASE Answer
  <2>1. PICK i \in 1..Len(set), g \in Answers :
          /\ set[i].problem.kind = "choice" \/ (set[i].problem.kind = "number" /\ g.number # {})
          /\ grade' = {[problem |-> set[i].problem, given |-> g, right |-> Graded(set[i].problem, g)]}
    BY <1>1 DEF Answer
  <2>2. set[i].problem \in Problems
    <3>1. set \in Seq(Rows)
      BY DEF Typed, SetTyped
    <3>2. set[i] \in Rows
      BY <3>1
    <3> QED
      BY <3>2 DEF Rows
  <2> QED
    BY <2>1, <2>2 DEF GradeStands
<1>2. CASE ~Answer
  <2>1. grade' = grade
    BY <1>2 DEF Next, SearchDocument, ReadDocument, SearchWeb, ReadPage, Returns, CallFails, AddProblem,
                RunPython, Write, Exit, Process, Finish, TimeOut, Deliver, Stop, Reply, Rest, vars
  <2> QED
    BY <2>1 DEF GradeStands
<1> QED
  BY <1>1, <1>2

\* A quotation stands where JudgedFairly looks for it.
Standing(frags) ==
  \/ \E d \in Docs : IF d.paged THEN Laid(frags, d.pages) ELSE Placed(frags, Whole(d))
  \/ \E text \in seen \union Said : Placed(frags, text)

\* What stands on a page is laid out on it.
LEMMA PageIsLaid ==
  ASSUME NEW pages, NEW p \in 1..Len(pages), NEW frags, Placed(frags, pages[p])
  PROVE  Laid(frags, pages)
<1> DEFINE c == Len(frags)
<1>1. PICK at \in [1..c -> 1..Len(pages[p])] :
        /\ \A i \in 1..c : at[i] \in Places(frags[i], pages[p], 1)
        /\ \A i \in 2..c : at[i] >= at[i - 1] + Len(frags[i - 1])
  BY DEF Placed
<1> DEFINE spot == [i \in 1..c |-> <<p, at[i]>>]
<1> HIDE DEF c
<1>2. \A i \in 1..c : spot[i] = <<p, at[i]>> /\ spot[i][1] = p /\ spot[i][2] = at[i]
  OBVIOUS
<1>3. \A i \in 1..c : spot[i] \in Spots(frags[i], pages)
  BY <1>1, <1>2 DEF Spots
<1>4. spot \in [1..c -> UNION {Spots(frags[i], pages) : i \in 1..c}]
  <2>1. \A i \in 1..c : spot[i] \in UNION {Spots(frags[j], pages) : j \in 1..c}
    BY <1>3
  <2>2. spot = [i \in 1..c |-> spot[i]]
    OBVIOUS
  <2> HIDE DEF spot
  <2> QED
    BY <2>1, <2>2
<1>5. \A i \in 2..c : spot[i - 1][1] = spot[i][1] /\ spot[i][2] >= spot[i - 1][2] + Len(frags[i - 1])
  <2> SUFFICES ASSUME NEW i \in 2..c
               PROVE  spot[i - 1][1] = spot[i][1] /\ spot[i][2] >= spot[i - 1][2] + Len(frags[i - 1])
    OBVIOUS
  <2>1. i \in 1..c /\ i - 1 \in 1..c
    BY DEF c
  <2>2. at[i] >= at[i - 1] + Len(frags[i - 1])
    BY <1>1
  <2> HIDE DEF spot
  <2> QED
    BY <1>2, <2>1, <2>2
<1> HIDE DEF spot
<1> QED
  BY <1>3, <1>4, <1>5 DEF Laid, c

\* What stands in the materials or elsewhere stands there, if none of its words
\* is the server's own.
LEMMA StandingIsPlaced ==
  ASSUME ChecksAssumption, NEW frags \in Fragments,
         \A i \in 1..Len(frags) : Aside \notin Range(frags[i])
  PROVE  Standing(frags) <=> \E text \in Materials \union seen \union Said : Placed(frags, text)
<1>1. ASSUME NEW d \in Docs
      PROVE  (IF d.paged THEN Laid(frags, d.pages) ELSE Placed(frags, Whole(d))) <=>
               \E text \in Texts(d) : Placed(frags, text)
  <2>1. d.paged \in BOOLEAN /\ DOMAIN d.pages = 1..Len(d.pages)
    BY DEF ChecksAssumption
  <2>2. CASE d.paged
    <3>1. Placed(frags, Whole(d)) <=> Laid(frags, d.pages)
      BY <2>2, PlacedIsLaid
    <3>2. \A text \in Range(d.pages) : Placed(frags, text) => Laid(frags, d.pages)
      BY <2>1, PageIsLaid DEF Range
    <3> QED
      BY <2>2, <3>1, <3>2 DEF Texts
  <2>3. CASE ~d.paged
    BY <2>3 DEF Texts
  <2> QED
    BY <2>1, <2>2, <2>3
<1> QED
  BY <1>1 DEF Standing, Materials

\* What JudgedFairly says of the verdict on a quotation.
FairQuote(q, said) ==
  LET pages == UNION {{p \in 1..Len(d.pages) : d.paged /\ Placed(q.frags, d.pages[p])} : d \in Docs}
  IN  /\ (\A i \in 1..Len(q.frags) : Aside \notin Range(q.frags[i])) =>
            /\ said = "missing" => ~Standing(q.frags)
            /\ said \in {"found", "wrong_page"} => Standing(q.frags)
      /\ said = "wrong_page" <=> /\ said # "none"
                                 /\ q.page # 0 /\ pages # {}
                                 /\ q.page \notin pages

\* The verdict on a quotation is what its words say.
LEMMA QuoteJudged ==
  ASSUME ChecksAssumption, seen \subseteq Seq(Words), NEW q, q.frags \in Fragments,
         NEW verdictOnIt, verdictOnIt = QuoteVerdict(q)
  PROVE  FairQuote(q, verdictOnIt)
<1> DEFINE there == \E text \in Materials \union seen \union Said : Placed(q.frags, text)
           pages == UNION {{p \in 1..Len(d.pages) : d.paged /\ Placed(q.frags, d.pages[p])}
                           : d \in Docs}
           said == \E text \in Said : In(q.frags, text)
           apart == \A i \in 1..Len(q.frags) : Aside \notin Range(q.frags[i])
<1>1. Quoted(q) => q.frags # <<>>
  <2>1. ASSUME q.frags = <<>> PROVE ~Quoted(q)
    <3>1. FlattenSeq(<<>>) = <<>>
      BY DEF FlattenSeq
    <3>2. Len(<<>>) = 0 /\ MinWords \in Nat /\ MinWords > 0
      BY DEF ChecksAssumption
    <3> QED
      BY <2>1, <3>1, <3>2 DEF Quoted
  <2> QED
    BY <2>1
<1>2. pages = PagesWith(q.frags)
  <2>1. \A d \in Docs : PagesOf(q.frags, d) = {p \in 1..Len(d.pages) : d.paged /\ Placed(q.frags, d.pages[p])}
    BY PagesArePlaced
  <2> QED
    BY <2>1 DEF PagesWith
<1>3. said <=> \E text \in Said : Placed(q.frags, text)
  BY InIsPlaced DEF ChecksAssumption
<1>4. Quoted(q) => (there <=> Find(q.frags) \/ said)
  BY <1>1, <1>3, FoundIsPlaced
<1>5. pages # {} => there
  <2>1. ASSUME NEW d \in Docs, NEW p \in 1..Len(d.pages), d.paged, Placed(q.frags, d.pages[p]) PROVE there
    <3>1. d.pages[p] \in Texts(d)
      BY <2>1 DEF Texts, Range, ChecksAssumption
    <3> QED
      BY <2>1, <3>1 DEF Materials
  <2> QED
    BY <2>1
<1>6. apart => (Standing(q.frags) <=> there)
  BY StandingIsPlaced
<1> HIDE DEF there, pages, said, apart
<1>7. verdictOnIt = IF ~Quoted(q) \/ (Docs = {} /\ seen = {}) THEN "none"
                    ELSE IF ~Find(q.frags) /\ ~said THEN "missing"
                    ELSE IF q.page # 0 /\ pages # {} /\ q.page \notin pages THEN "wrong_page"
                    ELSE "found"
  BY <1>2 DEF QuoteVerdict, said
<1>8. /\ apart => /\ verdictOnIt = "missing" => ~Standing(q.frags)
                  /\ verdictOnIt \in {"found", "wrong_page"} => Standing(q.frags)
      /\ verdictOnIt = "wrong_page" <=> /\ verdictOnIt # "none"
                                        /\ q.page # 0 /\ pages # {}
                                        /\ q.page \notin pages
  BY <1>4, <1>5, <1>6, <1>7
<1> QED
  BY <1>8 DEF pages, apart, FairQuote

\* The verdict on a number is what was printed, or left at a cut, or not.
LEMMA NumberJudged ==
  ASSUME ChecksAssumption, Typed, turn = "replied", NEW r \in Replies, NEW n, n = r.number
  PROVE  /\ NumberVerdict(n) = "matched" =>
               \E o \in printed \union (IF whole THEN {} ELSE Scraps) : Told(n, o)
         /\ NumberVerdict(n) = "unmatched" => ~whole \/ ~\E o \in printed : Told(n, o)
<1> DEFINE pool == UNION outputs
<1>1. /\ printed \subseteq Prints /\ whole \in BOOLEAN
      /\ pool \subseteq printed \union (IF whole THEN {} ELSE Scraps)
      /\ whole => printed \subseteq pool
  <2>1. OutputsTyped /\ program.printed = <<>>
    BY DEF Typed, ProgramTyped, NoProgram
  <2>2. Range(program.printed) = {}
    BY <2>1 DEF Range
  <2> QED
    BY <2>1, <2>2 DEF OutputsTyped
<1>2. pool \subseteq Int
  BY <1>1, ScrapsAreNumbers DEF ChecksAssumption
<1>3. Compared(n, pool) <=> \E o \in pool : Told(n, o)
  <2>1. n.value \in Int /\ n.unit \in Nat
    BY DEF ChecksAssumption
  <2> HIDE DEF pool
  <2> QED
    BY <1>2, <2>1, ComparedIsTold DEF ChecksAssumption
<1>4. /\ NumberVerdict(n) = "matched" => Compared(n, pool)
      /\ NumberVerdict(n) = "unmatched" => ~Compared(n, pool)
  <2>1. /\ Claim(n) = "matched" => Compared(n, pool)
        /\ Claim(n) = "unmatched" => ~Compared(n, pool)
    BY DEF Claim
  <2> QED
    BY <2>1 DEF NumberVerdict
<1> HIDE DEF pool
<1> QED
  BY <1>1, <1>3, <1>4

\* And so is the grade what the answer is.
LEMMA GradeJudged ==
  ASSUME ChecksAssumption, NumbersAssumption, NEW a \in Problems, NEW given \in Answers,
         a.kind \in {"choice", "number"}
  PROVE  Graded(a, given) <=>
           IF a.kind = "choice" THEN given.text = Right(a).text
           ELSE \E v \in given.number, key \in Key(a) :
                   v = key \/ (given.figs >= 2 /\ FairlyRounded(v, given.figs, key))
<1>1. CASE a.kind = "choice"
  BY <1>1 DEF Graded
<1>2. CASE a.kind = "number"
  <2>1. Key(a) \subseteq Numbers
    BY <1>2 DEF Key, Right, NumbersAssumption
  <2>2. /\ given.number \subseteq Numbers /\ given.figs \in 0..9
        /\ \A v \in given.number : given.figs >= 2 => Writable(v, given.figs)
    BY DEF NumbersAssumption
  <2>3. \A v \in given.number, key \in Key(a) :
           NumberMatches(v, given.figs, key) <=>
             v = key \/ (given.figs >= 2 /\ FairlyRounded(v, given.figs, key))
    BY <2>1, <2>2, MatchesFairly
  <2> QED
    BY <1>2, <2>3 DEF Graded
<1> QED
  BY <1>1, <1>2

\* What reader and student are told is what is so (quotes.check, verify.check,
\* practice.answer).  A quotation is missing just when it can be laid out in
\* nothing the model could read; a number is called computed only if a program
\* printed what it tells, or a cut output left it behind, and flagged only if
\* none did, or an output was cut; an answer is right just when it is the key,
\* fairly rounded.
THEOREM Judged == Spec => []JudgedFairly
<1> DEFINE Stands == VerdictStands /\ GradeStands
<1>1. Init => Stands
  BY DEF Init, VerdictStands, GradeStands
<1>2. Typed /\ Stands /\ [Next]_vars => Stands'
  BY ChecksAssumption, VerdictKept, GradeKept
<1>3. ASSUME Typed, Stands PROVE JudgedFairly
  <2>1. ASSUME NEW v \in verdict
        PROVE  FairQuote(v.reply.quotation, v.quote)
    <3>1. /\ v.quote = QuoteVerdict(v.reply.quotation) /\ v.reply.quotation.frags \in Fragments
          /\ seen \subseteq Seq(Words)
      BY <1>3, ChecksAssumption DEF VerdictStands, ChecksAssumption, Fragments, Typed, TextsTyped
    <3> QED
      BY <3>1, ChecksAssumption, QuoteJudged
  <2>2. ASSUME NEW v \in verdict
        PROVE  /\ v.number = "matched" =>
                    \E o \in printed \union (IF whole THEN {} ELSE Scraps) : Told(v.reply.number, o)
               /\ v.number = "unmatched" => ~whole \/ ~\E o \in printed : Told(v.reply.number, o)
    BY <1>3, ChecksAssumption, NumberJudged DEF VerdictStands
  <2>3. ASSUME NEW g \in grade
        PROVE  LET given == g.given
               IN  g.right <=>
                     IF g.problem.kind = "choice" THEN given.text = Right(g.problem).text
                     ELSE \E v \in given.number, key \in Key(g.problem) :
                             v = key \/ (given.figs >= 2 /\ FairlyRounded(v, given.figs, key))
    <3>1. /\ g.problem \in Problems /\ g.given \in Answers /\ g.problem.kind \in {"choice", "number"}
          /\ g.right = Graded(g.problem, g.given)
      BY <1>3 DEF GradeStands
    <3> QED
      BY <3>1, ChecksAssumption, NumbersAssumption, GradeJudged
  <2> QED
    BY <2>1, <2>2, <2>3 DEF JudgedFairly, FairQuote, Standing
<1> QED
  BY <1>1, <1>2, <1>3, TypedAlways, PTL DEF Spec
=============================================================================
