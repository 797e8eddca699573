--------------------------- MODULE MeteringProofs ---------------------------
(***************************************************************************)
(* The meter is right for any users, jobs, limits, windows and multiplier: *)
(* every figure is a natural number, sessions never overlap, a session has *)
(* used what its jobs paid, no second of the box is sold twice, and the    *)
(* limits let through a few jobs at most.                                  *)
(*                                                                         *)
(* Sums are folds over finite sets.  What is needed of them (an element    *)
(* more, two parts, equal terms) is proved first, by induction over the    *)
(* number of elements.                                                     *)
(***************************************************************************)
EXTENDS Metering, FiniteSetTheorems, SequenceTheorems, WellFoundedInduction, TLAPS

-----------------------------------------------------------------------------
(* Induction *)

\* Induction over the natural numbers, for a set.
LEMMA ByNumber ==
  ASSUME NEW S, 0 \in S, \A n \in Nat : n \in S => n + 1 \in S
  PROVE  Nat \subseteq S
<1> DEFINE rest == Nat \ S
<1> SUFFICES ASSUME rest # {} PROVE FALSE
  OBVIOUS
<1>1. PICK m \in rest : \A k \in rest : ~ (<<k, m>> \in OpToRel(<, Nat))
  BY NatLessThanWellFounded, WFMin
<1>2. m # 0 /\ m - 1 \in Nat /\ m - 1 \notin S
  OBVIOUS
<1>3. <<m - 1, m>> \in OpToRel(<, Nat)
  BY <1>2 DEF OpToRel
<1> QED
  BY <1>1, <1>2, <1>3

\* Induction over the subsets of a finite set, one element at a time.
LEMMA ByElement ==
  ASSUME NEW S, IsFiniteSet(S), NEW P, {} \in P,
         \A T \in SUBSET S : \A x \in S \ T : T \in P => T \cup {x} \in P
  PROVE  \A T \in SUBSET S : T \in P
<1> DEFINE Upto == {n \in Nat : \A T \in SUBSET S : Cardinality(T) = n => T \in P}
<1>1. \A T \in SUBSET S : IsFiniteSet(T) /\ Cardinality(T) \in Nat
  BY FS_Subset, FS_CardinalityType
<1>2. 0 \in Upto
  BY <1>1, FS_EmptySet
<1>3. ASSUME NEW n \in Nat, n \in Upto PROVE n + 1 \in Upto
  <2>1. SUFFICES ASSUME NEW T \in SUBSET S, Cardinality(T) = n + 1 PROVE T \in P
    OBVIOUS
  <2>2. PICK x \in T : TRUE
    BY <1>1, <2>1, FS_EmptySet
  <2>3. Cardinality(T \ {x}) = n
    <3>1. IsFiniteSet(T) /\ x \in T
      BY <1>1, <2>2
    <3>2. Cardinality(T \ {x}) = Cardinality(T) - 1
      BY <3>1, FS_RemoveElement
    <3> QED
      BY <2>1, <3>2
  <2>4. T \ {x} \in P
    BY <1>3, <2>3
  <2>5. x \in S \ (T \ {x}) /\ (T \ {x}) \cup {x} = T
    OBVIOUS
  <2> QED
    BY <2>4, <2>5
<1>4. Nat \subseteq Upto
  <2> HIDE DEF Upto
  <2> QED
    BY <1>2, <1>3, ByNumber
<1> QED
  BY <1>1, <1>4

-----------------------------------------------------------------------------
(* Sums: what CreditsOf adds up, for any function on a finite set *)

\* CreditsOf for any f.
Total(f, S) == MapThenSumSet(LAMBDA j : f[j], S)

\* The element that FiniteSetsExt's fold takes next.
Pick(s) == CHOOSE x \in s : TRUE

\* g adds f up over the subsets of S.
Adds(f, S, g) ==
  g = [s \in SUBSET S |-> IF s = {} THEN 0 ELSE f[Pick(s)] + g[s \ {Pick(s)}]]

\* There is such a g, for any finite set.
LEMMA SumExists == ASSUME NEW f, NEW S, IsFiniteSet(S) PROVE \E g : Adds(f, S, g)
<1> DEFINE Small(n) == {s \in SUBSET S : Cardinality(s) <= n}
           Body(g, s) == IF s = {} THEN 0 ELSE f[Pick(s)] + g[s \ {Pick(s)}]
           Done == {n \in Nat : \E g : g = [s \in Small(n) |-> Body(g, s)]}
<1>1. \A s \in SUBSET S : /\ IsFiniteSet(s) /\ Cardinality(s) \in Nat
                          /\ Cardinality(s) <= Cardinality(S)
                          /\ Cardinality(s) = 0 => s = {}
  BY FS_Subset, FS_CardinalityType, FS_EmptySet
<1>2. \A n \in Nat : \A s \in Small(n + 1) : s # {} => s \ {Pick(s)} \in Small(n)
  <2> SUFFICES ASSUME NEW n \in Nat, NEW s \in Small(n + 1), s # {}
               PROVE  s \ {Pick(s)} \in Small(n)
    OBVIOUS
  <2>1. Pick(s) \in s
    BY DEF Pick
  <2>2. Cardinality(s \ {Pick(s)}) = Cardinality(s) - 1
    BY <1>1, <2>1, FS_RemoveElement
  <2> QED
    BY <1>1, <2>2
<1>3. 0 \in Done
  <2> DEFINE g == [s \in Small(0) |-> 0]
  <2>1. \A s \in Small(0) : s = {}
    BY <1>1
  <2>2. g = [s \in Small(0) |-> Body(g, s)]
    BY <2>1
  <2> QED
    BY <2>2
<1>4. ASSUME NEW n \in Nat, n \in Done PROVE n + 1 \in Done
  <2>1. PICK g : g = [s \in Small(n) |-> Body(g, s)]
    BY <1>4
  <2> DEFINE h == [s \in Small(n + 1) |-> Body(g, s)]
  <2>2. \A s \in Small(n) : s \in Small(n + 1)
    BY <1>1
  <2>3. \A s \in Small(n) : h[s] = g[s]
    BY <2>1, <2>2
  <2>4. \A s \in Small(n + 1) : Body(g, s) = Body(h, s)
    <3> HIDE DEF h
    <3> SUFFICES ASSUME NEW s \in Small(n + 1) PROVE Body(g, s) = Body(h, s)
      OBVIOUS
    <3>1. s # {} => s \ {Pick(s)} \in Small(n)
      BY <1>2
    <3> HIDE DEF Small
    <3> QED
      BY <2>3, <3>1
  <2>5. h = [s \in Small(n + 1) |-> Body(h, s)]
    <3> HIDE DEF Small, Body
    <3> QED
      BY <2>4
  <2>6. \E k : k = [s \in Small(n + 1) |-> Body(k, s)]
    <3> HIDE DEF h, Small, Body
    <3> QED
      BY <2>5
  <2>7. n + 1 \in Nat
    OBVIOUS
  <2> QED
    <3> HIDE DEF Small, Body
    <3> QED
      BY <2>6, <2>7
<1>5. Nat \subseteq Done
  <2> HIDE DEF Done
  <2> QED
    BY <1>3, <1>4, ByNumber
<1>6. Cardinality(S) \in Nat /\ Small(Cardinality(S)) = SUBSET S
  BY <1>1, FS_CardinalityType
<1>7. PICK g : g = [s \in Small(Cardinality(S)) |-> Body(g, s)]
  BY <1>5, <1>6
<1> QED
  BY <1>6, <1>7 DEF Adds

\* The fold that Total is a value of.
Sum(f, S) == CHOOSE g : Adds(f, S, g)

\* The sum over one element more.
LEMMA SumUnfolds ==
  ASSUME NEW f, NEW S, IsFiniteSet(S)
  PROVE  /\ Total(f, S) = Sum(f, S)[S]
         /\ \A s \in SUBSET S : Sum(f, S)[s] = IF s = {} THEN 0
                                  ELSE f[Pick(s)] + Sum(f, S)[s \ {Pick(s)}]
<1>1. Total(f, S) = Sum(f, S)[S]
  BY DEF Total, MapThenSumSet, MapThenFoldSet, Sum, Adds, Pick
<1>2. Adds(f, S, Sum(f, S))
  BY SumExists DEF Sum
<1> QED
  BY <1>1, <1>2 DEF Adds

\* It does not matter what a part is a part of.
LEMMA PartialSums ==
  ASSUME NEW f, NEW S, IsFiniteSet(S), NEW R \in SUBSET S
  PROVE  Sum(f, S)[R] = Total(f, R)
<1> DEFINE Agree == {s \in SUBSET R : Sum(f, S)[s] = Sum(f, R)[s]}
           Done == {n \in Nat : \A s \in SUBSET R : Cardinality(s) = n => s \in Agree}
<1>1. \A s \in SUBSET R : IsFiniteSet(s) /\ Cardinality(s) \in Nat /\ s \in SUBSET S
  BY FS_Subset, FS_CardinalityType
<1>0. IsFiniteSet(R)
  BY <1>1
<1>2. \A s \in SUBSET S : Sum(f, S)[s] = IF s = {} THEN 0
                               ELSE f[Pick(s)] + Sum(f, S)[s \ {Pick(s)}]
  BY SumUnfolds
<1>7. \A s \in SUBSET R : Sum(f, R)[s] = IF s = {} THEN 0
                               ELSE f[Pick(s)] + Sum(f, R)[s \ {Pick(s)}]
  BY <1>0, SumUnfolds
<1>3. 0 \in Done
  BY <1>1, <1>2, <1>7, FS_EmptySet
<1>4. ASSUME NEW n \in Nat, n \in Done PROVE n + 1 \in Done
  <2>1. SUFFICES ASSUME NEW s \in SUBSET R, Cardinality(s) = n + 1 PROVE s \in Agree
    OBVIOUS
  <2>2. s # {} /\ Pick(s) \in s
    BY <1>1, <2>1, FS_EmptySet DEF Pick
  <2>3. Cardinality(s \ {Pick(s)}) = n
    <3>1. IsFiniteSet(s) /\ Pick(s) \in s
      BY <1>1, <2>2
    <3>2. Cardinality(s \ {Pick(s)}) = Cardinality(s) - 1
      BY <3>1, FS_RemoveElement
    <3> QED
      BY <2>1, <3>2
  <2>4. s \ {Pick(s)} \in Agree
    BY <1>4, <2>3
  <2> QED
    BY <1>1, <1>2, <1>7, <2>2, <2>4
<1>5. Nat \subseteq Done
  <2> HIDE DEF Done
  <2> QED
    BY <1>3, <1>4, ByNumber
<1>6. R \in Agree
  BY <1>1, <1>5
<1> QED
  BY <1>0, <1>6, SumUnfolds

\* A sum over nothing is 0; a sum over something is one element's, whichever
\* is picked, and the others'.
LEMMA TotalPicked ==
  ASSUME NEW f, NEW S, IsFiniteSet(S)
  PROVE  Total(f, S) = IF S = {} THEN 0 ELSE f[Pick(S)] + Total(f, S \ {Pick(S)})
<1>1. S \in SUBSET S /\ S \ {Pick(S)} \in SUBSET S
  OBVIOUS
<1> QED
  BY <1>1, SumUnfolds, PartialSums

\* Nothing adds up to 0.
LEMMA TotalOfNothing == ASSUME NEW f PROVE Total(f, {}) = 0
  BY TotalPicked, FS_EmptySet

\* Natural numbers add up to one.
LEMMA TotalIsNat ==
  ASSUME NEW f, NEW S, IsFiniteSet(S), \A x \in S : f[x] \in Nat
  PROVE  Total(f, S) \in Nat
<1> DEFINE Done == {n \in Nat : \A s \in SUBSET S : Cardinality(s) = n => Total(f, s) \in Nat}
<1>1. \A s \in SUBSET S : IsFiniteSet(s) /\ Cardinality(s) \in Nat
  BY FS_Subset, FS_CardinalityType
<1>2. 0 \in Done
  BY <1>1, FS_EmptySet, TotalOfNothing
<1>3. ASSUME NEW n \in Nat, n \in Done PROVE n + 1 \in Done
  <2>1. SUFFICES ASSUME NEW s \in SUBSET S, Cardinality(s) = n + 1 PROVE Total(f, s) \in Nat
    OBVIOUS
  <2>2. s # {} /\ Pick(s) \in s
    BY <1>1, <2>1, FS_EmptySet DEF Pick
  <2>3. Cardinality(s \ {Pick(s)}) = n
    <3>1. IsFiniteSet(s) /\ Pick(s) \in s
      BY <1>1, <2>2
    <3>2. Cardinality(s \ {Pick(s)}) = Cardinality(s) - 1
      BY <3>1, FS_RemoveElement
    <3> QED
      BY <2>1, <3>2
  <2>4. Total(f, s \ {Pick(s)}) \in Nat
    BY <1>3, <2>3
  <2>5. Total(f, s) = f[Pick(s)] + Total(f, s \ {Pick(s)})
    BY <1>1, <2>2, TotalPicked
  <2> QED
    BY <2>2, <2>4, <2>5
<1>4. Nat \subseteq Done
  <2> HIDE DEF Done
  <2> QED
    BY <1>2, <1>3, ByNumber
<1> QED
  BY <1>1, <1>4

\* Any element may be taken first.
LEMMA TotalWithout ==
  ASSUME NEW f, NEW S, IsFiniteSet(S), \A x \in S : f[x] \in Nat, NEW y \in S
  PROVE  Total(f, S) = f[y] + Total(f, S \ {y})
<1> DEFINE Done == {n \in Nat : \A s \in SUBSET S : Cardinality(s) = n =>
                      \A x \in s : Total(f, s) = f[x] + Total(f, s \ {x})}
<1>1. \A s \in SUBSET S : IsFiniteSet(s) /\ Cardinality(s) \in Nat /\ Total(f, s) \in Nat
  BY FS_Subset, FS_CardinalityType, TotalIsNat
<1>2. 0 \in Done
  BY <1>1, FS_EmptySet
<1>3. ASSUME NEW n \in Nat, n \in Done PROVE n + 1 \in Done
  <2>1. SUFFICES ASSUME NEW s \in SUBSET S, Cardinality(s) = n + 1, NEW x \in s
                 PROVE  Total(f, s) = f[x] + Total(f, s \ {x})
    OBVIOUS
  <2> DEFINE p == Pick(s)
             r == s \ {x, p}
  <2>2. p \in s /\ Total(f, s) = f[p] + Total(f, s \ {p})
    BY <1>1, TotalPicked DEF Pick
  <2>3. CASE x = p
    BY <2>2, <2>3
  <2>4. CASE x # p
    <3>0. IsFiniteSet(s) /\ p \in s /\ x \in s
      BY <1>1, <2>2
    <3>1. Cardinality(s \ {p}) = Cardinality(s) - 1 /\ Cardinality(s \ {x}) = Cardinality(s) - 1
      BY <3>0, FS_RemoveElement
    <3>5. Cardinality(s \ {p}) = n /\ Cardinality(s \ {x}) = n
      BY <2>1, <3>1
    <3>2. x \in s \ {p} /\ p \in s \ {x} /\ (s \ {p}) \ {x} = r /\ (s \ {x}) \ {p} = r
      BY <2>2, <2>4
    <3>3. Total(f, s \ {p}) = f[x] + Total(f, r) /\ Total(f, s \ {x}) = f[p] + Total(f, r)
      BY <1>3, <3>5, <3>2
    <3>4. Total(f, r) \in Nat /\ f[x] \in Nat /\ f[p] \in Nat
      BY <1>1, <2>2
    <3> QED
      BY <2>2, <3>3, <3>4
  <2> QED
    BY <2>3, <2>4
<1>4. Nat \subseteq Done
  <2> HIDE DEF Done
  <2> QED
    BY <1>2, <1>3, ByNumber
<1> QED
  BY <1>1, <1>4

\* Two sums of things apart are the sum of both.
LEMMA TotalOfBoth ==
  ASSUME NEW f, NEW A, IsFiniteSet(A), NEW B, IsFiniteSet(B), A \cap B = {},
         \A x \in A \cup B : f[x] \in Nat
  PROVE  Total(f, A \cup B) = Total(f, A) + Total(f, B)
<1> DEFINE P == {T \in SUBSET B : Total(f, A \cup T) = Total(f, A) + Total(f, T)}
<1>1. \A T \in SUBSET B : IsFiniteSet(T) /\ IsFiniteSet(A \cup T)
  BY FS_Subset, FS_Union
<1>2. Total(f, A) \in Nat /\ \A T \in SUBSET B : Total(f, T) \in Nat
  BY <1>1, TotalIsNat
<1>3. {} \in P
  <2>1. A \cup {} = A
    OBVIOUS
  <2> QED
    BY <1>2, <2>1, TotalOfNothing
<1>4. ASSUME NEW T \in SUBSET B, NEW x \in B \ T, T \in P PROVE T \cup {x} \in P
  <2>1. /\ x \in A \cup (T \cup {x}) /\ (A \cup (T \cup {x})) \ {x} = A \cup T
        /\ x \in T \cup {x} /\ (T \cup {x}) \ {x} = T /\ T \cup {x} \in SUBSET B
    OBVIOUS
  <2>5. /\ IsFiniteSet(A \cup (T \cup {x})) /\ \A y \in A \cup (T \cup {x}) : f[y] \in Nat
        /\ IsFiniteSet(T \cup {x}) /\ \A y \in T \cup {x} : f[y] \in Nat
    BY <1>1, <2>1
  <2>2. Total(f, A \cup (T \cup {x})) = f[x] + Total(f, A \cup T)
    <3> HIDE DEF P
    <3>1. Total(f, A \cup (T \cup {x}))
            = f[x] + Total(f, (A \cup (T \cup {x})) \ {x})
      BY <2>1, <2>5, TotalWithout
    <3> QED
      BY <2>1, <3>1
  <2>3. Total(f, T \cup {x}) = f[x] + Total(f, T)
    <3>1. Total(f, T \cup {x}) = f[x] + Total(f, (T \cup {x}) \ {x})
      BY <2>1, <2>5, TotalWithout
    <3> QED
      BY <2>1, <3>1
  <2>4. Total(f, A \cup T) = Total(f, A) + Total(f, T) /\ f[x] \in Nat
    BY <1>4
  <2> QED
    BY <1>2, <2>1, <2>2, <2>3, <2>4
<1>5. B \in P
  <2> HIDE DEF P
  <2> QED
    BY <1>3, <1>4, ByElement
<1> QED
  BY <1>5

\* A part adds up to less, and what is left out is the difference.
LEMMA TotalOfPart ==
  ASSUME NEW f, NEW S, IsFiniteSet(S), \A x \in S : f[x] \in Nat, NEW R \in SUBSET S
  PROVE  /\ Total(f, R) \in Nat /\ Total(f, S) \in Nat
         /\ Total(f, R) <= Total(f, S)
         /\ Total(f, S) = Total(f, R) + Total(f, S \ R)
<1>1. /\ IsFiniteSet(R) /\ IsFiniteSet(S \ R) /\ R \cap (S \ R) = {} /\ R \cup (S \ R) = S
  BY FS_Subset
<1>2. Total(f, R) \in Nat /\ Total(f, S \ R) \in Nat /\ Total(f, S) \in Nat
  BY <1>1, TotalIsNat
<1>3. Total(f, S) = Total(f, R) + Total(f, S \ R)
  BY <1>1, TotalOfBoth
<1> QED
  BY <1>2, <1>3

\* Only what is added up matters.
LEMMA TotalOfSame ==
  ASSUME NEW f, NEW g, NEW S, IsFiniteSet(S), \A x \in S : f[x] = g[x] /\ f[x] \in Nat
  PROVE  Total(f, S) = Total(g, S)
<1> DEFINE P == {T \in SUBSET S : Total(f, T) = Total(g, T)}
<1>1. {} \in P
  BY TotalOfNothing
<1>2. ASSUME NEW T \in SUBSET S, NEW x \in S \ T, T \in P PROVE T \cup {x} \in P
  <2>1. x \in T \cup {x} /\ (T \cup {x}) \ {x} = T /\ IsFiniteSet(T \cup {x}) /\ g[x] \in Nat
    BY FS_Subset
  <2>2. (\A y \in T \cup {x} : f[y] \in Nat) /\ (\A y \in T \cup {x} : g[y] \in Nat)
    OBVIOUS
  <2>3. Total(f, T \cup {x}) = f[x] + Total(f, T) /\ Total(g, T \cup {x}) = g[x] + Total(g, T)
    BY <2>1, <2>2, TotalWithout
  <2> QED
    BY <1>2, <2>3
<1>3. S \in P
  <2> HIDE DEF P
  <2> QED
    BY <1>1, <1>2, ByElement
<1> QED
  BY <1>3

\* What adds nothing can be left out.
LEMMA TotalOfZeros ==
  ASSUME NEW f, NEW S, IsFiniteSet(S), \A x \in S : f[x] = 0
  PROVE  Total(f, S) = 0
<1> DEFINE P == {T \in SUBSET S : Total(f, T) = 0}
<1>1. {} \in P
  BY TotalOfNothing
<1>2. ASSUME NEW T \in SUBSET S, NEW x \in S \ T, T \in P PROVE T \cup {x} \in P
  <2>1. x \in T \cup {x} /\ (T \cup {x}) \ {x} = T /\ IsFiniteSet(T \cup {x})
    BY FS_Subset
  <2>2. Total(f, T \cup {x}) = f[x] + Total(f, T)
    BY <2>1, TotalWithout
  <2> QED
    BY <1>2, <2>2
<1>3. S \in P
  <2> HIDE DEF P
  <2> QED
    BY <1>1, <1>2, ByElement
<1> QED
  BY <1>3

-----------------------------------------------------------------------------
(* Types, clocks and windows *)

\* The clock is past all that was read from it, for the job in the slot.
Clocks == picked <= now /\ started <= now /\ (phase # "none" => job # NoJob)

\* Every session has its fixed window and has begun.
Windows ==
  \A s \in 1..Len(sessions) :
    sessions[s].start <= now /\ sessions[s].expires = sessions[s].start + SessionWindow

Sound == TypeOK /\ Clocks /\ Windows /\ OneSessionAtATime

\* The kinds of change to the sessions table.
SameSessions == sessions' = sessions
Charged == \E s \in Nat, paid \in Nat : sessions' = [sessions EXCEPT ![s].used = @ + paid]
Opened ==
  \E u \in Users :
    /\ OpenNow(u) = {}
    /\ sessions' = Append(sessions, [user |-> u, start |-> now,
                                     expires |-> now + SessionWindow, used |-> 0])

\* A product of natural numbers is one.
LEMMA NatTimes == ASSUME NEW a \in Nat, NEW b \in Nat PROVE a * b \in Nat
  OBVIOUS

\* The lesser of two numbers, by its definition in FiniteSetsExt.
LEMMA MinOfTwo ==
  ASSUME NEW a \in Nat, NEW b \in Nat
  PROVE  Min({a, b}) \in {a, b} /\ Min({a, b}) <= a /\ Min({a, b}) <= b
<1>1. \E x \in {a, b} : \A y \in {a, b} : x <= y
  OBVIOUS
<1> QED
  BY <1>1 DEF Min

\* What a job held the box for is never negative.
LEMMA OccupancyIsNat ==
  ASSUME TypeOK, Clocks, NEW outcome PROVE Occupancy(outcome) \in Nat
<1>1. now - started \in Nat /\ now - picked \in Nat
  BY DEF TypeOK, Clocks
<1> QED
  BY <1>1 DEF Occupancy

\* Nor is a bill.
LEMMA BillIsNat == ASSUME TypeOK, Clocks, NEW outcome PROVE CreditsFor(outcome) \in Nat
<1>1. Occupancy(outcome) \in Nat /\ load \in Nat
  BY OccupancyIsNat DEF TypeOK
<1>2. Rate \in Nat /\ LoadRate \in Nat
  BY MeteringAssumption
<1> DEFINE l == Min({load, Occupancy(outcome)})
<1>3. l \in Nat /\ Occupancy(outcome) - l \in Nat
  BY <1>1, MinOfTwo
<1>4. Rate * (Occupancy(outcome) - l) \in Nat /\ LoadRate * l \in Nat
  BY <1>2, <1>3, NatTimes
<1> QED
  BY <1>4 DEF CreditsFor

\* A user has one open session at most.
LEMMA OneOpen ==
  ASSUME Sound, NEW u \in Users, NEW s \in OpenNow(u), NEW t \in OpenNow(u)
  PROVE  s = t
<1>1. sessions \in Seq(SessionRow) /\ now \in Nat
  BY DEF Sound, TypeOK
<1>2. s \in 1..Len(sessions) /\ t \in 1..Len(sessions) /\ Len(sessions) \in Nat
  BY <1>1 DEF OpenNow
<1>3. /\ sessions[s].start \in Nat /\ sessions[s].expires \in Nat
      /\ sessions[t].start \in Nat /\ sessions[t].expires \in Nat
  <2>1. sessions[s] \in SessionRow /\ sessions[t] \in SessionRow
    BY <1>1, <1>2, ElementOfSeq
  <2> QED
    BY <2>1 DEF SessionRow
<1>4. /\ s \in DOMAIN sessions /\ t \in DOMAIN sessions
      /\ sessions[s].user = sessions[t].user
      /\ sessions[s].start <= now /\ now < sessions[s].expires
      /\ sessions[t].start <= now /\ now < sessions[t].expires
  BY DEF OpenNow
<1>5. \/ ~ (s < t)
      \/ sessions[s].expires <= sessions[t].start
  BY <1>4 DEF Sound, OneSessionAtATime
<1>6. \/ ~ (t < s)
      \/ sessions[t].expires <= sessions[s].start
  BY <1>4 DEF Sound, OneSessionAtATime
<1>7. ~ (sessions[s].expires <= sessions[t].start)
  BY <1>1, <1>3, <1>4
<1>8. ~ (sessions[t].expires <= sessions[s].start)
  BY <1>1, <1>3, <1>4
<1>9. s \in Nat /\ t \in Nat
  BY <1>2
<1> QED
  BY <1>5, <1>6, <1>7, <1>8, <1>9

\* A request finds its session, or its session is opened.
LEMMA OwnSession ==
  ASSUME Sound, NEW u \in Users
  PROVE  /\ SessionOf(u) \in Nat
         /\ SessionsFor(u) = sessions \/ OpenNow(u) = {}
         /\ OpenNow(u) # {} => SessionOf(u) \in OpenNow(u)
<1>1. sessions \in Seq(SessionRow) /\ now \in Nat
  BY DEF Sound, TypeOK
<1>2. CASE OpenNow(u) = {}
  BY <1>1, <1>2 DEF SessionOf
<1>3. CASE OpenNow(u) # {}
  <2>1. PICK s \in OpenNow(u) : TRUE
    BY <1>3
  <2>2. \A t \in OpenNow(u) : t = s
    BY <2>1, OneOpen
  <2>3. s \in 1..Len(sessions) /\ sessions[s] \in SessionRow
    BY <1>1, <2>1 DEF OpenNow
  <2>4. sessions[s].start <= sessions[s].start
    BY <2>3 DEF SessionRow
  <2>5. SessionOf(u) \in OpenNow(u)
    BY <1>3, <2>1, <2>2, <2>4 DEF SessionOf
  <2>6. SessionOf(u) \in Nat
    <3>1. s \in Nat
      BY <1>1, <2>3
    <3>2. SessionOf(u) = s
      BY <2>2, <2>5
    <3> QED
      BY <3>1, <3>2
  <2>7. SessionsFor(u) = sessions
    BY <1>3 DEF SessionsFor
  <2> QED
    BY <2>5, <2>6, <2>7
<1> QED
  BY <1>2, <1>3

-----------------------------------------------------------------------------
(* What a step may do to the sessions *)

\* Money moves no window.
LEMMA ChargeKeepsWindows ==
  ASSUME Sound, now' = now, SameSessions \/ Charged
  PROVE  sessions' \in Seq(SessionRow) /\ Windows' /\ OneSessionAtATime'
<1>1. sessions \in Seq(SessionRow) /\ Len(sessions) \in Nat
  BY DEF Sound, TypeOK
<1>2. \A s \in 1..Len(sessions) : sessions[s] \in SessionRow
  BY <1>1
<1>3. CASE SameSessions
  BY <1>1, <1>3 DEF SameSessions, Sound, Windows, OneSessionAtATime
<1>4. CASE Charged
  <2>1. PICK c \in Nat, paid \in Nat :
          sessions' = [sessions EXCEPT ![c].used = @ + paid]
    BY <1>4 DEF Charged
  <2>2. DOMAIN sessions' = DOMAIN sessions /\ DOMAIN sessions = 1..Len(sessions)
    BY <1>1, <2>1
  <2>3. \A s \in 1..Len(sessions) :
          /\ sessions'[s].user = sessions[s].user
          /\ sessions'[s].start = sessions[s].start
          /\ sessions'[s].expires = sessions[s].expires
          /\ sessions'[s] \in SessionRow
    <3> TAKE s \in 1..Len(sessions)
    <3>1. CASE s = c
      <4>1. sessions'[s] = [sessions[s] EXCEPT !.used = @ + paid]
        BY <2>1, <2>2, <3>1
      <4>2. sessions[s].used + paid \in Nat
        BY <1>2 DEF SessionRow
      <4> QED
        BY <1>2, <4>1, <4>2 DEF SessionRow
    <3>2. CASE s # c
      BY <1>2, <2>1, <2>2, <3>2
    <3> QED
      BY <3>1, <3>2
  <2>4. Len(sessions') = Len(sessions) /\ sessions' \in Seq(SessionRow)
    <3>1. sessions' \in [1..Len(sessions) -> SessionRow]
      BY <2>1, <2>2, <2>3
    <3>2. sessions' \in Seq(SessionRow)
      BY <1>1, <3>1, SeqDef
    <3>3. Len(sessions') \in Nat /\ 1..Len(sessions') = 1..Len(sessions)
      BY <2>2, <3>2, LenProperties
    <3>4. Len(sessions') = Len(sessions)
      BY <1>1, <3>3
    <3> QED
      BY <3>2, <3>4
  <2>5. Windows'
    BY <2>3, <2>4 DEF Sound, Windows
  <2>6. OneSessionAtATime'
    BY <2>2, <2>3 DEF Sound, OneSessionAtATime
  <2> QED
    BY <2>4, <2>5, <2>6
<1> QED
  BY <1>3, <1>4

\* A session is opened after all others of its user are over.
LEMMA OpeningIsLate ==
  ASSUME Sound, now' = now, Opened
  PROVE  sessions' \in Seq(SessionRow) /\ Windows' /\ OneSessionAtATime'
<1>1. sessions \in Seq(SessionRow) /\ Len(sessions) \in Nat /\ now \in Nat
      /\ SessionWindow \in Nat \ {0}
  BY MeteringAssumption DEF Sound, TypeOK
<1>2. PICK u \in Users :
        /\ OpenNow(u) = {}
        /\ sessions' = Append(sessions, [user |-> u, start |-> now,
                                         expires |-> now + SessionWindow, used |-> 0])
  BY DEF Opened
<1> DEFINE new == [user |-> u, start |-> now, expires |-> now + SessionWindow, used |-> 0]
<1>3. new \in SessionRow
  BY <1>1 DEF SessionRow
<1>4. /\ sessions' \in Seq(SessionRow) /\ Len(sessions') = Len(sessions) + 1
      /\ sessions'[Len(sessions) + 1] = new
      /\ \A s \in 1..Len(sessions) : sessions'[s] = sessions[s] /\ sessions[s] \in SessionRow
  BY <1>1, <1>2, <1>3
<1>5. DOMAIN sessions' = 1..(Len(sessions) + 1)
  BY <1>1, <1>4
<1>6. Windows'
  <2> SUFFICES ASSUME NEW s \in 1..(Len(sessions) + 1)
               PROVE  /\ sessions'[s].start <= now
                      /\ sessions'[s].expires = sessions'[s].start + SessionWindow
    BY <1>4 DEF Windows
  <2>1. CASE s = Len(sessions) + 1
    BY <1>1, <1>4, <2>1
  <2>2. CASE s \in 1..Len(sessions)
    BY <1>4, <2>2 DEF Sound, Windows
  <2> QED
    BY <1>1, <2>1, <2>2
<1>7. OneSessionAtATime'
  <2> SUFFICES ASSUME NEW s \in 1..(Len(sessions) + 1), NEW t \in 1..(Len(sessions) + 1),
                      s < t, sessions'[s].user = sessions'[t].user
               PROVE  sessions'[s].expires <= sessions'[t].start
    BY <1>5 DEF OneSessionAtATime
  <2>0. s \in 1..Len(sessions)
    BY <1>1
  <2>1. CASE t \in 1..Len(sessions)
    <3>1. sessions'[s] = sessions[s] /\ sessions'[t] = sessions[t]
      BY <1>4, <2>0, <2>1
    <3>2. s \in DOMAIN sessions /\ t \in DOMAIN sessions
      BY <1>1, <2>0, <2>1, LenProperties
    <3>3. sessions[s].expires <= sessions[t].start
      BY <3>1, <3>2 DEF Sound, OneSessionAtATime
    <3> QED
      BY <3>1, <3>3
  <2>2. CASE t = Len(sessions) + 1
    <3>1. sessions[s].user = u /\ s \notin OpenNow(u) /\ sessions[s] \in SessionRow
      BY <1>2, <1>4, <2>0, <2>2
    <3>2. sessions[s].start <= now
      BY <2>0 DEF Sound, Windows
    <3>3. sessions[s].expires <= now
      BY <1>1, <2>0, <3>1, <3>2 DEF OpenNow, SessionRow
    <3> QED
      BY <1>4, <2>0, <2>2, <3>3
  <2> QED
    BY <1>1, <2>1, <2>2
<1> QED
  BY <1>4, <1>6, <1>7

-----------------------------------------------------------------------------
(* The invariant *)

RunTypes ==
  /\ line \in Seq(Jobs) /\ job \in Jobs \cup {NoJob} /\ phase \in Phase
  /\ picked \in Nat /\ started \in Nat /\ load \in Nat

RowTypes ==
  /\ state \in [Jobs -> RowState] /\ session \in [Jobs -> Nat]
  /\ finished \in [Jobs -> Nat] /\ credits \in [Jobs -> Nat]

LEMMA SoundParts ==
  Sound <=> /\ now \in Nat /\ starts \in Nat /\ RunTypes /\ RowTypes /\ Clocks
            /\ sessions \in Seq(SessionRow) /\ Windows /\ OneSessionAtATime
  BY DEF Sound, TypeOK, RunTypes, RowTypes

LEMMA SoundInit == Init => Sound
<1> SUFFICES ASSUME Init PROVE Sound
  OBVIOUS
<1>1. sessions \in Seq(SessionRow) /\ line \in Seq(Jobs) /\ Len(sessions) = 0
  BY EmptySeq DEF Init
<1>2. RunTypes /\ RowTypes /\ Clocks /\ now \in Nat /\ starts \in Nat
  BY <1>1 DEF Init, RunTypes, RowTypes, Clocks, Phase, RowState
<1>3. Windows /\ OneSessionAtATime
  BY <1>1 DEF Init, Windows, OneSessionAtATime
<1> QED
  BY <1>1, <1>2, <1>3, SoundParts

\* Rows keep their type however jobs leave.
LEMMA RowsTyped ==
  ASSUME TypeOK, NEW outcome \in RowState, NEW gone
  PROVE  Rows(outcome, gone) \in [Jobs -> RowState]
  BY DEF TypeOK, Rows, RowState

\* The end of the job in the slot.
LEMMA FinalizeSound ==
  ASSUME Sound, job # NoJob, NEW outcome \in RowState, NEW gone, Finalize(outcome, gone),
         line' \in Seq(Jobs), starts' \in Nat
  PROVE  Sound'
<1>1. TypeOK /\ Clocks /\ job \in Jobs
  BY DEF Sound, TypeOK
<1>2. CreditsFor(outcome) \in Nat
  BY <1>1, BillIsNat
<1>3. session[job] \in Nat
  BY <1>1 DEF TypeOK
<1>4. now' = now /\ Charged
  BY <1>2, <1>3 DEF Finalize, Charged, Billed
<1>5. sessions' \in Seq(SessionRow) /\ Windows' /\ OneSessionAtATime'
  BY <1>4, ChargeKeepsWindows
<1>6. RowTypes'
  <2>1. state' \in [Jobs -> RowState]
    BY <1>1, RowsTyped DEF Finalize
  <2>2. session' \in [Jobs -> Nat] /\ finished' \in [Jobs -> Nat]
    BY <1>1 DEF Finalize, TypeOK
  <2>3. credits' = [credits EXCEPT ![job] = CreditsFor(outcome)]
    BY DEF Finalize
  <2>4. credits' \in [Jobs -> Nat]
    BY <1>1, <1>2, <2>3 DEF TypeOK
  <2> QED
    BY <2>1, <2>2, <2>4 DEF RowTypes
<1>7. RunTypes' /\ Clocks' /\ now' \in Nat
  BY <1>1 DEF Finalize, Idle, RunTypes, Clocks, TypeOK, Phase
<1> QED
  BY <1>5, <1>6, <1>7 DEF Sound, TypeOK, RunTypes, RowTypes

\* A request, admitted or refused.
LEMMA RequestSound == ASSUME Sound, NEW j \in Jobs, Request(j) PROVE Sound'
<1> DEFINE u == Owner[j]
<1>1. u \in Users
  BY MeteringAssumption
<1>2. SessionOf(u) \in Nat /\ (SessionsFor(u) = sessions \/ OpenNow(u) = {})
  BY <1>1, OwnSession
<1>3. now' = now /\ sessions' = SessionsFor(u)
  BY DEF Request
<1>4. SameSessions \/ Opened
  <2>1. CASE OpenNow(u) = {}
    <3>1. sessions' = Append(sessions, [user |-> u, start |-> now,
                                        expires |-> now + SessionWindow, used |-> 0])
      BY <1>3, <2>1 DEF SessionsFor
    <3> QED
      BY <1>1, <2>1, <3>1 DEF Opened
  <2>2. CASE SessionsFor(u) = sessions
    BY <1>3, <2>2 DEF SameSessions
  <2> QED
    BY <1>2, <2>1, <2>2
<1>5. sessions' \in Seq(SessionRow) /\ Windows' /\ OneSessionAtATime'
  BY <1>3, <1>4, ChargeKeepsWindows, OpeningIsLate
<1>6. line' \in Seq(Jobs)
  <2>1. line \in Seq(Jobs)
    BY DEF Sound, TypeOK
  <2>2. line' = line \/ line' = Append(line, j)
    BY DEF Request
  <2> QED
    BY <2>1, <2>2
<1>7. RowTypes'
  <2>0. TypeOK
    BY DEF Sound
  <2>1. session' = [session EXCEPT ![j] = SessionOf(u)]
    BY DEF Request
  <2>2. session' \in [Jobs -> Nat]
    BY <1>2, <2>0, <2>1 DEF TypeOK
  <2>3. /\ \/ state' = [state EXCEPT ![j] = "queued"]
           \/ state' = [state EXCEPT ![j] = "limit_exceeded"]
        /\ \/ finished' = finished
           \/ finished' = [finished EXCEPT ![j] = now]
        /\ credits' = credits
    BY DEF Request
  <2>4. state' \in [Jobs -> RowState]
    BY <2>0, <2>3 DEF TypeOK, RowState
  <2>5. finished' \in [Jobs -> Nat] /\ credits' \in [Jobs -> Nat]
    BY <2>0, <2>3 DEF TypeOK
  <2> QED
    BY <2>2, <2>4, <2>5 DEF RowTypes
<1>8. RunTypes' /\ Clocks' /\ now' \in Nat /\ starts' \in Nat
  BY <1>6 DEF Request, runVars, Sound, TypeOK, RunTypes, Clocks
<1> QED
  BY <1>5, <1>7, <1>8 DEF Sound, TypeOK, RunTypes, RowTypes

\* A step of the worker, the clock or a restart that leaves sessions alone.
LEMMA OthersSound ==
  ASSUME Sound, UNCHANGED sessions, RunTypes', RowTypes', Clocks', now' \in Nat,
         starts' \in Nat, now <= now'
  PROVE  Sound'
<1>1. sessions \in Seq(SessionRow) /\ now \in Nat
  BY DEF Sound, TypeOK
<1>2. \A s \in 1..Len(sessions) : sessions[s].start \in Nat
  <2> TAKE s \in 1..Len(sessions)
  <2>1. sessions[s] \in SessionRow
    BY <1>1, ElementOfSeq
  <2> QED
    BY <2>1 DEF SessionRow
<1>3. Windows'
  BY <1>1, <1>2 DEF Sound, Windows
<1>4. OneSessionAtATime' /\ sessions' \in Seq(SessionRow)
  BY <1>1 DEF Sound, OneSessionAtATime
<1> QED
  BY <1>3, <1>4 DEF Sound, TypeOK, RunTypes, RowTypes

LEMMA SoundNext == Sound /\ [Next]_vars => Sound'
<1> SUFFICES ASSUME Sound, [Next]_vars PROVE Sound'
  OBVIOUS
<1>0. TypeOK /\ Clocks /\ RunTypes /\ RowTypes /\ MaxStarts \in Nat /\ NoJob \notin Jobs
  BY SoundParts, MeteringAssumption DEF Sound
<1>1. ASSUME NEW j \in Jobs, Request(j) PROVE Sound'
  BY <1>1, RequestSound
<1>2. ASSUME NEW j \in Jobs, Drop(j) PROVE Sound'
  <2>1. PICK i \in 1..Len(line) :
          line' = SubSeq(line, 1, i - 1) \o SubSeq(line, i + 1, Len(line))
    BY <1>2 DEF Drop
  <2>2. line \in Seq(Jobs) /\ Len(line) \in Nat /\ \A k \in 1..Len(line) : line[k] \in Jobs
    BY <1>0, LenProperties, ElementOfSeq DEF RunTypes
  <2>3. SubSeq(line, 1, i - 1) \in Seq(Jobs) /\ SubSeq(line, i + 1, Len(line)) \in Seq(Jobs)
    BY <2>2, SubSeqProperties
  <2>4. line' \in Seq(Jobs)
    BY <2>1, <2>3, ConcatProperties
  <2>5. RunTypes' /\ Clocks'
    BY <1>0, <1>2, <2>4 DEF Drop, runVars, RunTypes, Clocks
  <2>6. RowTypes'
    BY <1>0, <1>2 DEF Drop, RowTypes, RowState, TypeOK
  <2> QED
    BY <1>0, <1>2, <2>5, <2>6, OthersSound DEF Drop, TypeOK
<1>3. ASSUME Take PROVE Sound'
  <2>1. Head(line) \in Jobs /\ Tail(line) \in Seq(Jobs)
    BY <1>0, <1>3, HeadTailProperties DEF Take, RunTypes
  <2>2. RunTypes' /\ Clocks'
    BY <1>0, <1>3, <2>1 DEF Take, RunTypes, Clocks, Phase, TypeOK
  <2>3. RowTypes'
    BY <1>0, <1>3, <2>1 DEF Take, RowTypes, RowState
  <2> QED
    BY <1>0, <1>3, <2>2, <2>3, OthersSound DEF Take, TypeOK
<1>4. ASSUME Asked PROVE Sound'
  <2>1. RunTypes' /\ Clocks' /\ RowTypes'
    BY <1>0, <1>4 DEF Asked, rowVars, RunTypes, RowTypes, Clocks, Phase, TypeOK
  <2> QED
    BY <1>0, <1>4, <2>1, OthersSound DEF Asked, TypeOK
<1>5. ASSUME FirstOutput PROVE Sound'
  <2>1. now - started \in Nat
    BY <1>0 DEF Clocks, TypeOK
  <2>2. load' \in Nat
    BY <1>5, <2>1 DEF FirstOutput
  <2>3. RunTypes' /\ Clocks' /\ RowTypes'
    BY <1>0, <1>5, <2>2 DEF FirstOutput, rowVars, RunTypes, RowTypes, Clocks, Phase
  <2> QED
    BY <1>0, <1>5, <2>3, OthersSound DEF FirstOutput, TypeOK
<1>6. ASSUME Answered PROVE Sound'
  <2>1. now - started \in Nat /\ load \in Nat
    BY <1>0 DEF Clocks, TypeOK
  <2>2. LoadSeconds \subseteq Nat
    BY <1>6, <2>1 DEF Answered, LoadSeconds
  <2>3. load' \in Nat
    BY <1>6, <2>2 DEF Answered
  <2>4. RunTypes' /\ Clocks' /\ RowTypes'
    BY <1>0, <1>6, <2>3 DEF Answered, rowVars, RunTypes, RowTypes, Clocks, Phase
  <2> QED
    BY <1>0, <1>6, <2>4, OthersSound DEF Answered, TypeOK
<1>7. ASSUME Ends PROVE Sound'
  <2>1. PICK outcome \in {"done", "cancelled"} : Finalize(outcome, {})
    BY <1>7 DEF Ends
  <2>2. job # NoJob
    BY <1>0, <1>7 DEF Ends, Clocks
  <2>3. outcome \in RowState /\ line' \in Seq(Jobs) /\ starts' \in Nat
    BY <1>0, <1>7 DEF Ends, RowState, TypeOK
  <2> QED
    BY <2>1, <2>2, <2>3, FinalizeSound
<1>8. ASSUME Fails PROVE Sound'
  <2>1. line' \in Seq(Jobs) /\ starts' \in Nat /\ "error" \in RowState
    BY <1>0, <1>8 DEF Fails, RowState, TypeOK
  <2> QED
    BY <1>8, <2>1, FinalizeSound DEF Fails
<1>9. ASSUME Shutdown PROVE Sound'
  <2>1. line' \in Seq(Jobs) /\ starts' \in Nat /\ "cut" \in RowState
    BY <1>0, <1>9, EmptySeq DEF Shutdown, RowState, TypeOK
  <2> QED
    BY <1>9, <2>1, FinalizeSound DEF Shutdown
<1>10. ASSUME Restart PROVE Sound'
  <2>1. state' \in [Jobs -> RowState]
    BY <1>0, <1>10, RowsTyped DEF Restart, RowState
  <2>2. line' \in Seq(Jobs)
    BY <1>10, EmptySeq DEF Restart
  <2>3. RunTypes' /\ Clocks' /\ RowTypes'
    BY <1>0, <1>10, <2>1, <2>2 DEF Restart, Idle, RunTypes, RowTypes, Clocks, Phase, TypeOK
  <2> QED
    BY <1>0, <1>10, <2>3, OthersSound DEF Restart, TypeOK
<1>11. ASSUME Tick PROVE Sound'
  <2>1. RunTypes' /\ RowTypes' /\ Clocks' /\ now' \in Nat /\ now <= now'
    BY <1>0, <1>11 DEF Tick, runVars, rowVars, RunTypes, RowTypes, Clocks, TypeOK
  <2> QED
    BY <1>0, <1>11, <2>1, OthersSound DEF Tick, TypeOK
<1>12. ASSUME UNCHANGED vars PROVE Sound'
  BY <1>12 DEF vars, runVars, rowVars, Sound, TypeOK, Clocks, Windows, OneSessionAtATime
<1> QED
  BY <1>1, <1>2, <1>3, <1>4, <1>5, <1>6, <1>7, <1>8, <1>9, <1>10, <1>11, <1>12 DEF Next


-----------------------------------------------------------------------------
(* The books *)

\* A waiting row is in the line once, the running row is in the slot.
Placed ==
  /\ \A i, k \in 1..Len(line) : line[i] = line[k] => i = k
  /\ \A i \in 1..Len(line) : state[line[i]] = "queued"
  /\ job # NoJob => state[job] = "running"

Waiting == {"none", "queued", "running"}

\* No row is billed before its job has ended.
Unbilled == \A j \in Jobs : state[j] \in Waiting => credits[j] = 0

\* A row has a session of its owner from the request on.
Admitted ==
  \A j \in Jobs :
    IF state[j] = "none" THEN session[j] = 0
    ELSE session[j] \in 1..Len(sessions) /\ sessions[session[j]].user = Owner[j]

\* What ended has ended by now, and a job starts after it was picked.
Past ==
  /\ \A j \in Jobs : finished[j] <= now
  /\ phase \notin {"none", "asking"} => picked <= started

\* The seconds up to the pick of the job in the slot are all that is sold.
BoxPaid == CreditsOf(Jobs) <= Rate * (IF job = NoJob THEN now ELSE picked)

\* A user with limits has a few jobs at a time.
Crowd ==
  \A u \in Users \ Uncapped : MaxJobsPerUser > 0 => Cardinality(Mine(u)) <= MaxJobsPerUser

\* The jobs that a session will still have to pay for.
Late(s) == {j \in Mine(sessions[s].user) : session[j] = s}

\* Past its cap, a session has less than a few of them, those that overshot included.
Lag ==
  \A s \in 1..Len(sessions) :
    /\ MaxJobsPerUser > 0 /\ sessions[s].user \notin Uncapped
    /\ sessions[s].used >= SessionCap[sessions[s].user]
    => Cardinality(Overshooting(s) \cup Late(s)) < MaxJobsPerUser

Books == Placed /\ Unbilled /\ Admitted /\ Past /\ Conservation /\ BoxPaid /\ Crowd /\ Lag

\* What CreditsOf adds up, now and after a step.
LEMMA CreditsAreTotals ==
  \A S : CreditsOf(S) = Total(credits, S)
  BY DEF CreditsOf, Total, MapThenSumSet, MapThenFoldSet

\* One bill more.
LEMMA TotalBilled ==
  ASSUME NEW f, NEW g, NEW S, IsFiniteSet(S), NEW x, f[x] = 0, g[x] \in Nat,
         \A y \in S : f[y] \in Nat, \A y \in S \ {x} : g[y] = f[y]
  PROVE  Total(g, S) = Total(f, S) + (IF x \in S THEN g[x] ELSE 0)
<1>1. /\ \A y \in S : f[y] \in Nat /\ g[y] \in Nat
      /\ \A y \in S \ {x} : g[y] = f[y]
  OBVIOUS
<1>2. Total(f, S) \in Nat
  BY <1>1, TotalIsNat
<1>3. CASE x \in S
  <2>1. Total(g, S) = g[x] + Total(g, S \ {x}) /\ Total(f, S) = f[x] + Total(f, S \ {x})
    BY <1>1, <1>3, TotalWithout
  <2>2. IsFiniteSet(S \ {x}) /\ \A y \in S \ {x} : f[y] = g[y] /\ f[y] \in Nat
    BY <1>1, FS_Subset
  <2>3. Total(f, S \ {x}) = Total(g, S \ {x}) /\ Total(f, S \ {x}) \in Nat
    BY <2>2, TotalOfSame, TotalIsNat
  <2> QED
    BY <1>1, <1>3, <2>1, <2>3
<1>4. CASE x \notin S
  <2>1. \A y \in S : f[y] = g[y] /\ f[y] \in Nat
    BY <1>1, <1>4
  <2>2. Total(f, S) = Total(g, S)
    BY <2>1, TotalOfSame
  <2> QED
    BY <1>2, <1>4, <2>2
<1> QED
  BY <1>3, <1>4

\* Rates: more time costs no less, and times add up.
LEMMA MoreCostsMore ==
  ASSUME NEW r \in Nat, NEW a \in Nat, NEW b \in Nat, a <= b
  PROVE  r * a <= r * b /\ r * a + r * (b - a) = r * b
<1>1. r * (b - a) = r * b - r * a
  OBVIOUS
<1>2. b - a \in Nat
  OBVIOUS
<1>3. r * (b - a) \in Nat /\ r * a \in Nat /\ r * b \in Nat
  BY <1>2, NatTimes
<1> QED
  BY <1>1, <1>3

\* A smaller rate costs less.
LEMMA CheaperRate ==
  ASSUME NEW r \in Nat, NEW q \in 0..r, NEW a \in Nat
  PROVE  q * a <= r * a
<1>1. (r - q) * a = r * a - q * a
  OBVIOUS
<1>2. (r - q) * a \in Nat
  <2>1. r - q \in Nat
    OBVIOUS
  <2> QED
    BY <2>1, NatTimes
<1>3. q \in Nat /\ q * a \in Nat /\ r * a \in Nat
  BY NatTimes
<1> QED
  BY <1>1, <1>2, <1>3

\* A bill is for no more than the time since the pick.
LEMMA BillIsForTheBox ==
  ASSUME Sound, Past, NEW outcome
  PROVE  CreditsFor(outcome) <= Rate * (now - picked)
<1> USE MeteringAssumption
<1>1. /\ now \in Nat /\ picked \in Nat /\ started \in Nat /\ load \in Nat
      /\ picked <= now /\ started <= now /\ now - picked \in Nat
  BY DEF Sound, TypeOK, Clocks
<1>2. Occupancy(outcome) \in Nat
  BY OccupancyIsNat DEF Sound
<1>3. Occupancy(outcome) <= now - picked
  BY <1>1 DEF Past, Occupancy
<1> DEFINE l == Min({load, Occupancy(outcome)})
<1>4. l \in Nat /\ l <= Occupancy(outcome)
  BY <1>1, <1>2, MinOfTwo
<1>5. Rate \in Nat /\ LoadRate \in 0..Rate
  OBVIOUS
<1> HIDE DEF l
<1>6. LoadRate * l <= Rate * l
  BY <1>4, <1>5, CheaperRate
<1>7. Rate * l + Rate * (Occupancy(outcome) - l) = Rate * Occupancy(outcome)
  BY <1>2, <1>4, <1>5, MoreCostsMore
<1>8. Rate * Occupancy(outcome) <= Rate * (now - picked)
  BY <1>1, <1>2, <1>3, <1>5, MoreCostsMore
<1>9. /\ Rate * l \in Nat /\ Rate * (Occupancy(outcome) - l) \in Nat /\ Rate * Occupancy(outcome) \in Nat
      /\ Rate * (now - picked) \in Nat /\ LoadRate * l \in Nat
  <2>1. Occupancy(outcome) - l \in Nat /\ LoadRate \in Nat
    BY <1>2, <1>4, <1>5
  <2> QED
    BY <1>1, <1>2, <1>4, <1>5, <2>1, NatTimes
<1>10. CreditsFor(outcome) = IF outcome = "error" THEN 0
                             ELSE Rate * (Occupancy(outcome) - l) + LoadRate * l
  BY DEF CreditsFor, l
<1> QED
  BY <1>6, <1>7, <1>8, <1>9, <1>10

\* r is q without its entry i.
Skips(r, q, i) ==
  Len(r) = Len(q) - 1 /\ \A k \in 1..Len(r) : r[k] = q[IF k < i THEN k ELSE k + 1]

\* A sequence without one of its entries.
LEMMA WithoutOne ==
  ASSUME NEW S, NEW q \in Seq(S), NEW i \in 1..Len(q), NEW r,
         r = SubSeq(q, 1, i - 1) \o SubSeq(q, i + 1, Len(q))
  PROVE  r \in Seq(S) /\ Skips(r, q, i)
<1> DEFINE a == SubSeq(q, 1, i - 1)
           b == SubSeq(q, i + 1, Len(q))
<1>0. Len(q) \in Nat /\ \A k \in 1..Len(q) : q[k] \in S
  BY LenProperties, ElementOfSeq
<1>1. a \in Seq(S) /\ Len(a) = i - 1 /\ \A k \in 1..(i - 1) : a[k] = q[k]
  BY <1>0, SubSeqProperties
<1>2. /\ b \in Seq(S) /\ Len(b) = Len(q) - i
      /\ \A k \in 1..(Len(q) - i) : b[k] = q[i + k]
  <2>1. CASE i = Len(q)
    BY <1>0, <2>1, SubSeqProperties
  <2>2. CASE i < Len(q)
    BY <1>0, <2>2, SubSeqProperties
  <2> QED
    BY <1>0, <2>1, <2>2
<1> HIDE DEF a, b
<1>3. /\ a \o b \in Seq(S) /\ Len(a \o b) = Len(a) + Len(b)
      /\ \A k \in 1..(Len(a) + Len(b)) :
           (a \o b)[k] = IF k <= Len(a) THEN a[k] ELSE b[k - Len(a)]
  BY <1>1, <1>2, ConcatProperties
<1>4. r = a \o b /\ Len(r) = Len(q) - 1
  <2>1. r = a \o b
    BY DEF a, b
  <2>2. Len(r) = (i - 1) + (Len(q) - i)
    BY <1>1, <1>2, <1>3, <2>1
  <2>3. (i - 1) + (Len(q) - i) = Len(q) - 1
    BY <1>0
  <2> QED
    BY <2>1, <2>2, <2>3
<1>5. ASSUME NEW k \in 1..Len(r) PROVE r[k] = q[IF k < i THEN k ELSE k + 1]
  <2>1. k \in 1..(Len(a) + Len(b))
    BY <1>3, <1>4
  <2>2. CASE k < i
    <3>1. k \in 1..(i - 1) /\ k <= Len(a)
      BY <1>0, <1>1, <2>2
    <3> QED
      BY <1>1, <1>3, <1>4, <2>1, <2>2, <3>1
  <2>3. CASE ~ (k < i)
    <3>1. k \in 1..(Len(q) - 1)
      BY <1>4
    <3>2. k - (i - 1) \in 1..(Len(q) - i) /\ i + (k - (i - 1)) = k + 1 /\ ~ (k <= i - 1)
      BY <1>0, <2>3, <3>1
    <3>3. r[k] = b[k - (i - 1)]
      BY <1>1, <1>3, <1>4, <2>1, <3>2
    <3>4. b[k - (i - 1)] = q[i + (k - (i - 1))]
      BY <1>2, <3>2
    <3> QED
      BY <2>3, <3>2, <3>3, <3>4
  <2> QED
    BY <2>2, <2>3
<1> QED
  BY <1>3, <1>4, <1>5 DEF Skips

\* The rows after a job has left the slot, or after a restart.
LEMMA RowsSettle ==
  ASSUME Sound, Placed, NEW outcome \in RowState \ Waiting, NEW gone, gone \in {{}, InLine},
         state' = Rows(outcome, gone)
  PROVE  \A j \in Jobs : /\ state'[j] = "none" <=> state[j] = "none"
                         /\ state'[j] \in Waiting => state'[j] = state[j] /\ j # job
<1> SUFFICES ASSUME NEW j \in Jobs
             PROVE  /\ state'[j] = "none" <=> state[j] = "none"
                    /\ state'[j] \in Waiting => state'[j] = state[j] /\ j # job
  OBVIOUS
<1>1. j \in gone => state[j] = "queued"
  BY DEF Placed, InLine, Sound, TypeOK
<1>2. j = job => state[j] = "running"
  BY MeteringAssumption DEF Placed
<1>3. state'[j] = CASE j \in gone -> "lost"
                    [] j = job /\ j \notin gone -> outcome
                    [] OTHER -> state[j]
  BY DEF Rows
<1>4. CASE j \in gone
  BY <1>1, <1>2, <1>3, <1>4 DEF Waiting
<1>5. CASE j \notin gone /\ j = job
  BY <1>2, <1>3, <1>5 DEF Waiting
<1>6. CASE j \notin gone /\ j # job
  BY <1>3, <1>6
<1> QED
  BY <1>4, <1>5, <1>6

\* How the job in the slot may end.
Ending(outcome, gone) ==
  /\ job \in Jobs /\ outcome \in {"done", "cancelled", "error", "cut"}
  /\ gone \in {{}, InLine} /\ Finalize(outcome, gone)

\* The steps that end a job are endings.
LEMMA EndingSteps ==
  ASSUME Sound, Ends \/ Fails \/ Shutdown
  PROVE  /\ \E outcome : \E gone : Ending(outcome, gone)
         /\ line' = line \/ line' = <<>>
<1>1. job # NoJob
  BY DEF Ends, Fails, Shutdown, Sound, Clocks
<1>2. job \in Jobs
  BY <1>1 DEF Sound, TypeOK
<1>3. line' = line \/ line' = <<>>
  BY DEF Ends, Fails, Shutdown
<1>4. CASE Ends
  <2>1. PICK outcome \in {"done", "cancelled"} : Finalize(outcome, {})
    BY <1>4 DEF Ends
  <2>2. Ending(outcome, {})
    BY <1>2, <2>1 DEF Ending
  <2> QED
    BY <1>3, <2>2
<1>5. CASE Fails
  <2>1. Ending("error", {})
    BY <1>2, <1>5 DEF Ending, Fails
  <2> QED
    BY <1>3, <2>1
<1>6. CASE Shutdown
  <2>1. Ending("cut", InLine)
    BY <1>2, <1>6 DEF Ending, Shutdown
  <2> QED
    BY <1>3, <2>1
<1> QED
  BY <1>4, <1>5, <1>6

\* What an ending does to the rows.
LEMMA EndingRows ==
  ASSUME Sound, Placed, NEW outcome, NEW gone, Ending(outcome, gone)
  PROVE  \A j \in Jobs : /\ state'[j] = "none" <=> state[j] = "none"
                         /\ state'[j] \in Waiting => state'[j] = state[j] /\ j # job
<1>1. outcome \in RowState \ Waiting /\ gone \in {{}, InLine} /\ state' = Rows(outcome, gone)
  BY DEF Ending, Finalize, RowState, Waiting
<1> QED
  BY <1>1, RowsSettle

\* The places of the rows.
LEMMA PlacedNext == Sound /\ Sound' /\ Placed /\ [Next]_vars => Placed'
<1> SUFFICES ASSUME Sound, Sound', Placed, [Next]_vars PROVE Placed'
  OBVIOUS
<1>0. /\ line \in Seq(Jobs) /\ Len(line) \in Nat /\ \A i \in 1..Len(line) : line[i] \in Jobs
      /\ state \in [Jobs -> RowState] /\ NoJob \notin Jobs
  BY LenProperties, ElementOfSeq, MeteringAssumption DEF Sound, TypeOK
<1>1. ASSUME NEW j \in Jobs, Request(j) PROVE Placed'
  <2>1. state[j] = "none" /\ job' = job
    BY <1>1 DEF Request, runVars
  <2>2. \A i \in 1..Len(line) : line[i] # j
    BY <2>1 DEF Placed
  <2>3. job # NoJob => job # j
    BY <2>1 DEF Placed
  <2>4. CASE line' = line /\ state' = [state EXCEPT ![j] = "limit_exceeded"]
    <3>1. \A i \in 1..Len(line) : state'[line[i]] = state[line[i]]
      BY <1>0, <2>2, <2>4
    <3>2. job # NoJob => state'[job] = state[job]
      BY <1>0, <2>3, <2>4
    <3> QED
      BY <2>1, <2>4, <3>1, <3>2 DEF Placed
  <2>5. CASE line' = Append(line, j) /\ state' = [state EXCEPT ![j] = "queued"]
    <3>1. /\ Len(line') = Len(line) + 1 /\ line'[Len(line) + 1] = j
          /\ \A i \in 1..Len(line) : line'[i] = line[i]
      BY <1>0, <2>5
    <3>2. \A i, k \in 1..Len(line') : line'[i] = line'[k] => i = k
      <4> SUFFICES ASSUME NEW i \in 1..Len(line'), NEW k \in 1..Len(line'),
                          line'[i] = line'[k]
                   PROVE  i = k
        OBVIOUS
      <4>1. CASE i \in 1..Len(line) /\ k \in 1..Len(line)
        BY <3>1, <4>1 DEF Placed
      <4>2. CASE ~ (i \in 1..Len(line) /\ k \in 1..Len(line))
        BY <1>0, <2>2, <3>1, <4>2
      <4> QED
        BY <4>1, <4>2
    <3>3. \A i \in 1..Len(line') : state'[line'[i]] = "queued"
      <4> SUFFICES ASSUME NEW i \in 1..Len(line') PROVE state'[line'[i]] = "queued"
        OBVIOUS
      <4>1. CASE i \in 1..Len(line)
        BY <1>0, <2>2, <2>5, <3>1, <4>1 DEF Placed
      <4>2. CASE i = Len(line) + 1
        <5>1. line'[i] = j
          BY <3>1, <4>2
        <5>2. state'[j] = "queued"
          BY <1>0, <2>5
        <5> QED
          BY <5>1, <5>2
      <4>3. i \in 1..Len(line) \/ i = Len(line) + 1
        BY <1>0, <3>1
      <4> QED
        BY <4>1, <4>2, <4>3
    <3>4. job' # NoJob => state'[job'] = "running"
      BY <1>0, <2>1, <2>3, <2>5 DEF Placed
    <3> QED
      BY <3>2, <3>3, <3>4 DEF Placed
  <2> QED
    BY <1>1, <2>4, <2>5 DEF Request
<1>2. ASSUME NEW j \in Jobs, Drop(j) PROVE Placed'
  <2>1. PICK i \in 1..Len(line) :
          line[i] = j /\ line' = SubSeq(line, 1, i - 1) \o SubSeq(line, i + 1, Len(line))
    BY <1>2 DEF Drop
  <2> DEFINE from(k) == IF k < i THEN k ELSE k + 1
  <2>2. Len(line') = Len(line) - 1 /\ \A k \in 1..Len(line') : line'[k] = line[from(k)]
    <3>1. line \in Seq(Jobs)
      BY <1>0
    <3>2. line' = SubSeq(line, 1, i - 1) \o SubSeq(line, i + 1, Len(line))
      BY <2>1
    <3>3. Skips(line', line, i)
      BY <3>1, <3>2, WithoutOne, Zenon
    <3> QED
      BY <3>3 DEF Skips
  <2>3. \A k \in 1..Len(line') : from(k) \in 1..Len(line) /\ from(k) # i
    <3> SUFFICES ASSUME NEW k \in 1..Len(line')
                 PROVE  from(k) \in 1..Len(line) /\ from(k) # i
      OBVIOUS
    <3>1. k \in 1..(Len(line) - 1)
      BY <2>2
    <3> QED
      BY <1>0, <3>1
  <2>4. \A k, l \in 1..Len(line') : from(k) = from(l) => k = l
    BY <1>0, <2>1, <2>2
  <2>5. \A k, l \in 1..Len(line') : line'[k] = line'[l] => k = l
    <3> HIDE DEF from
    <3> QED
      <4> SUFFICES ASSUME NEW k \in 1..Len(line'), NEW l \in 1..Len(line'),
                          line'[k] = line'[l]
                   PROVE  k = l
        OBVIOUS
      <4>1. line[from(k)] = line[from(l)] /\ from(k) \in 1..Len(line) /\ from(l) \in 1..Len(line)
        BY <2>2, <2>3
      <4>2. from(k) = from(l)
        BY <4>1 DEF Placed
      <4> QED
        BY <2>4, <4>2
  <2>6. state' = [state EXCEPT ![j] = "cancelled"] /\ job' = job
    BY <1>2 DEF Drop, runVars
  <2>7. \A k \in 1..Len(line') : state'[line'[k]] = "queued"
    <3> HIDE DEF from
    <3> QED
      <4> SUFFICES ASSUME NEW k \in 1..Len(line') PROVE state'[line'[k]] = "queued"
        OBVIOUS
      <4>1. line'[k] = line[from(k)] /\ from(k) \in 1..Len(line) /\ from(k) # i
        BY <2>2, <2>3
      <4>2. line[from(k)] # j /\ line[from(k)] \in Jobs /\ state[line[from(k)]] = "queued"
        BY <1>0, <2>1, <4>1 DEF Placed
      <4> QED
        BY <1>0, <2>6, <4>1, <4>2
  <2>8. job' # NoJob => state'[job'] = "running"
    BY <1>0, <2>1, <2>6 DEF Placed
  <2> QED
    BY <2>5, <2>7, <2>8 DEF Placed
<1>3. ASSUME Take PROVE Placed'
  <2>1. /\ line # <<>> /\ job' = Head(line) /\ line' = Tail(line)
        /\ state' = [state EXCEPT ![job'] = "running"]
    BY <1>3 DEF Take
  <2>2. /\ Len(line') = Len(line) - 1 /\ job' = line[1] /\ 1 \in 1..Len(line)
        /\ \A i \in 1..Len(line') : line'[i] = line[i + 1] /\ i + 1 \in 1..Len(line)
    BY <1>0, <2>1, HeadTailProperties
  <2>3. \A i, k \in 1..Len(line') : line'[i] = line'[k] => i = k
    BY <1>0, <2>2 DEF Placed
  <2>4. \A i \in 1..Len(line') : line'[i] # job' /\ line'[i] \in Jobs
    BY <1>0, <2>2 DEF Placed
  <2>5. \A i \in 1..Len(line') : state'[line'[i]] = "queued"
    BY <1>0, <2>1, <2>2, <2>4 DEF Placed
  <2>6. state'[job'] = "running"
    BY <1>0, <2>1, <2>2
  <2> QED
    BY <2>3, <2>5, <2>6 DEF Placed
<1>4. ASSUME Ends \/ Fails \/ Shutdown PROVE Placed'
  <2>1. PICK outcome, gone : Ending(outcome, gone)
    BY <1>4, EndingSteps
  <2>2. CASE line' = <<>>
    BY <2>1, <2>2 DEF Placed, Ending, Finalize, Idle
  <2>3. CASE Ends \/ Fails
    <3>1. PICK o \in {"done", "cancelled", "error"} : Finalize(o, {}) /\ line' = line /\ job \in Jobs
      BY <2>1, <2>3 DEF Ends, Fails, Ending
    <3>2. job' = NoJob /\ \A j \in Jobs : j # job => state'[j] = state[j]
      BY <3>1 DEF Finalize, Idle, Rows
    <3>3. \A i \in 1..Len(line) : line[i] # job
      BY <1>0, <3>1 DEF Placed
    <3> QED
      BY <1>0, <3>1, <3>2, <3>3 DEF Placed
  <2> QED
    BY <1>4, <2>2, <2>3 DEF Shutdown
<1>5. ASSUME Restart PROVE Placed'
  BY <1>5 DEF Restart, Idle, Placed
<1>6. ASSUME Asked \/ FirstOutput \/ Answered \/ Tick \/ UNCHANGED vars PROVE Placed'
  BY <1>6 DEF Asked, FirstOutput, Answered, Tick, vars, runVars, rowVars, Placed
<1> QED
  BY <1>1, <1>2, <1>3, <1>4, <1>5, <1>6 DEF Next

\* What a request does to the sessions: its own is among them, and is new or was there.
LEMMA RequestSession ==
  ASSUME Sound, NEW j \in Jobs, Request(j)
  PROVE  /\ Owner[j] \in Users /\ SessionOf(Owner[j]) \in 1..Len(sessions')
         /\ sessions'[SessionOf(Owner[j])].user = Owner[j]
         /\ Len(sessions) <= Len(sessions') /\ Len(sessions') \in Nat
         /\ \A t \in 1..Len(sessions) : sessions'[t] = sessions[t]
         /\ \A t \in 1..Len(sessions') : t \notin 1..Len(sessions) =>
              t = SessionOf(Owner[j]) /\ sessions'[t].used = 0
<1> DEFINE u == Owner[j]
           new == [user |-> u, start |-> now, expires |-> now + SessionWindow, used |-> 0]
<1>1. u \in Users /\ sessions \in Seq(SessionRow) /\ Len(sessions) \in Nat
  BY MeteringAssumption DEF Sound, TypeOK
<1>2. sessions' = SessionsFor(u)
  BY DEF Request
<1>3. CASE OpenNow(u) = {}
  <2>1. sessions' = Append(sessions, new) /\ SessionOf(u) = Len(sessions) + 1
    BY <1>2, <1>3 DEF SessionsFor, SessionOf
  <2>2. /\ Len(sessions') = Len(sessions) + 1 /\ sessions'[Len(sessions) + 1] = new
        /\ \A t \in 1..Len(sessions) : sessions'[t] = sessions[t]
    <3> HIDE DEF new
    <3> QED
      BY <1>1, <2>1, AppendProperties
  <2> QED
    BY <1>1, <2>1, <2>2
<1>4. CASE OpenNow(u) # {}
  <2>1. SessionOf(u) \in OpenNow(u)
    BY <1>1, <1>4, OwnSession
  <2>2. sessions' = sessions /\ SessionOf(u) \in 1..Len(sessions)
        /\ sessions[SessionOf(u)].user = u
    BY <1>1, <1>2, <1>4, <2>1 DEF SessionsFor, OpenNow
  <2> QED
    BY <1>1, <2>2
<1> QED
  BY <1>3, <1>4

\* What an ending does to the sessions: the job's own is charged its bill.
LEMMA EndingSessions ==
  ASSUME Sound, NEW outcome, NEW gone, Ending(outcome, gone)
  PROVE  /\ Len(sessions') = Len(sessions)
         /\ \A t \in 1..Len(sessions) :
              /\ sessions'[t].user = sessions[t].user
              /\ sessions'[t].used =
                   sessions[t].used + (IF t = session[job] THEN CreditsFor(outcome) ELSE 0)
<1> DEFINE paid == CreditsFor(outcome)
<1>1. sessions \in Seq(SessionRow) /\ Len(sessions) \in Nat
  BY DEF Sound, TypeOK
<1>2. \A t \in 1..Len(sessions) : sessions[t] \in SessionRow
  BY <1>1, ElementOfSeq
<1>3. sessions' = [sessions EXCEPT ![session[job]].used = @ + paid]
  BY DEF Ending, Finalize, Billed
<1>4. DOMAIN sessions' = 1..Len(sessions)
  BY <1>1, <1>3
<1>5. paid \in Nat
  BY BillIsNat DEF Sound
<1> HIDE DEF paid
<1>6. ASSUME NEW t \in 1..Len(sessions)
      PROVE  /\ sessions'[t].user = sessions[t].user
             /\ sessions'[t].used = sessions[t].used + (IF t = session[job] THEN paid ELSE 0)
  <2>0. sessions[t].used \in Nat
    BY <1>2 DEF SessionRow
  <2>1. CASE t = session[job]
    <3>1. sessions'[t] = [sessions[t] EXCEPT !.used = @ + paid]
      BY <1>1, <1>3, <2>1
    <3> QED
      BY <1>2, <2>1, <3>1 DEF SessionRow
  <2>2. CASE t # session[job]
    <3>1. sessions'[t] = sessions[t]
      BY <1>1, <1>3, <2>2
    <3> QED
      BY <2>0, <2>2, <3>1
  <2> QED
    BY <2>1, <2>2
<1>7. Len(sessions') = Len(sessions)
  <2>1. sessions' \in Seq(SessionRow)
    <3>1. now' = now /\ Charged
      BY <1>3, <1>5 DEF Ending, Finalize, Charged, Sound, TypeOK
    <3> QED
      BY <3>1, ChargeKeepsWindows
  <2> QED
    BY <1>1, <1>4, <2>1, LenProperties
<1> QED
  BY <1>6, <1>7 DEF paid

\* The rows after any step that neither requests nor ends a job.
LEMMA OtherRows ==
  ASSUME Sound, Placed,
         (\E j \in Jobs : Drop(j)) \/ Take \/ Asked \/ FirstOutput \/ Answered \/ Restart
           \/ Tick \/ UNCHANGED vars
  PROVE  /\ sessions' = sessions /\ session' = session /\ credits' = credits /\ now <= now'
         /\ \A j \in Jobs : /\ state'[j] = "none" <=> state[j] = "none"
                            /\ state'[j] \in Waiting => state[j] \in Waiting
                            /\ state'[j] \in {"queued", "running"} =>
                                 state[j] \in {"queued", "running"}
<1>0. /\ now \in Nat /\ state \in [Jobs -> RowState] /\ line \in Seq(Jobs)
      /\ Len(line) \in Nat /\ \A i \in 1..Len(line) : line[i] \in Jobs
  BY LenProperties, ElementOfSeq DEF Sound, TypeOK
<1>1. ASSUME NEW j \in Jobs, Drop(j)
      PROVE  state[j] = "queued" /\ state' = [state EXCEPT ![j] = "cancelled"]
  BY <1>1 DEF Drop, Placed
<1>2. ASSUME Take
      PROVE  line[1] \in Jobs /\ state[line[1]] = "queued"
             /\ state' = [state EXCEPT ![line[1]] = "running"]
  <2>1. /\ line # <<>> /\ job' = Head(line) /\ state' = [state EXCEPT ![job'] = "running"]
    BY <1>2 DEF Take
  <2>2. 1 \in 1..Len(line) /\ job' = line[1]
    BY <1>0, <2>1, HeadTailProperties
  <2> QED
    BY <1>0, <2>1, <2>2 DEF Placed
<1>3. ASSUME Restart
      PROVE  \A j \in Jobs : /\ state'[j] = "none" <=> state[j] = "none"
                             /\ state'[j] \in Waiting => state'[j] = state[j] /\ j # job
  <2>1. "lost" \in RowState \ Waiting /\ InLine \in {{}, InLine} /\ state' = Rows("lost", InLine)
    BY <1>3 DEF Restart, RowState, Waiting
  <2> QED
    BY <2>1, RowsSettle
<1>4. ASSUME Asked \/ FirstOutput \/ Answered \/ Tick \/ UNCHANGED vars PROVE state' = state
  BY <1>4 DEF Asked, FirstOutput, Answered, Tick, vars, rowVars
<1>5. sessions' = sessions /\ session' = session /\ credits' = credits
  BY DEF Drop, Take, Asked, FirstOutput, Answered, Restart, Tick, vars, rowVars
<1>6. now <= now'
  <2>1. now' = now \/ now' = now + 1
    BY DEF Drop, Take, Asked, FirstOutput, Answered, Restart, Tick, vars
  <2> QED
    BY <1>0, <2>1
<1> QED
  BY <1>0, <1>1, <1>2, <1>3, <1>4, <1>5, <1>6 DEF Waiting

LEMMA NextCases ==
  [Next]_vars <=> \/ \E j \in Jobs : Request(j)
                  \/ Ends \/ Fails \/ Shutdown
                  \/ (\E j \in Jobs : Drop(j)) \/ Take \/ Asked \/ FirstOutput \/ Answered
                  \/ Restart \/ Tick \/ UNCHANGED vars
  BY DEF Next

LEMMA AdmittedNext ==
  Sound /\ Placed /\ Unbilled /\ Admitted /\ [Next]_vars => Admitted' /\ Unbilled'
<1> SUFFICES ASSUME Sound, Placed, Unbilled, Admitted, [Next]_vars PROVE Admitted' /\ Unbilled'
  OBVIOUS
<1>0. /\ state \in [Jobs -> RowState] /\ session \in [Jobs -> Nat] /\ credits \in [Jobs -> Nat]
      /\ Len(sessions) \in Nat
  BY DEF Sound, TypeOK
<1>1. ASSUME NEW j \in Jobs, Request(j) PROVE Admitted' /\ Unbilled'
  <2> DEFINE s == SessionOf(Owner[j])
  <2>1. /\ s \in 1..Len(sessions') /\ sessions'[s].user = Owner[j]
        /\ Len(sessions) <= Len(sessions') /\ Len(sessions') \in Nat
        /\ \A t \in 1..Len(sessions) : sessions'[t] = sessions[t]
    BY <1>1, RequestSession
  <2>2. state[j] = "none" /\ session' = [session EXCEPT ![j] = s] /\ credits' = credits
    BY <1>1 DEF Request
  <2>3. \E new \in {"queued", "limit_exceeded"} : state' = [state EXCEPT ![j] = new]
    BY <1>1 DEF Request
  <2> HIDE DEF s
  <2>4. \A i \in Jobs : i # j => session'[i] = session[i] /\ state'[i] = state[i]
    BY <1>0, <2>2, <2>3
  <2>5. session'[j] = s /\ state'[j] # "none" /\ credits'[j] = 0
    BY <1>0, <2>2, <2>3 DEF Unbilled, Waiting
  <2>6. Admitted'
    <3> SUFFICES ASSUME NEW i \in Jobs
                 PROVE  IF state'[i] = "none" THEN session'[i] = 0
                        ELSE /\ session'[i] \in 1..Len(sessions')
                             /\ sessions'[session'[i]].user = Owner[i]
      BY DEF Admitted
    <3>1. CASE i = j
      BY <2>1, <2>5, <3>1
    <3>2. CASE i # j
      BY <1>0, <2>1, <2>4, <3>2 DEF Admitted
    <3> QED
      BY <3>1, <3>2
  <2>7. Unbilled'
    BY <2>2, <2>4, <2>5 DEF Unbilled
  <2> QED
    BY <2>6, <2>7
<1>2. ASSUME Ends \/ Fails \/ Shutdown PROVE Admitted' /\ Unbilled'
  <2>1. PICK outcome, gone : Ending(outcome, gone)
    BY <1>2, EndingSteps
  <2>2. \A j \in Jobs : /\ state'[j] = "none" <=> state[j] = "none"
                        /\ state'[j] \in Waiting => state'[j] = state[j] /\ j # job
    BY <2>1, EndingRows
  <2>3. /\ Len(sessions') = Len(sessions)
        /\ \A t \in 1..Len(sessions) : sessions'[t].user = sessions[t].user
    BY <2>1, EndingSessions
  <2>4. session' = session /\ \A j \in Jobs : j # job => credits'[j] = credits[j]
    BY <1>0, <2>1 DEF Ending, Finalize
  <2>5. Admitted'
    BY <2>2, <2>3, <2>4 DEF Admitted
  <2>6. Unbilled'
    BY <2>2, <2>4 DEF Unbilled
  <2> QED
    BY <2>5, <2>6
<1>3. ASSUME (\E j \in Jobs : Drop(j)) \/ Take \/ Asked \/ FirstOutput \/ Answered \/ Restart
               \/ Tick \/ UNCHANGED vars
      PROVE  Admitted' /\ Unbilled'
  <2>1. /\ sessions' = sessions /\ session' = session /\ credits' = credits
        /\ \A j \in Jobs : /\ state'[j] = "none" <=> state[j] = "none"
                           /\ state'[j] \in Waiting => state[j] \in Waiting
    BY <1>3, OtherRows
  <2> QED
    BY <2>1 DEF Admitted, Unbilled
<1> QED
  BY <1>1, <1>2, <1>3, NextCases

LEMMA PastNext == Sound /\ Past /\ [Next]_vars => Past'
<1> SUFFICES ASSUME Sound, Past, [Next]_vars PROVE Past'
  OBVIOUS
<1>0. /\ finished \in [Jobs -> Nat] /\ now \in Nat /\ picked \in Nat /\ started \in Nat
      /\ picked <= now
  BY DEF Sound, TypeOK, Clocks
<1>1. ASSUME NEW j \in Jobs, Request(j) \/ Drop(j) PROVE Past'
  <2>1. now' = now /\ phase' = phase /\ picked' = picked /\ started' = started
    BY <1>1 DEF Request, Drop, runVars
  <2>2. finished' = finished \/ finished' = [finished EXCEPT ![j] = now]
    BY <1>1 DEF Request, Drop
  <2> QED
    BY <1>0, <2>1, <2>2 DEF Past
<1>2. ASSUME Take \/ Restart PROVE Past'
  BY <1>0, <1>2 DEF Take, Restart, Idle, Past
<1>3. ASSUME Asked \/ FirstOutput \/ Answered \/ Tick \/ UNCHANGED vars PROVE Past'
  BY <1>0, <1>3 DEF Asked, FirstOutput, Answered, Tick, vars, runVars, rowVars, Past
<1>4. ASSUME Ends \/ Fails \/ Shutdown PROVE Past'
  <2>1. PICK outcome, gone : Ending(outcome, gone)
    BY <1>4, EndingSteps
  <2>2. phase' = "none" /\ now' = now /\ finished' = [finished EXCEPT ![job] = now]
    BY <2>1 DEF Ending, Finalize, Idle
  <2> QED
    BY <1>0, <2>2 DEF Past
<1> QED
  BY <1>1, <1>2, <1>3, <1>4 DEF Next

\* Of the jobs of a session, what a session's row says stays what they paid.
LEMMA ConservationNext ==
  Sound /\ Sound' /\ Placed /\ Unbilled /\ Admitted /\ Conservation /\ [Next]_vars
    => Conservation'
<1> SUFFICES ASSUME Sound, Sound', Placed, Unbilled, Admitted, Conservation, [Next]_vars
             PROVE  Conservation'
  OBVIOUS
<1> DEFINE of(t) == {i \in Jobs : session[i] = t}
<1>0. /\ IsFiniteSet(Jobs) /\ state \in [Jobs -> RowState] /\ session \in [Jobs -> Nat]
      /\ credits \in [Jobs -> Nat] /\ Len(sessions) \in Nat /\ DOMAIN sessions = 1..Len(sessions)
      /\ DOMAIN sessions' = 1..Len(sessions')
  <2>1. sessions \in Seq(SessionRow) /\ sessions' \in Seq(SessionRow)
    BY DEF Sound, TypeOK
  <2>2. /\ Len(sessions) \in Nat /\ DOMAIN sessions = 1..Len(sessions)
        /\ DOMAIN sessions' = 1..Len(sessions')
    BY <2>1, LenProperties
  <2>3. /\ state \in [Jobs -> RowState] /\ session \in [Jobs -> Nat]
        /\ credits \in [Jobs -> Nat]
    BY DEF Sound, TypeOK
  <2> QED
    BY <2>2, <2>3, MeteringAssumption
<1>1. \A S \in SUBSET Jobs : IsFiniteSet(S) /\ \A i \in S : credits[i] \in Nat
  BY <1>0, FS_Subset
<1>2. \A t \in 1..Len(sessions) : sessions[t].used = Total(credits, of(t))
  BY <1>0, CreditsAreTotals DEF Conservation
<1>3. SUFFICES \A t \in 1..Len(sessions') :
                 sessions'[t].used = Total(credits', {i \in Jobs : session'[i] = t})
  BY <1>0 DEF Conservation, CreditsOf, Total, MapThenSumSet, MapThenFoldSet
<1> HIDE DEF of
<1>4. ASSUME NEW j \in Jobs, Request(j), NEW t \in 1..Len(sessions')
      PROVE  sessions'[t].used = Total(credits', {i \in Jobs : session'[i] = t})
  <2> DEFINE s == SessionOf(Owner[j])
             new == {i \in Jobs : session'[i] = t}
  <2>1. /\ s \in 1..Len(sessions')
        /\ \A r \in 1..Len(sessions) : sessions'[r] = sessions[r]
        /\ \A r \in 1..Len(sessions') : r \notin 1..Len(sessions) =>
              r = s /\ sessions'[r].used = 0
    BY <1>4, RequestSession
  <2>2. state[j] = "none" /\ session' = [session EXCEPT ![j] = s] /\ credits' = credits
    BY <1>4 DEF Request
  <2>3. credits[j] = 0 /\ session[j] = 0
    BY <2>2 DEF Unbilled, Admitted, Waiting
  <2> HIDE DEF s
  <2>4. \A i \in Jobs : i # j => session'[i] = session[i]
    BY <1>0, <2>2
  <2>5. new \in SUBSET Jobs /\ of(t) \in SUBSET Jobs
    BY DEF of
  <2>6. CASE t \in 1..Len(sessions)
    <3>1. j \notin of(t)
      BY <2>3, <2>6 DEF of
    <3>2. new = of(t) \/ new = of(t) \cup {j}
      BY <2>4, <3>1 DEF of
    <3>3. CASE new = of(t)
      BY <1>2, <2>1, <2>2, <2>6, <3>3
    <3>4. CASE new = of(t) \cup {j}
      <4>1. j \in new /\ new \ {j} = of(t) /\ IsFiniteSet(new) /\ \A i \in new : credits[i] \in Nat
        BY <1>1, <2>5, <3>1, <3>4
      <4>2. Total(credits, new) = credits[j] + Total(credits, new \ {j})
        BY <4>1, TotalWithout
      <4>3. Total(credits, of(t)) \in Nat
        BY <1>1, <2>5, TotalIsNat
      <4>6. Total(credits, new) = credits[j] + Total(credits, of(t))
        <5> HIDE DEF new
        <5> QED
          BY <4>1, <4>2, Zenon
      <4>4. Total(credits, new) = Total(credits, of(t))
        <5> HIDE DEF new
        <5> QED
          BY <2>3, <4>3, <4>6
      <4>5. sessions'[t].used = Total(credits, of(t))
        BY <1>2, <2>1, <2>6
      <4> QED
        BY <2>2, <4>4, <4>5
    <3> QED
      BY <3>2, <3>3, <3>4
  <2>7. CASE t \notin 1..Len(sessions)
    <3>1. \A i \in Jobs : i # j => session[i] # t
      BY <1>0, <2>7 DEF Admitted
    <3>2. \A i \in new : credits[i] = 0
      BY <2>3, <2>4, <3>1
    <3>3. IsFiniteSet(new)
      BY <1>1, <2>5
    <3>4. Total(credits, new) = 0
      BY <3>2, <3>3, TotalOfZeros
    <3> QED
      BY <2>1, <2>2, <2>7, <3>4
  <2> QED
    BY <2>6, <2>7
<1>5. ASSUME Ends \/ Fails \/ Shutdown, NEW t \in 1..Len(sessions')
      PROVE  sessions'[t].used = Total(credits', {i \in Jobs : session'[i] = t})
  <2>1. PICK outcome, gone : Ending(outcome, gone)
    BY <1>5, EndingSteps
  <2> DEFINE paid == CreditsFor(outcome)
  <2>2. /\ Len(sessions') = Len(sessions)
        /\ sessions'[t].used = sessions[t].used + (IF t = session[job] THEN paid ELSE 0)
    BY <2>1, EndingSessions
  <2>3. job \in Jobs /\ credits' = [credits EXCEPT ![job] = paid] /\ session' = session
    BY <2>1 DEF Ending, Finalize
  <2>4. paid \in Nat
    BY BillIsNat DEF Sound
  <2>5. credits[job] = 0
    BY <2>3, MeteringAssumption DEF Unbilled, Placed, Waiting
  <2> HIDE DEF paid
  <2>6. of(t) \in SUBSET Jobs /\ IsFiniteSet(of(t)) /\ (job \in of(t) <=> t = session[job])
    BY <1>1, <2>3 DEF of
  <2>7. Total(credits', of(t)) = Total(credits, of(t)) + (IF job \in of(t) THEN paid ELSE 0)
    <3>1. credits'[job] = paid /\ \A i \in of(t) \ {job} : credits'[i] = credits[i]
      BY <1>0, <2>3, <2>6
    <3>2. \A i \in of(t) : credits[i] \in Nat
      BY <1>0, <2>6
    <3> QED
      BY <2>4, <2>5, <2>6, <3>1, <3>2, TotalBilled
  <2>8. {i \in Jobs : session'[i] = t} = of(t)
    BY <2>3 DEF of
  <2> QED
    BY <1>2, <2>2, <2>6, <2>7, <2>8
<1>6. ASSUME (\E j \in Jobs : Drop(j)) \/ Take \/ Asked \/ FirstOutput \/ Answered \/ Restart
               \/ Tick \/ UNCHANGED vars,
             NEW t \in 1..Len(sessions')
      PROVE  sessions'[t].used = Total(credits', {i \in Jobs : session'[i] = t})
  <2>1. sessions' = sessions /\ session' = session /\ credits' = credits
    BY <1>6, OtherRows
  <2> QED
    BY <1>2, <2>1 DEF of
<1> QED
  BY <1>4, <1>5, <1>6, NextCases

\* The box is not sold twice.
LEMMA BoxPaidNext ==
  Sound /\ Sound' /\ Placed /\ Unbilled /\ Past /\ BoxPaid /\ [Next]_vars => BoxPaid'
<1> SUFFICES ASSUME Sound, Sound', Placed, Unbilled, Past, BoxPaid, [Next]_vars PROVE BoxPaid'
  OBVIOUS
<1> DEFINE mark == IF job = NoJob THEN now ELSE picked
<1>0. /\ IsFiniteSet(Jobs) /\ credits \in [Jobs -> Nat] /\ now \in Nat /\ picked \in Nat
      /\ picked <= now /\ Rate \in Nat /\ NoJob \notin Jobs /\ now' \in Nat /\ picked' \in Nat
      /\ credits' \in [Jobs -> Nat]
  BY MeteringAssumption DEF Sound, TypeOK, Clocks
<1>1. Total(credits, Jobs) <= Rate * mark
  BY CreditsAreTotals DEF BoxPaid
<1>2. SUFFICES Total(credits', Jobs) <= Rate * (IF job' = NoJob THEN now' ELSE picked')
  BY DEF BoxPaid, CreditsOf, Total, MapThenSumSet, MapThenFoldSet
<1>3. Total(credits, Jobs) \in Nat /\ Total(credits', Jobs) \in Nat
  <2>1. (\A j \in Jobs : credits[j] \in Nat) /\ (\A j \in Jobs : credits'[j] \in Nat)
    BY <1>0
  <2> QED
    BY <1>0, <2>1, TotalIsNat
<1>4. ASSUME credits' = credits, NEW m \in Nat, mark <= m,
             m = IF job' = NoJob THEN now' ELSE picked'
      PROVE  Total(credits', Jobs) <= Rate * (IF job' = NoJob THEN now' ELSE picked')
  <2>1. mark \in Nat
    BY <1>0
  <2> HIDE DEF mark
  <2>2. Rate * mark <= Rate * m /\ Rate * mark \in Nat /\ Rate * m \in Nat
    BY <1>0, <1>4, <2>1, MoreCostsMore, NatTimes
  <2>3. Total(credits, Jobs) <= Rate * m
    BY <1>1, <1>3, <2>2
  <2> QED
    BY <1>4, <2>3
<1>5. ASSUME NEW j \in Jobs, Request(j) \/ Drop(j)
      PROVE  Total(credits', Jobs) <= Rate * (IF job' = NoJob THEN now' ELSE picked')
  BY <1>0, <1>1, <1>5 DEF Request, Drop, runVars
<1>6. ASSUME Take PROVE Total(credits', Jobs) <= Rate * (IF job' = NoJob THEN now' ELSE picked')
  <2>1. job = NoJob /\ credits' = credits /\ now' = now /\ picked' = now
    BY <1>6 DEF Take
  <2> QED
    BY <1>1, <2>1
<1>7. ASSUME Asked \/ FirstOutput \/ Answered \/ UNCHANGED vars
      PROVE  Total(credits', Jobs) <= Rate * (IF job' = NoJob THEN now' ELSE picked')
  BY <1>1, <1>7 DEF Asked, FirstOutput, Answered, vars, runVars, rowVars
<1>8. ASSUME Restart \/ Tick
      PROVE  Total(credits', Jobs) <= Rate * (IF job' = NoJob THEN now' ELSE picked')
  <2> DEFINE m == IF job' = NoJob THEN now' ELSE picked'
  <2>1. credits' = credits /\ mark <= m /\ m \in Nat
    BY <1>0, <1>8 DEF Restart, Tick, Idle, runVars, rowVars
  <2> QED
    BY <1>4, <2>1
<1>9. ASSUME Ends \/ Fails \/ Shutdown
      PROVE  Total(credits', Jobs) <= Rate * (IF job' = NoJob THEN now' ELSE picked')
  <2>1. PICK outcome, gone : Ending(outcome, gone)
    BY <1>9, EndingSteps
  <2> DEFINE paid == CreditsFor(outcome)
  <2>2. job \in Jobs /\ job' = NoJob /\ now' = now /\ credits' = [credits EXCEPT ![job] = paid]
    BY <2>1 DEF Ending, Finalize, Idle
  <2>3. paid \in Nat /\ paid <= Rate * (now - picked)
    BY BillIsNat, BillIsForTheBox DEF Sound
  <2>4. credits[job] = 0
    BY <2>2, MeteringAssumption DEF Unbilled, Placed, Waiting
  <2> HIDE DEF paid
  <2>5. Total(credits', Jobs) = Total(credits, Jobs) + paid
    <3>1. credits'[job] = paid /\ \A i \in Jobs \ {job} : credits'[i] = credits[i]
      BY <1>0, <2>2
    <3>2. \A i \in Jobs : credits[i] \in Nat
      BY <1>0
    <3>3. Total(credits', Jobs)
            = Total(credits, Jobs) + (IF job \in Jobs THEN credits'[job] ELSE 0)
      BY <1>0, <2>3, <2>4, <3>1, <3>2, TotalBilled
    <3> QED
      BY <2>2, <3>1, <3>3
  <2>6. Total(credits, Jobs) <= Rate * picked
    BY <1>0, <1>1, <2>2
  <2>7. Rate * picked + Rate * (now - picked) = Rate * now
    BY <1>0, MoreCostsMore
  <2>8. Rate * picked \in Nat /\ Rate * (now - picked) \in Nat /\ Rate * now \in Nat
    <3>1. now - picked \in Nat
      BY <1>0
    <3> QED
      BY <1>0, <3>1, NatTimes
  <2> QED
    BY <1>3, <2>2, <2>3, <2>5, <2>6, <2>7, <2>8
<1> QED
  BY <1>5, <1>6, <1>7, <1>8, <1>9 DEF Next

-----------------------------------------------------------------------------
(* The limits *)

\* Of some who paid, those before whom the others had already paid that much.
Over(paid, c, f, cap) == {j \in paid : Total(c, {i \in paid : f[i] < f[j]}) >= cap}

Payers(s) == {j \in Jobs : session[j] = s /\ credits[j] > 0}

\* A late payer makes nobody overshoot who did not.
LEMMA OverKept ==
  ASSUME NEW P, NEW Q, IsFiniteSet(P), P \subseteq Q, NEW c, NEW d, NEW f, NEW g, NEW cap,
         \A i \in P : c[i] \in Nat /\ d[i] = c[i] /\ f[i] \in Nat /\ g[i] = f[i],
         \A k \in Q \ P : g[k] \in Nat /\ \A i \in P : f[i] <= g[k]
  PROVE  \A i \in P : i \in Over(Q, d, g, cap) => i \in Over(P, c, f, cap)
<1> SUFFICES ASSUME NEW i \in P, i \in Over(Q, d, g, cap) PROVE i \in Over(P, c, f, cap)
  OBVIOUS
<1> DEFINE E == {k \in Q : g[k] < g[i]}
           F == {k \in P : f[k] < f[i]}
<1>1. E = F
  OBVIOUS
<1>2. IsFiniteSet(F) /\ \A k \in F : c[k] = d[k] /\ c[k] \in Nat
  BY FS_Subset
<1>3. Total(d, E) >= cap
  BY DEF Over
<1> HIDE DEF E, F
<1>4. Total(c, F) = Total(d, F)
  BY <1>2, TotalOfSame
<1>5. Total(c, F) >= cap
  BY <1>1, <1>3, <1>4
<1> QED
  BY <1>5 DEF Over, F

\* Overshooting, in these terms.
LEMMA OvershootingIsOver ==
  \A s : Overshooting(s) = Over(Payers(s), credits, finished, SessionCap[sessions[s].user])
  BY CreditsAreTotals DEF Overshooting, Over, Payers

\* The same, after a step.
LEMMA OvershootingIsOverNext ==
  \A s : Overshooting(s)' = Over(Payers(s)', credits', finished', SessionCap[sessions'[s].user])
  BY DEF Overshooting, Over, Payers, CreditsOf, Total, MapThenSumSet, MapThenFoldSet

\* The jobs of a user, or of a session, are finitely many.
LEMMA FewAreFinite ==
  ASSUME NEW S, S \subseteq Jobs, NEW T, T \subseteq S
  PROVE  /\ IsFiniteSet(S) /\ IsFiniteSet(T) /\ Cardinality(S) \in Nat
         /\ Cardinality(T) \in Nat /\ Cardinality(T) <= Cardinality(S)
<1>1. IsFiniteSet(S)
  <2>1. S \in SUBSET Jobs
    OBVIOUS
  <2> QED
    BY <2>1, MeteringAssumption, FS_Subset
<1>2. IsFiniteSet(T) /\ Cardinality(T) <= Cardinality(S)
  <2>1. T \in SUBSET S
    OBVIOUS
  <2> QED
    BY <1>1, <2>1, FS_Subset
<1> QED
  BY <1>1, <1>2, FS_CardinalityType

\* The few of a user stay few.
LEMMA CrowdNext == Sound /\ Placed /\ Crowd /\ [Next]_vars => Crowd'
<1> SUFFICES ASSUME Sound, Placed, Crowd, [Next]_vars,
                    NEW u \in Users \ Uncapped, MaxJobsPerUser > 0
             PROVE  Cardinality(Mine(u)') <= MaxJobsPerUser
  BY DEF Crowd
<1>0. /\ Mine(u) \subseteq Jobs /\ Mine(u)' \subseteq Jobs /\ MaxJobsPerUser \in Nat
      /\ state \in [Jobs -> RowState] /\ Cardinality(Mine(u)) <= MaxJobsPerUser
  BY MeteringAssumption DEF Mine, Crowd, Sound, TypeOK
<1>1. ASSUME Mine(u)' \subseteq Mine(u) PROVE Cardinality(Mine(u)') <= MaxJobsPerUser
  <2>1. /\ Cardinality(Mine(u)) \in Nat /\ Cardinality(Mine(u)') \in Nat
        /\ Cardinality(Mine(u)') <= Cardinality(Mine(u))
    BY <1>0, <1>1, FewAreFinite
  <2> QED
    BY <1>0, <2>1
<1>2. ASSUME NEW j \in Jobs, Request(j) PROVE Cardinality(Mine(u)') <= MaxJobsPerUser
  <2>1. \A i \in Jobs : i # j => state'[i] = state[i]
    BY <1>0, <1>2 DEF Request
  <2>2. CASE Owner[j] # u
    BY <1>1, <2>1, <2>2 DEF Mine
  <2>3. CASE Owner[j] = u
    <3>1. Cardinality(Mine(u)) < MaxJobsPerUser
      BY <1>0, <1>2, <2>3 DEF Request, UnderJobCap
    <3>2. Mine(u)' \subseteq Mine(u) \cup {j}
      BY <2>1 DEF Mine
    <3>3. IsFiniteSet(Mine(u)) /\ Cardinality(Mine(u)) \in Nat
      BY <1>0, FewAreFinite
    <3>4. Cardinality(Mine(u) \cup {j}) <= Cardinality(Mine(u)) + 1
      <4>1. Cardinality(Mine(u) \cup {j}) = IF j \in Mine(u) THEN Cardinality(Mine(u))
                                            ELSE Cardinality(Mine(u)) + 1
        BY <3>3, FS_AddElement
      <4> QED
        BY <3>3, <4>1
    <3>5. /\ Cardinality(Mine(u)') <= Cardinality(Mine(u) \cup {j})
          /\ Cardinality(Mine(u)') \in Nat /\ Cardinality(Mine(u) \cup {j}) \in Nat
      BY <1>0, <3>2, FewAreFinite
    <3> QED
      BY <1>0, <3>1, <3>3, <3>4, <3>5
  <2> QED
    BY <2>2, <2>3
<1>3. ASSUME Ends \/ Fails \/ Shutdown PROVE Cardinality(Mine(u)') <= MaxJobsPerUser
  <2>1. PICK outcome, gone : Ending(outcome, gone)
    BY <1>3, EndingSteps
  <2>2. \A j \in Jobs : state'[j] \in Waiting => state'[j] = state[j]
    BY <2>1, EndingRows
  <2> QED
    BY <1>1, <2>2 DEF Mine, Waiting
<1>4. ASSUME (\E j \in Jobs : Drop(j)) \/ Take \/ Asked \/ FirstOutput \/ Answered \/ Restart
               \/ Tick \/ UNCHANGED vars
      PROVE  Cardinality(Mine(u)') <= MaxJobsPerUser
  <2>1. \A j \in Jobs : state'[j] \in {"queued", "running"} => state[j] \in {"queued", "running"}
    BY <1>4, OtherRows
  <2> QED
    BY <1>1, <2>1 DEF Mine
<1> QED
  BY <1>2, <1>3, <1>4, NextCases

\* The payers of a session under its cap have not overshot.
LEMMA UnderCapNobodyIsOver ==
  ASSUME Sound, Conservation, NEW s \in 1..Len(sessions),
         sessions[s].used < SessionCap[sessions[s].user]
  PROVE  Overshooting(s) = {}
<1>1. SUFFICES ASSUME NEW j \in Overshooting(s) PROVE FALSE
  OBVIOUS
<1> DEFINE E == {i \in Payers(s) : finished[i] < finished[j]}
           S == {i \in Jobs : session[i] = s}
           cap == SessionCap[sessions[s].user]
<1>2. Total(credits, E) >= cap
  BY <1>1, OvershootingIsOver DEF Over
<1>3. sessions[s].used = Total(credits, S)
  <2>1. s \in DOMAIN sessions
    BY DEF Sound, TypeOK
  <2>2. sessions[s].used = CreditsOf({i \in Jobs : session[i] = s})
    BY <2>1 DEF Conservation
  <2> QED
    BY <2>2, CreditsAreTotals
<1>4. E \in SUBSET S /\ S \subseteq Jobs /\ \A i \in S : credits[i] \in Nat
  BY DEF Payers, Sound, TypeOK
<1> HIDE DEF E, S
<1>5. IsFiniteSet(S)
  BY <1>4, FewAreFinite
<1>6. Total(credits, E) \in Nat /\ Total(credits, S) \in Nat /\ Total(credits, E) <= Total(credits, S)
  BY <1>4, <1>5, TotalOfPart
<1>7. cap \in Nat
  <2>1. sessions[s] \in SessionRow
    BY ElementOfSeq DEF Sound, TypeOK
  <2> QED
    BY <2>1, MeteringAssumption DEF SessionRow
<1> QED
  BY <1>2, <1>3, <1>6, <1>7

\* What a step that ends no job leaves to a session: the same payers, and no
\* job more to pay for.
LEMMA LagKept ==
  ASSUME Sound, Sound', Lag, MaxJobsPerUser > 0, NEW s \in 1..Len(sessions),
         sessions'[s].user = sessions[s].user, sessions'[s].used = sessions[s].used,
         sessions[s].user \notin Uncapped,
         sessions[s].used >= SessionCap[sessions[s].user],
         Payers(s)' = Payers(s),
         \A i \in Payers(s) : credits'[i] = credits[i] /\ finished'[i] = finished[i],
         Late(s)' \subseteq Late(s)
  PROVE  Cardinality(Overshooting(s)' \cup Late(s)') < MaxJobsPerUser
<1> DEFINE cap == SessionCap[sessions[s].user]
           new == Overshooting(s)' \cup Late(s)'
           old == Overshooting(s) \cup Late(s)
<1>1. /\ Payers(s) \subseteq Jobs /\ Late(s) \subseteq Jobs /\ Late(s)' \subseteq Jobs
      /\ MaxJobsPerUser \in Nat
  BY MeteringAssumption DEF Payers, Late, Mine
<1>2. IsFiniteSet(Payers(s))
  BY <1>1, FewAreFinite
<1>3. \A i \in Payers(s) : /\ credits[i] \in Nat /\ credits'[i] = credits[i]
                           /\ finished[i] \in Nat /\ finished'[i] = finished[i]
  BY <1>1 DEF Sound, TypeOK
<1>4. \A i \in Payers(s) : i \in Over(Payers(s), credits', finished', cap)
                             => i \in Over(Payers(s), credits, finished, cap)
  BY <1>2, <1>3, OverKept
<1>5. /\ Overshooting(s) = Over(Payers(s), credits, finished, cap)
      /\ Overshooting(s)' = Over(Payers(s), credits', finished', cap)
  BY OvershootingIsOver, OvershootingIsOverNext
<1>6. Overshooting(s)' \subseteq Overshooting(s) /\ Overshooting(s) \subseteq Jobs
  BY <1>1, <1>4, <1>5 DEF Over
<1>7. new \subseteq old /\ old \subseteq Jobs
  BY <1>1, <1>6
<1>8. Cardinality(old) < MaxJobsPerUser
  BY DEF Lag
<1> HIDE DEF new, old
<1>9. Cardinality(new) \in Nat /\ Cardinality(old) \in Nat /\ Cardinality(new) <= Cardinality(old)
  BY <1>7, FewAreFinite
<1>10. Cardinality(new) < MaxJobsPerUser
  BY <1>1, <1>8, <1>9
<1> QED
  BY <1>10 DEF new

\* A session past its cap stays with less than a few late payers, and one that
\* a bill takes past it begins with them.
LEMMA LagNext ==
  Sound /\ Sound' /\ Books /\ [Next]_vars => Lag'
<1> SUFFICES ASSUME Sound, Sound', Books, [Next]_vars, MaxJobsPerUser > 0,
                    NEW s \in 1..Len(sessions'), sessions'[s].user \notin Uncapped,
                    sessions'[s].used >= SessionCap[sessions'[s].user]
             PROVE  Cardinality(Overshooting(s)' \cup Late(s)') < MaxJobsPerUser
  BY DEF Lag, Late, Mine
<1>0. /\ MaxJobsPerUser \in Nat /\ Len(sessions) \in Nat /\ state \in [Jobs -> RowState]
      /\ session \in [Jobs -> Nat] /\ credits \in [Jobs -> Nat] /\ finished \in [Jobs -> Nat]
      /\ now \in Nat
  <2>1. /\ Len(sessions) \in Nat /\ state \in [Jobs -> RowState] /\ session \in [Jobs -> Nat]
        /\ credits \in [Jobs -> Nat] /\ finished \in [Jobs -> Nat] /\ now \in Nat
    <3>1. /\ sessions \in Seq(SessionRow) /\ state \in [Jobs -> RowState]
          /\ session \in [Jobs -> Nat] /\ credits \in [Jobs -> Nat]
          /\ finished \in [Jobs -> Nat] /\ now \in Nat
      BY DEF Sound, TypeOK
    <3> QED
      BY <3>1, LenProperties
  <2> QED
    BY <2>1, MeteringAssumption
<1>1. ASSUME NEW j \in Jobs, Request(j)
      PROVE  Cardinality(Overshooting(s)' \cup Late(s)') < MaxJobsPerUser
  <2> DEFINE own == SessionOf(Owner[j])
  <2>1. /\ own \in 1..Len(sessions') /\ sessions'[own].user = Owner[j]
        /\ \A t \in 1..Len(sessions) : sessions'[t] = sessions[t]
        /\ \A t \in 1..Len(sessions') : t \notin 1..Len(sessions) =>
              t = own /\ sessions'[t].used = 0
    BY <1>1, RequestSession
  <2>2. /\ state[j] = "none" /\ session' = [session EXCEPT ![j] = own] /\ credits' = credits
        /\ sessions' = SessionsFor(Owner[j])
    BY <1>1 DEF Request
  <2>3. credits[j] = 0 /\ session[j] = 0
    BY <2>2 DEF Books, Unbilled, Admitted, Waiting
  <2>4. s = own => state' = [state EXCEPT ![j] = "limit_exceeded"]
    <3> SUFFICES ASSUME s = own PROVE ~ UnderLimits(Owner[j], SessionsFor(Owner[j])[own].used)
      BY <1>1 DEF Request
    <3>1. SessionsFor(Owner[j])[own].used >= SessionCap[Owner[j]] /\ Owner[j] \notin Uncapped
      BY <2>1, <2>2
    <3>2. SessionCap[Owner[j]] \in Nat /\ SessionsFor(Owner[j])[own].used \in Nat
      <4>1. Owner[j] \in Users
        BY MeteringAssumption
      <4>2. sessions'[own] \in SessionRow
        BY <2>1, ElementOfSeq DEF Sound, TypeOK
      <4> QED
        BY <2>2, <4>1, <4>2, MeteringAssumption DEF SessionRow
    <3> QED
      BY <3>1, <3>2 DEF UnderLimits
  <2> HIDE DEF own
  <2>5. \A i \in Jobs : i # j => session'[i] = session[i] /\ state'[i] = state[i]
    BY <1>0, <1>1, <2>2 DEF Request
  <2>6. \A i \in Jobs : i # j => finished'[i] = finished[i]
    BY <1>0, <1>1 DEF Request
  <2>7. j \notin Late(s)'
    <3>1. CASE s = own
      BY <1>0, <2>4, <3>1 DEF Late, Mine
    <3>2. CASE s # own
      BY <1>0, <2>2, <3>2 DEF Late
    <3> QED
      BY <3>1, <3>2
  <2>8. j \notin Payers(s) /\ j \notin Payers(s)'
    BY <2>2, <2>3 DEF Payers
  <2>9. CASE s \in 1..Len(sessions)
    <3>1. sessions'[s] = sessions[s]
      BY <2>1, <2>9
    <3>2. Payers(s)' = Payers(s)
      BY <2>2, <2>5, <2>8 DEF Payers
    <3>3. \A i \in Payers(s) : credits'[i] = credits[i] /\ finished'[i] = finished[i]
      BY <2>2, <2>6, <2>8 DEF Payers
    <3>4. Late(s)' \subseteq Late(s)
      BY <2>5, <2>7, <3>1 DEF Late, Mine
    <3> QED
      BY <2>9, <3>1, <3>2, <3>3, <3>4, LagKept DEF Books
  <2>10. CASE s \notin 1..Len(sessions)
    <3>1. \A i \in Jobs : i # j => session[i] # s
      BY <1>0, <2>1, <2>10 DEF Books, Admitted
    <3>2. Payers(s)' = {}
      BY <2>5, <2>8, <3>1 DEF Payers
    <3>3. Late(s)' = {}
      BY <2>5, <2>7, <3>1 DEF Late, Mine
    <3>4. Overshooting(s)' = {}
      BY <3>2, OvershootingIsOverNext DEF Over
    <3>5. Overshooting(s)' \cup Late(s)' = {}
      BY <3>3, <3>4
    <3> QED
      BY <1>0, <3>5, FS_EmptySet
  <2> QED
    BY <2>9, <2>10
<1>2. ASSUME Ends \/ Fails \/ Shutdown
      PROVE  Cardinality(Overshooting(s)' \cup Late(s)') < MaxJobsPerUser
  <2>1. PICK outcome, gone : Ending(outcome, gone)
    BY <1>2, EndingSteps
  <2> DEFINE paid == CreditsFor(outcome)
             cap == SessionCap[sessions[s].user]
  <2>2. \A j \in Jobs : state'[j] \in Waiting => state'[j] = state[j] /\ j # job
    BY <2>1, EndingRows DEF Books
  <2>3. /\ s \in 1..Len(sessions) /\ sessions'[s].user = sessions[s].user
        /\ sessions'[s].used = sessions[s].used + (IF s = session[job] THEN paid ELSE 0)
    BY <2>1, EndingSessions
  <2>4. /\ job \in Jobs /\ session' = session /\ credits' = [credits EXCEPT ![job] = paid]
        /\ finished' = [finished EXCEPT ![job] = now]
    BY <2>1 DEF Ending, Finalize
  <2>5. paid \in Nat
    BY BillIsNat DEF Sound
  <2>6. credits[job] = 0 /\ state[job] = "running" /\ Owner[job] = sessions[session[job]].user
    BY <2>4, MeteringAssumption DEF Books, Unbilled, Placed, Admitted, Waiting
  <2>7. sessions[s].used \in Nat /\ cap \in Nat
    <3>1. sessions[s] \in SessionRow
      BY <2>3, ElementOfSeq DEF Sound, TypeOK
    <3> QED
      BY <3>1, MeteringAssumption DEF SessionRow
  <2> HIDE DEF paid
  <2>8. /\ credits'[job] = paid /\ finished'[job] = now
        /\ \A i \in Jobs : i # job => credits'[i] = credits[i] /\ finished'[i] = finished[i]
    BY <1>0, <2>4
  <2>9. Late(s)' \subseteq Late(s) \ {job}
    BY <2>2, <2>3, <2>4 DEF Late, Mine, Waiting
  <2>10. job \notin Payers(s) /\ Payers(s) \subseteq Jobs
    BY <2>6 DEF Payers
  <2>11. CASE s # session[job]
    <3>1. Payers(s)' = Payers(s)
      BY <2>4, <2>8, <2>11 DEF Payers
    <3>2. \A i \in Payers(s) : credits'[i] = credits[i] /\ finished'[i] = finished[i]
      BY <2>8, <2>10
    <3> QED
      BY <2>3, <2>7, <2>9, <2>11, <3>1, <3>2, LagKept DEF Books
  <2>12. CASE s = session[job] /\ sessions[s].used >= cap
    <3> DEFINE new == Overshooting(s)' \cup Late(s)'
               old == Overshooting(s) \cup Late(s)
    <3>1. Payers(s) \subseteq Payers(s)' /\ Payers(s)' \subseteq Payers(s) \cup {job}
      BY <2>4, <2>8, <2>10 DEF Payers
    <3>2. IsFiniteSet(Payers(s))
      BY <2>10, FewAreFinite
    <3>3. \A i \in Payers(s) : /\ credits[i] \in Nat /\ credits'[i] = credits[i]
                               /\ finished[i] \in Nat /\ finished'[i] = finished[i]
      BY <1>0, <2>8, <2>10
    <3>4. \A k \in Payers(s)' \ Payers(s) :
            finished'[k] \in Nat /\ \A i \in Payers(s) : finished[i] <= finished'[k]
      BY <1>0, <2>8, <2>10, <3>1 DEF Books, Past
    <3>5. \A i \in Payers(s) : i \in Over(Payers(s)', credits', finished', cap)
                                 => i \in Over(Payers(s), credits, finished, cap)
      BY <3>1, <3>2, <3>3, <3>4, OverKept
    <3>6. /\ Overshooting(s) = Over(Payers(s), credits, finished, cap)
          /\ Overshooting(s)' = Over(Payers(s)', credits', finished', cap)
      BY <2>3, OvershootingIsOver, OvershootingIsOverNext
    <3>7. Overshooting(s)' \subseteq Overshooting(s) \cup {job} /\ Overshooting(s) \subseteq Jobs
      BY <2>10, <3>1, <3>5, <3>6 DEF Over
    <3>8. job \in Late(s)
      BY <2>4, <2>6, <2>12 DEF Late, Mine
    <3>9. new \subseteq old /\ old \subseteq Jobs
      BY <2>9, <3>7, <3>8 DEF Late, Mine
    <3>10. Cardinality(old) < MaxJobsPerUser
      BY <2>3, <2>12 DEF Books, Lag
    <3> HIDE DEF new, old
    <3>11. Cardinality(new) \in Nat /\ Cardinality(old) \in Nat
           /\ Cardinality(new) <= Cardinality(old)
      BY <3>9, FewAreFinite
    <3>12. Cardinality(new) < MaxJobsPerUser
      BY <1>0, <3>10, <3>11
    <3> QED
      BY <3>12 DEF new
  <2>13. CASE s = session[job] /\ ~ (sessions[s].used >= cap)
    <3> DEFINE S == {i \in Jobs : session[i] = s}
    <3>1. sessions[s].used = Total(credits, S)
      <4>1. s \in DOMAIN sessions
        BY <2>3 DEF Sound, TypeOK
      <4>2. sessions[s].used = CreditsOf(S)
        BY <4>1 DEF Books, Conservation
      <4> QED
        BY <4>2, CreditsAreTotals
    <3>2. Overshooting(s)' = {}
      <4>1. SUFFICES ASSUME NEW j \in Overshooting(s)' PROVE FALSE
        OBVIOUS
      <4> DEFINE E == {i \in Payers(s)' : finished'[i] < finished'[j]}
      <4>2. j \in Payers(s)' /\ Total(credits', E) >= cap
        BY <2>3, OvershootingIsOverNext DEF Over
      <4>3. finished'[j] <= now /\ finished'[j] \in Nat
        <5>1. j \in Jobs
          BY <4>2 DEF Payers
        <5>2. finished[j] <= now /\ finished[j] \in Nat
          BY <1>0, <5>1 DEF Books, Past
        <5>3. finished'[j] = now \/ finished'[j] = finished[j]
          BY <2>8, <5>1
        <5> QED
          BY <1>0, <5>2, <5>3
      <4>4. job \notin E
        BY <1>0, <2>8, <4>3
      <4>5. E \in SUBSET S /\ S \subseteq Jobs /\ \A i \in S : credits[i] \in Nat
        BY <1>0, <2>4 DEF Payers
      <4>6. \A i \in E : credits[i] = credits'[i] /\ credits[i] \in Nat
        BY <2>8, <4>4, <4>5
      <4> HIDE DEF E, S
      <4>7. IsFiniteSet(S) /\ IsFiniteSet(E)
        BY <4>5, FewAreFinite
      <4>8. /\ Total(credits, E) \in Nat /\ Total(credits, S) \in Nat
            /\ Total(credits, E) <= Total(credits, S)
        BY <4>5, <4>7, TotalOfPart
      <4>9. Total(credits, E) = Total(credits', E)
        BY <4>6, <4>7, TotalOfSame
      <4> QED
        BY <2>7, <2>13, <3>1, <4>2, <4>8, <4>9
    <3>3. Overshooting(s)' \cup Late(s)' = Late(s)'
      BY <3>2
    <3> DEFINE u == sessions[s].user
               few == Mine(u) \ {job}
    <3>4. u \in Users \ Uncapped /\ job \in Mine(u) /\ Mine(u) \subseteq Jobs
      <4>1. sessions[s] \in SessionRow
        BY <2>3, ElementOfSeq DEF Sound, TypeOK
      <4> QED
        BY <2>3, <2>4, <2>6, <2>13, <4>1 DEF SessionRow, Mine
    <3>5. Late(s)' \subseteq few /\ few \subseteq Jobs
      BY <2>9, <3>4 DEF Late
    <3>6. Cardinality(Mine(u)) <= MaxJobsPerUser
      BY <3>4 DEF Books, Crowd
    <3> HIDE DEF u
    <3>7. IsFiniteSet(Mine(u)) /\ Cardinality(Mine(u)) \in Nat
      BY <3>4, FewAreFinite
    <3>8. Cardinality(few) = Cardinality(Mine(u)) - 1
      BY <3>4, <3>7, FS_RemoveElement
    <3> HIDE DEF few
    <3>9. /\ Cardinality(Late(s)') \in Nat /\ Cardinality(few) \in Nat
          /\ Cardinality(Late(s)') <= Cardinality(few)
      BY <3>5, FewAreFinite
    <3>10. Cardinality(Late(s)') < MaxJobsPerUser
      BY <1>0, <3>6, <3>7, <3>8, <3>9
    <3> QED
      BY <3>3, <3>10
  <2> QED
    BY <2>11, <2>12, <2>13
<1>3. ASSUME (\E j \in Jobs : Drop(j)) \/ Take \/ Asked \/ FirstOutput \/ Answered \/ Restart
               \/ Tick \/ UNCHANGED vars
      PROVE  Cardinality(Overshooting(s)' \cup Late(s)') < MaxJobsPerUser
  <2>1. /\ sessions' = sessions /\ session' = session /\ credits' = credits
        /\ \A j \in Jobs : state'[j] \in {"queued", "running"} => state[j] \in {"queued", "running"}
    BY <1>3, OtherRows DEF Books
  <2>2. Payers(s)' = Payers(s) /\ Late(s)' \subseteq Late(s)
    BY <2>1 DEF Payers, Late, Mine
  <2>3. \A i \in Payers(s) : finished'[i] = finished[i]
    <3>1. ASSUME NEW j \in Jobs, Drop(j) PROVE \A i \in Payers(s) : finished'[i] = finished[i]
      <4>1. state[j] = "queued" /\ finished' = [finished EXCEPT ![j] = now]
        BY <3>1 DEF Drop, Books, Placed
      <4>2. credits[j] = 0
        BY <4>1 DEF Books, Unbilled, Waiting
      <4> QED
        BY <1>0, <4>1, <4>2 DEF Payers
    <3>2. ASSUME ~ \E j \in Jobs : Drop(j) PROVE finished' = finished
      BY <1>3, <3>2 DEF Take, Asked, FirstOutput, Answered, Restart, Tick, vars, rowVars
    <3> QED
      BY <3>1, <3>2
  <2> QED
    BY <2>1, <2>2, <2>3, LagKept DEF Books
<1> QED
  BY <1>1, <1>2, <1>3, NextCases

-----------------------------------------------------------------------------
(* The week *)

\* The least of some natural numbers, as Min finds it.
LEMMA LeastNumber ==
  ASSUME NEW S, S \subseteq Nat, S # {}
  PROVE  Min(S) \in S /\ \A x \in S : Min(S) <= x
<1>1. PICK m \in S : \A k \in S : ~ (<<k, m>> \in OpToRel(<, Nat))
  BY NatLessThanWellFounded, WFMin
<1>2. \A k \in S : m <= k
  <2> TAKE k \in S
  <2>1. k \in Nat /\ m \in Nat
    OBVIOUS
  <2>2. ~ (<<k, m>> \in OpToRel(<, Nat))
    BY <1>1
  <2>3. ~ (k < m)
    BY <2>1, <2>2 DEF OpToRel
  <2> QED
    BY <2>1, <2>3
<1>3. \E x \in S : \A y \in S : x <= y
  BY <1>2
<1> QED
  BY <1>3 DEF Min

\* Of some rows, one finished last.
LEMMA LastFinished ==
  ASSUME Sound, Past, NEW P, P \subseteq Jobs, P # {}
  PROVE  \E j \in P : \A i \in P : finished[i] <= finished[j]
<1> DEFINE ago == {now - finished[i] : i \in P}
<1>1. \A i \in P : finished[i] \in Nat /\ finished[i] <= now /\ now \in Nat
  BY DEF Sound, TypeOK, Past
<1>2. ago \subseteq Nat /\ ago # {}
  BY <1>1
<1>3. Min(ago) \in ago /\ \A x \in ago : Min(ago) <= x
  <2> HIDE DEF ago
  <2> QED
    BY <1>2, LeastNumber
<1>4. PICK j \in P : Min(ago) = now - finished[j]
  BY <1>3
<1>5. ASSUME NEW i \in P PROVE finished[i] <= finished[j]
  <2>1. now - finished[i] \in ago
    OBVIOUS
  <2>2. now - finished[j] <= now - finished[i]
    <3> HIDE DEF ago
    <3> QED
      BY <1>3, <1>4, <2>1
  <2> QED
    BY <1>1, <2>2
<1> QED
  BY <1>5

\* The rows of the week that cost something, those of them that have left the
\* window at t, and those that finished with j or before it.
Dear(u) == {j \in InWeek(u, now) : credits[j] > 0}
Left(u, t) == {i \in Dear(u) : finished[i] < t - Week}
UpTo(u, j) == {i \in Dear(u) : finished[i] <= finished[j]}

\* What a week weighs later is what it weighs now, less what has left it.
LEMMA WeekLater ==
  ASSUME Sound, NEW u \in Users, NEW t \in Nat, now <= t
  PROVE  /\ WeeklyCredits(u, now) = Total(credits, Dear(u))
         /\ Total(credits, Dear(u)) \in Nat /\ Total(credits, Left(u, t)) \in Nat
         /\ WeeklyCredits(u, t) = Total(credits, Dear(u)) - Total(credits, Left(u, t))
<1> DEFINE A == InWeek(u, now)
           B == InWeek(u, t)
<1>0. /\ now \in Nat /\ Week \in Nat /\ finished \in [Jobs -> Nat] /\ credits \in [Jobs -> Nat]
      /\ A \subseteq Jobs /\ Finished \subseteq Jobs
  BY MeteringAssumption DEF Sound, TypeOK, InWeek, Finished
<1>1. B \subseteq A /\ Dear(u) \subseteq A /\ Left(u, t) \subseteq Dear(u)
  BY <1>0 DEF InWeek, Dear, Left
<1>2. \A i \in Jobs : credits[i] \in Nat
  BY <1>0
<1>3. \A S, T : T \subseteq S /\ S \subseteq Jobs =>
        /\ Total(credits, S) \in Nat /\ Total(credits, T) \in Nat
        /\ Total(credits, S \ T) \in Nat
        /\ Total(credits, S) = Total(credits, T) + Total(credits, S \ T)
  <2> SUFFICES ASSUME NEW S, NEW T, T \subseteq S, S \subseteq Jobs
               PROVE  /\ Total(credits, S) \in Nat /\ Total(credits, T) \in Nat
                      /\ Total(credits, S \ T) \in Nat
                      /\ Total(credits, S) = Total(credits, T) + Total(credits, S \ T)
    OBVIOUS
  <2>1. IsFiniteSet(S) /\ IsFiniteSet(S \ T) /\ T \in SUBSET S
    BY FewAreFinite
  <2>2. (\A i \in S : credits[i] \in Nat) /\ (\A i \in S \ T : credits[i] \in Nat)
    BY <1>2
  <2> QED
    BY <2>1, <2>2, TotalOfPart, TotalIsNat
<1>4. \A S : S \subseteq Jobs /\ (\A i \in S : credits[i] = 0) => Total(credits, S) = 0
  <2> SUFFICES ASSUME NEW S, S \subseteq Jobs, \A i \in S : credits[i] = 0
               PROVE  Total(credits, S) = 0
    OBVIOUS
  <2>1. IsFiniteSet(S)
    BY FewAreFinite
  <2> QED
    BY <2>1, TotalOfZeros
<1> DEFINE free == A \ Dear(u)
           out == A \ B
           cheap == out \ Left(u, t)
<1>5. Left(u, t) \subseteq out /\ out \subseteq Jobs /\ free \subseteq Jobs /\ cheap \subseteq Jobs
  BY <1>0, <1>1 DEF InWeek, Left, Dear
<1>6. (\A i \in free : credits[i] = 0) /\ (\A i \in cheap : credits[i] = 0)
  BY <1>0, <1>1 DEF Dear, Left, InWeek
<1>7. Total(credits, free) = 0 /\ Total(credits, cheap) = 0
  <2> HIDE DEF free, cheap
  <2> QED
    BY <1>4, <1>5, <1>6
<1>8. /\ Total(credits, A) = Total(credits, Dear(u)) + Total(credits, free)
      /\ Total(credits, A) \in Nat /\ Total(credits, Dear(u)) \in Nat
  BY <1>0, <1>1, <1>3
<1>9. /\ Total(credits, A) = Total(credits, B) + Total(credits, out)
      /\ Total(credits, B) \in Nat
  BY <1>0, <1>1, <1>3
<1>10. /\ Total(credits, out) = Total(credits, Left(u, t)) + Total(credits, cheap)
       /\ Total(credits, out) \in Nat /\ Total(credits, Left(u, t)) \in Nat
  <2> HIDE DEF out
  <2> QED
    BY <1>3, <1>5
<1>11. WeeklyCredits(u, now) = Total(credits, A) /\ WeeklyCredits(u, t) = Total(credits, B)
  BY CreditsAreTotals DEF WeeklyCredits
<1> HIDE DEF A, B, free, out, cheap
<1> QED
  BY <1>7, <1>8, <1>9, <1>10, <1>11

\* The rows that, gone with all before them, leave less than that much.
Frees(u, limit) ==
  {j \in Dear(u) : Total(credits, Dear(u)) - Total(credits, UpTo(u, j)) < limit}

\* The week weighs less than a limit it has reached from the tick on after the
\* first such row has left it.
LEMMA WeekLetsGo ==
  ASSUME Sound, Past, NEW u \in Users, NEW limit \in Nat, limit > 0,
         limit <= Total(credits, Dear(u)), NEW t \in Nat, now <= t
  PROVE  /\ Frees(u, limit) # {}
         /\ WeeklyCredits(u, t) < limit
              <=> t > Min({finished[j] : j \in Frees(u, limit)}) + Week
<1> DEFINE all == Total(credits, Dear(u))
           ends == {finished[j] : j \in Frees(u, limit)}
<1>0. /\ now \in Nat /\ Week \in Nat /\ Dear(u) \subseteq Jobs
      /\ \A i \in Dear(u) : finished[i] \in Nat /\ credits[i] \in Nat
      /\ \A j : UpTo(u, j) \subseteq Dear(u)
      /\ Left(u, t) \subseteq Dear(u) /\ Frees(u, limit) \subseteq Dear(u)
  BY MeteringAssumption DEF Sound, TypeOK, Dear, InWeek, Finished, UpTo, Left, Frees
<1>1. /\ WeeklyCredits(u, t) = all - Total(credits, Left(u, t))
      /\ all \in Nat /\ Total(credits, Left(u, t)) \in Nat
  BY WeekLater
<1>2. \A S, T : T \subseteq S /\ S \subseteq Dear(u) =>
        /\ Total(credits, S) \in Nat /\ Total(credits, T) \in Nat
        /\ Total(credits, T) <= Total(credits, S)
  <2> SUFFICES ASSUME NEW S, NEW T, T \subseteq S, S \subseteq Dear(u)
               PROVE  /\ Total(credits, S) \in Nat /\ Total(credits, T) \in Nat
                      /\ Total(credits, T) <= Total(credits, S)
    OBVIOUS
  <2>1. S \subseteq Jobs /\ T \in SUBSET S /\ \A i \in S : credits[i] \in Nat
    BY <1>0
  <2>2. IsFiniteSet(S)
    BY <2>1, FewAreFinite
  <2> QED
    BY <2>1, <2>2, TotalOfPart
<1>3. ASSUME NEW S, S \subseteq Dear(u), Total(credits, S) > 0 PROVE S # {}
  BY <1>3, TotalOfNothing
<1>4. Frees(u, limit) # {}
  <2>1. Dear(u) # {}
    BY <1>1, <1>3
  <2>2. PICK j \in Dear(u) : \A i \in Dear(u) : finished[i] <= finished[j]
    BY <1>0, <2>1, LastFinished
  <2>3. UpTo(u, j) = Dear(u)
    BY <2>2 DEF UpTo
  <2>4. all - Total(credits, UpTo(u, j)) = 0
    BY <1>1, <2>3
  <2> QED
    BY <2>4 DEF Frees
<1>5. ends \subseteq Nat /\ ends # {}
  BY <1>0, <1>4
<1>6. Min(ends) \in ends /\ (\A x \in ends : Min(ends) <= x) /\ Min(ends) \in Nat
  <2> HIDE DEF ends
  <2> QED
    BY <1>5, LeastNumber
<1>7. PICK first \in Frees(u, limit) : Min(ends) = finished[first]
  BY <1>6
<1>8. \A j \in Frees(u, limit) : Min(ends) <= finished[j]
  <2> TAKE j \in Frees(u, limit)
  <2>1. finished[j] \in ends
    OBVIOUS
  <2> HIDE DEF ends
  <2> QED
    BY <1>6, <2>1
<1> HIDE DEF ends
<1>9. ASSUME t > Min(ends) + Week PROVE WeeklyCredits(u, t) < limit
  <2>1. UpTo(u, first) \subseteq Left(u, t)
    BY <1>0, <1>6, <1>7, <1>9 DEF UpTo, Left
  <2>2. /\ Total(credits, UpTo(u, first)) \in Nat
        /\ Total(credits, UpTo(u, first)) <= Total(credits, Left(u, t))
    BY <1>0, <1>2, <2>1
  <2>3. all - Total(credits, UpTo(u, first)) < limit
    BY <1>7 DEF Frees
  <2> HIDE DEF all
  <2> QED
    BY <1>1, <2>2, <2>3
<1>10. ASSUME WeeklyCredits(u, t) < limit PROVE t > Min(ends) + Week
  <2>1. Total(credits, Left(u, t)) > 0
    BY <1>1, <1>10
  <2>2. PICK j \in Left(u, t) : \A i \in Left(u, t) : finished[i] <= finished[j]
    <3>1. Left(u, t) # {} /\ Left(u, t) \subseteq Jobs
      BY <1>0, <1>3, <2>1
    <3> QED
      BY <3>1, LastFinished
  <2>3. Left(u, t) \subseteq UpTo(u, j)
    BY <1>0, <2>2 DEF UpTo
  <2>4. /\ Total(credits, UpTo(u, j)) \in Nat
        /\ Total(credits, Left(u, t)) <= Total(credits, UpTo(u, j))
    BY <1>0, <1>2, <2>3
  <2>5. j \in Frees(u, limit)
    <3>1. all - Total(credits, UpTo(u, j)) < limit
      <4> HIDE DEF all
      <4> QED
        BY <1>1, <1>10, <2>4
    <3> QED
      BY <1>0, <2>2, <3>1 DEF Frees
  <2>6. Min(ends) <= finished[j] /\ finished[j] < t - Week /\ finished[j] \in Nat
    BY <1>0, <1>8, <2>2, <2>5 DEF Left
  <2> QED
    BY <1>0, <1>6, <2>6
<1> QED
  BY <1>4, <1>9, <1>10 DEF ends

\* WeeklyResetAt, in these terms.
LEMMA ResetIsFirstFree ==
  ASSUME Sound, NEW u \in Users, Frees(u, WeeklyCap[u]) # {}
  PROVE  WeeklyResetAt(u) = Min({finished[j] : j \in Frees(u, WeeklyCap[u])}) + Week
<1> DEFINE frees == {j \in Dear(u) : Enough(u, {i \in Dear(u) : finished[i] <= finished[j]})}
<1>1. now \in Nat
  BY DEF Sound, TypeOK
<1>2. WeeklyCredits(u, now) = Total(credits, Dear(u))
  BY <1>1, WeekLater
<1>3. \A j \in Dear(u) :
        Enough(u, {i \in Dear(u) : finished[i] <= finished[j]})
          <=> Total(credits, Dear(u)) - Total(credits, UpTo(u, j)) < WeeklyCap[u]
  BY <1>2, CreditsAreTotals DEF Enough, UpTo
<1>4. frees = Frees(u, WeeklyCap[u])
  BY <1>3 DEF Frees
<1>5. WeeklyResetAt(u) = IF frees = {} THEN now + Week ELSE Min({finished[j] : j \in frees}) + Week
  BY DEF WeeklyResetAt, Dear
<1> HIDE DEF frees
<1> QED
  BY <1>4, <1>5

\* What a refused user is told is right: only the rows of the week decide it.
LEMMA ResetHolds == ASSUME Sound, Past PROVE ResetIsRight
<1> SUFFICES ASSUME NEW u \in Users, WeeklyCap[u] > 0, WeeklyCredits(u, now) >= WeeklyCap[u],
                    NEW t \in now..(now + Week + 1)
             PROVE  WeeklyCredits(u, t) < WeeklyCap[u] <=> t > WeeklyResetAt(u)
  BY DEF ResetIsRight
<1>1. now \in Nat /\ Week \in Nat /\ WeeklyCap[u] \in Nat /\ t \in Nat /\ now <= t
  BY MeteringAssumption DEF Sound, TypeOK
<1>2. WeeklyCap[u] <= Total(credits, Dear(u))
  <2>1. WeeklyCredits(u, now) = Total(credits, Dear(u)) /\ Total(credits, Dear(u)) \in Nat
    BY <1>1, WeekLater
  <2> QED
    BY <1>1, <2>1
<1>3. /\ Frees(u, WeeklyCap[u]) # {}
      /\ WeeklyCredits(u, t) < WeeklyCap[u]
           <=> t > Min({finished[j] : j \in Frees(u, WeeklyCap[u])}) + Week
  BY <1>1, <1>2, WeekLetsGo
<1> QED
  BY <1>3, ResetIsFirstFree

\* Near the cap, every row of the week that goes makes it lighter, and is enough.
LEMMA ShownHolds == ASSUME Sound, Past PROVE ShownIsRight
<1> SUFFICES ASSUME NEW u \in Users, WeeklyCap[u] > 0, WeeklyCredits(u, now) < WeeklyCap[u],
                    WeeklyResetShown(u) # 0, NEW t \in now..(now + Week + 1)
             PROVE  WeeklyCredits(u, t) < WeeklyCredits(u, now) <=> t > WeeklyResetShown(u)
  BY DEF ShownIsRight
<1> DEFINE all == Total(credits, Dear(u))
<1>1. /\ now \in Nat /\ Week \in Nat /\ WeeklyCap[u] \in Nat /\ t \in Nat /\ now <= t
      /\ credits \in [Jobs -> Nat] /\ finished \in [Jobs -> Nat]
  BY MeteringAssumption DEF Sound, TypeOK
<1>2. WeeklyCredits(u, now) = all /\ all \in Nat
  BY <1>1, WeekLater
<1>3. WeeklyResetShown(u) = WeeklyResetAt(u) /\ 4 * all >= 3 * WeeklyCap[u]
  BY <1>2 DEF WeeklyResetShown
<1> HIDE DEF all
<1>4. all > 0 /\ all < WeeklyCap[u]
  BY <1>1, <1>2, <1>3
<1>5. ASSUME NEW j \in Dear(u)
      PROVE  Total(credits, UpTo(u, j)) \in Nat /\ Total(credits, UpTo(u, j)) > 0
             /\ Total(credits, UpTo(u, j)) <= all
  <2>1. j \in UpTo(u, j) /\ UpTo(u, j) \subseteq Dear(u) /\ Dear(u) \subseteq Jobs
    BY <1>1 DEF UpTo, Dear, InWeek, Finished
  <2>2. IsFiniteSet(UpTo(u, j)) /\ IsFiniteSet(Dear(u)) /\ UpTo(u, j) \in SUBSET Dear(u)
    BY <2>1, FewAreFinite
  <2>3. (\A i \in UpTo(u, j) : credits[i] \in Nat) /\ (\A i \in Dear(u) : credits[i] \in Nat)
    BY <1>1, <2>1
  <2>4. Total(credits, UpTo(u, j)) \in Nat /\ Total(credits, UpTo(u, j)) <= all
    BY <2>2, <2>3, TotalOfPart DEF all
  <2>5. Total(credits, UpTo(u, j)) = credits[j] + Total(credits, UpTo(u, j) \ {j})
    BY <2>1, <2>2, <2>3, TotalWithout
  <2>6. Total(credits, UpTo(u, j) \ {j}) \in Nat
    <3>1. IsFiniteSet(UpTo(u, j) \ {j}) /\ \A i \in UpTo(u, j) \ {j} : credits[i] \in Nat
      BY <2>2, <2>3, FS_RemoveElement
    <3> QED
      BY <3>1, TotalIsNat
  <2>7. credits[j] \in Nat /\ credits[j] > 0
    BY <2>1, <2>3 DEF Dear
  <2> QED
    BY <2>4, <2>5, <2>6, <2>7
<1>6. Frees(u, WeeklyCap[u]) = Dear(u) /\ Frees(u, all) = Dear(u)
  <2>1. \A j \in Dear(u) : /\ all - Total(credits, UpTo(u, j)) < WeeklyCap[u]
                           /\ all - Total(credits, UpTo(u, j)) < all
    BY <1>1, <1>2, <1>4, <1>5
  <2> QED
    BY <2>1 DEF Frees, all
<1>7. /\ Frees(u, all) # {}
      /\ WeeklyCredits(u, t) < all <=> t > Min({finished[j] : j \in Frees(u, all)}) + Week
  <2>1. all <= Total(credits, Dear(u))
    BY <1>2 DEF all
  <2> QED
    BY <1>1, <1>2, <1>4, <2>1, WeekLetsGo
<1>8. Frees(u, WeeklyCap[u]) # {} /\ Frees(u, WeeklyCap[u]) = Frees(u, all)
  BY <1>6, <1>7
<1>9. WeeklyResetAt(u) = Min({finished[j] : j \in Frees(u, all)}) + Week
  BY <1>8, ResetIsFirstFree
<1> QED
  BY <1>2, <1>3, <1>7, <1>9

-----------------------------------------------------------------------------
(* The books are right *)

LEMMA BooksInit == Init => Books
<1> SUFFICES ASSUME Init PROVE Books
  OBVIOUS
<1>1. Placed /\ Unbilled /\ Admitted /\ Past /\ Lag
  BY DEF Init, Placed, Unbilled, Admitted, Past, Lag
<1>2. Conservation
  BY DEF Init, Conservation
<1>3. BoxPaid
  <2>1. \A j \in Jobs : credits[j] = 0
    BY DEF Init
  <2>2. Total(credits, Jobs) = 0
    BY <2>1, MeteringAssumption, TotalOfZeros
  <2>3. Rate * now \in Nat /\ job = NoJob
    BY MeteringAssumption DEF Init
  <2> QED
    BY <2>2, <2>3, CreditsAreTotals DEF BoxPaid
<1>4. Crowd
  <2>1. \A u : Cardinality(Mine(u)) = 0
    <3> TAKE u
    <3>1. Mine(u) = {}
      BY DEF Init, Mine
    <3> QED
      BY <3>1, FS_EmptySet
  <2>2. MaxJobsPerUser \in Nat
    BY MeteringAssumption
  <2> QED
    BY <2>1, <2>2 DEF Crowd
<1> QED
  BY <1>1, <1>2, <1>3, <1>4 DEF Books

LEMMA BooksNext == Sound /\ Sound' /\ Books /\ [Next]_vars => Books'
<1> SUFFICES ASSUME Sound, Sound', Books, [Next]_vars PROVE Books'
  OBVIOUS
<1>1. Placed /\ Unbilled /\ Admitted /\ Past /\ Conservation /\ BoxPaid /\ Crowd /\ Lag
  BY DEF Books
<1>2. Placed'
  BY <1>1, PlacedNext
<1>3. Unbilled' /\ Admitted'
  BY <1>1, AdmittedNext
<1>4. Past'
  BY <1>1, PastNext
<1>5. Conservation'
  BY <1>1, ConservationNext
<1>6. BoxPaid'
  BY <1>1, BoxPaidNext
<1>7. Crowd'
  BY <1>1, CrowdNext
<1>8. Lag'
  BY LagNext
<1> QED
  BY <1>2, <1>3, <1>4, <1>5, <1>6, <1>7, <1>8 DEF Books

\* The seconds sold are among those the clock has counted.
LEMMA BooksAddUp == Sound /\ Books => MoneyAddsUp
<1> SUFFICES ASSUME Sound, Books PROVE MoneyAddsUp
  OBVIOUS
<1> DEFINE mark == IF job = NoJob THEN now ELSE picked
<1>1. /\ mark \in Nat /\ now \in Nat /\ mark <= now /\ Rate \in Nat /\ IsFiniteSet(Jobs)
      /\ \A j \in Jobs : credits[j] \in Nat
  BY MeteringAssumption DEF Sound, TypeOK, Clocks
<1>2. CreditsOf(Jobs) <= Rate * mark /\ CreditsOf(Jobs) \in Nat
  <2>1. Total(credits, Jobs) \in Nat
    BY <1>1, TotalIsNat
  <2> QED
    BY <2>1, CreditsAreTotals DEF Books, BoxPaid
<1> HIDE DEF mark
<1>3. Rate * mark <= Rate * now /\ Rate * mark \in Nat /\ Rate * now \in Nat
  BY <1>1, MoreCostsMore, NatTimes
<1> QED
  BY <1>2, <1>3 DEF MoneyAddsUp, BoxTimeSoldOnce, Books

\* Of a few jobs, fewer overshoot.
LEMMA BooksAreHonest == Sound /\ Books => LimitsAreHonest
<1> SUFFICES ASSUME Sound, Books PROVE LimitsAreHonest
  OBVIOUS
<1>1. ResetIsRight /\ ShownIsRight
  BY ResetHolds, ShownHolds DEF Books
<1>2. OvershootIsFew
  <2> SUFFICES ASSUME MaxJobsPerUser > 0, NEW s \in 1..Len(sessions),
                      sessions[s].user \notin Uncapped
               PROVE  Cardinality(Overshooting(s)) < MaxJobsPerUser
    BY DEF OvershootIsFew, Sound, TypeOK
  <2> DEFINE cap == SessionCap[sessions[s].user]
  <2>0. MaxJobsPerUser \in Nat /\ sessions[s].used \in Nat /\ cap \in Nat
    <3>1. sessions[s] \in SessionRow
      BY ElementOfSeq DEF Sound, TypeOK
    <3> QED
      BY <3>1, MeteringAssumption DEF SessionRow
  <2>1. CASE sessions[s].used < cap
    <3>1. Overshooting(s) = {}
      BY <2>1, UnderCapNobodyIsOver DEF Books
    <3> QED
      BY <3>1, FS_EmptySet
  <2>2. CASE sessions[s].used >= cap
    <3> DEFINE those == Overshooting(s) \cup Late(s)
    <3>1. Cardinality(those) < MaxJobsPerUser
      BY <2>2 DEF Books, Lag
    <3>2. Overshooting(s) \subseteq those /\ those \subseteq Jobs
      BY DEF Overshooting, Late, Mine
    <3> HIDE DEF those
    <3>3. /\ Cardinality(Overshooting(s)) \in Nat /\ Cardinality(those) \in Nat
          /\ Cardinality(Overshooting(s)) <= Cardinality(those)
      BY <3>2, FewAreFinite
    <3> QED
      BY <2>0, <3>1, <3>3
  <2> QED
    BY <2>0, <2>1, <2>2
<1> QED
  BY <1>1, <1>2 DEF LimitsAreHonest
-----------------------------------------------------------------------------

\* Every reachable state is sound.
THEOREM AlwaysSound == Spec => []Sound
  BY SoundInit, SoundNext, PTL DEF Spec

\* Every figure of the meter is a natural number: no clock runs backwards and
\* no bill is negative (credits_for_job, _finalize).
THEOREM MeterTyped == Spec => []TypeOK
<1>1. Sound => TypeOK
  BY DEF Sound
<1> QED
  BY <1>1, AlwaysSound, PTL

\* A user never has two sessions at once (get_or_open_session).
THEOREM SessionsNeverOverlap == Spec => []OneSessionAtATime
<1>1. Sound => OneSessionAtATime
  BY DEF Sound
<1> QED
  BY <1>1, AlwaysSound, PTL

\* The books are right in every reachable state.
THEOREM AlwaysInTheBooks == Spec => []Books
  BY AlwaysSound, BooksInit, BooksNext, PTL DEF Spec

\* Money adds up: a session has used what its jobs' rows say, and no second of
\* the box is sold twice (finalize_billing, credits_for_job).
THEOREM MoneyIsConserved == Spec => []MoneyAddsUp
  BY AlwaysSound, AlwaysInTheBooks, BooksAddUp, PTL

\* The limits hold but for a few jobs already admitted, and the reset that the
\* user is told is the moment they let go (_check_limits, weekly_reset_at).
THEOREM LimitsHold == Spec => []LimitsAreHonest
  BY AlwaysSound, AlwaysInTheBooks, BooksAreHonest, PTL
=============================================================================
