-------------------------- MODULE ContractsProofs --------------------------
(***************************************************************************)
(* The agreement of the limits of MediaLimits for every size, type, chunk, *)
(* message and request, and from it RecordingsAgree and ImagesAgree of     *)
(* MCContracts.  Two facts carry it.  A number of bytes fits a room of     *)
(* characters exactly when it is within three for every whole group of     *)
(* four; and the sum over a finite set, which MapThenSumSet defines by a   *)
(* function it chooses, exists, is one of a kind, and is bounded by a bound*)
(* on each of its terms.  The second is shown without induction: of the    *)
(* sets that would violate it a smallest one does not.                     *)
(***************************************************************************)
EXTENDS MCContracts, FiniteSetTheorems, WellFoundedInduction, TLAPS

-----------------------------------------------------------------------------
(* Sums over finite sets.  MapThenSumSet chooses the function it recurses   *)
(* with; it exists and is unique, which a least counterexample shows.       *)
Sum(f, S) == MapThenSumSet(LAMBDA i : f[i], S)
Pick(s) == CHOOSE x \in s : TRUE
Sums(g, f, S) ==
  g = [s \in SUBSET S |-> IF s = {} THEN 0 ELSE f[Pick(s)] + g[s \ {Pick(s)}]]

LEMMA SumIs ==
  ASSUME NEW f, NEW S
  PROVE  Sum(f, S) = (CHOOSE g : Sums(g, f, S))[S]
BY DEF Sum, MapThenSumSet, MapThenFoldSet, Sums, Pick

LEMMA Picked ==
  ASSUME NEW s, s # {}
  PROVE  Pick(s) \in s
BY DEF Pick

(* A set of naturals has a least element.                                   *)
LEMMA Least ==
  ASSUME NEW T, T \subseteq Nat, T # {}
  PROVE  \E x \in T : \A y \in T : x =< y
<1> DEFINE Below == { 0..x : x \in T }
<1>1. Below \subseteq FiniteSubsetsOf(Nat) /\ Below # {}
  <2>1. ASSUME NEW x \in T PROVE 0..x \in SUBSET Nat /\ IsFiniteSet(0..x)
    BY FS_Interval
  <2> QED BY <2>1 DEF FiniteSubsetsOf
<1>2. PICK s \in Below : \A t \in Below : <<t, s>> \notin StrictSubsetOrdering(Nat)
  <2> HIDE DEF Below
  <2> QED BY <1>1, WFMin, FS_StrictSubsetOrderingWellFounded
<1>3. PICK x \in T : s = 0..x
  BY <1>2
<1>4. ASSUME NEW y \in T, y < x PROVE FALSE
  <2>1. 0..y \subseteq 0..x /\ 0..y # 0..x
    <3>1. x \in 0..x /\ x \notin 0..y
      BY <1>4
    <3> QED BY <1>4, <3>1
  <2>2. <<0..y, 0..x>> \in StrictSubsetOrdering(Nat)
    BY <2>1 DEF StrictSubsetOrdering
  <2> QED BY <1>2, <1>3, <2>2
<1> QED BY <1>4

(* A set of subsets of a finite set has a member none of whose proper       *)
(* subsets is in it.                                                        *)
LEMMA Smallest ==
  ASSUME NEW S, IsFiniteSet(S), NEW B, B \subseteq SUBSET S, B # {}
  PROVE  \E s \in B : \A t \in B : t \subseteq s => t = s
<1>1. B \subseteq FiniteSubsetsOf(S)
  BY FS_Subset DEF FiniteSubsetsOf
<1>2. PICK s \in B : \A t \in B : <<t, s>> \notin StrictSubsetOrdering(S)
  BY <1>1, WFMin, FS_StrictSubsetOrderingWellFounded
<1> QED BY <1>2 DEF StrictSubsetOrdering

(* Two such functions agree wherever both are defined.                      *)
LEMMA SumsAgree ==
  ASSUME NEW f, NEW S, NEW T, NEW g, NEW h, Sums(g, f, S), Sums(h, f, T),
         NEW s, s \subseteq S, s \subseteq T, IsFiniteSet(s)
  PROVE  g[s] = h[s]
<1> DEFINE B == { u \in SUBSET s : g[u] # h[u] }
<1>1. SUFFICES ASSUME B # {} PROVE FALSE
  OBVIOUS
<1>2. PICK u \in B : \A t \in B : t \subseteq u => t = u
  <2>1. B \subseteq SUBSET s
    OBVIOUS
  <2> HIDE DEF B
  <2> QED BY <1>1, <2>1, Smallest
<1>3. /\ g[u] = IF u = {} THEN 0 ELSE f[Pick(u)] + g[u \ {Pick(u)}]
      /\ h[u] = IF u = {} THEN 0 ELSE f[Pick(u)] + h[u \ {Pick(u)}]
  BY <1>2 DEF Sums
<1>4. u # {} /\ Pick(u) \in u
  BY <1>2, <1>3, Picked
<1>5. u \ {Pick(u)} \subseteq u /\ u \ {Pick(u)} # u /\ u \ {Pick(u)} \subseteq s
  BY <1>2, <1>4
<1>6. g[u \ {Pick(u)}] = h[u \ {Pick(u)}]
  BY <1>2, <1>5
<1> QED BY <1>2, <1>3, <1>4, <1>6

LEMMA SumsExist ==
  ASSUME NEW f, NEW S, IsFiniteSet(S)
  PROVE  \E g : Sums(g, f, S)
<1> DEFINE Lacks(T) == \A g : ~Sums(g, f, T)
           B == { T \in SUBSET S : Lacks(T) }
<1>1. SUFFICES ASSUME B # {} PROVE FALSE
  OBVIOUS
<1>2. PICK T \in B : \A U \in B : U \subseteq T => U = T
  <2>1. B \subseteq SUBSET S
    OBVIOUS
  <2> HIDE DEF B
  <2> QED BY <1>1, <2>1, Smallest
<1>3. IsFiniteSet(T) /\ T \subseteq S
  BY <1>2, FS_Subset
<1> DEFINE of(s) == CHOOSE g : Sums(g, f, s)
           rest(s) == s \ {Pick(s)}
           k == [s \in SUBSET T |-> IF s = {} THEN 0 ELSE f[Pick(s)] + of(rest(s))[rest(s)]]
<1>4. ASSUME NEW s \in SUBSET T, s # T
      PROVE  Sums(of(s), f, s) /\ IsFiniteSet(s)
  <2>1. s \notin B /\ s \in SUBSET S
    BY <1>2, <1>3, <1>4
  <2> QED BY <2>1, <1>3, FS_Subset
<1>5. ASSUME NEW s \in SUBSET T, s # T
      PROVE  k[s] = of(s)[s]
  <2> HIDE DEF of
  <2>1. CASE s = {}
    BY <2>1, <1>4, <1>5 DEF Sums
  <2>2. CASE s # {}
    <3>1. Pick(s) \in s /\ rest(s) \in SUBSET T /\ rest(s) # T /\ rest(s) \subseteq s
      BY <1>5, <2>2, Picked
    <3>2. Sums(of(s), f, s) /\ Sums(of(rest(s)), f, rest(s)) /\ IsFiniteSet(rest(s))
      BY <1>4, <1>5, <3>1
    <3>3. of(s)[rest(s)] = of(rest(s))[rest(s)]
      BY <3>1, <3>2, SumsAgree
    <3>4. of(s)[s] = f[Pick(s)] + of(s)[rest(s)]
      BY <3>2, <2>2 DEF Sums
    <3> QED BY <3>3, <3>4, <2>2, <1>5
  <2> QED BY <2>1, <2>2
<1>6. Sums(k, f, T)
  <2>1. ASSUME NEW s \in SUBSET T, s # {}
        PROVE  of(rest(s))[rest(s)] = k[rest(s)]
    <3>1. Pick(s) \in s /\ rest(s) \in SUBSET T /\ rest(s) # T
      BY <2>1, Picked
    <3> HIDE DEF of, k, rest
    <3> QED BY <3>1, <1>5
  <2> HIDE DEF of
  <2>2. k = [s \in SUBSET T |-> IF s = {} THEN 0 ELSE f[Pick(s)] + k[rest(s)]]
    BY <2>1
  <2> QED BY <2>2 DEF Sums
<1> QED BY <1>2, <1>6

(* The sum of a part is what any of the functions gives for it.             *)
LEMMA SumGives ==
  ASSUME NEW f, NEW S, IsFiniteSet(S), NEW g, Sums(g, f, S), NEW s \in SUBSET S
  PROVE  g[s] = Sum(f, s)
<1> DEFINE h == CHOOSE h : Sums(h, f, s)
<1>1. IsFiniteSet(s)
  BY FS_Subset
<1>2. Sums(h, f, s)
  BY <1>1, SumsExist
<1> HIDE DEF h
<1>3. g[s] = h[s]
  BY <1>1, <1>2, SumsAgree
<1> QED BY <1>3, SumIs DEF h

LEMMA SumEmpty ==
  ASSUME NEW f
  PROVE  Sum(f, {}) = 0
<1>1. PICK g : Sums(g, f, {})
  BY SumsExist, FS_EmptySet
<1>2. g[{}] = 0
  BY <1>1 DEF Sums
<1>3. g[{}] = Sum(f, {})
  BY <1>1, SumGives, FS_EmptySet
<1> QED BY <1>2, <1>3

LEMMA SumPicked ==
  ASSUME NEW f, NEW S, IsFiniteSet(S), S # {}
  PROVE  Sum(f, S) = f[Pick(S)] + Sum(f, S \ {Pick(S)})
<1>1. PICK g : Sums(g, f, S)
  BY SumsExist
<1>2. g[S] = f[Pick(S)] + g[S \ {Pick(S)}]
  BY <1>1 DEF Sums
<1>3. g[S] = Sum(f, S) /\ g[S \ {Pick(S)}] = Sum(f, S \ {Pick(S)})
  BY <1>1, SumGives
<1> QED BY <1>2, <1>3

LEMMA SumType ==
  ASSUME NEW f, NEW S, IsFiniteSet(S), \A i \in S : f[i] \in Nat
  PROVE  Sum(f, S) \in Nat
<1> DEFINE B == { s \in SUBSET S : Sum(f, s) \notin Nat }
<1>1. SUFFICES ASSUME B # {} PROVE FALSE
  OBVIOUS
<1>2. PICK s \in B : \A t \in B : t \subseteq s => t = s
  <2>1. B \subseteq SUBSET S
    OBVIOUS
  <2> HIDE DEF B
  <2> QED BY <1>1, <2>1, Smallest
<1>3. IsFiniteSet(s) /\ s # {} /\ s \subseteq S
  <2>1. s \in SUBSET S /\ Sum(f, s) \notin Nat
    BY <1>2
  <2>2. Sum(f, {}) \in Nat
    BY SumEmpty
  <2> QED BY <2>1, <2>2, FS_Subset
<1>4. Pick(s) \in s /\ s \ {Pick(s)} \notin B
  BY <1>2, <1>3, Picked
<1>5. Sum(f, s \ {Pick(s)}) \in Nat /\ f[Pick(s)] \in Nat
  BY <1>3, <1>4
<1>6. Sum(f, s) \in Nat
  BY <1>3, <1>5, SumPicked
<1> QED BY <1>2, <1>6

(* Any element can be taken out, not only the one that was picked.          *)
LEMMA SumWithout ==
  ASSUME NEW f, NEW S, IsFiniteSet(S), \A i \in S : f[i] \in Nat, NEW x \in S
  PROVE  Sum(f, S) = f[x] + Sum(f, S \ {x})
<1> DEFINE Fails(s) == \E y \in s : Sum(f, s) # f[y] + Sum(f, s \ {y})
           B == { s \in SUBSET S : Fails(s) }
<1>1. SUFFICES ASSUME B # {} PROVE FALSE
  OBVIOUS
<1>2. PICK s \in B : \A t \in B : t \subseteq s => t = s
  <2>1. B \subseteq SUBSET S
    OBVIOUS
  <2> HIDE DEF B
  <2> QED BY <1>1, <2>1, Smallest
<1>3. PICK y \in s : Sum(f, s) # f[y] + Sum(f, s \ {y})
  BY <1>2
<1>4. IsFiniteSet(s) /\ s # {} /\ s \subseteq S
  BY <1>2, <1>3, FS_Subset
<1> DEFINE p == Pick(s)
<1>5. p \in s /\ Sum(f, s) = f[p] + Sum(f, s \ {p})
  BY <1>4, Picked, SumPicked
<1>6. p # y
  BY <1>3, <1>5
<1> HIDE DEF p
<1>7. Sum(f, s \ {p}) = f[y] + Sum(f, (s \ {p}) \ {y})
  <2>1. s \ {p} \in SUBSET S /\ s \ {p} \notin B /\ y \in s \ {p}
    BY <1>2, <1>3, <1>4, <1>5, <1>6
  <2> QED BY <2>1
<1>8. Sum(f, s \ {y}) = f[p] + Sum(f, (s \ {y}) \ {p})
  <2>1. s \ {y} \in SUBSET S /\ s \ {y} \notin B /\ p \in s \ {y}
    BY <1>2, <1>3, <1>4, <1>5, <1>6
  <2> QED BY <2>1
<1>9. (s \ {y}) \ {p} = (s \ {p}) \ {y}
  OBVIOUS
<1>10. f[y] \in Nat /\ f[p] \in Nat /\ Sum(f, (s \ {p}) \ {y}) \in Nat
  <2>1. IsFiniteSet((s \ {p}) \ {y})
    BY <1>4, FS_Subset
  <2> QED BY <2>1, <1>3, <1>4, <1>5, SumType
<1>11. f[p] + (f[y] + Sum(f, (s \ {p}) \ {y})) = f[y] + (f[p] + Sum(f, (s \ {p}) \ {y}))
  BY <1>10
<1> QED BY <1>3, <1>5, <1>7, <1>8, <1>9, <1>11

LEMMA SumSame ==
  ASSUME NEW f, NEW g, NEW S, IsFiniteSet(S), \A i \in S : f[i] = g[i]
  PROVE  Sum(f, S) = Sum(g, S)
<1> DEFINE B == { s \in SUBSET S : Sum(f, s) # Sum(g, s) }
<1>1. SUFFICES ASSUME B # {} PROVE FALSE
  OBVIOUS
<1>2. PICK s \in B : \A t \in B : t \subseteq s => t = s
  <2>1. B \subseteq SUBSET S
    OBVIOUS
  <2> HIDE DEF B
  <2> QED BY <1>1, <2>1, Smallest
<1>3. IsFiniteSet(s) /\ s # {} /\ s \subseteq S
  <2>1. s \in SUBSET S /\ Sum(f, s) # Sum(g, s)
    BY <1>2
  <2>2. Sum(f, {}) = Sum(g, {})
    BY SumEmpty
  <2> QED BY <2>1, <2>2, FS_Subset
<1>4. Pick(s) \in s /\ s \ {Pick(s)} \notin B /\ s \ {Pick(s)} \subseteq S
  BY <1>2, <1>3, Picked
<1>5. Sum(f, s \ {Pick(s)}) = Sum(g, s \ {Pick(s)}) /\ f[Pick(s)] = g[Pick(s)]
  BY <1>3, <1>4
<1>6. Sum(f, s) = Sum(g, s)
  BY <1>3, <1>5, SumPicked
<1> QED BY <1>2, <1>6

(* A part of the summands has no larger sum.                                *)
LEMMA SumOfPart ==
  ASSUME NEW f, NEW S, IsFiniteSet(S), \A i \in S : f[i] \in Nat, NEW T \in SUBSET S
  PROVE  Sum(f, T) <= Sum(f, S)
<1> DEFINE B == { s \in SUBSET S : T \subseteq s /\ ~(Sum(f, T) <= Sum(f, s)) }
<1>1. SUFFICES ASSUME B # {} PROVE FALSE
  OBVIOUS
<1>2. PICK s \in B : \A t \in B : t \subseteq s => t = s
  <2>1. B \subseteq SUBSET S
    OBVIOUS
  <2> HIDE DEF B
  <2> QED BY <1>1, <2>1, Smallest
<1>3. IsFiniteSet(s) /\ s \subseteq S /\ T \subseteq s /\ IsFiniteSet(T)
  BY <1>2, FS_Subset
<1>4. Sum(f, s) \in Nat /\ Sum(f, T) \in Nat
  BY <1>3, SumType
<1>5. PICK x \in s : x \notin T
  <2>1. s # T
    BY <1>2, <1>4
  <2> QED BY <2>1, <1>3
<1>6. Sum(f, s) = f[x] + Sum(f, s \ {x}) /\ Sum(f, s \ {x}) \in Nat /\ f[x] \in Nat
  <2>1. IsFiniteSet(s \ {x}) /\ s \ {x} \subseteq S
    BY <1>3, FS_Subset
  <2> QED BY <2>1, <1>3, <1>5, SumWithout, SumType
<1>7. s \ {x} \notin B /\ T \subseteq s \ {x} /\ s \ {x} \in SUBSET S
  BY <1>2, <1>3, <1>5
<1>8. Sum(f, T) <= Sum(f, s \ {x})
  BY <1>7
<1> QED BY <1>2, <1>4, <1>6, <1>8

(* What bounds every summand bounds the sum.                                *)
LEMMA SumBound ==
  ASSUME NEW f, NEW g, NEW S, IsFiniteSet(S), NEW c \in Nat,
         \A i \in S : f[i] \in Nat /\ g[i] \in Nat /\ 3 * f[i] <= 4 * g[i] + c
  PROVE  3 * Sum(f, S) <= 4 * Sum(g, S) + c * Cardinality(S)
<1> DEFINE B == { s \in SUBSET S : ~(3 * Sum(f, s) <= 4 * Sum(g, s) + c * Cardinality(s)) }
<1>1. SUFFICES ASSUME B # {} PROVE FALSE
  OBVIOUS
<1>2. PICK s \in B : \A t \in B : t \subseteq s => t = s
  <2>1. B \subseteq SUBSET S
    OBVIOUS
  <2> HIDE DEF B
  <2> QED BY <1>1, <2>1, Smallest
<1>3. IsFiniteSet(s) /\ s # {} /\ s \subseteq S
  <2>1. s \in SUBSET S /\ ~(3 * Sum(f, s) <= 4 * Sum(g, s) + c * Cardinality(s))
    BY <1>2
  <2>2. 3 * Sum(f, {}) <= 4 * Sum(g, {}) + c * Cardinality({})
    BY SumEmpty, FS_EmptySet
  <2> QED BY <2>1, <2>2, FS_Subset
<1> DEFINE p == Pick(s)
<1>4. p \in s /\ s \ {p} \notin B /\ s \ {p} \in SUBSET S
  BY <1>2, <1>3, Picked
<1>5. Sum(f, s) = f[p] + Sum(f, s \ {p}) /\ Sum(g, s) = g[p] + Sum(g, s \ {p})
  BY <1>3, SumPicked
<1> HIDE DEF p
<1>6. IsFiniteSet(s \ {p}) /\ Cardinality(s) \in Nat /\ Cardinality(s \ {p}) = Cardinality(s) - 1
  BY <1>3, <1>4, FS_RemoveElement, FS_CardinalityType
<1>7. Sum(f, s \ {p}) \in Nat /\ Sum(g, s \ {p}) \in Nat
  BY <1>4, <1>6, SumType
<1>8. f[p] \in Nat /\ g[p] \in Nat /\ 3 * f[p] <= 4 * g[p] + c
  BY <1>3, <1>4
<1>9. 3 * Sum(f, s \ {p}) <= 4 * Sum(g, s \ {p}) + c * Cardinality(s \ {p})
  BY <1>4
<1>10. c * Cardinality(s \ {p}) = c * Cardinality(s) - c /\ c * Cardinality(s) \in Int
  BY <1>6
<1>11. 3 * Sum(f, s) <= 4 * Sum(g, s) + c * Cardinality(s)
  BY <1>5, <1>7, <1>8, <1>9, <1>10
<1> QED BY <1>2, <1>11

(* Sums over the positions of a sequence, one position at a time.           *)
LEMMA SumOne ==
  ASSUME NEW n \in Nat, NEW f, \A i \in 1 .. n + 1 : f[i] \in Nat
  PROVE  Sum(f, 1 .. n + 1) = Sum(f, 1 .. n) + f[n + 1]
<1>1. IsFiniteSet(1 .. n + 1) /\ n + 1 \in 1 .. n + 1 /\ (1 .. n + 1) \ {n + 1} = 1 .. n
  BY FS_Interval
<1>2. Sum(f, 1 .. n + 1) = f[n + 1] + Sum(f, (1 .. n + 1) \ {n + 1})
  BY <1>1, SumWithout
<1>3. Sum(f, 1 .. n) \in Nat /\ f[n + 1] \in Nat
  <2>1. IsFiniteSet(1 .. n) /\ \A i \in 1 .. n : f[i] \in Nat
    BY FS_Interval
  <2> QED BY <1>1, <2>1, SumType
<1>4. Sum(f, 1 .. n + 1) = f[n + 1] + Sum(f, 1 .. n)
  BY <1>1, <1>2
<1> QED BY <1>3, <1>4

(* The sum of two runs of positions is the sum of all of them.              *)
LEMMA SumOfBoth ==
  ASSUME NEW h \in Nat, NEW k \in Nat, NEW f, \A i \in 1 .. h + k : f[i] \in Nat,
         NEW g, \A i \in 1 .. k : g[i] = f[h + i]
  PROVE  Sum(f, 1 .. h + k) = Sum(f, 1 .. h) + Sum(g, 1 .. k)
<1> DEFINE B == { j \in 0 .. k : Sum(f, 1 .. h + j) # Sum(f, 1 .. h) + Sum(g, 1 .. j) }
<1>1. SUFFICES ASSUME B # {} PROVE FALSE
  OBVIOUS
<1>2. PICK j \in B : \A i \in B : j <= i
  <2>1. B \subseteq Nat
    OBVIOUS
  <2> HIDE DEF B
  <2> QED BY <1>1, <2>1, Least
<1>3. Sum(f, 1 .. h) \in Nat
  <2>1. IsFiniteSet(1 .. h) /\ \A i \in 1 .. h : f[i] \in Nat
    BY FS_Interval
  <2> QED BY <2>1, SumType
<1>4. j # 0
  <2>1. Sum(g, 1 .. 0) = 0
    <3>1. 1 .. 0 = {}
      OBVIOUS
    <3> QED BY <3>1, SumEmpty
  <2> QED BY <1>2, <1>3, <2>1
<1> DEFINE i == j - 1
<1>5. i \in Nat /\ i < k /\ i \notin B /\ j = i + 1 /\ h + i \in Nat /\ h + j = (h + i) + 1
  BY <1>2, <1>4
<1> HIDE DEF i
<1>6. Sum(f, 1 .. h + i) = Sum(f, 1 .. h) + Sum(g, 1 .. i)
  BY <1>5
<1>7. Sum(f, 1 .. h + j) = Sum(f, 1 .. h + i) + f[h + i + 1]
  <2>1. \A x \in 1 .. (h + i) + 1 : f[x] \in Nat
    BY <1>5
  <2>2. Sum(f, 1 .. (h + i) + 1) = Sum(f, 1 .. h + i) + f[(h + i) + 1]
    BY <1>5, <2>1, SumOne
  <2> QED BY <2>2, <1>5
<1>8. Sum(g, 1 .. j) = Sum(g, 1 .. i) + g[i + 1] /\ g[i + 1] = f[h + i + 1]
  <2>1. \A x \in 1 .. i + 1 : g[x] \in Nat
    BY <1>5
  <2> QED BY <1>5, <2>1, SumOne
<1>9. Sum(g, 1 .. i) \in Nat /\ f[h + i + 1] \in Nat
  <2>1. IsFiniteSet(1 .. i)
    BY <1>5, FS_Interval
  <2>2. \A x \in 1 .. i : g[x] \in Nat
    BY <1>5
  <2>3. f[h + i + 1] \in Nat
    BY <1>5
  <2> QED BY <2>1, <2>2, <2>3, SumType
<1> QED BY <1>2, <1>3, <1>6, <1>7, <1>8, <1>9

-----------------------------------------------------------------------------
(* Recordings and images. *)

\* The facts a media type is given by.
MediaTypes == [length : Nat, trimmed : Nat, ascii : BOOLEAN, wellFormed : BOOLEAN, listed : BOOLEAN]

\* Base64 takes whole groups: n bytes fit a room of characters exactly when they
\* are within the bytes of its whole groups.
LEMMA Groups ==
  ASSUME NEW n \in Nat \ {0}, NEW room \in Int
  PROVE  Base64Chars(n) <= room <=> n <= BytesWithin(room)
<1>1. CASE room < 4
  <2>1. (n + 2) \div 3 >= 1
    BY SMT
  <2> QED
    BY <1>1, <2>1, SMT DEF Base64Chars, BytesWithin
<1>2. CASE room >= 4
  <2> DEFINE g == (n + 2) \div 3
             q == room \div 4
  <2>1. g \in Int /\ q \in Int /\ 3 * g <= n + 2 /\ n + 2 < 3 * g + 3 /\ 4 * q <= room /\ room < 4 * q + 4
    BY SMT
  <2>2. 4 * g <= room <=> g <= q
    BY <2>1, SMT
  <2>3. g <= q <=> n <= 3 * q
    BY <2>1, SMT
  <2> QED
    BY <1>2, <2>2, <2>3 DEF Base64Chars, BytesWithin
<1> QED
  BY <1>1, <1>2

\* Within the data URL limit a number of bytes has a length that is a safe integer.
LEMMA SafeLengths ==
  ASSUME NEW n \in Nat, Base64Chars(n) <= MaxVoiceDataUrlBytes
  PROVE  VoiceBase64Length(n) = Base64Chars(n)
<1> DEFINE g == (n + 2) \div 3
           q == MaxSafeInteger \div 4
<1>1. MaxSafeInteger \in Nat /\ MaxSafeInteger >= 83886080
  BY SafeAssumption DEF MaxVoiceDataUrlBytes
<1>2. q \in Int /\ q >= 20971520
  BY <1>1, SMT
<1>3. g \in Int /\ n + 2 < 3 * g + 3 /\ 4 * g <= 10485760
  BY SMT DEF Base64Chars, MaxVoiceDataUrlBytes
<1>4. n <= 3 * q
  BY <1>2, <1>3, SMT
<1> QED
  BY <1>4 DEF VoiceBase64Length

\* A normalised type is a length of a natural number, or undefined.
LEMMA TypeLength ==
  ASSUME NEW type \in MediaTypes
  PROVE  /\ NormalizeVoiceMediaType(type) \in Nat \cup {Undefined}
         /\ NormalizeVoiceMediaType(type) # Undefined =>
              VoiceDataUrlPrefix(type) = NormalizeVoiceMediaType(type) + 13
BY DEF MediaTypes, NormalizeVoiceMediaType, VoiceDataUrlPrefix, Undefined

\* The browser's limit is exact: a recording of an allowed type is within the
\* data URL bound exactly when it is within maxVoiceAudioBytesForMediaType
\* (voice-contract.ts:121-131 and 143-150).
THEOREM LargestRecording ==
  ASSUME NEW type \in MediaTypes, NEW n \in Nat \ {0}, NormalizeVoiceMediaType(type) # Undefined
  PROVE  IsVoiceAudioWithinDataUrlLimit(type, n, MaxVoiceDataUrlBytes)
           <=> n <= MaxVoiceAudioBytes(type, MaxVoiceDataUrlBytes)
<1> DEFINE p == NormalizeVoiceMediaType(type) + 13
           room == MaxVoiceDataUrlBytes - p
<1>1. p \in Nat /\ p # Undefined /\ VoiceDataUrlPrefix(type) = p /\ room \in Int /\ p >= 13
  BY TypeLength, SMT DEF Undefined, MaxVoiceDataUrlBytes
<1>2. MaxVoiceAudioBytes(type, MaxVoiceDataUrlBytes) = BytesWithin(room)
  BY <1>1 DEF MaxVoiceAudioBytes, MaxVoiceDataUrlBytes
<1>3. Base64Chars(n) \in Nat
  BY SMT DEF Base64Chars
<1>4. Base64Chars(n) <= room <=> n <= BytesWithin(room)
  BY <1>1, Groups
<1>5. ASSUME Base64Chars(n) <= room
      PROVE  IsVoiceAudioWithinDataUrlLimit(type, n, MaxVoiceDataUrlBytes)
  <2>1. Base64Chars(n) <= MaxVoiceDataUrlBytes
    BY <1>1, <1>3, <1>5, SMT DEF MaxVoiceDataUrlBytes
  <2>2. VoiceBase64Length(n) = Base64Chars(n)
    BY <2>1, SafeLengths
  <2>3. VoiceDataUrlByteLength(type, n) = p + Base64Chars(n)
    BY <2>2, <1>1, <1>3 DEF VoiceDataUrlByteLength, Undefined
  <2> QED
    BY <2>3, <1>1, <1>3, <1>5, SMT DEF IsVoiceAudioWithinDataUrlLimit, Undefined, MaxVoiceDataUrlBytes
<1>6. ASSUME IsVoiceAudioWithinDataUrlLimit(type, n, MaxVoiceDataUrlBytes)
      PROVE  Base64Chars(n) <= room
  <2>1. VoiceDataUrlByteLength(type, n) # Undefined
    BY <1>6 DEF IsVoiceAudioWithinDataUrlLimit
  <2>2. VoiceBase64Length(n) # Undefined
    BY <2>1 DEF VoiceDataUrlByteLength
  <2>3. VoiceBase64Length(n) = Base64Chars(n)
    BY <2>2 DEF VoiceBase64Length
  <2>4. VoiceDataUrlByteLength(type, n) = p + Base64Chars(n)
    BY <2>1, <2>3, <1>1 DEF VoiceDataUrlByteLength
  <2> QED
    BY <2>4, <1>6, <1>1, <1>3, SMT DEF IsVoiceAudioWithinDataUrlLimit, MaxVoiceDataUrlBytes
<1> QED
  BY <1>2, <1>4, <1>5, <1>6

\* What the browser takes is what the provider adapter takes, whatever the type
\* and size, as long as no lower cap was given to the recorder: the checks of
\* voice-input.ts:193-222 and speech.ts:7-10, written apart, are one.
THEOREM BrowserAndProviderAgree ==
  ASSUME NEW type \in MediaTypes, NEW n \in Nat, NEW cap \in Int, cap >= MaxVoiceDataUrlBytes
  PROVE  BrowserAdmits(type, n, cap) <=> ProviderAdmits(type, n)
<1> DEFINE p == NormalizeVoiceMediaType(type) + 13
           most == MaxVoiceAudioBytes(type, MaxVoiceDataUrlBytes)
<1>1. CASE NormalizeVoiceMediaType(type) = Undefined \/ n = 0
  BY <1>1 DEF BrowserAdmits, ProviderAdmits
<1>2. CASE NormalizeVoiceMediaType(type) # Undefined /\ n # 0
  <2>1. p \in Nat /\ VoiceDataUrlPrefix(type) = p /\ p # Undefined /\ p >= 13
    BY <1>2, TypeLength, SMT DEF Undefined
  <2>2. most = BytesWithin(MaxVoiceDataUrlBytes - p)
    BY <2>1 DEF MaxVoiceAudioBytes, MaxVoiceDataUrlBytes
  <2>3. most \in Int /\ most < MaxVoiceDataUrlBytes
    BY <2>1, <2>2, SMT DEF BytesWithin, MaxVoiceDataUrlBytes
  <2>4. n <= most <=> Base64Chars(n) <= MaxVoiceDataUrlBytes - p
    BY <1>2, <2>1, <2>2, Groups DEF MaxVoiceDataUrlBytes
  <2>5. Base64Chars(n) <= MaxVoiceDataUrlBytes - p <=> NormalizeVoiceMediaType(type) + 13 + Base64Chars(n) <= MaxVoiceDataUrlBytes
    BY <2>1, SMT DEF Base64Chars, MaxVoiceDataUrlBytes
  <2>6. ProviderAdmits(type, n) <=> n <= most
    BY <1>2, <2>4, <2>5 DEF ProviderAdmits
  <2>7. IsVoiceAudioWithinDataUrlLimit(type, n, MaxVoiceDataUrlBytes) <=> n <= most
    BY <1>2, LargestRecording
  <2>8. (IF cap < most THEN cap ELSE most) = most
    BY <2>3, SMT DEF MaxVoiceDataUrlBytes
  <2>9. BrowserAdmits(type, n, cap) <=> n <= most
    BY <1>2, <2>7, <2>8 DEF BrowserAdmits
  <2> QED
    BY <2>6, <2>9
<1> QED
  BY <1>1, <1>2

LEMMA Divided ==
  ASSUME NEW n \in Nat, NEW d \in Nat \ {0}
  PROVE  n \div d \in Nat /\ n % d \in 0 .. d - 1 /\ n = d * (n \div d) + (n % d)
<1>1. n \div d \in Nat /\ n % d \in 0 .. d - 1
  BY SMT
<1>2. n = d * (n \div d) + (n % d)
  BY SMT
<1> QED BY <1>1, <1>2

\* Encoding in chunks writes the encoding of the whole: the chunk is divisible by
\* three, so that none but the last is padded (voice-input.ts:250-262).
THEOREM ChunksConcatenate ==
  ASSUME NEW n \in Nat
  PROVE  EncodedChunks(n) = [length |-> Base64Chars(n), paddedInside |-> FALSE]
<1> DEFINE full == n \div EncodeChunk
           rest == n % EncodeChunk
           third == EncodeChunk \div 3
           p == third * full
<1>1. EncodeChunk \in Nat \ {0} /\ third \in Nat /\ EncodeChunk = 3 * third /\ EncodeChunk % 3 = 0
  BY SMT DEF EncodeChunk
<1>2. full \in Nat /\ rest \in Nat /\ n = EncodeChunk * full + rest
  BY <1>1, Divided
<1> HIDE DEF third, full, rest
<1>3. p \in Nat /\ EncodeChunk * full = 3 * p
  BY <1>1, <1>2, SMT
<1>4. Base64Chars(EncodeChunk) = 4 * third
  <2>1. (EncodeChunk + 2) \div 3 = third
    BY <1>1, SMT
  <2> QED BY <2>1 DEF Base64Chars
<1>5. full * (4 * third) = 4 * p
  BY <1>1, <1>2, SMT
<1> HIDE DEF p
<1>6. n = 3 * p + rest
  BY <1>2, <1>3, Zenon
<1>7. (n + 2) \div 3 = p + ((rest + 2) \div 3)
  <2> DEFINE q == (n + 2) \div 3
             k == (rest + 2) \div 3
  <2>1. q \in Int /\ 3 * q <= n + 2 /\ n + 2 < 3 * q + 3
    BY SMT
  <2>2. k \in Int /\ 3 * k <= rest + 2 /\ rest + 2 < 3 * k + 3
    BY <1>2, SMT
  <2> HIDE DEF q, k
  <2>3. q = p + k
    BY <1>2, <1>3, <1>6, <2>1, <2>2, SMT
  <2> QED BY <2>3 DEF q, k
<1>8. full * Base64Chars(EncodeChunk) + Base64Chars(rest) = Base64Chars(n)
  <2> DEFINE k == (rest + 2) \div 3
  <2>1. Base64Chars(rest) = 4 * k /\ Base64Chars(n) = 4 * (p + k)
    BY <1>7 DEF Base64Chars
  <2>2. k \in Int
    BY <1>2, SMT
  <2> HIDE DEF k
  <2>3. 4 * p + 4 * k = 4 * (p + k)
    BY <1>3, <2>2, SMT
  <2> QED BY <1>4, <1>5, <2>1, <2>3
<1> QED BY <1>1, <1>8 DEF EncodedChunks, full, rest

\* A message of the largest text and a full set of names, whatever the text is
\* made of, leaves the images the whole of their share of the body: what the
\* limits of the schema add up to is below the slack of messageBodyLimit
\* (images.ts:10, server.ts:71).
THEOREM BodyHasRoom ==
  ASSUME NEW units \in 0 .. MaxMessageLength, NEW n \in 0 .. MaxImages, NEW name \in 0 .. MaxNameLength,
         NEW encoded \in Nat, encoded <= Base64Chars(MaxMessageImageBytes) + 4 * n
  PROVE  68 + 6 * units + n * (6 * name + 62) + encoded <= MessageBodyLimit
<1>1. n * (6 * name + 62) <= 5 * 1022
  <2>1. name \in Int /\ name <= 160 /\ 0 <= name /\ n \in {0, 1, 2, 3, 4, 5}
    BY SMT DEF MaxImages, MaxNameLength
  <2> QED
    BY <2>1, SMT
<1>2. Base64Chars(MaxMessageImageBytes) = 27962028
  BY SMT DEF Base64Chars, MaxMessageImageBytes
<1>3. MessageBodyLimit = 27962028 + 131072
  BY <1>2, SMT DEF MessageBodyLimit
<1>4. units \in Int /\ units <= 16000 /\ encoded <= 27962028 + 20
  BY <1>2, SMT DEF MaxMessageLength, MaxImages
<1>5. n * (6 * name + 62) \in Int
  BY SMT
<1> HIDE DEF MessageBodyLimit
<1> QED
  BY <1>1, <1>3, <1>4, <1>5, SMT

-----------------------------------------------------------------------------
LEMMA TotalIs ==
  ASSUME NEW s
  PROVE  Total(s) = Sum(s, DOMAIN s)
BY DEF Total, Sum

LEMMA TotalOf ==
  ASSUME NEW s \in Seq(Nat)
  PROVE  /\ Total(s) = Sum(s, 1 .. Len(s)) /\ Total(s) \in Nat
         /\ Len(s) \in Nat /\ IsFiniteSet(1 .. Len(s)) /\ \A i \in 1 .. Len(s) : s[i] \in Nat
<1>1. Len(s) \in Nat /\ DOMAIN s = 1 .. Len(s) /\ \A i \in 1 .. Len(s) : s[i] \in Nat
  OBVIOUS
<1>2. IsFiniteSet(1 .. Len(s))
  BY <1>1, FS_Interval
<1>3. Sum(s, 1 .. Len(s)) \in Nat
  BY <1>1, <1>2, SumType
<1>4. Total(s) = Sum(s, 1 .. Len(s))
  BY <1>1, TotalIs
<1> QED BY <1>1, <1>2, <1>3, <1>4

(* What has arrived of a sequence is a sum of its first positions.          *)
LEMMA TotalOfFirst ==
  ASSUME NEW s \in Seq(Nat), NEW k \in 0 .. Len(s)
  PROVE  /\ Total(SubSeq(s, 1, k)) = Sum(s, 1 .. k)
         /\ Total(SubSeq(s, 1, k)) \in Nat /\ Total(SubSeq(s, 1, k)) <= Total(s)
<1> DEFINE first == SubSeq(s, 1, k)
<1>1. first \in Seq(Nat) /\ Len(first) = k /\ \A i \in 1 .. k : first[i] = s[i]
  OBVIOUS
<1>2. k \in Nat /\ 1 .. k \in SUBSET (1 .. Len(s)) /\ IsFiniteSet(1 .. k)
  BY FS_Interval
<1> HIDE DEF first
<1>3. Total(first) = Sum(first, 1 .. k) /\ Total(first) \in Nat
  BY <1>1, TotalOf
<1>4. Sum(first, 1 .. k) = Sum(s, 1 .. k)
  BY <1>1, <1>2, SumSame, ZenonT(30)
<1>5. Sum(s, 1 .. k) <= Sum(s, 1 .. Len(s))
  BY <1>2, TotalOf, SumOfPart
<1>6. Total(s) = Sum(s, 1 .. Len(s))
  BY TotalOf
<1> QED BY <1>3, <1>4, <1>5, <1>6 DEF first

LEMMA LongerText ==
  ASSUME NEW a \in Nat, NEW b \in Nat, a <= b
  PROVE  Base64Chars(a) \in Nat /\ Base64Chars(a) <= Base64Chars(b)
<1>1. (a + 2) \div 3 \in Nat /\ (b + 2) \div 3 \in Nat /\ (a + 2) \div 3 <= (b + 2) \div 3
  BY SMT
<1> QED BY <1>1, SMT DEF Base64Chars

(* The route's check of every chunk as it arrives is the check of the whole, *)
(* however the body was cut: what the provider adapter would send is taken   *)
(* by the route and nothing else is (server.ts:32-50, speech.ts:7-10).       *)
THEOREM AnyChunking ==
  ASSUME NEW type \in MediaTypes, NEW chunks \in Seq(Nat), Total(chunks) > 0
  PROVE  RouteAdmits(type, chunks) <=> ProviderAdmits(type, Total(chunks))
<1> DEFINE length == NormalizeVoiceMediaType(type)
           n == Total(chunks)
           got(k) == Total(SubSeq(chunks, 1, k))
<1>1. CASE length = Undefined
  BY <1>1 DEF RouteAdmits, ProviderAdmits
<1>2. CASE length # Undefined
  <2>1. length \in Nat /\ n \in Nat /\ Len(chunks) \in Nat
    BY <1>2, TypeLength, TotalOf
  <2>2. Len(chunks) # 0
    <3>1. Len(chunks) = 0 => 1 .. Len(chunks) = {}
      OBVIOUS
    <3>2. Len(chunks) = 0 => n = 0
      BY <3>1, TotalOf, SumEmpty
    <3> QED BY <3>2
  <2>3. SubSeq(chunks, 1, Len(chunks)) = chunks
    OBVIOUS
  <2>4. \A k \in 1 .. Len(chunks) : got(k) \in Nat /\ got(k) <= n
    BY TotalOfFirst
  <2>5. got(Len(chunks)) = n /\ Len(chunks) \in 1 .. Len(chunks)
    <3>1. Len(chunks) \in 1 .. Len(chunks)
      BY <2>1, <2>2
    <3> QED BY <3>1, <2>3, Zenon
  <2>6. RouteAdmits(type, chunks)
          <=> \A k \in 1 .. Len(chunks) : Base64Chars(got(k)) + length + 13 <= MaxVoiceDataUrlBytes
    BY <1>2 DEF RouteAdmits
  <2>7. ProviderAdmits(type, n) <=> Base64Chars(n) + length + 13 <= MaxVoiceDataUrlBytes
    <3>1. Base64Chars(n) \in Nat
      BY <2>1, LongerText
    <3> HIDE DEF n, length
    <3>2. length + 13 + Base64Chars(n) = Base64Chars(n) + length + 13
      BY <2>1, <3>1
    <3> QED BY <1>2, <3>2 DEF ProviderAdmits, n, length
  <2> HIDE DEF got, n, length
  <2>8. ASSUME Base64Chars(n) + length + 13 <= MaxVoiceDataUrlBytes, NEW k \in 1 .. Len(chunks)
        PROVE  Base64Chars(got(k)) + length + 13 <= MaxVoiceDataUrlBytes
    <3>1. got(k) \in Nat /\ Base64Chars(got(k)) \in Nat /\ Base64Chars(got(k)) <= Base64Chars(n) /\ Base64Chars(n) \in Nat
      BY <2>1, <2>4, LongerText
    <3> QED BY <2>1, <2>8, <3>1, SMTT(30) DEF MaxVoiceDataUrlBytes
  <2>9. (\A k \in 1 .. Len(chunks) : Base64Chars(got(k)) + length + 13 <= MaxVoiceDataUrlBytes)
          <=> Base64Chars(n) + length + 13 <= MaxVoiceDataUrlBytes
    BY <2>5, <2>8, Zenon
  <2> QED BY <2>6, <2>7, <2>9, Zenon DEF n
<1> QED BY <1>1, <1>2 DEF n

(* A recording that the browser takes is taken on the rest of its way, in    *)
(* whatever chunks it travels, and the limit the browser works with, in bytes *)
(* and in characters, is the largest that is (voice-contract.ts:121-150,     *)
(* voice-input.ts:193-222, server.ts:32-50, speech.ts:7-10).                 *)
THEOREM RecordingsPass ==
  ASSUME NEW type \in MediaTypes, NEW chunks \in Seq(Nat), NEW n \in Nat \ {0}, Total(chunks) = n,
         NEW cap \in Int, cap >= MaxVoiceDataUrlBytes
  PROVE  LET most == MaxVoiceAudioBytes(type, MaxVoiceDataUrlBytes)
         IN  /\ BrowserAdmits(type, n, cap) <=> RouteAdmits(type, chunks)
             /\ BrowserAdmits(type, n, cap) <=> ProviderAdmits(type, n)
             /\ most # Undefined =>
                  /\ BrowserAdmits(type, n, cap) <=> n <= most
                  /\ MaxVoiceBase64Chars(type, MaxVoiceDataUrlBytes) = Base64Chars(most)
<1> DEFINE most == MaxVoiceAudioBytes(type, MaxVoiceDataUrlBytes)
           length == NormalizeVoiceMediaType(type)
           room == MaxVoiceDataUrlBytes - (length + 13)
<1>1. BrowserAdmits(type, n, cap) <=> ProviderAdmits(type, n)
  BY BrowserAndProviderAgree
<1>2. RouteAdmits(type, chunks) <=> ProviderAdmits(type, n)
  BY AnyChunking
<1>3. ASSUME most # Undefined
      PROVE  /\ BrowserAdmits(type, n, cap) <=> n <= most
             /\ MaxVoiceBase64Chars(type, MaxVoiceDataUrlBytes) = Base64Chars(most)
  <2>1. length # Undefined
    BY <1>3 DEF MaxVoiceAudioBytes, VoiceDataUrlPrefix
  <2>2. length \in Nat /\ VoiceDataUrlPrefix(type) = length + 13 /\ length + 13 # Undefined
    BY <2>1, TypeLength, SMT DEF Undefined
  <2>3. most = BytesWithin(room)
    BY <2>2 DEF MaxVoiceAudioBytes, MaxVoiceDataUrlBytes
  <2>4. room \in Int /\ room < MaxVoiceDataUrlBytes
    BY <2>2, SMT DEF MaxVoiceDataUrlBytes
  <2> HIDE DEF room
  <2>5. most \in Nat /\ (room < 4 => most = 0) /\ most < MaxVoiceDataUrlBytes
    BY <2>3, <2>4, SMT DEF BytesWithin, MaxVoiceDataUrlBytes
  <2>6. Base64Chars(most) <= MaxVoiceDataUrlBytes
    <3>1. CASE most = 0
      BY <3>1, SMT DEF Base64Chars, MaxVoiceDataUrlBytes
    <3>2. CASE most # 0
      <4>1. Base64Chars(most) <= room
        BY <2>3, <2>4, <2>5, <3>2, Groups
      <4>2. Base64Chars(most) \in Nat
        BY <2>5, LongerText
      <4> QED BY <4>1, <4>2, <2>4, SMT DEF MaxVoiceDataUrlBytes
    <3> QED BY <3>1, <3>2
  <2>7. VoiceBase64Length(most) = Base64Chars(most)
    BY <2>5, <2>6, SafeLengths
  <2>8. MaxVoiceBase64Chars(type, MaxVoiceDataUrlBytes) = Base64Chars(most)
    BY <1>3, <2>7 DEF MaxVoiceBase64Chars
  <2>9. IsVoiceAudioWithinDataUrlLimit(type, n, MaxVoiceDataUrlBytes) <=> n <= most
    BY <2>1, LargestRecording
  <2> HIDE DEF most
  <2>10. (IF cap < most THEN cap ELSE most) = most
    BY <2>5, SMT DEF MaxVoiceDataUrlBytes
  <2>11. BrowserAdmits(type, n, cap) <=> n <= most
    BY <2>1, <2>9, <2>10 DEF BrowserAdmits, most
  <2> QED BY <2>8, <2>11 DEF most
<1> QED BY <1>1, <1>2, <1>3

(* A transcript of the provider's is accepted by the browser, and with its  *)
(* microphone sign and label it fits a message up to sixteen units below    *)
(* the limit (voice-contract.ts, speech.ts).                                *)
THEOREM TranscriptsFit ==
  ASSUME NEW units \in Nat, NEW bytes \in Nat, NEW points \in Nat, points <= units, NEW labels,
         ProviderReturns([bytes |-> bytes, units |-> units])
  PROVE  /\ BrowserAccepts(units, points)
         /\ units <= 15984 => VoiceTurnUnits(units, FirstExpression(labels)) <= MaxMessageLength
<1>1. units > 0 /\ units <= 16000
  BY DEF ProviderReturns, MaxMessageLength
<1> DEFINE extra == IF FirstExpression(labels) = "none" THEN 0 ELSE 3 + MaxLabelLength
<1>2. extra \in 0 .. 12
  BY DEF MaxLabelLength
<1>3. VoiceTurnUnits(units, FirstExpression(labels)) = 4 + units + extra
  BY DEF VoiceTurnUnits
<1> HIDE DEF extra
<1> QED BY <1>1, <1>2, <1>3 DEF BrowserAccepts, VoiceTranscriptMaxChars, MaxMessageLength

-----------------------------------------------------------------------------
(* The images of a message, whatever types they declare.                    *)
Pictures(T) == [size : Nat, type : T, matches : BOOLEAN, clean : BOOLEAN, name : Nat]

\* What an image adds to the body, as BodyLength sums it.
Encoded(images, width) ==
  [i \in DOMAIN images |-> Base64Chars(images[i].size) + width * images[i].name + 62]

LEMMA BodyIs ==
  ASSUME NEW T, NEW images \in Seq(Pictures(T)), NEW units, NEW width
  PROVE  BodyLength(units, images, width)
           = 68 + width * units + Sum(Encoded(images, width), DOMAIN images)
<1> DEFINE D == DOMAIN images
           E == Encoded(images, width)
           Adds(g) == g = [s \in SUBSET D |->
             IF s = {} THEN 0
             ELSE (Base64Chars(images[Pick(s)].size) + width * images[Pick(s)].name + 62) + g[s \ {Pick(s)}]]
           h == CHOOSE g : Adds(g)
<1>1. BodyLength(units, images, width) = 68 + width * units + h[D]
  BY DEF BodyLength, MapThenSumSet, MapThenFoldSet, Pick
<1>2. ASSUME NEW s \in SUBSET D, s # {}
      PROVE  E[Pick(s)] = Base64Chars(images[Pick(s)].size) + width * images[Pick(s)].name + 62
  <2>1. Pick(s) \in D
    BY <1>2, Picked
  <2> HIDE DEF D
  <2> QED BY <2>1 DEF Encoded, D
<1>3. \A g : Adds(g) <=> Sums(g, E, D)
  <2> HIDE DEF E
  <2>1. [s \in SUBSET D |-> IF s = {} THEN 0 ELSE E[Pick(s)]] =
        [s \in SUBSET D |-> IF s = {} THEN 0
                            ELSE Base64Chars(images[Pick(s)].size) + width * images[Pick(s)].name + 62]
    BY <1>2
  <2> QED BY <1>2, ZenonT(30) DEF Sums
<1>4. IsFiniteSet(D)
  BY FS_Interval
<1>5. PICK g : Sums(g, E, D)
  BY <1>4, SumsExist
<1> HIDE DEF Adds, E
<1>6. Adds(h)
  BY <1>3, <1>5
<1> HIDE DEF h, D
<1>7. h[D] = Sum(E, D)
  <2>1. Sums(h, E, D) /\ D \in SUBSET D
    BY <1>3, <1>6
  <2> QED BY <2>1, <1>4, SumGives, ZenonT(30)
<1> QED BY <1>1, <1>7 DEF E, D

LEMMA SizesAre ==
  ASSUME NEW T, NEW images \in Seq(Pictures(T))
  PROVE  /\ Sizes(images) \in Seq(Nat) /\ Len(Sizes(images)) = Len(images)
         /\ Len(images) \in Nat /\ DOMAIN images = 1 .. Len(images)
         /\ \A i \in 1 .. Len(images) : images[i] \in Pictures(T) /\ Sizes(images)[i] = images[i].size
         /\ Total(Sizes(images)) = Sum(Sizes(images), 1 .. Len(images))
<1>1. Len(images) \in Nat /\ DOMAIN images = 1 .. Len(images) /\ \A i \in 1 .. Len(images) : images[i] \in Pictures(T)
  OBVIOUS
<1>2. Sizes(images) = [i \in 1 .. Len(images) |-> images[i].size]
  BY <1>1 DEF Sizes
<1>3. \A i \in 1 .. Len(images) : images[i].size \in Nat
  BY <1>1 DEF Pictures
<1>4. Sizes(images) \in Seq(Nat) /\ Len(Sizes(images)) = Len(images)
  BY <1>1, <1>2, <1>3
<1>5. Total(Sizes(images)) = Sum(Sizes(images), 1 .. Len(images))
  BY <1>4, TotalOf
<1> QED BY <1>1, <1>2, <1>4, <1>5

LEMMA SizesOfFirst ==
  ASSUME NEW T, NEW images \in Seq(Pictures(T)), NEW k \in 0 .. Len(images)
  PROVE  /\ SubSeq(images, 1, k) \in Seq(Pictures(T)) /\ Len(SubSeq(images, 1, k)) = k
         /\ \A i \in 1 .. k : SubSeq(images, 1, k)[i] = images[i]
         /\ Sizes(SubSeq(images, 1, k)) = SubSeq(Sizes(images), 1, k)
<1>1. /\ SubSeq(images, 1, k) \in Seq(Pictures(T)) /\ Len(SubSeq(images, 1, k)) = k
      /\ \A i \in 1 .. k : SubSeq(images, 1, k)[i] = images[i]
  OBVIOUS
<1>2. Sizes(SubSeq(images, 1, k)) = [i \in 1 .. k |-> images[i].size]
  BY <1>1 DEF Sizes
<1>3. SubSeq(Sizes(images), 1, k) = [i \in 1 .. k |-> images[i].size]
  <2>1. k \in 0 .. Len(Sizes(images)) /\ \A i \in 1 .. k : Sizes(images)[i] = images[i].size
    BY SizesAre
  <2> DEFINE z == Sizes(images)
  <2>2. z \in Seq(Nat)
    BY SizesAre
  <2> HIDE DEF z
  <2>3. SubSeq(z, 1, k) = [i \in 1 .. k |-> z[i]]
    BY <2>1, <2>2 DEF z
  <2> QED BY <2>1, <2>3 DEF z
<1> QED BY <1>1, <1>2, <1>3

\* The composer's limits and what the schema and inputImages ask of an image besides.
WithinLimits(images) ==
  /\ Len(images) <= MaxImages
  /\ \A i \in 1 .. Len(images) : images[i].type \in ImageTypes /\ images[i].size <= MaxImageBytes
  /\ Total(Sizes(images)) <= MaxMessageImageBytes
Genuine(images) ==
  \A i \in 1 .. Len(images) : images[i].size > 0 /\ images[i].matches /\ images[i].name <= MaxNameLength

LEMMA IntakeIs ==
  ASSUME NEW current, NEW incoming
  PROVE  IntakeError(current, incoming) = "none" <=>
           \/ incoming = <<>>
           \/ /\ \A i \in 1 .. Len(incoming) : incoming[i].type \in ImageTypes
              /\ ~(Len(current) + Len(incoming) > MaxImages)
              /\ \A i \in 1 .. Len(incoming) : ~(incoming[i].size > MaxImageBytes)
              /\ ~(Total(Sizes(current)) + Total(Sizes(incoming)) > MaxMessageImageBytes)
BY DEF IntakeError

(* Taking the images in two steps comes to the limits of all of them.       *)
LEMMA TakenIs ==
  ASSUME NEW T, NEW images \in Seq(Pictures(T)), NEW held \in 0 .. Len(images)
  PROVE  WithinLimits(images) <=>
           /\ IntakeError(<<>>, SubSeq(images, 1, held)) = "none"
           /\ IntakeError(SubSeq(images, 1, held), SubSeq(images, held + 1, Len(images))) = "none"
<1> DEFINE first == SubSeq(images, 1, held)
           more == SubSeq(images, held + 1, Len(images))
           n == Len(images)
           k == n - held
<1>1. /\ n \in Nat /\ held \in Nat /\ k \in Nat /\ n = held + k
      /\ first \in Seq(Pictures(T)) /\ Len(first) = held
      /\ \A i \in 1 .. held : first[i] = images[i]
  <2>1. n \in Nat
    OBVIOUS
  <2>2. first \in Seq(Pictures(T)) /\ Len(first) = held /\ \A i \in 1 .. held : first[i] = images[i]
    OBVIOUS
  <2>3. held \in 0 .. n
    OBVIOUS
  <2> HIDE DEF first, n
  <2>4. held \in Nat /\ k \in Nat /\ n = held + k
    BY <2>1, <2>3
  <2> QED BY <2>1, <2>2, <2>4
<1>2. /\ more \in Seq(Pictures(T)) /\ Len(more) = k
      /\ \A i \in 1 .. k : more[i] = images[held + i]
  OBVIOUS
<1>3. Total(Sizes(<<>>)) = 0
  <2>1. DOMAIN Sizes(<<>>) = {}
    BY DEF Sizes
  <2> QED BY <2>1, TotalIs, SumEmpty
<1> HIDE DEF first, more, n, k
<1>4. /\ Sizes(images) \in Seq(Nat) /\ Total(Sizes(images)) = Sum(Sizes(images), 1 .. n)
      /\ \A i \in 1 .. n : images[i] \in Pictures(T) /\ Sizes(images)[i] = images[i].size /\ images[i].size \in Nat
  BY SizesAre DEF Pictures, n
<1>0. \A i \in 1 .. k : held + i \in 1 .. n
  BY <1>1
<1>5. Total(Sizes(first)) = Sum(Sizes(images), 1 .. held)
  <2> DEFINE z == Sizes(images)
  <2>1. Sizes(first) = SubSeq(z, 1, held)
    BY SizesOfFirst DEF first
  <2>2. z \in Seq(Nat) /\ held \in 0 .. Len(z)
    BY SizesAre
  <2> HIDE DEF z
  <2>3. Total(SubSeq(z, 1, held)) = Sum(z, 1 .. held)
    BY <2>2, TotalOfFirst
  <2> QED BY <2>1, <2>3 DEF z
<1>6. /\ Total(Sizes(more)) = Sum(Sizes(more), 1 .. k) /\ Sizes(more) \in Seq(Nat)
      /\ \A i \in 1 .. k : Sizes(more)[i] = more[i].size
  BY <1>2, SizesAre
<1>7. Total(Sizes(images)) = Total(Sizes(first)) + Total(Sizes(more))
  <2>1. \A i \in 1 .. k : Sizes(more)[i] = Sizes(images)[held + i]
    BY <1>2, <1>4, <1>6, <1>0
  <2>2. \A i \in 1 .. held + k : Sizes(images)[i] \in Nat
    BY <1>1, <1>4
  <2> DEFINE z == Sizes(images)
             y == Sizes(more)
  <2> HIDE DEF z, y
  <2>3. Sum(z, 1 .. held + k) = Sum(z, 1 .. held) + Sum(y, 1 .. k)
    <3>1. (\A i \in 1 .. held + k : z[i] \in Nat) /\ \A i \in 1 .. k : y[i] = z[held + i]
      BY <2>1, <2>2 DEF z, y
    <3> QED BY <3>1, <1>1, SumOfBoth
  <2> QED BY <2>3, <1>1, <1>4, <1>5, <1>6 DEF z, y
<1>8. Total(Sizes(first)) \in Nat /\ Total(Sizes(more)) \in Nat
  BY <1>1, <1>2, SizesAre, TotalOf
<1>9. \A i \in 1 .. n : i \in 1 .. held \/ (i - held \in 1 .. k /\ i = held + (i - held))
  BY <1>1
<1>10. Len(<<>>) = 0 /\ (first = <<>> <=> held = 0) /\ (more = <<>> <=> k = 0)
  BY <1>1, <1>2
<1>11. held = 0 => Total(Sizes(first)) = 0
  BY <1>3, <1>10
<1>12. k = 0 => Total(Sizes(more)) = 0
  BY <1>3, <1>10
<1>13. IntakeError(<<>>, first) = "none" <=>
         held = 0 \/ /\ \A i \in 1 .. held : first[i].type \in ImageTypes /\ first[i].size <= MaxImageBytes
                     /\ held <= MaxImages /\ Total(Sizes(first)) <= MaxMessageImageBytes
  <2>1. \A i \in 1 .. held : first[i].size \in Nat
    BY <1>1, <1>4
  <2> QED BY <2>1, <1>1, <1>3, <1>8, <1>10, IntakeIs, SMTT(30) DEF MaxImages, MaxImageBytes, MaxMessageImageBytes
<1>14. IntakeError(first, more) = "none" <=>
         k = 0 \/ /\ \A i \in 1 .. k : more[i].type \in ImageTypes /\ more[i].size <= MaxImageBytes
                  /\ n <= MaxImages /\ Total(Sizes(images)) <= MaxMessageImageBytes
  <2>1. \A i \in 1 .. k : more[i].size \in Nat
    BY <1>2, <1>4, <1>0
  <2>2. \A i \in 1 .. k : ~(more[i].size > MaxImageBytes) <=> more[i].size <= MaxImageBytes
    BY <2>1 DEF MaxImageBytes
  <2>3. ~(Len(first) + Len(more) > MaxImages) <=> n <= MaxImages
    BY <1>1, <1>2 DEF MaxImages
  <2>4. ~(Total(Sizes(first)) + Total(Sizes(more)) > MaxMessageImageBytes) <=> Total(Sizes(images)) <= MaxMessageImageBytes
    BY <1>7, <1>8 DEF MaxMessageImageBytes
  <2>5. IntakeError(first, more) = "none" <=>
          \/ more = <<>>
          \/ /\ \A i \in 1 .. k : more[i].type \in ImageTypes
             /\ ~(Len(first) + Len(more) > MaxImages)
             /\ \A i \in 1 .. k : ~(more[i].size > MaxImageBytes)
             /\ ~(Total(Sizes(first)) + Total(Sizes(more)) > MaxMessageImageBytes)
    BY <1>2, IntakeIs
  <2> QED BY <1>10, <2>2, <2>3, <2>4, <2>5, Zenon
<1>15. WithinLimits(images) <=>
         /\ n <= MaxImages /\ Total(Sizes(images)) <= MaxMessageImageBytes
         /\ \A i \in 1 .. n : images[i].type \in ImageTypes /\ images[i].size <= MaxImageBytes
  BY DEF WithinLimits, n
<1>16. (\A i \in 1 .. n : images[i].type \in ImageTypes /\ images[i].size <= MaxImageBytes) <=>
         /\ \A i \in 1 .. held : first[i].type \in ImageTypes /\ first[i].size <= MaxImageBytes
         /\ \A i \in 1 .. k : more[i].type \in ImageTypes /\ more[i].size <= MaxImageBytes
  <2> DEFINE ok(p) == p.type \in ImageTypes /\ p.size <= MaxImageBytes
  <2>1. \A i \in 1 .. k : ok(more[i]) <=> ok(images[held + i])
    BY <1>2
  <2>2. \A i \in 1 .. held : i \in 1 .. n /\ (ok(first[i]) <=> ok(images[i]))
    BY <1>1
  <2> HIDE DEF ok
  <2>3. (\A i \in 1 .. n : ok(images[i])) =>
          (\A i \in 1 .. held : ok(first[i])) /\ \A i \in 1 .. k : ok(more[i])
    BY <1>0, <2>1, <2>2
  <2>4. ASSUME \A i \in 1 .. held : ok(first[i]), \A i \in 1 .. k : ok(more[i]), NEW i \in 1 .. n
        PROVE  ok(images[i])
    BY <1>9, <2>1, <2>2, <2>4
  <2>5. (\A i \in 1 .. n : ok(images[i])) <=>
          (\A i \in 1 .. held : ok(first[i])) /\ \A i \in 1 .. k : ok(more[i])
    BY <2>3, <2>4
  <2> QED BY <2>5 DEF ok
<1>17. CASE k = 0
  <2>1. CASE held = 0
    <3>1. n = 0 /\ Total(Sizes(images)) = 0 /\ 1 .. n = {}
      BY <1>1, <1>7, <1>11, <1>12, <1>17, <2>1
    <3> QED BY <1>13, <1>14, <1>15, <1>17, <2>1, <3>1 DEF first, more, MaxImages, MaxMessageImageBytes
  <2>2. CASE held # 0
    <3>1. n = held /\ Total(Sizes(images)) = Total(Sizes(first)) /\ 1 .. k = {}
      BY <1>1, <1>7, <1>8, <1>12, <1>17
    <3> QED BY <1>13, <1>14, <1>15, <1>16, <1>17, <2>2, <3>1 DEF first, more
  <2> QED BY <2>1, <2>2
<1>18. CASE k # 0
  <2>1. n <= MaxImages => held <= MaxImages
    BY <1>1 DEF MaxImages
  <2>2. Total(Sizes(images)) <= MaxMessageImageBytes => Total(Sizes(first)) <= MaxMessageImageBytes
    BY <1>7, <1>8 DEF MaxMessageImageBytes
  <2>3. IntakeError(first, more) = "none" <=>
          /\ \A i \in 1 .. k : more[i].type \in ImageTypes /\ more[i].size <= MaxImageBytes
          /\ n <= MaxImages /\ Total(Sizes(images)) <= MaxMessageImageBytes
    BY <1>14, <1>18
  <2>4. IntakeError(<<>>, first) = "none" => \A i \in 1 .. held : first[i].type \in ImageTypes /\ first[i].size <= MaxImageBytes
    BY <1>1, <1>13
  <2> QED BY <1>13, <1>15, <1>16, <2>1, <2>2, <2>3, <2>4 DEF first, more
<1> QED BY <1>17, <1>18

LEMMA WideUnits ==
  ASSUME NEW width \in Nat, NEW units \in Nat, width <= 6, units <= 16000
  PROVE  width * units \in Nat /\ width * units <= 96000
<1>1. width \in {0, 1, 2, 3, 4, 5, 6}
  BY SMT
<1> QED BY <1>1, SMT

(* The body of a message within every other limit is within its own.        *)
LEMMA BodyFits ==
  ASSUME NEW T, NEW images \in Seq(Pictures(T)), NEW units \in 0 .. MaxMessageLength, NEW width \in 0 .. 6,
         WithinLimits(images), Genuine(images)
  PROVE  BodyLength(units, images, width) <= MessageBodyLimit
<1> DEFINE n == Len(images)
           E == Encoded(images, width)
           z == Sizes(images)
<1>1. /\ n \in 0 .. 5 /\ DOMAIN images = 1 .. n /\ IsFiniteSet(1 .. n) /\ Cardinality(1 .. n) = n
  <2>1. n \in Nat /\ DOMAIN images = 1 .. n /\ n <= 5
    BY SizesAre DEF WithinLimits, MaxImages
  <2>2. 1 \in Int /\ n \in Int
    BY <2>1
  <2> HIDE DEF n
  <2>3. IsFiniteSet(1 .. n) /\ Cardinality(1 .. n) = IF 1 > n THEN 0 ELSE n - 1 + 1
    BY <2>2, FS_Interval
  <2> QED BY <2>1, <2>3, SMTT(30) DEF n
<1>2. ASSUME NEW i \in 1 .. n
      PROVE  E[i] \in Nat /\ z[i] \in Nat /\ 3 * E[i] <= 4 * z[i] + 3074
  <2> DEFINE size == images[i].size
             name == images[i].name
             g == (size + 2) \div 3
  <2>1. images[i] \in Pictures(T) /\ z[i] = size /\ E[i] = Base64Chars(size) + width * name + 62
    BY <1>1, SizesAre DEF Encoded
  <2>2. size \in Nat /\ name \in 0 .. 160
    <3>1. name <= 160
      BY DEF Genuine, MaxNameLength
    <3>2. size \in Nat /\ name \in Nat
      BY <2>1 DEF Pictures
    <3> HIDE DEF name
    <3> QED BY <3>1, <3>2
  <2> HIDE DEF size, name
  <2>3. g \in Nat /\ 3 * g <= size + 2
    BY <2>2, SMT
  <2>4. Base64Chars(size) = 4 * g
    BY DEF Base64Chars
  <2> HIDE DEF g
  <2>5. width * name \in 0 .. 960
    <3>1. width \in {0, 1, 2, 3, 4, 5, 6}
      BY SMT
    <3> QED BY <2>2, <3>1, SMT
  <2>6. E[i] = 4 * g + width * name + 62
    BY <2>1, <2>4
  <2> DEFINE w == width * name
  <2> HIDE DEF w
  <2> QED BY <2>1, <2>2, <2>3, <2>5, <2>6, SMT DEF w
<1>3. 3 * Sum(E, 1 .. n) <= 4 * Sum(z, 1 .. n) + 3074 * n
  <2> HIDE DEF E, z
  <2> DEFINE c == 3074
             D == 1 .. n
  <2>1. c \in Nat /\ IsFiniteSet(D) /\ Cardinality(D) = n
    BY <1>1
  <2>2. \A i \in D : E[i] \in Nat /\ z[i] \in Nat /\ 3 * E[i] <= 4 * z[i] + c
    BY <1>2
  <2> HIDE DEF c, D
  <2>3. 3 * Sum(E, D) <= 4 * Sum(z, D) + c * Cardinality(D)
    BY <2>1, <2>2, SumBound
  <2> QED BY <2>1, <2>3 DEF c, D
<1>4. Sum(E, 1 .. n) \in Nat
  <2> HIDE DEF E, z
  <2> QED BY <1>1, <1>2, SumType
<1>5. Sum(z, 1 .. n) \in Nat /\ Sum(z, 1 .. n) <= MaxMessageImageBytes
  <2>1. z \in Seq(Nat) /\ Total(z) = Sum(z, 1 .. n)
    BY SizesAre
  <2>2. Total(z) <= MaxMessageImageBytes
    BY DEF WithinLimits
  <2> HIDE DEF z, n
  <2>3. Total(z) \in Nat
    BY <2>1, TotalOf
  <2> QED BY <2>1, <2>2, <2>3
<1>6. BodyLength(units, images, width) = 68 + width * units + Sum(E, 1 .. n)
  BY <1>1, BodyIs
<1>7. width * units \in Nat /\ width * units <= 96000
  <2>1. width \in Nat /\ width <= 6 /\ units \in Nat /\ units <= 16000
    BY SMTT(30) DEF MaxMessageLength
  <2> QED BY <2>1, WideUnits
<1>8. MessageBodyLimit = 28093100
  BY SMT DEF MessageBodyLimit, Base64Chars, MaxMessageImageBytes
<1> DEFINE w == width * units
           e == Sum(E, 1 .. n)
           s == Sum(z, 1 .. n)
<1>9. w \in Nat /\ w <= 96000 /\ e \in Nat /\ n \in 0 .. 5 /\ 3 * e <= 4 * s + 3074 * n
  <2> HIDE DEF E, z
  <2>1. n \in 0 .. 5 /\ w \in Nat /\ w <= 96000
    BY <1>1, <1>7
  <2> HIDE DEF w
  <2> QED BY <1>3, <1>4, <2>1
<1>0. s \in Nat /\ s <= 20971520
  <2>1. MaxMessageImageBytes = 20971520
    BY SMT DEF MaxMessageImageBytes
  <2> HIDE DEF n, z
  <2> QED BY <1>5, <2>1
<1> HIDE DEF w, e, s, n
<1>10. 68 + w + e <= 28093100
  BY <1>9, <1>0, SMT
<1> QED BY <1>6, <1>8, <1>10 DEF w, e, n

\* A message of which the route takes the images, apart from its body.
LEMMA RouteIs ==
  ASSUME NEW T, NEW images \in Seq(Pictures(T)), NEW units \in 0 .. MaxMessageLength,
         \A i \in 1 .. Len(images) : images[i].clean
  PROVE  /\ WithinLimits(images) /\ Genuine(images) /\ (units > 0 \/ images # <<>>)
              <=> SchemaAdmits(units, images) /\ InputImagesAdmit(images)
<1> DEFINE n == Len(images)
           got(i) == Total(Sizes(SubSeq(images, 1, i)))
<1>1. n \in Nat /\ \A i \in 1 .. n : images[i] \in Pictures(T) /\ images[i].size \in Nat
  BY SizesAre DEF Pictures
<1>2. \A i \in 1 .. n : got(i) <= Total(Sizes(images))
  <2>1. ASSUME NEW i \in 1 .. n
        PROVE  got(i) <= Total(Sizes(images))
    <3> DEFINE z == Sizes(images)
    <3>1. z \in Seq(Nat) /\ i \in 0 .. Len(z)
      BY SizesAre
    <3>2. got(i) = Total(SubSeq(z, 1, i))
      <4>1. i \in 0 .. Len(images)
        BY <1>1
      <4>2. Sizes(SubSeq(images, 1, i)) = SubSeq(Sizes(images), 1, i)
        BY <4>1, SizesOfFirst
      <4> QED BY <4>2
    <3> HIDE DEF z, got
    <3>3. Total(SubSeq(z, 1, i)) <= Total(z)
      BY <3>1, TotalOfFirst
    <3> QED BY <3>2, <3>3 DEF z
  <2> QED BY <2>1
<1>3. n # 0 => got(n) = Total(Sizes(images)) /\ n \in 1 .. n
  <2>1. SubSeq(images, 1, n) = images
    OBVIOUS
  <2>2. n # 0 => n \in 1 .. n
    BY <1>1
  <2> QED BY <2>1, <2>2
<1>4. n = 0 => Total(Sizes(images)) <= MaxMessageImageBytes
  <2>1. n = 0 => 1 .. n = {}
    OBVIOUS
  <2>2. n = 0 => Total(Sizes(images)) = 0
    BY <2>1, SizesAre, SumEmpty
  <2> QED BY <2>2, SMT DEF MaxMessageImageBytes
<1>5. \A i \in 1 .. n : got(i) \in Nat /\ Total(Sizes(images)) \in Nat
  <2>1. ASSUME NEW i \in 1 .. n
        PROVE  got(i) \in Nat
    <3>1. i \in 0 .. Len(images)
      BY <1>1
    <3>2. Sizes(SubSeq(images, 1, i)) \in Seq(Nat)
      BY <3>1, SizesOfFirst, SizesAre
    <3> QED BY <3>2, TotalOf
  <2>2. Total(Sizes(images)) \in Nat
    BY SizesAre, TotalOf
  <2> QED BY <2>1, <2>2
<1> HIDE DEF got
<1>6. (\A i \in 1 .. n : got(i) <= MaxMessageImageBytes) <=> Total(Sizes(images)) <= MaxMessageImageBytes
  <2>1. ASSUME Total(Sizes(images)) <= MaxMessageImageBytes, NEW i \in 1 .. n
        PROVE  got(i) <= MaxMessageImageBytes
    BY <1>2, <1>5, <2>1 DEF MaxMessageImageBytes
  <2>2. (\A i \in 1 .. n : got(i) <= MaxMessageImageBytes) => Total(Sizes(images)) <= MaxMessageImageBytes
    BY <1>3, <1>4
  <2> QED BY <2>1, <2>2
<1>7. \A i \in 1 .. n : images[i].size <= MaxImageBytes => Base64Chars(images[i].size) <= Base64Chars(MaxImageBytes)
  BY <1>1, LongerText, SMTT(30) DEF MaxImageBytes
<1>8. images # <<>> <=> n > 0
  BY <1>1
<1>9. units <= MaxMessageLength
  BY SMTT(30) DEF MaxMessageLength
<1>10. SchemaAdmits(units, images) <=>
         /\ n <= MaxImages /\ (units > 0 \/ n > 0)
         /\ \A i \in 1 .. n : /\ images[i].type \in ImageTypes
                              /\ Base64Chars(images[i].size) <= Base64Chars(MaxImageBytes)
                              /\ images[i].name <= MaxNameLength
  BY <1>9 DEF SchemaAdmits
<1>11. InputImagesAdmit(images) <=>
         /\ n <= MaxImages
         /\ \A i \in 1 .. n : images[i].size > 0 /\ images[i].size <= MaxImageBytes /\ images[i].matches
         /\ \A i \in 1 .. n : got(i) <= MaxMessageImageBytes
  BY DEF InputImagesAdmit, got
<1>12. WithinLimits(images) <=>
         /\ n <= MaxImages /\ Total(Sizes(images)) <= MaxMessageImageBytes
         /\ \A i \in 1 .. n : images[i].type \in ImageTypes /\ images[i].size <= MaxImageBytes
  BY DEF WithinLimits
<1>13. Genuine(images) <=>
         \A i \in 1 .. n : images[i].size > 0 /\ images[i].matches /\ images[i].name <= MaxNameLength
  BY DEF Genuine
<1> HIDE DEF n
<1> QED BY <1>6, <1>7, <1>8, <1>10, <1>11, <1>12, <1>13, Zenon

(* The composer and the route agree about the images of a message, whatever *)
(* they are, in whatever two steps they were taken and whatever the text is *)
(* made of: what the composer took is taken by the route unless an image is *)
(* empty, is not what its type says or has too long a name, and what the    *)
(* route takes is within the composer's limits                              *)
(* (image-drafts.ts, images.ts:9-30, server.ts:9-17, 71).                   *)
THEOREM ImagesPass ==
  ASSUME NEW T, NEW images \in Seq(Pictures(T)), NEW held \in 0 .. Len(images),
         NEW units \in 0 .. MaxMessageLength, NEW width \in 0 .. 6,
         \A i \in 1 .. Len(images) : images[i].clean
  PROVE  LET Taken == /\ IntakeError(<<>>, SubSeq(images, 1, held)) = "none"
                      /\ IntakeError(SubSeq(images, 1, held),
                                     SubSeq(images, held + 1, Len(images))) = "none"
         IN  RouteTakes(units, images, width)
               <=> Taken /\ Genuine(images) /\ (units > 0 \/ images # <<>>)
<1>1. WithinLimits(images) /\ Genuine(images) => BodyLength(units, images, width) <= MessageBodyLimit
  BY BodyFits
<1>2. WithinLimits(images) /\ Genuine(images) /\ (units > 0 \/ images # <<>>)
        <=> SchemaAdmits(units, images) /\ InputImagesAdmit(images)
  BY RouteIs
<1> QED BY <1>1, <1>2, TakenIs DEF RouteTakes

-----------------------------------------------------------------------------
(* Base64 text and the image bridge.                                        *)

(* An image text is taken exactly when an encoder could have written it,    *)
(* whatever its length, and isCanonicalBase64 accepts at least as much      *)
(* (images.ts:9-30, voice-contract.ts).                                     *)
THEOREM TextsPass ==
  ASSUME NEW text \in Seq({"even", "odd", "pad", "other"})
  PROVE  /\ DecodesAsImage(text) <=> Encoding(text)
         /\ DecodesAsImage(text) => IsCanonicalBase64(text, Undefined)
<1> DEFINE n == Len(text)
           pads == {i \in 1 .. n : text[i] = "pad"}
<1>1. n \in Nat /\ \A i \in 1 .. n : text[i] \in {"even", "odd", "pad", "other"}
  OBVIOUS
<1>2. Alphabet = {"even", "odd"}
  BY DEF Alphabet
<1>3. SUFFICES ASSUME n > 0, n % 4 = 0
               PROVE  /\ DecodesAsImage(text) <=> Encoding(text)
                      /\ DecodesAsImage(text) => IsCanonicalBase64(text, Undefined)
  BY DEF DecodesAsImage, Encoding
<1>4. n >= 4
  BY <1>1, <1>3, SMT
<1>5. DecodesAsImage(text) <=>
        /\ \A i \in 1 .. n : text[i] # "other"
        /\ pads \in {{}, {n}, {n - 1, n}}
        /\ pads # {} => text[n - Cardinality(pads)] = "even"
  BY <1>3 DEF DecodesAsImage
\* The text ends in p characters of padding.
<1> DEFINE Ends(p) == /\ \A i \in 1 .. n - p : text[i] \in Alphabet
                      /\ \A i \in n - p + 1 .. n : text[i] = "pad"
                      /\ p > 0 => text[n - p] = "even"
<1>6. Encoding(text) <=> Ends(0) \/ Ends(1) \/ Ends(2)
  <2>1. Encoding(text) <=> \E p \in 0 .. 2 : Ends(p)
    BY <1>3 DEF Encoding
  <2>2. 0 .. 2 = {0, 1, 2}
    OBVIOUS
  <2> HIDE DEF Ends
  <2> QED BY <2>1, <2>2
<1>7. Cardinality({n}) = 1 /\ Cardinality({n - 1, n}) = 2
  <2>1. IsFiniteSet({n - 1}) /\ Cardinality({n - 1}) = 1 /\ Cardinality({n}) = 1
    BY FS_Singleton
  <2>2. Cardinality({n - 1} \cup {n}) = IF n \in {n - 1} THEN Cardinality({n - 1}) ELSE Cardinality({n - 1}) + 1
    BY <2>1, FS_AddElement
  <2>3. n \notin {n - 1} /\ {n - 1} \cup {n} = {n - 1, n}
    BY <1>1
  <2> QED BY <2>1, <2>2, <2>3
<1> HIDE DEF n
<1>8. DecodesAsImage(text) => Encoding(text)
  <2>1. ASSUME \A i \in 1 .. n : text[i] # "other", pads = {}
        PROVE  Ends(0)
    <3>1. \A i \in 1 .. n - 0 : i \in 1 .. n /\ text[i] # "pad"
      BY <2>1, <1>1
    <3> QED BY <3>1, <2>1, <1>1, <1>2
  <2>2. ASSUME \A i \in 1 .. n : text[i] # "other", pads = {n}, text[n - 1] = "even"
        PROVE  Ends(1)
    <3>1. \A i \in 1 .. n - 1 : i \in 1 .. n /\ text[i] # "pad"
      BY <2>2, <1>1
    <3>2. \A i \in n - 1 + 1 .. n : text[i] = "pad"
      BY <2>2, <1>1
    <3> QED BY <3>1, <3>2, <2>2, <1>1, <1>2
  <2>3. ASSUME \A i \in 1 .. n : text[i] # "other", pads = {n - 1, n}, text[n - 2] = "even"
        PROVE  Ends(2)
    <3>1. \A i \in 1 .. n - 2 : i \in 1 .. n /\ text[i] # "pad"
      BY <2>3, <1>1
    <3>2. \A i \in n - 2 + 1 .. n : text[i] = "pad"
      BY <2>3, <1>1
    <3> QED BY <3>1, <3>2, <2>3, <1>1, <1>2
  <2> HIDE DEF Ends, pads
  <2> QED BY <1>5, <1>6, <1>7, <2>1, <2>2, <2>3
<1>9. Encoding(text) => DecodesAsImage(text)
  <2>1. ASSUME Ends(0) PROVE DecodesAsImage(text)
    <3>1. \A i \in 1 .. n : text[i] \in {"even", "odd"}
      BY <2>1, <1>1, <1>2
    <3> QED BY <3>1, <1>5
  <2>2. ASSUME Ends(1) PROVE DecodesAsImage(text)
    <3>1. (\A i \in 1 .. n - 1 : text[i] \in {"even", "odd"}) /\ text[n] = "pad"
      BY <2>2, <1>1, <1>2
    <3>2. pads = {n} /\ \A i \in 1 .. n : text[i] # "other"
      BY <3>1, <1>1, <1>4
    <3> HIDE DEF pads
    <3> QED BY <3>2, <2>2, <1>5, <1>7
  <2>3. ASSUME Ends(2) PROVE DecodesAsImage(text)
    <3>1. (\A i \in 1 .. n - 2 : text[i] \in {"even", "odd"}) /\ text[n - 1] = "pad" /\ text[n] = "pad"
      BY <2>3, <1>1, <1>2
    <3>2. pads = {n - 1, n} /\ \A i \in 1 .. n : text[i] # "other"
      BY <3>1, <1>1, <1>4
    <3> HIDE DEF pads
    <3> QED BY <3>2, <2>3, <1>5, <1>7
  <2> HIDE DEF Ends
  <2> QED BY <1>6, <2>1, <2>2, <2>3
<1>10. ASSUME NEW p \in 0 .. 2, Ends(p) PROVE IsCanonicalBase64(text, Undefined)
  <2> DEFINE Before(i) == {j \in 1 .. i : text[j] = "pad"}
  <2>1. ASSUME NEW i \in 1 .. n, i <= n - p
        PROVE  text[i] \in Alphabet /\ Cardinality(Before(i)) = 0
    <3>1. \A j \in 1 .. i : text[j] \in {"even", "odd"}
      BY <1>1, <1>2, <1>10, <2>1
    <3>2. Before(i) = {}
      BY <3>1
    <3>3. i \in 1 .. i
      BY <1>1, <2>1
    <3>4. Cardinality(Before(i)) = 0
      BY <3>2, FS_EmptySet
    <3> QED BY <3>1, <3>3, <3>4, <1>2
  <2>2. ASSUME NEW i \in 1 .. n, i > n - p
        PROVE  text[i] = "pad" /\ Cardinality(Before(i)) <= 2 /\ i > n - 2
    <3>1. text[i] = "pad" /\ i > n - 2
      BY <1>1, <1>10, <2>2
    <3>2. Before(i) \subseteq {n - 1, n}
      <4>1. ASSUME NEW j \in 1 .. i, text[j] = "pad" PROVE j \in {n - 1, n}
        <5>1. j > n - p
          BY <1>1, <1>2, <1>10, <4>1
        <5> QED BY <5>1, <1>1, <4>1
      <4> QED BY <4>1
    <3>3. IsFiniteSet({n - 1, n})
      <4>1. IsFiniteSet({n - 1} \cup {n})
        BY FS_Singleton, FS_AddElement
      <4>2. {n - 1} \cup {n} = {n - 1, n}
        OBVIOUS
      <4> QED BY <4>1, <4>2
    <3>4. Cardinality(Before(i)) \in Nat /\ Cardinality(Before(i)) <= 2
      BY <3>2, <3>3, <1>7, FS_Subset, FS_CardinalityType
    <3> QED BY <3>1, <3>4
  <2>3. \A i \in 1 .. n : \/ text[i] = "pad" /\ Cardinality(Before(i)) <= 2 /\ i > n - 2
                          \/ text[i] \in Alphabet /\ Cardinality(Before(i)) = 0
    <3>1. \A i \in 1 .. n : i <= n - p \/ i > n - p
      BY <1>1
    <3> QED BY <2>1, <2>2, <3>1
  <2> QED BY <2>3, <1>3 DEF IsCanonicalBase64, n
<1>11. Encoding(text) => IsCanonicalBase64(text, Undefined)
  <2>1. 0 \in 0 .. 2 /\ 1 \in 0 .. 2 /\ 2 \in 0 .. 2
    OBVIOUS
  <2> HIDE DEF Ends
  <2> QED BY <2>1, <1>6, <1>10
<1> QED BY <1>8, <1>9, <1>11

LEMMA TotalAppend ==
  ASSUME NEW s \in Seq(Nat), NEW x \in Nat
  PROVE  Append(s, x) \in Seq(Nat) /\ Len(Append(s, x)) = Len(s) + 1 /\ Total(Append(s, x)) = Total(s) + x
<1> DEFINE a == Append(s, x)
           n == Len(s)
<1>1. /\ n \in Nat /\ a \in Seq(Nat) /\ Len(a) = n + 1 /\ a[n + 1] = x
      /\ \A i \in 1 .. n : a[i] = s[i]
  OBVIOUS
<1>2. Total(s) = Sum(s, 1 .. n) /\ IsFiniteSet(1 .. n)
  BY TotalOf
<1> HIDE DEF a
<1>3. Total(a) = Sum(a, 1 .. n + 1) /\ \A i \in 1 .. n + 1 : a[i] \in Nat
  BY <1>1, TotalOf
<1> HIDE DEF n
<1>4. Sum(a, 1 .. n + 1) = Sum(a, 1 .. n) + a[n + 1]
  BY <1>1, <1>3, SumOne
<1>5. Sum(a, 1 .. n) = Sum(s, 1 .. n)
  BY <1>1, <1>2, SumSame
<1> QED BY <1>1, <1>2, <1>3, <1>4, <1>5 DEF a, n

(* A further source fits a request to the image bridge exactly when it is   *)
(* within the room remainingSourceBytes reports, whatever the prompt, the   *)
(* sources before it and their types (image-core.ts).                       *)
THEOREM SourcesFit ==
  ASSUME NEW urls \in Seq(Nat), Len(urls) < 5, NEW base \in Nat, NEW prefix \in Nat, NEW bytes \in Nat \ {0}
  PROVE  bytes <= RemainingSourceBytes(base, urls, prefix)
           <=> BridgePayloadFits(base, Append(urls, prefix + Base64Chars(bytes)))
<1> DEFINE n == Len(urls)
           before == base + 12 + 3 * (n + 1) - 1 + Total(urls)
           room == MaxBridgeJsonBytes - (before + prefix)
<1>1. n \in Nat /\ n < 5 /\ Total(urls) \in Nat /\ before \in Int
  BY TotalOf
<1>2. ASSUME NEW x \in Nat
      PROVE  BridgeBody(base, Append(urls, x)) = before + x /\ Len(Append(urls, x)) = n + 1
  <2>1. Len(Append(urls, x)) = n + 1 /\ Total(Append(urls, x)) = Total(urls) + x
    BY TotalAppend
  <2>2. Append(urls, x) # <<>>
    OBVIOUS
  <2>3. BridgeBody(base, Append(urls, x)) = base + 12 + 3 * (n + 1) - 1 + (Total(urls) + x)
    BY <2>1, <2>2 DEF BridgeBody
  <2> QED BY <2>1, <2>3, <1>1
<1>3. Base64Chars(bytes) \in Nat
  BY LongerText
<1>4. room \in Int
  BY <1>1, SMT DEF MaxBridgeJsonBytes
<1>5. RemainingSourceBytes(base, urls, prefix) = BytesWithin(room)
  BY <1>1, <1>2 DEF RemainingSourceBytes
<1>6. Base64Chars(bytes) <= room <=> bytes <= BytesWithin(room)
  BY <1>4, Groups
<1>7. BridgePayloadFits(base, Append(urls, prefix + Base64Chars(bytes)))
        <=> before + (prefix + Base64Chars(bytes)) <= MaxBridgeJsonBytes
  <2>1. prefix + Base64Chars(bytes) \in Nat /\ n + 1 <= 5
    BY <1>1, <1>3
  <2> HIDE DEF before
  <2> QED BY <2>1, <1>2 DEF BridgePayloadFits
<1>8. MaxBridgeJsonBytes \in Int
  BY SMT DEF MaxBridgeJsonBytes
<1> HIDE DEF before, n
<1>9. Base64Chars(bytes) <= room <=> before + (prefix + Base64Chars(bytes)) <= MaxBridgeJsonBytes
  BY <1>1, <1>3, <1>8, SMT
<1> QED BY <1>5, <1>6, <1>7, <1>9

-----------------------------------------------------------------------------
(* The runs.  What a property says of the cases of a kind follows from the  *)
(* theorems above, once it is known that a case of that kind is one of them. *)
Examined ==
  /\ case.kind = "recording" => case \in Recordings
  /\ case.kind = "transcript" => case \in Transcripts
  /\ case.kind = "attachments" => case \in Attachments
  /\ case.kind = "text" => case \in Texts
  /\ case.kind = "request" => case \in Requests

MediaKinds == {"recording", "transcript", "attachments", "text", "request"}

LEMMA MediaCases ==
  /\ \A c \in Recordings : c.kind = "recording"
  /\ \A c \in Transcripts : c.kind = "transcript"
  /\ \A c \in Attachments : c.kind = "attachments"
  /\ \A c \in Texts : c.kind = "text"
  /\ \A c \in Requests : c.kind = "request"
<1>1. \A c \in Recordings : c.kind = "recording"
  BY DEF Recordings
<1>2. \A c \in Transcripts : c.kind = "transcript"
  BY DEF Transcripts
<1>3. \A c \in Attachments : c.kind = "attachments"
  BY DEF Attachments
<1>4. \A c \in Texts : c.kind = "text"
  BY DEF Texts
<1>5. \A c \in Requests : c.kind = "request"
  BY DEF Requests
<1> QED BY <1>1, <1>2, <1>3, <1>4, <1>5

LEMMA OtherCases ==
  \A c \in Conversations \cup Markers \cup Ledgers \cup Bubbles
             \cup Writings \cup Updates \cup Tokens \cup Shapes \cup Throws \cup Reads \cup Names :
    c.kind \notin MediaKinds
<1>1. \A c \in Conversations : c.kind = "rounds"
  BY DEF Conversations
<1>2. (\A c \in Markers : c.kind = "markers") /\ \A c \in Ledgers : c.kind = "ledger"
  BY DEF Markers, Ledgers
<1>3. \A c \in Bubbles : c.kind = "bubble"
  BY DEF Bubbles
<1>4. (\A c \in Writings : c.kind = "writing") /\ \A c \in Updates : c.kind = "update"
  BY DEF Writings, Updates
<1>5. \A c \in Tokens : c.kind \in {"tokens", "affinity", "elapsed", "capacity"}
  BY DEF Tokens
<1>6. \A c \in Shapes : c.kind \in {"picture", "composer"}
  BY DEF Shapes
<1>7. (\A c \in Throws : c.kind = "dice") /\ \A c \in Reads : c.kind = "page"
  BY DEF Throws, Reads
<1>8. \A c \in Names : c.kind = "tag"
  BY DEF Names
<1> QED BY <1>1, <1>2, <1>3, <1>4, <1>5, <1>6, <1>7, <1>8 DEF MediaKinds

LEMMA ExaminedStep == Examined /\ [Next]_case => Examined'
<1> SUFFICES ASSUME Examined, [Next]_case PROVE Examined'
  OBVIOUS
<1>1. CASE case' \in Recordings \/ case' \in Transcripts \/ case' \in Attachments
             \/ case' \in Texts \/ case' \in Requests
  BY <1>1, MediaCases DEF Examined
<1>2. CASE Order \/ Rules \/ case' \in Names
  BY <1>2, OtherCases DEF Examined, MediaKinds, Order, Rules
<1>3. CASE Typing \/ Viewing
  BY <1>3 DEF Examined, Typing, Viewing
<1>4. CASE UNCHANGED case
  BY <1>4 DEF Examined
<1> QED BY <1>1, <1>2, <1>3, <1>4 DEF Next, Media, Uses

LEMMA AlwaysExamined == Spec => []Examined
<1>1. Init => Examined
  BY DEF Init, Nothing, Examined
<1> QED BY <1>1, ExaminedStep, PTL DEF Spec

(* Recordings and transcripts (voice-contract.ts, voice-input.ts,           *)
(* server.ts:32-50, speech.ts).                                             *)
LEMMA RecordingsWere == Examined => RecordingsAgree
<1>1. ASSUME case \in Recordings
      PROVE  LET type == case.type
                 n == case.bytes
                 chunks == IF case.first < n THEN <<case.first, n - case.first>> ELSE <<n>>
                 most == MaxVoiceAudioBytes(type, MaxVoiceDataUrlBytes)
             IN  /\ BrowserAdmits(type, n, MaxSafeInteger) <=> RouteAdmits(type, chunks)
                 /\ BrowserAdmits(type, n, MaxSafeInteger) <=> ProviderAdmits(type, n)
                 /\ most # Undefined =>
                      /\ BrowserAdmits(type, n, MaxSafeInteger) <=> n <= most
                      /\ MaxVoiceBase64Chars(type, MaxVoiceDataUrlBytes) = Base64Chars(most)
                 /\ EncodedChunks(n) = [length |-> Base64Chars(n), paddedInside |-> FALSE]
  <2>1. RecordingSizes \subseteq Nat \ {0}
    BY SMT DEF RecordingSizes, MaxVoiceDataUrlBytes
  <2>2. FirstChunks \subseteq Nat
    BY SMT DEF FirstChunks
  <2>3. Types \subseteq MediaTypes
    BY SMT DEF Types, Type, MediaTypes
  <2>4. PICK type \in Types, bytes \in RecordingSizes, first \in FirstChunks :
          case = [kind |-> "recording", type |-> type, bytes |-> bytes, first |-> first]
    BY <1>1 DEF Recordings
  <2>5. case.type = type /\ case.bytes = bytes /\ case.first = first
    BY <2>4
  <2>6. type \in MediaTypes /\ bytes \in Nat \ {0} /\ first \in Nat
    BY <2>1, <2>2, <2>3
  <2> DEFINE chunks == IF first < bytes THEN <<first, bytes - first>> ELSE <<bytes>>
  <2>7. chunks \in Seq(Nat) /\ Total(chunks) = bytes
    <3>1. Total(<<>>) = 0
      <4>1. DOMAIN <<>> = {}
        OBVIOUS
      <4> QED BY <4>1, TotalIs, SumEmpty
    <3>2. ASSUME NEW x \in Nat PROVE <<x>> \in Seq(Nat) /\ Total(<<x>>) = x
      <4>1. <<x>> = Append(<<>>, x) /\ <<>> \in Seq(Nat)
        OBVIOUS
      <4>2. Append(<<>>, x) \in Seq(Nat) /\ Total(Append(<<>>, x)) = Total(<<>>) + x
        BY <4>1, TotalAppend
      <4> QED BY <3>1, <4>1, <4>2
    <3>3. ASSUME NEW x \in Nat, NEW y \in Nat PROVE <<x, y>> \in Seq(Nat) /\ Total(<<x, y>>) = x + y
      <4>1. Total(Append(<<x>>, y)) = Total(<<x>>) + y /\ Append(<<x>>, y) \in Seq(Nat)
        BY <3>2, TotalAppend
      <4>2. <<x, y>> = Append(<<x>>, y)
        OBVIOUS
      <4> QED BY <3>2, <4>1, <4>2
    <3>4. CASE first < bytes
      <4>1. bytes - first \in Nat /\ first + (bytes - first) = bytes
        BY <2>6, <3>4
      <4> QED BY <4>1, <3>3, <3>4, <2>6
    <3>5. CASE ~(first < bytes)
      BY <3>2, <3>5, <2>6
    <3> QED BY <3>4, <3>5
  <2>8. MaxSafeInteger \in Int /\ MaxSafeInteger >= MaxVoiceDataUrlBytes
    BY SafeAssumption, SMT DEF MaxVoiceDataUrlBytes
  <2>9. EncodedChunks(bytes) = [length |-> Base64Chars(bytes), paddedInside |-> FALSE]
    BY <2>6, ChunksConcatenate
  <2> HIDE DEF chunks
  <2>10. LET most == MaxVoiceAudioBytes(type, MaxVoiceDataUrlBytes)
         IN  /\ BrowserAdmits(type, bytes, MaxSafeInteger) <=> RouteAdmits(type, chunks)
             /\ BrowserAdmits(type, bytes, MaxSafeInteger) <=> ProviderAdmits(type, bytes)
             /\ most # Undefined =>
                  /\ BrowserAdmits(type, bytes, MaxSafeInteger) <=> bytes <= most
                  /\ MaxVoiceBase64Chars(type, MaxVoiceDataUrlBytes) = Base64Chars(most)
    BY <2>6, <2>7, <2>8, RecordingsPass
  <2> QED BY <2>5, <2>9, <2>10 DEF chunks
<1>2. ASSUME case \in Transcripts
      PROVE  LET points == case.units - Smaller(case.astral, case.units \div 2)
                 label == FirstExpression(case.labels)
             IN  ProviderReturns([bytes |-> 3 * case.units, units |-> case.units]) =>
                   /\ BrowserAccepts(case.units, points)
                   /\ case.units <= 15984 => VoiceTurnUnits(case.units, label) <= MaxMessageLength
  <2>1. case.units \in Nat /\ case.astral \in Nat
    BY <1>2, SMT DEF Transcripts
  <2> DEFINE half == case.units \div 2
             fewer == Smaller(case.astral, half)
  <2>2. half \in Nat /\ half <= case.units
    BY <2>1, SMT
  <2> HIDE DEF half
  <2>3. fewer \in Nat /\ fewer <= case.units
    BY <2>1, <2>2 DEF Smaller
  <2> HIDE DEF fewer
  <2>4. case.units - fewer \in Nat /\ case.units - fewer <= case.units /\ 3 * case.units \in Nat
    BY <2>1, <2>3
  <2>5. ProviderReturns([bytes |-> 3 * case.units, units |-> case.units]) =>
          /\ BrowserAccepts(case.units, case.units - fewer)
          /\ case.units <= 15984 => VoiceTurnUnits(case.units, FirstExpression(case.labels)) <= MaxMessageLength
    <3> DEFINE units == case.units
               bytes == 3 * units
               points == units - fewer
               labels == case.labels
    <3>1. units \in Nat /\ bytes \in Nat /\ points \in Nat /\ points <= units
      BY <2>1, <2>4
    <3> HIDE DEF units, bytes, points, labels
    <3>2. ASSUME ProviderReturns([bytes |-> bytes, units |-> units])
          PROVE  /\ BrowserAccepts(units, points)
                 /\ units <= 15984 => VoiceTurnUnits(units, FirstExpression(labels)) <= MaxMessageLength
      BY <3>1, <3>2, TranscriptsFit, SMT
    <3> QED BY <3>2 DEF units, bytes, points, labels
  <2> QED BY <2>5 DEF fewer, half
<1> QED BY <1>1, <1>2 DEF Examined, RecordingsAgree

(* Every recording and transcript the run looks at (voice-contract.ts,      *)
(* voice-input.ts, server.ts:32-50, speech.ts).                             *)
THEOREM RecordingsAgreed == Spec => []RecordingsAgree
BY AlwaysExamined, RecordingsWere, PTL

LEMMA RoomType ==
  ASSUME NEW urls \in Seq(Nat), NEW base \in Nat, NEW prefix \in Nat
  PROVE  RemainingSourceBytes(base, urls, prefix) \in Int
<1> DEFINE more == Append(urls, prefix)
<1>0. more # <<>> /\ more \in Seq(Nat) /\ Len(more) \in Nat
  OBVIOUS
<1> HIDE DEF more
<1>1. Total(more) \in Nat
  BY <1>0, TotalOf
<1>2. BridgeBody(base, more) \in Int
  BY <1>0, <1>1 DEF BridgeBody
<1> DEFINE left == MaxBridgeJsonBytes - BridgeBody(base, more)
<1>3. left \in Int
  BY <1>2, SMT DEF MaxBridgeJsonBytes
<1>4. RemainingSourceBytes(base, urls, prefix) = IF Len(urls) >= 5 THEN 0 ELSE BytesWithin(left)
  BY DEF RemainingSourceBytes, more
<1> HIDE DEF left
<1>5. BytesWithin(left) \in Int
  BY <1>3 DEF BytesWithin
<1> QED BY <1>4, <1>5

LEMMA TextsAre ==
  ASSUME NEW c \in Texts
  PROVE  c.text \in Seq({"even", "odd", "pad", "other"})
<1> DEFINE C == {"even", "odd", "pad", "other"}
<1>1. \A n \in Nat : [1 .. n -> C] \subseteq Seq(C)
  OBVIOUS
<1>2. \A e \in Openings, f \in Closings : e \o f \in Seq(C)
  <2> SUFFICES ASSUME NEW e \in Openings, NEW f \in Closings
               PROVE  e \o f \in Seq(C)
    OBVIOUS
  <2>1. e \in [1 .. 4 -> C] /\ f \in [1 .. 4 -> C]
    BY DEF Openings, Closings
  <2>2. e \in Seq(C) /\ f \in Seq(C)
    BY <1>1, <2>1
  <2> HIDE DEF C
  <2> QED BY <2>2
<1>3. c.text \in ShortTexts \cup LongTexts
  BY DEF Texts
<1>4. c.text \in ShortTexts => \E n \in {0, 3, 4} : c.text \in [1 .. n -> C]
  BY Zenon DEF ShortTexts
<1>5. c.text \in LongTexts => \E e \in Openings, f \in Closings : c.text = e \o f
  BY DEF LongTexts
<1> HIDE DEF C
<1>6. \A n \in {0, 3, 4} : n \in Nat
  OBVIOUS
<1> QED BY <1>1, <1>2, <1>3, <1>4, <1>5, <1>6 DEF C

(* Images, base64 texts and requests to the bridge (image-drafts.ts,        *)
(* images.ts, server.ts:9-17, 71, voice-contract.ts, image-core.ts).        *)
LEMMA ImagesWere == Examined => ImagesAgree
<1>1. ASSUME case \in Attachments
      PROVE  LET images == case.images
                 Taken == /\ IntakeError(<<>>, SubSeq(images, 1, case.held)) = "none"
                          /\ IntakeError(SubSeq(images, 1, case.held),
                                         SubSeq(images, case.held + 1, Len(images))) = "none"
                 Sound == \A i \in 1 .. Len(images) :
                            /\ images[i].size > 0 /\ images[i].matches
                            /\ images[i].name <= MaxNameLength
                 Route == RouteTakes(case.units, images, 6)
             IN  /\ Taken /\ Sound /\ (case.units > 0 \/ images # <<>>) => Route
                 /\ Route => Taken /\ Sound
  <2>1. PICK held \in 0 .. 3, added \in 0 .. 3, split \in {2, 4}, a \in SomeSizes, b \in SomeSizes,
             type \in SomeTypes, matches \in BOOLEAN, name \in {0, 160, 161}, units \in {0, 16000} :
          case = [kind |-> "attachments", held |-> held, added |-> added, units |-> units,
                  images |-> Several(held + added, split, a, b, type, matches, name)]
    BY <1>1 DEF Attachments
  <2> DEFINE images == Several(held + added, split, a, b, type, matches, name)
  <2>2. case.images = images /\ case.units = units /\ case.held = held
    BY <2>1
  <2>3. held + added \in Nat /\ held <= held + added /\ split \in Nat /\ name \in Nat
    OBVIOUS
  <2>4. a \in Nat /\ b \in Nat
    BY SMT DEF SomeSizes
  <2>5. /\ images \in Seq(Pictures(SomeTypes)) /\ Len(images) = held + added
        /\ \A i \in 1 .. Len(images) : images[i].clean
    <3> DEFINE P == Pictures(SomeTypes)
               n == held + added
               Nth(i) == Image(IF i <= split THEN a ELSE b, type, matches, TRUE, name)
    <3>1. \A i \in 1 .. n : Nth(i) \in P /\ Nth(i).clean
      BY <2>3, <2>4 DEF Image, Pictures
    <3>2. images = [i \in 1 .. n |-> Nth(i)]
      BY DEF Several
    <3> HIDE DEF images, P, Nth
    <3>3. images \in Seq(P) /\ Len(images) = n
      <4>1. images \in [1 .. n -> P]
        BY <3>1, <3>2
      <4> QED BY <4>1, <2>3
    <3>4. \A i \in 1 .. n : images[i].clean
      BY <3>1, <3>2
    <3> QED BY <3>3, <3>4 DEF P
  <2> HIDE DEF images
  <2>6. held \in 0 .. Len(images) /\ 6 \in 0 .. 6
    BY <2>3, <2>5
  <2>7. units \in 0 .. MaxMessageLength
    BY SMT DEF MaxMessageLength
  <2>8. RouteTakes(units, images, 6)
          <=> /\ IntakeError(<<>>, SubSeq(images, 1, held)) = "none"
              /\ IntakeError(SubSeq(images, 1, held), SubSeq(images, held + 1, Len(images))) = "none"
              /\ Genuine(images)
              /\ units > 0 \/ images # <<>>
    BY <2>5, <2>6, <2>7, ImagesPass, SMTT(30)
  <2> QED BY <2>2, <2>8 DEF Genuine
<1>2. ASSUME case \in Texts
      PROVE  /\ DecodesAsImage(case.text) <=> Encoding(case.text)
             /\ DecodesAsImage(case.text) => IsCanonicalBase64(case.text, Undefined)
  <2>1. case.text \in Seq({"even", "odd", "pad", "other"})
    BY <1>2, TextsAre
  <2> QED BY <2>1, TextsPass
<1>3. ASSUME case \in Requests
      PROVE  LET room == RemainingSourceBytes(case.base, case.urls, 22)
                 bytes == room + case.extra
             IN  Len(case.urls) < 5 /\ bytes > 0 =>
                   (bytes <= room <=> BridgePayloadFits(case.base, Append(case.urls, 22 + Base64Chars(bytes))))
  <2>1. PICK base \in {40, 96000}, n \in 0 .. 5, length \in {26, 4194304, 6710886, 8388608}, extra \in -2 .. 5 :
          case = [kind |-> "request", base |-> base, urls |-> [i \in 1 .. n |-> length], extra |-> extra]
    BY <1>3 DEF Requests
  <2> DEFINE urls == [i \in 1 .. n |-> length]
             room == RemainingSourceBytes(base, urls, 22)
             bytes == room + extra
  <2>2. case.base = base /\ case.urls = urls /\ case.extra = extra
    BY <2>1
  <2>3. length \in Nat /\ base \in Nat /\ extra \in Int /\ 22 \in Nat
    BY SMT
  <2>4. urls \in Seq(Nat) /\ Len(urls) = n
    BY <2>3
  <2> HIDE DEF urls
  <2>5. room \in Int
    BY <2>3, <2>4, RoomType
  <2> HIDE DEF room
  <2>6. ASSUME Len(urls) < 5, bytes > 0
        PROVE  bytes <= room <=> BridgePayloadFits(base, Append(urls, 22 + Base64Chars(bytes)))
    <3>1. bytes \in Nat \ {0}
      BY <2>3, <2>5, <2>6
    <3> HIDE DEF bytes
    <3> QED BY <2>3, <2>4, <2>6, <3>1, SourcesFit DEF room
  <2> QED BY <2>2, <2>6 DEF room, bytes
<1> QED BY <1>1, <1>2, <1>3 DEF Examined, ImagesAgree

(* Every message with images, base64 text and request to the bridge the run *)
(* looks at (image-drafts.ts, images.ts, server.ts:9-17, 71, image-core.ts).*)
THEOREM ImagesAgreed == Spec => []ImagesAgree
BY AlwaysExamined, ImagesWere, PTL
=============================================================================
