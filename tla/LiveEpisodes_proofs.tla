-------------------------- MODULE LiveEpisodes_proofs --------------------------
(***************************************************************************)
(* Proofs about LiveEpisodes for any episodes, limits, rates and sizes of   *)
(* frames: what clients are shown of a live episode is so, and a cancelled  *)
(* run records at most one more tick that is not the completed one.         *)
(*                                                                         *)
(* Three invariants, one upon the other.  ClockInv: by a run's step, which  *)
(* frames are captured, joined and pending, and where its worker can be.    *)
(* IInv: the video store is good, and for each place of a worker, which     *)
(* phases its episode may show, what has become of its session, and how     *)
(* many frames its buffer was given (Sound).  TableInv: what is listed.     *)
(*                                                                         *)
(* First what the operators of the video store do (sums, sequences without  *)
(* some elements, the store), then the clock of a run, then the actions.    *)
(***************************************************************************)
EXTENDS LiveEpisodes, FiniteSetTheorems, WellFoundedInduction, TLAPS

-----------------------------------------------------------------------------
(* Numbers.                                                                *)

\* Induction on the naturals, as a least element.
LEMMA LeastElement ==
  ASSUME NEW S, S \subseteq Nat, S # {}
  PROVE  \E x \in S : \A y \in S : x <= y
<1> DEFINE R == {ss \in Nat \X Nat : ss[1] < ss[2]}
<1>1. IsWellFoundedOn(R, Nat)
  BY NatLessThanWellFounded DEF OpToRel
<1>2. PICK x \in S : \A y \in S : <<y, x>> \notin R
  BY <1>1, WFMin
<1>3. \A y \in S : ~(y < x)
  BY <1>2
<1>4. QED
  BY <1>2, <1>3

LEMMA MinIn ==
  ASSUME NEW S, S \subseteq Nat, S # {}
  PROVE  Min(S) \in S
<1>1. \E x \in S : \A y \in S : x =< y
  BY LeastElement
<1>2. QED
  BY <1>1, Zenon DEF Min

-----------------------------------------------------------------------------
(* Sums over finite sets: SumFunctionOnSet is a recursive function on the   *)
(* subsets; what it gives does not depend on the order of choices.          *)

Pick(s) == CHOOSE x \in s : TRUE
Summing(f, S, h) ==
  h = [s \in SUBSET S |-> IF s = {} THEN 0 ELSE LET x == CHOOSE x \in s : TRUE
                                               IN f[x] + h[s \ {x}]]
Sums(f, S) == CHOOSE h : Summing(f, S, h)
Natural(f, S) == \A x \in S : f[x] \in Nat

LEMMA SumIs == ASSUME NEW f, NEW S PROVE SumFunctionOnSet(f, S) = Sums(f, S)[S]
BY DEF SumFunctionOnSet, FoldFunctionOnSet, MapThenFoldSet, Sums, Summing

LEMMA PickIn == ASSUME NEW s, s # {} PROVE Pick(s) \in s
BY DEF Pick

LEMMA SummingOver ==
  ASSUME NEW f, NEW S, NEW h, Summing(f, S, h)
  PROVE  DOMAIN h = SUBSET S /\ h[{}] = 0
BY DEF Summing

LEMMA SummingIs ==
  ASSUME NEW f, NEW S, NEW h, Summing(f, S, h), NEW s \in SUBSET S, s # {}
  PROVE  h[s] = f[Pick(s)] + h[s \ {Pick(s)}]
BY DEF Summing, Pick

\* A finite set with one element less is smaller by one.
LEMMA Fewer ==
  ASSUME NEW s, IsFiniteSet(s), NEW x \in s
  PROVE  /\ IsFiniteSet(s \ {x}) /\ Cardinality(s \ {x}) = Cardinality(s) - 1
         /\ Cardinality(s) \in Nat \ {0}
<1>1. IsFiniteSet(s \ {x}) /\ Cardinality(s \ {x}) = Cardinality(s) - 1
  BY FS_RemoveElement
<1>2. Cardinality(s) \in Nat /\ (Cardinality(s) = 0 <=> s = {})
  BY FS_CardinalityType, FS_EmptySet
<1>3. QED
  BY <1>1, <1>2

\* The sums of the subsets of up to n elements.
SmallSums(f, S, n, h) ==
  /\ h \in [{s \in SUBSET S : Cardinality(s) <= n} -> Nat] /\ h[{}] = 0
  /\ \A s \in DOMAIN h : s # {} => h[s] = f[Pick(s)] + h[s \ {Pick(s)}]

LEMMA SmallSumsGrow ==
  ASSUME NEW S, IsFiniteSet(S), NEW f, Natural(f, S), NEW n \in Nat, NEW h, SmallSums(f, S, n, h)
  PROVE  \E g : SmallSums(f, S, n + 1, g)
<1> DEFINE larger == {s \in SUBSET S : Cardinality(s) <= n + 1}
           g == [s \in larger |-> IF Cardinality(s) <= n THEN h[s]
                                  ELSE f[Pick(s)] + h[s \ {Pick(s)}]]
<1>1. \A s \in SUBSET S : IsFiniteSet(s) /\ Cardinality(s) \in Nat
  BY FS_Subset, FS_CardinalityType
<1>2. Cardinality({}) = 0
  BY FS_EmptySet
<1>3. ASSUME NEW s \in SUBSET S, s # {}
      PROVE  /\ Pick(s) \in S /\ f[Pick(s)] \in Nat
             /\ s \ {Pick(s)} \in SUBSET S /\ Cardinality(s \ {Pick(s)}) = Cardinality(s) - 1
  BY <1>1, <1>3, PickIn, Fewer DEF Natural
<1>4. /\ \A s \in SUBSET S : Cardinality(s) <= n => s \in DOMAIN h
      /\ h[{}] = 0 /\ \A s \in DOMAIN h : h[s] \in Nat
      /\ \A s \in DOMAIN h : s # {} => h[s] = f[Pick(s)] + h[s \ {Pick(s)}]
  BY DEF SmallSums
<1>5. g = [s \in larger |-> g[s]] /\ DOMAIN g = larger /\ \A s \in larger :
        g[s] = IF Cardinality(s) <= n THEN h[s] ELSE f[Pick(s)] + h[s \ {Pick(s)}]
  OBVIOUS
<1> HIDE DEF g
<1>6. {} \in larger /\ g[{}] = 0
  <2>1. {} \in larger /\ Cardinality({}) <= n
    BY <1>2
  <2>2. g[{}] = h[{}]
    BY <1>5, <2>1
  <2>3. QED
    BY <1>4, <2>1, <2>2
<1>7. ASSUME NEW s \in larger, s # {}
      PROVE  g[s] \in Nat /\ g[s] = f[Pick(s)] + g[s \ {Pick(s)}]
  <2>1. /\ s \in SUBSET S /\ Cardinality(s) <= n + 1 /\ Cardinality(s) \in Nat
        /\ f[Pick(s)] \in Nat /\ s \ {Pick(s)} \in SUBSET S
        /\ Cardinality(s \ {Pick(s)}) = Cardinality(s) - 1
    BY <1>1, <1>3, <1>7
  <2>2. /\ Cardinality(s \ {Pick(s)}) <= n /\ s \ {Pick(s)} \in DOMAIN h
        /\ s \ {Pick(s)} \in larger
    BY <1>4, <2>1
  <2>3. g[s \ {Pick(s)}] = h[s \ {Pick(s)}] /\ h[s \ {Pick(s)}] \in Nat
    BY <1>4, <1>5, <2>2
  <2>4. g[s] = f[Pick(s)] + h[s \ {Pick(s)}]
    <3>1. CASE Cardinality(s) <= n
      BY <1>4, <1>5, <1>7, <2>1, <3>1
    <3>2. CASE ~(Cardinality(s) <= n)
      BY <1>5, <1>7, <3>2
    <3>3. QED
      BY <3>1, <3>2
  <2>5. QED
    BY <2>1, <2>3, <2>4
<1>8. SmallSums(f, S, n + 1, g)
  <2> HIDE DEF larger
  <2>1. \A s \in larger : g[s] \in Nat
    <3>1. 0 \in Nat
      OBVIOUS
    <3>2. QED
      BY <1>6, <1>7, <3>1
  <2>2. g \in [larger -> Nat]
    BY <1>5, <2>1
  <2>3. QED
    BY <1>5, <1>6, <1>7, <2>2 DEF SmallSums, larger
<1>9. QED
  BY <1>8

LEMMA SmallSumsExist ==
  ASSUME NEW S, IsFiniteSet(S), NEW f, Natural(f, S), NEW n \in Nat
  PROVE  \E h : SmallSums(f, S, n, h)
<1> DEFINE missing == {k \in Nat : ~ \E h : SmallSums(f, S, k, h)}
<1>1. missing = {}
  <2> SUFFICES ASSUME missing # {} PROVE FALSE
    OBVIOUS
  <2>1. PICK k \in missing : \A j \in missing : k <= j
    <3>1. missing \subseteq Nat
      OBVIOUS
    <3>2. QED
      BY <3>1, LeastElement
  <2>2. k \in Nat /\ ~ \E h : SmallSums(f, S, k, h)
    BY <2>1
  <2>3. CASE k = 0
    <3> DEFINE h == [s \in {{}} |-> 0]
    <3>1. \A s \in SUBSET S : Cardinality(s) <= 0 <=> s = {}
      <4>1. \A s \in SUBSET S : IsFiniteSet(s)
        BY FS_Subset
      <4>2. \A s \in SUBSET S : Cardinality(s) \in Nat /\ (Cardinality(s) = 0 <=> s = {})
        BY <4>1, FS_CardinalityType, FS_EmptySet
      <4>3. QED
        BY <4>2
    <3>2. {s \in SUBSET S : Cardinality(s) <= 0} = {{}}
      BY <3>1
    <3>3. SmallSums(f, S, 0, h)
      BY <3>2 DEF SmallSums
    <3>4. QED
      BY <2>2, <2>3, <3>3
  <2>4. CASE k # 0
    <3>1. k - 1 \in Nat /\ k - 1 + 1 = k /\ ~(k <= k - 1)
      BY <2>2, <2>4
    <3>2. k - 1 \notin missing
      <4> HIDE DEF missing
      <4> QED BY <2>1, <3>1
    <3>3. PICK h : SmallSums(f, S, k - 1, h)
      BY <3>1, <3>2
    <3>4. \E g : SmallSums(f, S, k - 1 + 1, g)
      BY <3>1, <3>3, SmallSumsGrow
    <3>5. QED
      BY <2>2, <3>1, <3>4
  <2>5. QED
    BY <2>3, <2>4
<1>2. QED
  BY <1>1

LEMMA SumsExist ==
  ASSUME NEW S, IsFiniteSet(S), NEW f, Natural(f, S)
  PROVE  \E h : Summing(f, S, h) /\ \A s \in SUBSET S : h[s] \in Nat
<1>1. Cardinality(S) \in Nat /\ \A s \in SUBSET S : Cardinality(s) <= Cardinality(S)
  BY FS_Subset, FS_CardinalityType
<1>2. PICK h : SmallSums(f, S, Cardinality(S), h)
  BY <1>1, SmallSumsExist
<1>3. DOMAIN h = SUBSET S /\ h[{}] = 0 /\ \A s \in SUBSET S : h[s] \in Nat
  BY <1>1, <1>2 DEF SmallSums
<1>4. \A s \in SUBSET S : h[s] = IF s = {} THEN 0 ELSE f[Pick(s)] + h[s \ {Pick(s)}]
  <2>1. \A s \in SUBSET S : s # {} => h[s] = f[Pick(s)] + h[s \ {Pick(s)}]
    BY <1>2, <1>3 DEF SmallSums
  <2>2. QED
    BY <1>3, <2>1
<1>5. h = [s \in SUBSET S |-> h[s]]
  <2>1. h = [s \in DOMAIN h |-> h[s]]
    BY <1>2, <1>3 DEF SmallSums
  <2>2. QED
    BY <1>3, <2>1
<1>6. QED
  BY <1>3, <1>4, <1>5 DEF Summing, Pick

\* Two recursive functions on subsets give the same sums.
LEMMA SameSums ==
  ASSUME NEW f, NEW S, NEW g, Summing(f, S, g), NEW T, NEW h, Summing(f, T, h),
         NEW s, s \subseteq S, s \subseteq T, IsFiniteSet(s)
  PROVE  g[s] = h[s]
<1> DEFINE Wrong(n) == \E t \in SUBSET s : Cardinality(t) = n /\ g[t] # h[t]
           wrong == {n \in Nat : Wrong(n)}
<1>1. \A t \in SUBSET s : IsFiniteSet(t) /\ Cardinality(t) \in Nat
  BY FS_Subset, FS_CardinalityType
<1>2. wrong = {}
  <2> SUFFICES ASSUME wrong # {} PROVE FALSE
    OBVIOUS
  <2>1. PICK n \in wrong : \A j \in wrong : n <= j
    <3>1. wrong \subseteq Nat
      OBVIOUS
    <3>2. QED
      BY <3>1, LeastElement
  <2>2. PICK t \in SUBSET s : Cardinality(t) = n /\ g[t] # h[t]
    BY <2>1
  <2>3. t # {}
    BY <2>2, SummingOver
  <2> DEFINE u == t \ {Pick(t)}
  <2>4. u \in SUBSET s /\ Cardinality(u) = n - 1 /\ n \in Nat \ {0}
    BY <1>1, <2>2, <2>3, PickIn, Fewer
  <2>5. g[u] = h[u]
    <3>1. n - 1 \in Nat /\ ~(n <= n - 1)
      BY <2>4
    <3>2. n - 1 \notin wrong
      <4> HIDE DEF wrong
      <4> QED BY <2>1, <3>1
    <3>3. ~Wrong(n - 1)
      BY <3>1, <3>2
    <3>4. QED
      BY <2>4, <3>3
  <2>6. t \in SUBSET S /\ t \in SUBSET T
    BY <2>2
  <2>7. g[t] = f[Pick(t)] + g[u] /\ h[t] = f[Pick(t)] + h[u]
    BY <2>3, <2>6, SummingIs
  <2>8. QED
    BY <2>2, <2>5, <2>7
<1>3. Cardinality(s) \in Nat /\ Cardinality(s) \notin wrong
  BY <1>1, <1>2
<1>4. QED
  BY <1>3

LEMMA SumFound ==
  ASSUME NEW S, IsFiniteSet(S), NEW f, Natural(f, S)
  PROVE  /\ SumFunctionOnSet(f, S) \in Nat
         /\ \E h : /\ Summing(f, S, h)
                   /\ \A s \in SUBSET S : h[s] \in Nat /\ SumFunctionOnSet(f, s) = h[s]
<1>1. PICK h : Summing(f, S, h) /\ \A s \in SUBSET S : h[s] \in Nat
  BY SumsExist
<1>2. ASSUME NEW s \in SUBSET S PROVE SumFunctionOnSet(f, s) = h[s]
  <2>1. IsFiniteSet(s) /\ Natural(f, s)
    BY FS_Subset DEF Natural
  <2>2. \E g : Summing(f, s, g)
    BY <2>1, SumsExist
  <2>3. Summing(f, s, Sums(f, s))
    BY <2>2, Zenon DEF Sums
  <2>4. Sums(f, s)[s] = h[s]
    BY <1>1, <2>1, <2>3, SameSums
  <2>5. QED
    BY <2>4, SumIs
<1>3. SumFunctionOnSet(f, S) \in Nat
  BY <1>1, <1>2
<1>4. QED
  BY <1>1, <1>2, <1>3

LEMMA SumOfNone == ASSUME NEW f PROVE SumFunctionOnSet(f, {}) = 0
<1>1. IsFiniteSet({}) /\ Natural(f, {})
  BY FS_EmptySet DEF Natural
<1>2. PICK h : Summing(f, {}, h) /\ \A s \in SUBSET {} : SumFunctionOnSet(f, s) = h[s]
  BY <1>1, SumFound
<1>3. QED
  BY <1>2, SummingOver

\* What the sum is whatever element is taken first.
LEMMA SumWithout ==
  ASSUME NEW S, IsFiniteSet(S), NEW f, Natural(f, S), NEW x \in S
  PROVE  /\ f[x] \in Nat /\ SumFunctionOnSet(f, S \ {x}) \in Nat
         /\ SumFunctionOnSet(f, S) = f[x] + SumFunctionOnSet(f, S \ {x})
<1> DEFINE Sum(s) == SumFunctionOnSet(f, s)
           Wrong(n) == \E t \in SUBSET S : /\ Cardinality(t) = n
                                            /\ \E y \in t : Sum(t) # f[y] + Sum(t \ {y})
           wrong == {n \in Nat : Wrong(n)}
<1>1. PICK h : /\ Summing(f, S, h)
               /\ \A s \in SUBSET S : h[s] \in Nat /\ Sum(s) = h[s]
  BY SumFound
<1>2. ASSUME NEW s \in SUBSET S, s # {} PROVE Sum(s) = f[Pick(s)] + Sum(s \ {Pick(s)})
  <2>1. h[s] = f[Pick(s)] + h[s \ {Pick(s)}]
    BY <1>1, <1>2, SummingIs
  <2>2. s \ {Pick(s)} \in SUBSET S
    OBVIOUS
  <2>3. Sum(s) = h[s] /\ Sum(s \ {Pick(s)}) = h[s \ {Pick(s)}]
    BY <1>1, <2>2
  <2>4. QED
    BY <2>1, <2>3
<1>3. \A s \in SUBSET S : Sum(s) \in Nat
  BY <1>1
<1>4. \A t \in SUBSET S : IsFiniteSet(t) /\ Cardinality(t) \in Nat
  BY FS_Subset, FS_CardinalityType
<1>5. \A y \in S : f[y] \in Nat
  BY DEF Natural
<1> HIDE DEF Sum
<1>6. wrong = {}
  <2> SUFFICES ASSUME wrong # {} PROVE FALSE
    OBVIOUS
  <2>1. PICK n \in wrong : \A j \in wrong : n <= j
    <3>1. wrong \subseteq Nat
      OBVIOUS
    <3>2. QED
      BY <3>1, LeastElement
  <2>2. PICK t \in SUBSET S : /\ Cardinality(t) = n
                              /\ \E y \in t : Sum(t) # f[y] + Sum(t \ {y})
    BY <2>1
  <2>3. PICK y \in t : Sum(t) # f[y] + Sum(t \ {y})
    BY <2>2
  <2> DEFINE c == Pick(t)
  <2>4. c \in t /\ c \in S /\ y \in S
    BY <2>3, PickIn
  <2> HIDE DEF c
  <2>5. Sum(t) = f[c] + Sum(t \ {c})
    BY <1>2, <2>3 DEF c
  <2>6. c # y
    BY <2>3, <2>5
  <2>7. /\ t \ {c} \in SUBSET S /\ Cardinality(t \ {c}) = n - 1
        /\ t \ {y} \in SUBSET S /\ Cardinality(t \ {y}) = n - 1
        /\ n - 1 \in Nat /\ ~(n <= n - 1)
    BY <1>4, <2>2, <2>4, Fewer
  <2>8. ~Wrong(n - 1)
    <3>1. n - 1 \notin wrong
      <4> HIDE DEF wrong
      <4> QED BY <2>1, <2>7
    <3>2. QED
      BY <2>7, <3>1
  <2>9. /\ Sum(t \ {c}) = f[y] + Sum((t \ {c}) \ {y})
        /\ Sum(t \ {y}) = f[c] + Sum((t \ {y}) \ {c})
    BY <2>4, <2>6, <2>7, <2>8
  <2>10. (t \ {c}) \ {y} = (t \ {y}) \ {c}
    OBVIOUS
  <2>11. f[c] \in Nat /\ f[y] \in Nat /\ Sum((t \ {y}) \ {c}) \in Nat
    BY <1>3, <1>5, <2>4
  <2>12. QED
    BY <2>3, <2>5, <2>9, <2>10, <2>11
<1>7. ~Wrong(Cardinality(S)) /\ Cardinality(S) \in Nat /\ S \in SUBSET S
  BY <1>4, <1>6
<1>8. Sum(S) = f[x] + Sum(S \ {x})
  BY <1>7
<1>9. f[x] \in Nat /\ Sum(S \ {x}) \in Nat
  BY <1>3, <1>5
<1>10. QED
  BY <1>8, <1>9 DEF Sum

LEMMA SumOfParts ==
  ASSUME NEW A, NEW B, IsFiniteSet(A), IsFiniteSet(B), A \cap B = {},
         NEW f, Natural(f, A), Natural(f, B)
  PROVE  /\ SumFunctionOnSet(f, A) \in Nat /\ SumFunctionOnSet(f, B) \in Nat
         /\ SumFunctionOnSet(f, A \cup B) = SumFunctionOnSet(f, A) + SumFunctionOnSet(f, B)
<1> DEFINE Sum(s) == SumFunctionOnSet(f, s)
           Wrong(n) == \E t \in SUBSET A : Cardinality(t) = n /\ Sum(t \cup B) # Sum(t) + Sum(B)
           wrong == {n \in Nat : Wrong(n)}
<1>1. \A t \in SUBSET A : IsFiniteSet(t) /\ Cardinality(t) \in Nat
  BY FS_Subset, FS_CardinalityType
<1>2. \A t \in SUBSET A : IsFiniteSet(t \cup B) /\ Natural(f, t) /\ Natural(f, t \cup B)
  BY <1>1, FS_Union DEF Natural
<1>3. Sum(B) \in Nat /\ \A t \in SUBSET A : Sum(t) \in Nat
  BY <1>1, <1>2, SumFound
<1>4. wrong = {}
  <2> SUFFICES ASSUME wrong # {} PROVE FALSE
    OBVIOUS
  <2>1. PICK n \in wrong : \A j \in wrong : n <= j
    <3>1. wrong \subseteq Nat
      OBVIOUS
    <3>2. QED
      BY <3>1, LeastElement
  <2>2. PICK t \in SUBSET A : Cardinality(t) = n /\ Sum(t \cup B) # Sum(t) + Sum(B)
    BY <2>1
  <2>3. t # {}
    <3>1. Sum({}) = 0
      BY SumOfNone
    <3>2. Sum({} \cup B) = Sum(B)
      <4>1. {} \cup B = B
        OBVIOUS
      <4>2. QED
        BY <4>1
    <3> HIDE DEF Sum
    <3>3. QED
      BY <1>3, <2>2, <3>1, <3>2
  <2>4. PICK x \in t : TRUE
    BY <2>3
  <2> DEFINE u == t \ {x}
  <2>5. /\ u \in SUBSET A /\ Cardinality(u) = n - 1 /\ n - 1 \in Nat /\ ~(n <= n - 1)
    <3>1. t \in SUBSET A /\ IsFiniteSet(t) /\ Cardinality(t) = n /\ x \in t
      BY <1>1, <2>2, <2>4
    <3>2. Cardinality(u) = Cardinality(t) - 1 /\ Cardinality(t) \in Nat \ {0}
      BY <3>1, Fewer
    <3>3. QED
      BY <3>1, <3>2
  <2>6. Sum(u \cup B) = Sum(u) + Sum(B)
    <3>1. n - 1 \notin wrong
      <4> HIDE DEF wrong
      <4> QED BY <2>1, <2>5
    <3>2. ~Wrong(n - 1)
      BY <2>5, <3>1
    <3>3. QED
      BY <2>5, <3>2
  <2>7. f[x] \in Nat /\ Sum(t) = f[x] + Sum(u)
    BY <1>1, <1>2, <2>2, SumWithout
  <2>8. Sum(t \cup B) = f[x] + Sum(u \cup B)
    <3>1. (t \cup B) \ {x} = u \cup B /\ x \in t \cup B
      BY <2>4
    <3>2. Sum(t \cup B) = f[x] + Sum((t \cup B) \ {x})
      BY <1>2, <3>1, SumWithout
    <3>3. QED
      BY <3>1, <3>2
  <2>9. Sum(u) \in Nat
    BY <1>3, <2>5
  <2> HIDE DEF Sum, u
  <2>10. QED
    BY <1>3, <2>2, <2>6, <2>7, <2>8, <2>9
<1>5. ~Wrong(Cardinality(A)) /\ Cardinality(A) \in Nat /\ A \in SUBSET A
  BY <1>1, <1>4
<1>6. QED
  BY <1>3, <1>5

LEMMA SumOfSome ==
  ASSUME NEW S, IsFiniteSet(S), NEW f, Natural(f, S), NEW T, T \subseteq S
  PROVE  /\ IsFiniteSet(T) /\ SumFunctionOnSet(f, T) \in Nat
         /\ SumFunctionOnSet(f, S) \in Nat /\ SumFunctionOnSet(f, S \ T) \in Nat
         /\ SumFunctionOnSet(f, S) = SumFunctionOnSet(f, T) + SumFunctionOnSet(f, S \ T)
<1>1. IsFiniteSet(T) /\ IsFiniteSet(S \ T) /\ Natural(f, T) /\ Natural(f, S \ T)
  BY FS_Subset DEF Natural
<1>2. T \cap (S \ T) = {} /\ T \cup (S \ T) = S
  OBVIOUS
<1>3. /\ SumFunctionOnSet(f, T) \in Nat /\ SumFunctionOnSet(f, S \ T) \in Nat
      /\ SumFunctionOnSet(f, T \cup (S \ T)) = SumFunctionOnSet(f, T) + SumFunctionOnSet(f, S \ T)
  BY <1>1, <1>2, SumOfParts
<1>4. QED
  BY <1>1, <1>2, <1>3, SumFound

\* Only the values on the set matter.
LEMMA SumOfSame ==
  ASSUME NEW S, IsFiniteSet(S), NEW f, Natural(f, S), NEW g, \A x \in S : g[x] = f[x]
  PROVE  SumFunctionOnSet(g, S) = SumFunctionOnSet(f, S)
<1>1. Natural(g, S)
  BY DEF Natural
<1>2. PICK h : Summing(f, S, h) /\ SumFunctionOnSet(f, S) = h[S]
  BY SumFound
<1>3. PICK k : Summing(g, S, k) /\ SumFunctionOnSet(g, S) = k[S]
  BY <1>1, SumFound
<1>4. \A s \in SUBSET S : s # {} => Pick(s) \in S
  BY PickIn
<1>5. Summing(f, S, k)
  <2>1. [s \in SUBSET S |-> IF s = {} THEN 0 ELSE g[Pick(s)] + k[s \ {Pick(s)}]]
          = [s \in SUBSET S |-> IF s = {} THEN 0 ELSE f[Pick(s)] + k[s \ {Pick(s)}]]
    BY <1>4
  <2>2. k = [s \in SUBSET S |-> IF s = {} THEN 0 ELSE g[Pick(s)] + k[s \ {Pick(s)}]]
    BY <1>3 DEF Summing, Pick
  <2>3. k = [s \in SUBSET S |-> IF s = {} THEN 0 ELSE f[Pick(s)] + k[s \ {Pick(s)}]]
    BY <2>1, <2>2
  <2>4. QED
    BY <2>3, Zenon DEF Summing, Pick
<1>6. k[S] = h[S]
  BY <1>2, <1>5, SameSums
<1>7. QED
  BY <1>2, <1>3, <1>6

-----------------------------------------------------------------------------
(* A sequence without some elements: what is left of it, in its order.     *)

Keeping(seq, gone, h) ==
  h = [n \in 0 .. Len(seq) |->
        IF n = 0 THEN <<>>
        ELSE IF seq[n] \in gone THEN h[n - 1] ELSE Append(h[n - 1], seq[n])]
Kept(seq, gone) == CHOOSE h : Keeping(seq, gone, h)

LEMMA WithoutIs == ASSUME NEW seq, NEW gone PROVE Without(seq, gone) = Kept(seq, gone)[Len(seq)]
BY DEF Without, Kept, Keeping

\* h is the recursive function up to n.
KeepingUpto(seq, gone, n, h) ==
  /\ h = [i \in 0 .. n |-> h[i]] /\ h[0] = <<>>
  /\ \A i \in 1 .. n : h[i] = IF seq[i] \in gone THEN h[i - 1] ELSE Append(h[i - 1], seq[i])

LEMMA KeepingGrows ==
  ASSUME NEW seq, NEW gone, NEW n \in Nat, NEW h, KeepingUpto(seq, gone, n, h)
  PROVE  \E g : KeepingUpto(seq, gone, n + 1, g)
<1> DEFINE last == IF seq[n + 1] \in gone THEN h[n] ELSE Append(h[n], seq[n + 1])
           g == [i \in 0 .. n + 1 |-> IF i = n + 1 THEN last ELSE h[i]]
<1>1. /\ g[0] = <<>> /\ g[n + 1] = last /\ g[n] = h[n] /\ g = [i \in 0 .. n + 1 |-> g[i]]
      /\ \A i \in 0 .. n : g[i] = h[i]
  BY DEF KeepingUpto
<1> HIDE DEF g
<1>2. ASSUME NEW i \in 1 .. n + 1
      PROVE  g[i] = IF seq[i] \in gone THEN g[i - 1] ELSE Append(g[i - 1], seq[i])
  <2>1. CASE i = n + 1
    <3>1. i - 1 = n
      BY <2>1
    <3>2. QED
      BY <1>1, <2>1, <3>1
  <2>2. CASE i # n + 1
    <3>1. i \in 1 .. n /\ i \in 0 .. n /\ i - 1 \in 0 .. n
      BY <2>2
    <3>2. g[i] = h[i] /\ g[i - 1] = h[i - 1]
      BY <1>1, <3>1
    <3>3. QED
      BY <3>1, <3>2 DEF KeepingUpto
  <2>3. QED
    BY <2>1, <2>2
<1>3. KeepingUpto(seq, gone, n + 1, g)
  BY <1>1, <1>2 DEF KeepingUpto
<1>4. QED
  BY <1>3

LEMMA KeepingExists ==
  ASSUME NEW seq, NEW gone, NEW n \in Nat
  PROVE  \E h : KeepingUpto(seq, gone, n, h)
<1> DEFINE missing == {k \in Nat : ~ \E h : KeepingUpto(seq, gone, k, h)}
<1>1. missing = {}
  <2> SUFFICES ASSUME missing # {} PROVE FALSE
    OBVIOUS
  <2>1. PICK k \in missing : \A j \in missing : k <= j
    <3>1. missing \subseteq Nat
      OBVIOUS
    <3>2. QED
      BY <3>1, LeastElement
  <2>2. k \in Nat /\ ~ \E h : KeepingUpto(seq, gone, k, h)
    BY <2>1
  <2>3. CASE k = 0
    <3>1. KeepingUpto(seq, gone, 0, [i \in 0 .. 0 |-> <<>>])
      BY DEF KeepingUpto
    <3>2. QED
      BY <2>2, <2>3, <3>1
  <2>4. CASE k # 0
    <3>1. k - 1 \in Nat /\ k - 1 + 1 = k /\ ~(k <= k - 1)
      BY <2>2, <2>4
    <3>2. k - 1 \notin missing
      <4> HIDE DEF missing
      <4> QED BY <2>1, <3>1
    <3>3. PICK h : KeepingUpto(seq, gone, k - 1, h)
      BY <3>1, <3>2
    <3>4. \E g : KeepingUpto(seq, gone, k - 1 + 1, g)
      BY <3>1, <3>3, KeepingGrows
    <3>5. QED
      BY <2>2, <3>1, <3>4
  <2>5. QED
    BY <2>3, <2>4
<1>2. QED
  BY <1>1

\* What is kept of the first n elements, and in which order.
InOrder(part, seq, n) ==
  \A a, b \in DOMAIN part : a < b =>
    \E c, d \in 1 .. n : c < d /\ part[a] = seq[c] /\ part[b] = seq[d]
KeptOf(part, seq, gone, n) ==
  /\ \A x \in Range(part) : x \notin gone /\ \E c \in 1 .. n : seq[c] = x
  /\ \A c \in 1 .. n : seq[c] \notin gone => seq[c] \in Range(part)
  /\ InOrder(part, seq, n)

LEMMA KeptMore ==
  ASSUME NEW S, NEW seq \in Seq(S), NEW gone, NEW n \in Nat, n + 1 <= Len(seq),
         NEW part \in Seq(S), KeptOf(part, seq, gone, n), NEW more,
         more = IF seq[n + 1] \in gone THEN part ELSE Append(part, seq[n + 1])
  PROVE  more \in Seq(S) /\ KeptOf(more, seq, gone, n + 1)
<1>1. seq[n + 1] \in S /\ \A c \in 1 .. n : c \in 1 .. n + 1
  OBVIOUS
<1>2. /\ \A x \in Range(part) : x \notin gone /\ \E c \in 1 .. n : seq[c] = x
      /\ \A c \in 1 .. n : seq[c] \notin gone => seq[c] \in Range(part)
      /\ \A a, b \in DOMAIN part : a < b =>
           \E c, d \in 1 .. n : c < d /\ part[a] = seq[c] /\ part[b] = seq[d]
  BY DEF KeptOf, InOrder
<1>3. \A c \in 1 .. n + 1 : c = n + 1 \/ c \in 1 .. n
  OBVIOUS
<1>4. CASE seq[n + 1] \in gone
  <2>1. more = part
    BY <1>4
  <2>2. InOrder(more, seq, n + 1)
    BY <1>1, <1>2, <2>1 DEF InOrder
  <2>3. \A x \in Range(more) : x \notin gone /\ \E c \in 1 .. n + 1 : seq[c] = x
    BY <1>1, <1>2, <2>1
  <2>4. \A c \in 1 .. n + 1 : seq[c] \notin gone => seq[c] \in Range(more)
    BY <1>2, <1>3, <1>4, <2>1
  <2>5. QED
    BY <2>1, <2>2, <2>3, <2>4 DEF KeptOf
<1>5. CASE seq[n + 1] \notin gone
  <2>1. /\ more = Append(part, seq[n + 1]) /\ Len(more) = Len(part) + 1 /\ Len(part) \in Nat
        /\ DOMAIN part = 1 .. Len(part) /\ DOMAIN more = 1 .. Len(part) + 1
        /\ more[Len(part) + 1] = seq[n + 1] /\ \A a \in 1 .. Len(part) : more[a] = part[a]
        /\ more \in Seq(S)
    BY <1>1, <1>5
  <2>2. Range(more) = Range(part) \cup {seq[n + 1]}
    <3>1. \A a \in DOMAIN more : more[a] \in Range(part) \cup {seq[n + 1]}
      <4>1. \A a \in DOMAIN more : a = Len(part) + 1 \/ a \in DOMAIN part
        BY <2>1
      <4>2. QED
        BY <2>1, <4>1 DEF Range
    <3>2. \A a \in DOMAIN part : part[a] \in Range(more)
      <4>1. \A a \in DOMAIN part : a \in DOMAIN more
        BY <2>1
      <4>2. QED
        BY <2>1, <4>1 DEF Range
    <3>3. seq[n + 1] \in Range(more)
      <4>1. Len(part) + 1 \in DOMAIN more
        BY <2>1
      <4>2. QED
        BY <2>1, <4>1 DEF Range
    <3>4. QED
      BY <3>1, <3>2, <3>3 DEF Range
  <2>3. ASSUME NEW a \in DOMAIN more, NEW b \in DOMAIN more, a < b
        PROVE  \E c, d \in 1 .. n + 1 : c < d /\ more[a] = seq[c] /\ more[b] = seq[d]
    <3>1. a \in DOMAIN part /\ more[a] = part[a]
      BY <2>1, <2>3
    <3>2. CASE b = Len(part) + 1
      <4>1. PICK c \in 1 .. n : seq[c] = part[a]
        BY <1>2, <3>1 DEF Range
      <4>2. c \in 1 .. n + 1 /\ n + 1 \in 1 .. n + 1 /\ c < n + 1
        OBVIOUS
      <4>3. QED
        BY <2>1, <3>1, <3>2, <4>1, <4>2
    <3>3. CASE b # Len(part) + 1
      <4>1. b \in DOMAIN part /\ more[b] = part[b]
        BY <2>1, <3>3
      <4>2. QED
        BY <1>1, <1>2, <2>3, <3>1, <4>1
    <3>4. QED
      BY <3>2, <3>3
  <2>4. \A x \in Range(more) : x \notin gone /\ \E c \in 1 .. n + 1 : seq[c] = x
    <3>1. n + 1 \in 1 .. n + 1
      OBVIOUS
    <3>2. QED
      BY <1>1, <1>2, <1>5, <2>2, <3>1
  <2>5. \A c \in 1 .. n + 1 : seq[c] \notin gone => seq[c] \in Range(more)
    BY <1>2, <1>3, <2>2
  <2>6. InOrder(more, seq, n + 1)
    BY <2>3 DEF InOrder
  <2>7. QED
    BY <2>1, <2>4, <2>5, <2>6 DEF KeptOf
<1>6. QED
  BY <1>4, <1>5

LEMMA WhatIsKept ==
  ASSUME NEW S, NEW seq \in Seq(S), NEW gone
  PROVE  /\ Without(seq, gone) \in Seq(S)
         /\ Range(Without(seq, gone)) = Range(seq) \ gone
         /\ InOrder(Without(seq, gone), seq, Len(seq))
<1>0. Len(seq) \in Nat /\ DOMAIN seq = 1 .. Len(seq)
  OBVIOUS
<1>1. PICK k : KeepingUpto(seq, gone, Len(seq), k)
  BY <1>0, KeepingExists
<1>2. Keeping(seq, gone, k)
  <2>1. ASSUME NEW i \in 0 .. Len(seq)
        PROVE  k[i] = IF i = 0 THEN <<>>
                      ELSE IF seq[i] \in gone THEN k[i - 1] ELSE Append(k[i - 1], seq[i])
    <3>1. i = 0 \/ i \in 1 .. Len(seq)
      BY <1>0
    <3>2. QED
      BY <1>1, <3>1 DEF KeepingUpto
  <2>2. k = [i \in 0 .. Len(seq) |-> k[i]]
    BY <1>1 DEF KeepingUpto
  <2>3. QED
    BY <2>1, <2>2 DEF Keeping
<1> DEFINE h == Kept(seq, gone)
<1>3. Keeping(seq, gone, h)
  <2>1. \E x : Keeping(seq, gone, x)
    BY <1>2
  <2>2. QED
    BY <2>1, Zenon DEF Kept
<1> HIDE DEF h
<1>4. /\ h[0] = <<>>
      /\ \A i \in 1 .. Len(seq) :
           h[i] = IF seq[i] \in gone THEN h[i - 1] ELSE Append(h[i - 1], seq[i])
  <2>1. h = [n \in 0 .. Len(seq) |->
              IF n = 0 THEN <<>>
              ELSE IF seq[n] \in gone THEN h[n - 1] ELSE Append(h[n - 1], seq[n])]
    BY <1>3 DEF Keeping
  <2>2. 0 \in 0 .. Len(seq) /\ \A i \in 1 .. Len(seq) : i \in 0 .. Len(seq) /\ i # 0
    BY <1>0
  <2>3. \A i \in 0 .. Len(seq) :
          h[i] = IF i = 0 THEN <<>>
                 ELSE IF seq[i] \in gone THEN h[i - 1] ELSE Append(h[i - 1], seq[i])
    BY <2>1, Zenon
  <2>4. QED
    BY <2>2, <2>3
<1> DEFINE wrong == {i \in 0 .. Len(seq) : ~(h[i] \in Seq(S) /\ KeptOf(h[i], seq, gone, i))}
<1>5. wrong = {}
  <2> SUFFICES ASSUME wrong # {} PROVE FALSE
    OBVIOUS
  <2>1. PICK i \in wrong : \A j \in wrong : i <= j
    <3>1. wrong \subseteq Nat
      BY <1>0
    <3>2. QED
      BY <3>1, LeastElement
  <2>2. i \in 0 .. Len(seq) /\ ~(h[i] \in Seq(S) /\ KeptOf(h[i], seq, gone, i))
    BY <2>1
  <2>3. i # 0
    <3>1. <<>> \in Seq(S) /\ Range(<<>>) = {} /\ DOMAIN <<>> = {}
      BY DEF Range
    <3>2. KeptOf(<<>>, seq, gone, 0)
      BY <3>1 DEF KeptOf, InOrder
    <3>3. QED
      BY <1>4, <2>2, <3>1, <3>2
  <2>4. /\ i - 1 \in 0 .. Len(seq) /\ i - 1 \in Nat /\ ~(i <= i - 1) /\ i - 1 + 1 = i
        /\ i \in 1 .. Len(seq)
    BY <1>0, <2>2, <2>3
  <2>5. i - 1 \notin wrong
    <3> HIDE DEF wrong
    <3>1. QED
      BY <2>1, <2>4
  <2>6. h[i - 1] \in Seq(S) /\ KeptOf(h[i - 1], seq, gone, i - 1)
    BY <2>4, <2>5
  <2>7. h[i] = IF seq[i - 1 + 1] \in gone THEN h[i - 1] ELSE Append(h[i - 1], seq[i - 1 + 1])
    BY <1>4, <2>4
  <2>8. h[i] \in Seq(S) /\ KeptOf(h[i], seq, gone, i - 1 + 1)
    <3>1. i - 1 + 1 <= Len(seq)
      BY <2>4
    <3>2. QED
      BY <2>4, <2>6, <2>7, <3>1, KeptMore
  <2>9. QED
    BY <2>2, <2>4, <2>8
<1>6. h[Len(seq)] \in Seq(S) /\ KeptOf(h[Len(seq)], seq, gone, Len(seq))
  <2>1. Len(seq) \in 0 .. Len(seq)
    BY <1>0
  <2>2. QED
    BY <1>5, <2>1
<1>7. Without(seq, gone) = h[Len(seq)]
  BY WithoutIs DEF h
<1>8. Range(h[Len(seq)]) = Range(seq) \ gone
  BY <1>0, <1>6 DEF KeptOf, Range
<1>9. QED
  BY <1>6, <1>7, <1>8 DEF KeptOf

-----------------------------------------------------------------------------
(* The video store.                                                        *)

\* A buffer holds the latest frames of its episode, without a gap.
Numbered(frames, first) ==
  /\ frames \in Seq(DOMAIN FrameBytes)
  /\ \A n \in 1 .. Len(frames) : frames[n] = first + n - 1

LEMMA NumberedFrames ==
  ASSUME NEW first \in Nat, NEW frames, Numbered(frames, first)
  PROVE  /\ Len(frames) \in Nat /\ DOMAIN frames = 1 .. Len(frames)
         /\ Range(frames) = first .. first + Len(frames) - 1
         /\ IsFiniteSet(Range(frames)) /\ Natural(FrameBytes, Range(frames))
         /\ Range(frames) \subseteq DOMAIN FrameBytes /\ Bytes(frames) \in Nat
<1>1. /\ frames \in Seq(DOMAIN FrameBytes) /\ Len(frames) \in Nat /\ DOMAIN frames = 1 .. Len(frames)
      /\ \A n \in 1 .. Len(frames) : frames[n] = first + n - 1 /\ frames[n] \in DOMAIN FrameBytes
  BY DEF Numbered
<1>2. Range(frames) = first .. first + Len(frames) - 1
  <2>1. \A n \in 1 .. Len(frames) : frames[n] \in first .. first + Len(frames) - 1
    BY <1>1
  <2>2. \A i \in first .. first + Len(frames) - 1 :
          i - first + 1 \in 1 .. Len(frames) /\ frames[i - first + 1] = i
    BY <1>1
  <2>3. QED
    BY <1>1, <2>1, <2>2 DEF Range
<1>3. IsFiniteSet(Range(frames))
  <2>1. first \in Int /\ first + Len(frames) - 1 \in Int
    BY <1>1
  <2>2. QED
    BY <1>2, <2>1, FS_Interval
<1>4. Range(frames) \subseteq DOMAIN FrameBytes
  BY <1>1 DEF Range
<1>5. Natural(FrameBytes, Range(frames))
  BY <1>4, VideoAssumption DEF Natural, VideoAssumption
<1>6. Bytes(frames) \in Nat
  BY <1>3, <1>5, SumFound DEF Bytes
<1>7. QED
  BY <1>1, <1>2, <1>3, <1>4, <1>5, <1>6

\* Giving up the oldest frames gives up their bytes.
Parted(frames, n, old, left) ==
  n \in 0 .. Len(frames) /\ old = SubSeq(frames, 1, n) /\ left = SubSeq(frames, n + 1, Len(frames))

LEMMA OldestGone ==
  ASSUME NEW first \in Nat, NEW frames, NEW n, NEW old, NEW left,
         Numbered(frames, first), Parted(frames, n, old, left)
  PROVE  /\ Numbered(left, first + n) /\ Len(left) = Len(frames) - n
         /\ Bytes(old) \in Nat /\ Bytes(left) \in Nat /\ Bytes(frames) = Bytes(old) + Bytes(left)
<1>1. /\ frames \in Seq(DOMAIN FrameBytes) /\ Len(frames) \in Nat /\ n \in Nat /\ n <= Len(frames)
      /\ \A m \in 1 .. Len(frames) : frames[m] = first + m - 1 /\ frames[m] \in DOMAIN FrameBytes
      /\ old = SubSeq(frames, 1, n) /\ left = SubSeq(frames, n + 1, Len(frames))
  BY DEF Numbered, Parted
<1>2. /\ old \in Seq(DOMAIN FrameBytes) /\ Len(old) = n /\ \A m \in 1 .. n : old[m] = frames[m]
  BY <1>1
<1>3. /\ left \in Seq(DOMAIN FrameBytes) /\ Len(left) = Len(frames) - n
      /\ \A m \in 1 .. Len(frames) - n : left[m] = frames[n + m]
  BY <1>1
<1>4. Numbered(old, first) /\ Numbered(left, first + n)
  <2>1. \A m \in 1 .. n : old[m] = first + m - 1
    BY <1>1, <1>2
  <2>2. \A m \in 1 .. Len(frames) - n : left[m] = first + n + m - 1
    BY <1>1, <1>3
  <2>3. QED
    BY <1>2, <1>3, <2>1, <2>2 DEF Numbered
<1>5. /\ Range(frames) = first .. first + Len(frames) - 1
      /\ IsFiniteSet(Range(frames)) /\ Natural(FrameBytes, Range(frames))
  BY NumberedFrames
<1>6. Range(old) = first .. first + n - 1 /\ IsFiniteSet(Range(old)) /\ Natural(FrameBytes, Range(old))
  BY <1>1, <1>2, <1>4, NumberedFrames
<1>7. /\ Range(left) = first + n .. first + Len(frames) - 1
      /\ IsFiniteSet(Range(left)) /\ Natural(FrameBytes, Range(left))
  <2>1. first + n \in Nat /\ first + n + (Len(frames) - n) - 1 = first + Len(frames) - 1
    BY <1>1
  <2>2. PICK k \in Nat : k = first + n
    BY <2>1
  <2>3. /\ Range(left) = k .. k + Len(left) - 1
        /\ IsFiniteSet(Range(left)) /\ Natural(FrameBytes, Range(left))
    BY <1>4, <2>2, NumberedFrames
  <2>4. QED
    BY <1>1, <1>3, <2>1, <2>2, <2>3
<1>8. Range(old) \cap Range(left) = {} /\ Range(old) \cup Range(left) = Range(frames)
  BY <1>1, <1>5, <1>6, <1>7
<1>9. Bytes(old) \in Nat /\ Bytes(left) \in Nat /\ Bytes(frames) = Bytes(old) + Bytes(left)
  <2>1. PICK A, B : A = Range(old) /\ B = Range(left)
    OBVIOUS
  <2>2. IsFiniteSet(A) /\ IsFiniteSet(B) /\ Natural(FrameBytes, A) /\ Natural(FrameBytes, B)
        /\ A \cap B = {} /\ A \cup B = Range(frames)
    BY <1>6, <1>7, <1>8, <2>1
  <2>3. /\ SumFunctionOnSet(FrameBytes, A) \in Nat /\ SumFunctionOnSet(FrameBytes, B) \in Nat
        /\ SumFunctionOnSet(FrameBytes, A \cup B)
             = SumFunctionOnSet(FrameBytes, A) + SumFunctionOnSet(FrameBytes, B)
    BY <2>2, SumOfParts
  <2>4. QED
    BY <2>1, <2>2, <2>3 DEF Bytes
<1>10. QED
  BY <1>3, <1>4, <1>9

BufferFields == {"frames", "appended", "dropped", "closed"}
BufferGood(b) ==
  /\ DOMAIN b = BufferFields /\ b.dropped \in Nat /\ Numbered(b.frames, b.dropped)
  /\ b.appended = b.dropped + Len(b.frames)

\* The order lists the frames of each episode as they were appended, every
\* buffered one among them.
Entries(D) == D \X DOMAIN FrameBytes
OrderGood(v) ==
  /\ v.order \in Seq(Entries(DOMAIN v.buffers))
  /\ \A n \in DOMAIN v.order : v.order[n][2] < v.buffers[v.order[n][1]].appended
  /\ \A m, n \in DOMAIN v.order :
       m < n /\ v.order[m][1] = v.order[n][1] => v.order[m][2] < v.order[n][2]
  /\ \A e \in DOMAIN v.buffers : \A i \in Range(v.buffers[e].frames) :
       <<e, i>> \in Range(v.order)

Accounted(v) == IsFiniteSet(DOMAIN v.buffers) /\ v.total = Held(v, DOMAIN v.buffers)
StoreGood(v) ==
  /\ DOMAIN v = {"buffers", "total", "order"}
  /\ \A e \in DOMAIN v.buffers : BufferGood(v.buffers[e])
  /\ Accounted(v) /\ OrderGood(v)

\* What discarding frames leaves: no more frames and bytes of any episode.
Discarded(w, v) ==
  /\ DOMAIN w.buffers = DOMAIN v.buffers
  /\ \A e \in DOMAIN v.buffers :
       /\ w.buffers[e].closed = v.buffers[e].closed
       /\ w.buffers[e].appended = v.buffers[e].appended
       /\ Len(w.buffers[e].frames) <= Len(v.buffers[e].frames)
       /\ Bytes(w.buffers[e].frames) <= Bytes(v.buffers[e].frames)

LEMMA BufferFacts ==
  ASSUME NEW v, StoreGood(v), NEW e \in DOMAIN v.buffers
  PROVE  /\ BufferGood(v.buffers[e]) /\ v.buffers[e].dropped \in Nat
         /\ Numbered(v.buffers[e].frames, v.buffers[e].dropped)
         /\ Len(v.buffers[e].frames) \in Nat /\ Bytes(v.buffers[e].frames) \in Nat
         /\ v.buffers[e].appended = v.buffers[e].dropped + Len(v.buffers[e].frames)
BY NumberedFrames DEF StoreGood, BufferGood

LEMMA DiscardedSelf == ASSUME NEW v, StoreGood(v) PROVE Discarded(v, v)
BY BufferFacts DEF Discarded

LEMMA DiscardedTwice ==
  ASSUME NEW u, NEW v, NEW w, StoreGood(u), StoreGood(v), StoreGood(w),
         Discarded(w, v), Discarded(v, u)
  PROVE  Discarded(w, u)
<1>1. DOMAIN w.buffers = DOMAIN v.buffers /\ DOMAIN v.buffers = DOMAIN u.buffers
  BY DEF Discarded
<1>2. ASSUME NEW e \in DOMAIN u.buffers
      PROVE  /\ w.buffers[e].closed = u.buffers[e].closed
             /\ w.buffers[e].appended = u.buffers[e].appended
             /\ Len(w.buffers[e].frames) <= Len(u.buffers[e].frames)
             /\ Bytes(w.buffers[e].frames) <= Bytes(u.buffers[e].frames)
  <2>1. /\ Len(w.buffers[e].frames) \in Nat /\ Bytes(w.buffers[e].frames) \in Nat
        /\ Len(v.buffers[e].frames) \in Nat /\ Bytes(v.buffers[e].frames) \in Nat
        /\ Len(u.buffers[e].frames) \in Nat /\ Bytes(u.buffers[e].frames) \in Nat
    BY <1>1, BufferFacts
  <2>2. /\ w.buffers[e].closed = v.buffers[e].closed /\ v.buffers[e].closed = u.buffers[e].closed
        /\ w.buffers[e].appended = v.buffers[e].appended
        /\ v.buffers[e].appended = u.buffers[e].appended
        /\ Len(w.buffers[e].frames) <= Len(v.buffers[e].frames)
        /\ Len(v.buffers[e].frames) <= Len(u.buffers[e].frames)
        /\ Bytes(w.buffers[e].frames) <= Bytes(v.buffers[e].frames)
        /\ Bytes(v.buffers[e].frames) <= Bytes(u.buffers[e].frames)
    BY <1>1 DEF Discarded
  <2>3. /\ Len(w.buffers[e].frames) <= Len(u.buffers[e].frames)
        /\ Bytes(w.buffers[e].frames) <= Bytes(u.buffers[e].frames)
    <3>1. \A a, b, c \in Nat : a <= b /\ b <= c => a <= c
      OBVIOUS
    <3>2. QED
      BY <2>1, <2>2, <3>1, Zenon
  <2>4. QED
    BY <2>2, <2>3, Zenon
<1>3. QED
  BY <1>1, <1>2 DEF Discarded

\* The bytes held of the episodes, and what they become when one buffer changes.
BytesOf(v) == [e \in DOMAIN v.buffers |-> Bytes(v.buffers[e].frames)]
AllNumbered(v) == \A e \in DOMAIN v.buffers :
  Bytes(v.buffers[e].frames) \in Nat

LEMMA HeldIs == ASSUME NEW v, NEW S PROVE Held(v, S) = SumFunctionOnSet(BytesOf(v), S)
BY DEF Held, BytesOf

LEMMA BytesNatural ==
  ASSUME NEW v, AllNumbered(v), NEW S, S \subseteq DOMAIN v.buffers
  PROVE  Natural(BytesOf(v), S)
BY DEF BytesOf, AllNumbered, Natural

ChangedAt(v, w, e) ==
  /\ e \in DOMAIN v.buffers /\ DOMAIN w.buffers = DOMAIN v.buffers
  /\ \A x \in DOMAIN v.buffers : x # e => w.buffers[x] = v.buffers[x]

LEMMA HeldChanged ==
  ASSUME NEW v, NEW w, NEW e, AllNumbered(v), AllNumbered(w), IsFiniteSet(DOMAIN v.buffers),
         ChangedAt(v, w, e)
  PROVE  /\ Held(v, DOMAIN v.buffers) \in Nat /\ Held(w, DOMAIN v.buffers) \in Nat
         /\ Bytes(v.buffers[e].frames) <= Held(v, DOMAIN v.buffers)
         /\ Held(w, DOMAIN v.buffers) = Held(v, DOMAIN v.buffers)
              - Bytes(v.buffers[e].frames) + Bytes(w.buffers[e].frames)
<1> DEFINE D == DOMAIN v.buffers
           f == BytesOf(v)
           g == BytesOf(w)
<1>0. /\ e \in DOMAIN v.buffers /\ DOMAIN w.buffers = DOMAIN v.buffers
      /\ \A x \in DOMAIN v.buffers : x # e => w.buffers[x] = v.buffers[x]
  BY DEF ChangedAt
<1>1. Natural(f, D) /\ Natural(g, D) /\ Natural(f, D \ {e}) /\ IsFiniteSet(D \ {e})
  BY <1>0, BytesNatural, FS_Subset
<1>2. /\ f[e] = Bytes(v.buffers[e].frames) /\ g[e] = Bytes(w.buffers[e].frames)
      /\ \A x \in D \ {e} : g[x] = f[x]
  BY <1>0 DEF BytesOf
<1> HIDE DEF f, g
<1>3. /\ f[e] \in Nat /\ SumFunctionOnSet(f, D \ {e}) \in Nat
      /\ SumFunctionOnSet(f, D) = f[e] + SumFunctionOnSet(f, D \ {e})
  BY <1>0, <1>1, SumWithout
<1>4. /\ g[e] \in Nat /\ SumFunctionOnSet(g, D \ {e}) \in Nat
      /\ SumFunctionOnSet(g, D) = g[e] + SumFunctionOnSet(g, D \ {e})
  BY <1>0, <1>1, SumWithout
<1>5. SumFunctionOnSet(g, D \ {e}) = SumFunctionOnSet(f, D \ {e})
  BY <1>1, <1>2, SumOfSame
<1>6. Held(v, D) = SumFunctionOnSet(f, D) /\ Held(w, D) = SumFunctionOnSet(g, D)
  BY <1>0, HeldIs DEF f, g
<1> HIDE DEF D
<1>7. QED
  <2>1. /\ Held(v, D) \in Nat /\ Held(w, D) \in Nat
        /\ Bytes(v.buffers[e].frames) <= Held(v, D)
        /\ Held(w, D) = Held(v, D) - Bytes(v.buffers[e].frames) + Bytes(w.buffers[e].frames)
    BY <1>2, <1>3, <1>4, <1>5, <1>6
  <2>2. QED
    BY <2>1 DEF D

-----------------------------------------------------------------------------
(* Discarding the oldest frames keeps the accounts.                        *)

LEMMA AllAreNumbered == ASSUME NEW v, StoreGood(v) PROVE AllNumbered(v)
BY BufferFacts DEF AllNumbered

LEMMA TotalNatural ==
  ASSUME NEW v, StoreGood(v)
  PROVE  /\ IsFiniteSet(DOMAIN v.buffers) /\ v.total = Held(v, DOMAIN v.buffers)
         /\ v.total \in Nat
<1>1. IsFiniteSet(DOMAIN v.buffers) /\ v.total = Held(v, DOMAIN v.buffers)
  BY DEF StoreGood, Accounted
<1>2. PICK D : D = DOMAIN v.buffers
  OBVIOUS
<1>3. Natural(BytesOf(v), D) /\ IsFiniteSet(D)
  BY <1>1, <1>2, AllAreNumbered, BytesNatural
<1>4. SumFunctionOnSet(BytesOf(v), D) \in Nat
  BY <1>3, SumFound
<1>5. QED
  BY <1>1, <1>2, <1>4, HeldIs

\* Entries are of episodes that have a buffer.
LEMMA OrderEntries ==
  ASSUME NEW D, NEW order \in Seq(Entries(D)), NEW n \in DOMAIN order
  PROVE  /\ n \in 1 .. Len(order) /\ order[n] \in Range(order)
         /\ order[n][1] \in D /\ order[n][2] \in DOMAIN FrameBytes
         /\ order[n] = <<order[n][1], order[n][2]>>
<1>1. Len(order) \in Nat /\ DOMAIN order = 1 .. Len(order) /\ order[n] \in D \X DOMAIN FrameBytes
  BY DEF Entries
<1>2. QED
  BY <1>1 DEF Range

LEMMA OrderKept ==
  ASSUME NEW v, OrderGood(v), NEW w, w.order = v.order, DOMAIN w.buffers = DOMAIN v.buffers,
         \A x \in DOMAIN v.buffers : /\ w.buffers[x].appended = v.buffers[x].appended
                                     /\ Range(w.buffers[x].frames) \subseteq Range(v.buffers[x].frames)
  PROVE  OrderGood(w)
<1>1. v.order \in Seq(Entries(DOMAIN v.buffers))
  BY DEF OrderGood
<1>2. \A n \in DOMAIN v.order : v.order[n][1] \in DOMAIN v.buffers
  <2>1. PICK D, order : D = DOMAIN v.buffers /\ order = v.order
    OBVIOUS
  <2>2. order \in Seq(Entries(D))
    BY <1>1, <2>1, Zenon
  <2>3. ASSUME NEW n \in DOMAIN order PROVE order[n][1] \in D
    BY <2>2, OrderEntries
  <2>4. QED
    BY <2>1, <2>3
<1>3. \A n \in DOMAIN w.order : w.order[n][2] < w.buffers[w.order[n][1]].appended
  BY <1>2 DEF OrderGood
<1>4. \A m, n \in DOMAIN w.order :
        m < n /\ w.order[m][1] = w.order[n][1] => w.order[m][2] < w.order[n][2]
  BY DEF OrderGood
<1>5. \A x \in DOMAIN w.buffers : \A i \in Range(w.buffers[x].frames) :
        <<x, i>> \in Range(w.order)
  BY DEF OrderGood
<1>6. w.order \in Seq(Entries(DOMAIN w.buffers))
  BY <1>1, Zenon
<1>7. QED
  BY <1>3, <1>4, <1>5, <1>6, Zenon DEF OrderGood

LEMMA DropLeftKeeps ==
  ASSUME NEW v, StoreGood(v), NEW e \in DOMAIN v.buffers,
         NEW n \in 0 .. Len(v.buffers[e].frames), NEW w, w = DropLeft(v, e, n)
  PROVE  /\ StoreGood(w) /\ Discarded(w, v) /\ w.order = v.order
         /\ w.buffers[e].frames = SubSeq(v.buffers[e].frames, n + 1, Len(v.buffers[e].frames))
         /\ w.buffers[e].dropped = v.buffers[e].dropped + n
<1>1. PICK b, first, frames, old, left :
        /\ b = v.buffers[e] /\ first = b.dropped /\ frames = b.frames
        /\ old = SubSeq(frames, 1, n) /\ left = SubSeq(frames, n + 1, Len(frames))
  OBVIOUS
<1>2. /\ BufferGood(b) /\ first \in Nat /\ Numbered(frames, first) /\ Len(frames) \in Nat
      /\ Bytes(frames) \in Nat /\ b.appended = first + Len(frames)
  BY <1>1, BufferFacts
<1>3. n \in 0 .. Len(frames) /\ n \in Nat
  BY <1>1, <1>2
<1>4. /\ Numbered(left, first + n) /\ Len(left) = Len(frames) - n
      /\ Bytes(old) \in Nat /\ Bytes(left) \in Nat /\ Bytes(frames) = Bytes(old) + Bytes(left)
      /\ Range(left) = first + n .. first + Len(frames) - 1
  <2>1. Parted(frames, n, old, left)
    BY <1>1, <1>3 DEF Parted
  <2>2. QED
    <3>1. /\ Numbered(left, first + n) /\ Len(left) = Len(frames) - n
          /\ Bytes(old) \in Nat /\ Bytes(left) \in Nat /\ Bytes(frames) = Bytes(old) + Bytes(left)
      BY <1>2, <2>1, OldestGone
    <3>2. Range(left) = first + n .. first + Len(frames) - 1
      <4>1. PICK k \in Nat : k = first + n
        BY <1>2, <1>3
      <4>2. Range(left) = k .. k + Len(left) - 1
        BY <3>1, <4>1, NumberedFrames
      <4>3. k + Len(left) - 1 = first + Len(frames) - 1
        BY <1>2, <1>3, <3>1, <4>1
      <4>4. QED
        BY <4>1, <4>2, <4>3
    <3>3. QED
      BY <3>1, <3>2
<1>5. PICK c : c = [b EXCEPT !.frames = left, !.dropped = @ + n]
  OBVIOUS
<1>6. /\ DOMAIN c = BufferFields /\ c.frames = left /\ c.dropped = first + n
      /\ c.appended = b.appended /\ c.closed = b.closed
  BY <1>1, <1>2, <1>5 DEF BufferGood, BufferFields
<1>7. BufferGood(c)
  <2>1. first + n \in Nat /\ b.appended = first + n + (Len(frames) - n)
    BY <1>2, <1>3
  <2>2. QED
    BY <1>4, <1>6, <2>1 DEF BufferGood
<1>8. /\ DOMAIN w = {"buffers", "total", "order"} /\ w.buffers = [v.buffers EXCEPT ![e] = c]
      /\ w.total = v.total - Bytes(old) /\ w.order = v.order
  BY <1>1, <1>5 DEF DropLeft, StoreGood
<1>9. /\ DOMAIN w.buffers = DOMAIN v.buffers /\ w.buffers[e] = c
      /\ \A x \in DOMAIN v.buffers : x # e => w.buffers[x] = v.buffers[x]
  BY <1>8
<1>10. \A x \in DOMAIN w.buffers : BufferGood(w.buffers[x])
  BY <1>7, <1>9 DEF StoreGood
<1>11. AllNumbered(v) /\ AllNumbered(w)
  <2>1. ASSUME NEW x \in DOMAIN w.buffers PROVE Bytes(w.buffers[x].frames) \in Nat
    BY <1>10, NumberedFrames DEF BufferGood
  <2>2. QED
    BY <2>1, AllAreNumbered DEF AllNumbered
<1>12. Accounted(w)
  <2>1. IsFiniteSet(DOMAIN v.buffers) /\ v.total = Held(v, DOMAIN v.buffers)
    BY DEF StoreGood, Accounted
  <2>2. /\ Held(v, DOMAIN v.buffers) \in Nat /\ Held(w, DOMAIN v.buffers) \in Nat
        /\ Held(w, DOMAIN v.buffers) = Held(v, DOMAIN v.buffers)
             - Bytes(v.buffers[e].frames) + Bytes(w.buffers[e].frames)
    <3>1. ChangedAt(v, w, e)
      BY <1>9 DEF ChangedAt
    <3>2. QED
      BY <1>11, <2>1, <3>1, HeldChanged
  <2>3. PICK a, d, k, l, m : /\ a = Held(v, DOMAIN v.buffers) /\ d = Held(w, DOMAIN v.buffers)
                             /\ k = Bytes(frames) /\ l = Bytes(left) /\ m = Bytes(old)
    OBVIOUS
  <2>4. a \in Nat /\ d \in Nat /\ k \in Nat /\ l \in Nat /\ m \in Nat /\ k = m + l /\ d = a - k + l
    BY <1>1, <1>2, <1>4, <1>6, <1>9, <2>2, <2>3
  <2>5. d = a - m
    BY <2>4
  <2>6. QED
    BY <1>8, <1>9, <2>1, <2>3, <2>5 DEF Accounted
<1>13. \A x \in DOMAIN v.buffers : /\ w.buffers[x].appended = v.buffers[x].appended
                                   /\ Range(w.buffers[x].frames) \subseteq Range(v.buffers[x].frames)
  <2>1. Range(frames) = first .. first + Len(frames) - 1
    BY <1>2, NumberedFrames
  <2>2. Range(left) \subseteq Range(frames)
    BY <1>2, <1>3, <1>4, <2>1
  <2>3. QED
    BY <1>1, <1>6, <1>9, <2>2
<1>14. OrderGood(w)
  <2>1. OrderGood(v)
    BY DEF StoreGood
  <2>2. QED
    BY <1>8, <1>9, <1>13, <2>1, OrderKept
<1>15. StoreGood(w)
  BY <1>8, <1>10, <1>12, <1>14 DEF StoreGood
<1>16. Discarded(w, v)
  <2>1. Len(left) <= Len(frames) /\ Bytes(left) <= Bytes(frames)
    BY <1>2, <1>3, <1>4
  <2>2. ASSUME NEW x \in DOMAIN v.buffers
        PROVE  /\ w.buffers[x].closed = v.buffers[x].closed
               /\ w.buffers[x].appended = v.buffers[x].appended
               /\ Len(w.buffers[x].frames) <= Len(v.buffers[x].frames)
               /\ Bytes(w.buffers[x].frames) <= Bytes(v.buffers[x].frames)
    <3>1. CASE x = e
      BY <1>1, <1>6, <1>9, <2>1, <3>1
    <3>2. CASE x # e
      BY <1>9, <3>2, BufferFacts
    <3>3. QED
      BY <3>1, <3>2
  <2>3. QED
    BY <1>9, <2>2 DEF Discarded
<1>17. QED
  BY <1>1, <1>6, <1>8, <1>9, <1>15, <1>16

\* Taking the first entry of the order, whose frame is not buffered.
LEMMA TailOf ==
  ASSUME NEW S, NEW seq \in Seq(S), seq # <<>>
  PROVE  /\ Len(seq) \in Nat \ {0} /\ Head(seq) = seq[1] /\ seq[1] \in S
         /\ Tail(seq) \in Seq(S) /\ Len(Tail(seq)) = Len(seq) - 1
         /\ \A n \in 1 .. Len(seq) - 1 : Tail(seq)[n] = seq[n + 1]
         /\ \A x \in Range(seq) : x = seq[1] \/ x \in Range(Tail(seq))
<1>1. /\ Len(seq) \in Nat \ {0} /\ Head(seq) = seq[1] /\ seq[1] \in S
      /\ Tail(seq) \in Seq(S) /\ Len(Tail(seq)) = Len(seq) - 1
      /\ \A n \in 1 .. Len(seq) - 1 : Tail(seq)[n] = seq[n + 1]
  OBVIOUS
<1>2. DOMAIN seq = 1 .. Len(seq) /\ DOMAIN Tail(seq) = 1 .. Len(seq) - 1
  BY <1>1
<1>3. ASSUME NEW x \in Range(seq), x # seq[1] PROVE x \in Range(Tail(seq))
  <2>1. PICK n \in 1 .. Len(seq) : x = seq[n]
    BY <1>2 DEF Range
  <2>2. n # 1 /\ n - 1 \in 1 .. Len(seq) - 1 /\ n - 1 + 1 = n
    BY <1>1, <1>3, <2>1
  <2>3. x = Tail(seq)[n - 1]
    BY <1>1, <2>1, <2>2
  <2>4. QED
    BY <1>2, <2>2, <2>3 DEF Range
<1>4. QED
  BY <1>1, <1>3

LEMMA EntryTaken ==
  ASSUME NEW v, StoreGood(v), v.order # <<>>, NEW w, w = [v EXCEPT !.order = Tail(@)],
         v.order[1][2] \notin Range(v.buffers[v.order[1][1]].frames)
  PROVE  StoreGood(w) /\ Discarded(w, v) /\ Len(w.order) = Len(v.order) - 1
<1>1. /\ DOMAIN w = {"buffers", "total", "order"} /\ w.buffers = v.buffers /\ w.total = v.total
      /\ w.order = Tail(v.order)
  BY DEF StoreGood
<1>2. PICK D, order, tail : D = DOMAIN v.buffers /\ order = v.order /\ tail = Tail(order)
  OBVIOUS
<1>3. order \in Seq(Entries(D)) /\ order # <<>>
  BY <1>2, Zenon DEF StoreGood, OrderGood
<1>4. /\ Len(order) \in Nat \ {0} /\ order[1] \in Entries(D)
      /\ tail \in Seq(Entries(D)) /\ Len(tail) = Len(order) - 1
      /\ \A n \in 1 .. Len(order) - 1 : tail[n] = order[n + 1]
      /\ \A x \in Range(order) : x = order[1] \/ x \in Range(tail)
  BY <1>2, <1>3, TailOf
<1>5. DOMAIN order = 1 .. Len(order) /\ DOMAIN tail = 1 .. Len(order) - 1
  BY <1>3, <1>4
<1>6. /\ \A n \in DOMAIN order : order[n][2] < v.buffers[order[n][1]].appended
      /\ \A m, n \in DOMAIN order :
           m < n /\ order[m][1] = order[n][1] => order[m][2] < order[n][2]
      /\ \A x \in D : \A i \in Range(v.buffers[x].frames) : <<x, i>> \in Range(order)
  BY <1>2 DEF StoreGood, OrderGood
<1>7. ASSUME NEW n \in DOMAIN tail
      PROVE  n \in Nat /\ n + 1 \in DOMAIN order /\ tail[n] = order[n + 1]
  BY <1>4, <1>5
<1>8. \A n \in DOMAIN tail : tail[n][2] < v.buffers[tail[n][1]].appended
  BY <1>6, <1>7
<1>9. ASSUME NEW m \in DOMAIN tail, NEW n \in DOMAIN tail, m < n, tail[m][1] = tail[n][1]
      PROVE  tail[m][2] < tail[n][2]
  <2>1. m + 1 < n + 1
    BY <1>7, <1>9
  <2>2. QED
    BY <1>6, <1>7, <1>9, <2>1
<1>10. ASSUME NEW x \in D, NEW i \in Range(v.buffers[x].frames) PROVE <<x, i>> \in Range(tail)
  <2>1. <<x, i>> \in Range(order)
    BY <1>6
  <2>2. order[1] # <<x, i>>
    BY <1>2
  <2>3. QED
    BY <1>4, <2>1, <2>2
<1>11. OrderGood(w)
  <2>1. w.order = tail /\ DOMAIN w.buffers = D /\ w.buffers = v.buffers
    BY <1>1, <1>2
  <2>2. /\ w.order \in Seq(Entries(DOMAIN w.buffers))
        /\ \A n \in DOMAIN w.order : w.order[n][2] < w.buffers[w.order[n][1]].appended
    BY <1>4, <1>8, <2>1
  <2>3. \A m, n \in DOMAIN w.order :
          m < n /\ w.order[m][1] = w.order[n][1] => w.order[m][2] < w.order[n][2]
    BY <1>9, <2>1
  <2>4. \A x \in DOMAIN w.buffers : \A i \in Range(w.buffers[x].frames) :
          <<x, i>> \in Range(w.order)
    BY <1>10, <2>1
  <2>5. QED
    BY <2>2, <2>3, <2>4, Zenon DEF OrderGood
<1>12. Accounted(w)
  <2>1. Held(w, DOMAIN w.buffers) = Held(v, DOMAIN v.buffers)
    BY <1>1 DEF Held
  <2>2. QED
    BY <1>1, <2>1 DEF Accounted, StoreGood
<1>13. StoreGood(w)
  BY <1>1, <1>11, <1>12 DEF StoreGood
<1>14. Discarded(w, v)
  <2>1. Discarded(v, v)
    BY DiscardedSelf
  <2>2. QED
    BY <1>1, <2>1 DEF Discarded
<1>15. QED
  BY <1>1, <1>2, <1>4, <1>13, <1>14

\* Dropping a frame and taking the entry may be done in either order.
LEMMA DropThenTake ==
  ASSUME NEW v, StoreGood(v), NEW e \in DOMAIN v.buffers, NEW n
  PROVE  DropLeft([v EXCEPT !.order = Tail(@)], e, n)
           = [DropLeft(v, e, n) EXCEPT !.order = Tail(@)]
<1> DEFINE u == [v EXCEPT !.order = Tail(@)]
<1>1. /\ DOMAIN u = {"buffers", "total", "order"} /\ u.buffers = v.buffers /\ u.total = v.total
      /\ u.order = Tail(v.order)
  BY DEF StoreGood
<1> HIDE DEF u
<1>2. PICK c, old : /\ c = [v.buffers[e] EXCEPT !.frames = SubSeq(v.buffers[e].frames, n + 1, Len(v.buffers[e].frames)),
                                     !.dropped = @ + n]
                    /\ old = Bytes(SubSeq(v.buffers[e].frames, 1, n))
  OBVIOUS
<1>3. DropLeft(u, e, n) = [u EXCEPT !.buffers[e] = c, !.total = @ - old]
  BY <1>1, <1>2 DEF DropLeft
<1>4. DropLeft(v, e, n) = [v EXCEPT !.buffers[e] = c, !.total = @ - old]
  BY <1>2 DEF DropLeft
<1>5. [u EXCEPT !.buffers[e] = c, !.total = @ - old]
        = [[v EXCEPT !.buffers[e] = c, !.total = @ - old] EXCEPT !.order = Tail(@)]
  BY <1>1 DEF StoreGood
<1>6. QED
  BY <1>3, <1>4, <1>5 DEF u

LEMMA PoppedKeeps ==
  ASSUME NEW v, StoreGood(v), v.order # <<>>
  PROVE  /\ StoreGood(Popped(v)) /\ Discarded(Popped(v), v)
         /\ Len(Popped(v).order) = Len(v.order) - 1
<1>1. PICK D, order, entry, e, i :
        /\ D = DOMAIN v.buffers /\ order = v.order /\ entry = Head(order)
        /\ e = entry[1] /\ i = entry[2]
  OBVIOUS
<1>2. order \in Seq(Entries(D)) /\ order # <<>>
  BY <1>1, Zenon DEF StoreGood, OrderGood
<1>3. Len(order) \in Nat \ {0} /\ entry = order[1] /\ DOMAIN order = 1 .. Len(order)
  BY <1>1, <1>2, TailOf
<1>4. 1 \in DOMAIN order
  BY <1>3
<1>5. e \in D /\ entry \in Range(order)
  BY <1>1, <1>2, <1>3, <1>4, OrderEntries
<1>6. PICK frames, first : frames = v.buffers[e].frames /\ first = v.buffers[e].dropped
  OBVIOUS
<1>7. first \in Nat /\ Numbered(frames, first) /\ Len(frames) \in Nat
  BY <1>1, <1>5, <1>6, BufferFacts
<1>8. /\ Range(frames) = first .. first + Len(frames) - 1
      /\ \A n \in 1 .. Len(frames) : frames[n] = first + n - 1
      /\ frames # <<>> => Len(frames) > 0 /\ Head(frames) = frames[1]
  BY <1>7, NumberedFrames DEF Numbered
<1>9. CASE frames # <<>> /\ Head(frames) = i
  <2>1. PICK w : w = DropLeft(v, e, 1)
    OBVIOUS
  <2>2. Popped(v) = [w EXCEPT !.order = Tail(@)]
    <3>1. Popped(v) = DropLeft([v EXCEPT !.order = Tail(@)], e, 1)
      <4>1. /\ Head(v.order)[1] = e /\ Head(v.order)[2] = i /\ e \in DOMAIN v.buffers
            /\ v.buffers[e].frames # <<>> /\ Head(v.buffers[e].frames) = i
        BY <1>1, <1>5, <1>6, <1>9
      <4>2. QED
        BY <4>1, Zenon DEF Popped
    <3>2. QED
      <4>1. e \in DOMAIN v.buffers
        BY <1>1, <1>5
      <4>2. DropLeft([v EXCEPT !.order = Tail(@)], e, 1)
              = [DropLeft(v, e, 1) EXCEPT !.order = Tail(@)]
        BY <4>1, DropThenTake
      <4>3. QED
        BY <2>1, <3>1, <4>2
  <2>3. 1 \in 0 .. Len(frames)
    BY <1>7, <1>8, <1>9
  <2>4. /\ StoreGood(w) /\ Discarded(w, v) /\ w.order = v.order
        /\ w.buffers[e].dropped = first + 1
    BY <1>1, <1>5, <1>6, <2>1, <2>3, DropLeftKeeps
  <2>5. i = first
    BY <1>7, <1>8, <1>9
  <2>6. i \notin Range(w.buffers[e].frames)
    <3>1. e \in DOMAIN w.buffers
      BY <1>1, <1>5, <2>4 DEF Discarded
    <3>2. PICK k \in Nat : k = first + 1
      BY <1>7
    <3>3. Numbered(w.buffers[e].frames, k) /\ Len(w.buffers[e].frames) \in Nat
      BY <2>4, <3>1, <3>2, BufferFacts
    <3>4. Range(w.buffers[e].frames) = k .. k + Len(w.buffers[e].frames) - 1
      BY <3>2, <3>3, NumberedFrames
    <3>5. i \notin k .. k + Len(w.buffers[e].frames) - 1
      <4>1. PICK l : l = Len(w.buffers[e].frames)
        OBVIOUS
      <4>2. \A m \in k .. k + l - 1 : k <= m
        BY <3>3, <4>1
      <4>3. k \in Nat /\ k = i + 1 /\ i \in Nat
        BY <1>7, <2>5, <3>2
      <4>4. ~(k <= i)
        BY <4>3
      <4>5. QED
        BY <4>1, <4>2, <4>4
    <3>6. QED
      BY <3>4, <3>5
  <2>7. PICK u : u = [w EXCEPT !.order = Tail(@)]
    OBVIOUS
  <2>8. StoreGood(u) /\ Discarded(u, w) /\ Len(u.order) = Len(v.order) - 1
    BY <1>1, <1>2, <1>3, <2>4, <2>6, <2>7, EntryTaken
  <2>9. Discarded(u, v)
    BY <2>4, <2>8, DiscardedTwice
  <2>10. QED
    BY <2>2, <2>7, <2>8, <2>9
<1>10. CASE ~(frames # <<>> /\ Head(frames) = i)
  <2>1. Popped(v) = [v EXCEPT !.order = Tail(@)]
    BY <1>1, <1>5, <1>6, <1>10 DEF Popped
  <2>2. i \notin Range(frames)
    <3>1. SUFFICES ASSUME i \in Range(frames) PROVE FALSE
      OBVIOUS
    <3>2. Len(frames) > 0 /\ i \in first .. first + Len(frames) - 1
      BY <1>7, <1>8, <3>1
    <3>3. frames[1] = first /\ first \in Range(frames) /\ frames # <<>> /\ Head(frames) = frames[1]
      BY <1>7, <1>8, <3>2
    <3>4. i # first
      BY <1>10, <3>3
    <3>5. first < i
      BY <1>7, <3>2, <3>4
    <3>6. <<e, first>> \in Range(order)
      BY <1>1, <1>5, <1>6, <3>3 DEF StoreGood, OrderGood
    <3>7. PICK n \in DOMAIN order : order[n] = <<e, first>>
      BY <3>6 DEF Range
    <3>8. n # 1 /\ n \in Nat /\ 1 < n
      BY <1>1, <1>3, <3>4, <3>7
    <3>9. order[1][2] < order[n][2]
      BY <1>1, <1>3, <1>4, <3>7, <3>8 DEF StoreGood, OrderGood
    <3>10. i < first
      BY <1>1, <1>3, <3>7, <3>9
    <3>11. QED
      BY <1>7, <3>2, <3>5, <3>10
  <2>3. PICK u : u = [v EXCEPT !.order = Tail(@)]
    OBVIOUS
  <2>4. StoreGood(u) /\ Discarded(u, v) /\ Len(u.order) = Len(v.order) - 1
    BY <1>1, <1>2, <1>3, <1>6, <2>2, <2>3, EntryTaken
  <2>5. QED
    BY <2>1, <2>3, <2>4
<1>11. QED
  BY <1>9, <1>10

\* What is discarded for a frame to fit: some of the oldest of all episodes.
Popping(v, h) == h = [n \in 0 .. Len(v.order) |-> IF n = 0 THEN v ELSE Popped(h[n - 1])]
PoppedIn(v) == CHOOSE h : Popping(v, h)
RoomAfter(v, i) ==
  {n \in 0 .. Len(v.order) : PoppedIn(v)[n].total + FrameBytes[i] <= MaxTotalBytes}

LEMMA DropGlobalIs ==
  ASSUME NEW v, NEW i
  PROVE  DropGlobal(v, i) = PoppedIn(v)[Min(RoomAfter(v, i) \cup {Len(v.order)})]
BY DEF DropGlobal, PoppedIn, Popping, RoomAfter

PoppingUpto(v, n, h) ==
  /\ h = [i \in 0 .. n |-> h[i]] /\ h[0] = v
  /\ \A i \in 1 .. n : h[i] = Popped(h[i - 1])

LEMMA PoppingGrows ==
  ASSUME NEW v, NEW n \in Nat, NEW h, PoppingUpto(v, n, h)
  PROVE  \E g : PoppingUpto(v, n + 1, g)
<1> DEFINE g == [i \in 0 .. n + 1 |-> IF i = n + 1 THEN Popped(h[n]) ELSE h[i]]
<1>1. /\ g[0] = v /\ g[n + 1] = Popped(h[n]) /\ g[n] = h[n] /\ g = [i \in 0 .. n + 1 |-> g[i]]
      /\ \A i \in 0 .. n : g[i] = h[i]
  BY DEF PoppingUpto
<1> HIDE DEF g
<1>2. ASSUME NEW i \in 1 .. n + 1 PROVE g[i] = Popped(g[i - 1])
  <2>1. CASE i = n + 1
    <3>1. i - 1 = n
      BY <2>1
    <3>2. QED
      BY <1>1, <2>1, <3>1
  <2>2. CASE i # n + 1
    <3>1. i \in 1 .. n /\ i \in 0 .. n /\ i - 1 \in 0 .. n
      BY <2>2
    <3>2. g[i] = h[i] /\ g[i - 1] = h[i - 1]
      BY <1>1, <3>1
    <3>3. QED
      BY <3>1, <3>2 DEF PoppingUpto
  <2>3. QED
    BY <2>1, <2>2
<1>3. PoppingUpto(v, n + 1, g)
  BY <1>1, <1>2 DEF PoppingUpto
<1>4. QED
  BY <1>3

LEMMA PoppingExists ==
  ASSUME NEW v, NEW n \in Nat
  PROVE  \E h : PoppingUpto(v, n, h)
<1> DEFINE missing == {k \in Nat : ~ \E h : PoppingUpto(v, k, h)}
<1>1. missing = {}
  <2> SUFFICES ASSUME missing # {} PROVE FALSE
    OBVIOUS
  <2>1. PICK k \in missing : \A j \in missing : k <= j
    <3>1. missing \subseteq Nat
      OBVIOUS
    <3>2. QED
      BY <3>1, LeastElement
  <2>2. k \in Nat /\ ~ \E h : PoppingUpto(v, k, h)
    BY <2>1
  <2>3. CASE k = 0
    <3>1. PoppingUpto(v, 0, [i \in 0 .. 0 |-> v])
      BY DEF PoppingUpto
    <3>2. QED
      BY <2>2, <2>3, <3>1
  <2>4. CASE k # 0
    <3>1. k - 1 \in Nat /\ k - 1 + 1 = k /\ ~(k <= k - 1)
      BY <2>2, <2>4
    <3>2. k - 1 \notin missing
      <4> HIDE DEF missing
      <4> QED BY <2>1, <3>1
    <3>3. PICK h : PoppingUpto(v, k - 1, h)
      BY <3>1, <3>2
    <3>4. \E g : PoppingUpto(v, k - 1 + 1, g)
      BY <3>1, <3>3, PoppingGrows
    <3>5. QED
      BY <2>2, <3>1, <3>4
  <2>5. QED
    BY <2>3, <2>4
<1>2. QED
  BY <1>1

\* After n turns of the loop.
Turned(w, v, n) == StoreGood(w) /\ Discarded(w, v) /\ Len(w.order) = Len(v.order) - n

LEMMA OrderLength == ASSUME NEW v, StoreGood(v) PROVE Len(v.order) \in Nat
<1>1. PICK S : v.order \in Seq(S)
  BY Zenon DEF StoreGood, OrderGood
<1>2. QED
  BY <1>1

LEMMA TurnedMore ==
  ASSUME NEW v, StoreGood(v), NEW n \in Nat, n < Len(v.order), NEW w, Turned(w, v, n)
  PROVE  Turned(Popped(w), v, n + 1)
<1>1. StoreGood(w) /\ Discarded(w, v) /\ Len(w.order) = Len(v.order) - n /\ Len(v.order) \in Nat
  BY OrderLength DEF Turned
<1>2. w.order # <<>>
  <2>1. Len(w.order) # 0
    BY <1>1
  <2>2. QED
    BY <2>1
<1>3. PICK u : u = Popped(w)
  OBVIOUS
<1>4. StoreGood(u) /\ Discarded(u, w) /\ Len(u.order) = Len(w.order) - 1
  BY <1>1, <1>2, <1>3, PoppedKeeps
<1>5. Discarded(u, v)
  BY <1>1, <1>4, DiscardedTwice
<1>6. Len(u.order) = Len(v.order) - (n + 1)
  BY <1>1, <1>4
<1>7. QED
  BY <1>3, <1>4, <1>5, <1>6 DEF Turned

LEMMA DropGlobalKeeps ==
  ASSUME NEW v, StoreGood(v), NEW i
  PROVE  StoreGood(DropGlobal(v, i)) /\ Discarded(DropGlobal(v, i), v)
<1> DEFINE L == Len(v.order)
           h == PoppedIn(v)
<1>0. L \in Nat
  BY OrderLength
<1>1. PICK k : PoppingUpto(v, L, k)
  BY <1>0, PoppingExists
<1> HIDE DEF L
<1>2. Popping(v, k)
  <2>1. ASSUME NEW n \in 0 .. L PROVE k[n] = IF n = 0 THEN v ELSE Popped(k[n - 1])
    <3>1. n = 0 \/ n \in 1 .. L
      BY <1>0
    <3>2. QED
      BY <1>1, <3>1 DEF PoppingUpto
  <2>2. k = [n \in 0 .. L |-> k[n]]
    BY <1>1 DEF PoppingUpto
  <2>3. QED
    BY <2>1, <2>2 DEF Popping, L
<1>3. Popping(v, h)
  <2>1. \E x : Popping(v, x)
    BY <1>2
  <2>2. QED
    BY <2>1, Zenon DEF PoppedIn
<1> HIDE DEF h
<1>4. h[0] = v /\ \A n \in 1 .. L : h[n] = Popped(h[n - 1])
  <2>1. h = [n \in 0 .. L |-> IF n = 0 THEN v ELSE Popped(h[n - 1])]
    BY <1>3 DEF Popping, L
  <2>2. 0 \in 0 .. L /\ \A n \in 1 .. L : n \in 0 .. L /\ n # 0
    BY <1>0
  <2>3. \A n \in 0 .. L : h[n] = IF n = 0 THEN v ELSE Popped(h[n - 1])
    BY <2>1, Zenon
  <2>4. QED
    BY <2>2, <2>3
<1> DEFINE wrong == {n \in 0 .. L : ~Turned(h[n], v, n)}
<1>5. wrong = {}
  <2> SUFFICES ASSUME wrong # {} PROVE FALSE
    OBVIOUS
  <2>1. PICK n \in wrong : \A j \in wrong : n <= j
    <3>1. wrong \subseteq Nat
      BY <1>0
    <3>2. QED
      BY <3>1, LeastElement
  <2>2. n \in 0 .. L /\ ~Turned(h[n], v, n)
    BY <2>1
  <2>3. n # 0
    <3>1. Turned(v, v, 0)
      BY <1>0, DiscardedSelf DEF Turned, L
    <3>2. QED
      BY <1>4, <2>2, <3>1
  <2>4. /\ n - 1 \in 0 .. L /\ n - 1 \in Nat /\ ~(n <= n - 1) /\ n - 1 + 1 = n
        /\ n \in 1 .. L /\ n - 1 < L
    BY <1>0, <2>2, <2>3
  <2>5. n - 1 \notin wrong
    <3> HIDE DEF wrong
    <3>1. QED
      BY <2>1, <2>4
  <2>6. PICK m : m = n - 1
    OBVIOUS
  <2>7. Turned(h[m], v, m) /\ m \in Nat /\ m < Len(v.order) /\ h[n] = Popped(h[m]) /\ n = m + 1
    BY <1>4, <2>4, <2>5, <2>6 DEF L
  <2>8. Turned(h[n], v, n)
    BY <2>7, TurnedMore
  <2>9. QED
    BY <2>2, <2>8
<1>6. PICK m : m = Min(RoomAfter(v, i) \cup {L})
  OBVIOUS
<1>7. m \in 0 .. L
  <2>1. PICK S : S = RoomAfter(v, i) \cup {L}
    OBVIOUS
  <2>2. RoomAfter(v, i) \subseteq 0 .. L
    BY DEF RoomAfter, L
  <2>3. S \subseteq 0 .. L /\ S \subseteq Nat /\ S # {}
    BY <1>0, <2>1, <2>2
  <2>4. Min(S) \in S
    BY <2>3, MinIn
  <2>5. QED
    BY <1>6, <2>1, <2>3, <2>4
<1>8. DropGlobal(v, i) = h[m]
  BY <1>6, DropGlobalIs DEF h, L
<1>9. Turned(h[m], v, m)
  BY <1>5, <1>7
<1>10. QED
  BY <1>8, <1>9 DEF Turned

-----------------------------------------------------------------------------
(* The operations of the store keep its accounts and its limits.           *)

\* Frame i would fit into what is buffered of its episode.
Fits(frames, i) == Len(frames) + 1 <= MaxFrameSets /\ Bytes(frames) + FrameBytes[i] <= MaxBytes

Limits(v) ==
  /\ v.total <= MaxTotalBytes
  /\ \A e \in DOMAIN v.buffers :
       Len(v.buffers[e].frames) <= MaxFrameSets /\ Bytes(v.buffers[e].frames) <= MaxBytes

LEMMA NoFrames == Len(<<>>) = 0 /\ Bytes(<<>>) = 0 /\ Range(<<>>) = {}
<1>1. Range(<<>>) = {} /\ Len(<<>>) = 0
  BY DEF Range
<1>2. QED
  BY <1>1, SumOfNone DEF Bytes

LEMMA Sizes ==
  /\ MaxFrameSets \in Nat \ {0} /\ MaxBytes \in Nat \ {0} /\ MaxTotalBytes \in Nat \ {0}
  /\ \A i \in DOMAIN FrameBytes : FrameBytes[i] \in Nat /\ i \in Nat
BY VideoAssumption DEF VideoAssumption

Enough(frames, i, n) ==
  LET kept == SubSeq(frames, n + 1, Len(frames)) IN
  \/ kept = <<>>
  \/ /\ Len(kept) < MaxFrameSets
     /\ Bytes(kept) + FrameBytes[i] <= MaxBytes

LEMMA ExcessIs ==
  ASSUME NEW frames, NEW i
  PROVE  Excess(frames, i) = CHOOSE d \in 0 .. Len(frames) :
           Enough(frames, i, d) /\ \A n \in 0 .. d - 1 : ~Enough(frames, i, n)
BY DEF Excess, Enough

LEMMA ExcessFound ==
  ASSUME NEW first \in Nat, NEW frames, Numbered(frames, first), NEW i
  PROVE  Excess(frames, i) \in 0 .. Len(frames) /\ Enough(frames, i, Excess(frames, i))
<1> DEFINE L == Len(frames)
           S == {d \in 0 .. L : Enough(frames, i, d)}
<1>1. L \in Nat /\ frames \in Seq(DOMAIN FrameBytes)
  BY NumberedFrames DEF Numbered
<1>2. Enough(frames, i, L)
  <2>1. SubSeq(frames, L + 1, L) = <<>>
    BY <1>1
  <2>2. QED
    BY <2>1 DEF Enough
<1> HIDE DEF L
<1>3. PICK d \in S : \A n \in S : d <= n
  <2>1. S \subseteq Nat /\ S # {}
    BY <1>1, <1>2
  <2> HIDE DEF S
  <2>2. QED
    BY <2>1, LeastElement
<1>4. d \in 0 .. L /\ Enough(frames, i, d)
  BY <1>3
<1>5. \A n \in 0 .. d - 1 : ~Enough(frames, i, n)
  <2> SUFFICES ASSUME NEW n \in 0 .. d - 1, Enough(frames, i, n) PROVE FALSE
    OBVIOUS
  <2>1. n \in 0 .. L /\ ~(d <= n)
    BY <1>1, <1>4
  <2>2. QED
    BY <1>3, <2>1
<1>6. \E x \in 0 .. L : Enough(frames, i, x) /\ \A n \in 0 .. x - 1 : ~Enough(frames, i, n)
  BY <1>4, <1>5
<1>7. QED
  <2>1. Excess(frames, i) = CHOOSE x \in 0 .. L :
          Enough(frames, i, x) /\ \A n \in 0 .. x - 1 : ~Enough(frames, i, n)
    BY ExcessIs DEF L
  <2>2. Excess(frames, i) \in 0 .. L /\ Enough(frames, i, Excess(frames, i))
    BY <1>6, <2>1, Zenon
  <2>3. QED
    BY <2>2 DEF L

LEMMA DropOwnKeeps ==
  ASSUME NEW v, StoreGood(v), NEW e \in DOMAIN v.buffers, NEW i \in DOMAIN FrameBytes,
         FrameBytes[i] <= MaxBytes, NEW w, w = DropOwn(v, e, i)
  PROVE  StoreGood(w) /\ Discarded(w, v) /\ Fits(w.buffers[e].frames, i)
<1>1. PICK frames, first, d : /\ frames = v.buffers[e].frames /\ first = v.buffers[e].dropped
                              /\ d = Excess(frames, i)
  OBVIOUS
<1>2. Numbered(frames, first) /\ first \in Nat
  BY <1>1, BufferFacts
<1>3. d \in 0 .. Len(frames) /\ Enough(frames, i, d)
  BY <1>1, <1>2, ExcessFound
<1>4. w = DropLeft(v, e, d)
  BY <1>1 DEF DropOwn
<1>5. PICK kept : kept = SubSeq(frames, d + 1, Len(frames))
  OBVIOUS
<1>6. StoreGood(w) /\ Discarded(w, v) /\ w.buffers[e].frames = kept
  <2>1. d \in 0 .. Len(v.buffers[e].frames)
    BY <1>1, <1>3
  <2>2. QED
    BY <1>1, <1>4, <1>5, <2>1, DropLeftKeeps
<1>7. kept = <<>> \/ (Len(kept) < MaxFrameSets /\ Bytes(kept) + FrameBytes[i] <= MaxBytes)
  BY <1>3, <1>5 DEF Enough
<1>8. Len(kept) \in Nat
  BY <1>6, BufferFacts DEF Discarded
<1>9. Fits(kept, i)
  <2>1. CASE kept = <<>>
    BY <2>1, NoFrames, Sizes DEF Fits
  <2>2. CASE Len(kept) < MaxFrameSets /\ Bytes(kept) + FrameBytes[i] <= MaxBytes
    BY <1>8, <2>2, Sizes DEF Fits
  <2>3. QED
    BY <1>7, <2>1, <2>2
<1>10. QED
  BY <1>6, <1>9

LEMMA FitsStill ==
  ASSUME NEW v, StoreGood(v), NEW w, StoreGood(w), Discarded(w, v),
         NEW e \in DOMAIN v.buffers, NEW i \in DOMAIN FrameBytes, Fits(v.buffers[e].frames, i)
  PROVE  Fits(w.buffers[e].frames, i)
<1>1. PICK a, b, k, l : /\ a = Len(v.buffers[e].frames) /\ b = Bytes(v.buffers[e].frames)
                        /\ k = Len(w.buffers[e].frames) /\ l = Bytes(w.buffers[e].frames)
  OBVIOUS
<1>2. e \in DOMAIN w.buffers
  BY DEF Discarded
<1>3. a \in Nat /\ b \in Nat /\ k \in Nat /\ l \in Nat
  BY <1>1, <1>2, BufferFacts
<1>4. k <= a /\ l <= b
  BY <1>1 DEF Discarded
<1>5. a + 1 <= MaxFrameSets /\ b + FrameBytes[i] <= MaxBytes
  BY <1>1 DEF Fits
<1>6. k + 1 <= MaxFrameSets /\ l + FrameBytes[i] <= MaxBytes
  BY <1>3, <1>4, <1>5, Sizes
<1>7. QED
  BY <1>1, <1>6 DEF Fits

LEMMA WithRoomKeeps ==
  ASSUME NEW v, StoreGood(v), NEW e \in DOMAIN v.buffers, NEW i \in DOMAIN FrameBytes,
         FrameBytes[i] <= MaxBytes, NEW w, w = WithRoom(v, e, i)
  PROVE  StoreGood(w) /\ Discarded(w, v) /\ Fits(w.buffers[e].frames, i)
<1>1. PICK u : u = DropOwn(v, e, i)
  OBVIOUS
<1>2. StoreGood(u) /\ Discarded(u, v) /\ Fits(u.buffers[e].frames, i)
  BY <1>1, DropOwnKeeps
<1>3. w = DropGlobal(u, i)
  BY <1>1 DEF WithRoom
<1>4. StoreGood(w) /\ Discarded(w, u)
  BY <1>2, <1>3, DropGlobalKeeps
<1>5. Discarded(w, v)
  BY <1>2, <1>4, DiscardedTwice
<1>6. e \in DOMAIN u.buffers
  BY <1>2 DEF Discarded
<1>7. Fits(w.buffers[e].frames, i)
  BY <1>2, <1>4, <1>6, FitsStill
<1>8. QED
  BY <1>4, <1>5, <1>7

LEMMA FramesLonger ==
  ASSUME NEW first \in Nat, NEW frames, Numbered(frames, first), NEW i \in DOMAIN FrameBytes,
         i = first + Len(frames)
  PROVE  /\ Numbered(Append(frames, i), first) /\ Len(Append(frames, i)) = Len(frames) + 1
         /\ Bytes(Append(frames, i)) = Bytes(frames) + FrameBytes[i]
<1>1. /\ frames \in Seq(DOMAIN FrameBytes) /\ Len(frames) \in Nat
      /\ \A n \in 1 .. Len(frames) : frames[n] = first + n - 1
  BY DEF Numbered
<1>2. PICK longer : longer = Append(frames, i)
  OBVIOUS
<1>3. /\ longer \in Seq(DOMAIN FrameBytes) /\ Len(longer) = Len(frames) + 1
      /\ longer[Len(frames) + 1] = i
      /\ \A n \in 1 .. Len(frames) : longer[n] = frames[n]
  BY <1>1, <1>2
<1>4. Numbered(longer, first)
  <2>1. \A n \in 1 .. Len(longer) : longer[n] = first + n - 1
    BY <1>1, <1>3
  <2>2. QED
    BY <1>3, <2>1 DEF Numbered
<1>5. /\ Range(frames) = first .. first + Len(frames) - 1
      /\ Range(longer) = first .. first + Len(longer) - 1
  BY <1>4, NumberedFrames
<1>6. IsFiniteSet(Range(longer)) /\ Natural(FrameBytes, Range(longer))
  BY <1>4, NumberedFrames
<1>7. Range(longer) = Range(frames) \cup {i} /\ i \notin Range(frames)
  BY <1>1, <1>3, <1>5
<1>8. Bytes(longer) = Bytes(frames) + FrameBytes[i]
  <2>1. PICK A, B : A = Range(frames) /\ B = Range(longer)
    OBVIOUS
  <2>2. i \in B /\ B \ {i} = A /\ IsFiniteSet(B) /\ Natural(FrameBytes, B)
    BY <1>6, <1>7, <2>1
  <2>3. /\ FrameBytes[i] \in Nat /\ SumFunctionOnSet(FrameBytes, A) \in Nat
        /\ SumFunctionOnSet(FrameBytes, B) = FrameBytes[i] + SumFunctionOnSet(FrameBytes, A)
    BY <2>2, SumWithout
  <2>4. QED
    BY <2>1, <2>3 DEF Bytes
<1>9. QED
  BY <1>2, <1>3, <1>4, <1>8

LEMMA EntryAppended ==
  ASSUME NEW D, NEW order \in Seq(Entries(D)), NEW e \in D, NEW i \in DOMAIN FrameBytes
  PROVE  /\ Append(order, <<e, i>>) \in Seq(Entries(D)) /\ Len(order) \in Nat
         /\ DOMAIN Append(order, <<e, i>>) = 1 .. Len(order) + 1
         /\ DOMAIN order = 1 .. Len(order)
         /\ Append(order, <<e, i>>)[Len(order) + 1] = <<e, i>>
         /\ \A n \in 1 .. Len(order) : Append(order, <<e, i>>)[n] = order[n]
<1>1. PICK x : x = <<e, i>>
  OBVIOUS
<1>2. x \in Entries(D)
  BY <1>1 DEF Entries
<1>3. /\ Append(order, x) \in Seq(Entries(D)) /\ Len(order) \in Nat
      /\ DOMAIN Append(order, x) = 1 .. Len(order) + 1 /\ DOMAIN order = 1 .. Len(order)
      /\ Append(order, x)[Len(order) + 1] = x
      /\ \A n \in 1 .. Len(order) : Append(order, x)[n] = order[n]
  BY <1>2
<1>4. QED
  BY <1>1, <1>3

\* A frame is appended, with its entry in the order.
LongerBuffer(b, i) == [b EXCEPT !.frames = Append(@, i), !.appended = @ + 1]
Longer(v, e, i) ==
  [v EXCEPT !.buffers[e] = LongerBuffer(v.buffers[e], i), !.total = @ + FrameBytes[i],
            !.order = Append(@, <<e, i>>)]

LEMMA FrameAppended ==
  ASSUME NEW v, StoreGood(v), NEW e \in DOMAIN v.buffers, NEW i \in DOMAIN FrameBytes,
         i = v.buffers[e].appended, NEW c, c = LongerBuffer(v.buffers[e], i),
         NEW w, w = Longer(v, e, i)
  PROVE  /\ StoreGood(w) /\ DOMAIN w.buffers = DOMAIN v.buffers
         /\ w.buffers[e] = c /\ c.closed = v.buffers[e].closed
         /\ c.appended = v.buffers[e].appended + 1
         /\ \A x \in DOMAIN v.buffers : x # e => w.buffers[x] = v.buffers[x]
         /\ w.total = v.total + FrameBytes[i]
         /\ Len(c.frames) = Len(v.buffers[e].frames) + 1
         /\ Bytes(c.frames) = Bytes(v.buffers[e].frames) + FrameBytes[i]
<1>1. PICK b, frames, first, longer, D, order :
        /\ b = v.buffers[e] /\ frames = b.frames /\ first = b.dropped
        /\ longer = Append(frames, i) /\ D = DOMAIN v.buffers /\ order = v.order
  OBVIOUS
<1>2. /\ BufferGood(b) /\ first \in Nat /\ Numbered(frames, first) /\ Len(frames) \in Nat
      /\ Bytes(frames) \in Nat /\ b.appended = first + Len(frames)
  BY <1>1, BufferFacts
<1>3. i = first + Len(frames) /\ e \in D /\ FrameBytes[i] \in Nat
  BY <1>1, <1>2, Sizes
<1>4. /\ Numbered(longer, first) /\ Len(longer) = Len(frames) + 1
      /\ Bytes(longer) = Bytes(frames) + FrameBytes[i] /\ Range(longer) = Range(frames) \cup {i}
  <2>1. i = first + Len(frames) /\ longer = Append(frames, i)
    BY <1>1, <1>3
  <2>2. /\ Numbered(Append(frames, i), first) /\ Len(Append(frames, i)) = Len(frames) + 1
        /\ Bytes(Append(frames, i)) = Bytes(frames) + FrameBytes[i]
    BY <1>2, <2>1, FramesLonger
  <2>3. Numbered(longer, first) /\ Len(longer) = Len(frames) + 1
    BY <2>1, <2>2
  <2>4. /\ Range(frames) = first .. first + Len(frames) - 1
        /\ Range(longer) = first .. first + Len(longer) - 1
    BY <1>2, <2>3, NumberedFrames
  <2>5. Range(longer) = Range(frames) \cup {i}
    BY <1>2, <2>1, <2>3, <2>4
  <2>6. QED
    BY <2>1, <2>2, <2>5
<1>5. /\ DOMAIN c = BufferFields /\ c.frames = longer /\ c.dropped = first
      /\ c.appended = b.appended + 1 /\ c.closed = b.closed
  BY <1>1, <1>2 DEF LongerBuffer, BufferGood, BufferFields
<1>6. BufferGood(c)
  <2>1. b.appended + 1 = first + (Len(frames) + 1)
    BY <1>2
  <2>2. QED
    BY <1>2, <1>4, <1>5, <2>1 DEF BufferGood
<1>7. /\ DOMAIN w = {"buffers", "total", "order"} /\ w.buffers = [v.buffers EXCEPT ![e] = c]
      /\ w.total = v.total + FrameBytes[i] /\ w.order = Append(order, <<e, i>>)
  BY <1>1 DEF Longer, StoreGood
<1>8. /\ DOMAIN w.buffers = D /\ w.buffers[e] = c
      /\ \A x \in D : x # e => w.buffers[x] = v.buffers[x]
  BY <1>1, <1>7
<1>9. \A x \in DOMAIN w.buffers : BufferGood(w.buffers[x])
  BY <1>1, <1>6, <1>8 DEF StoreGood
<1>10. AllNumbered(v) /\ AllNumbered(w)
  <2>1. ASSUME NEW x \in DOMAIN w.buffers PROVE Bytes(w.buffers[x].frames) \in Nat
    BY <1>9, NumberedFrames DEF BufferGood
  <2>2. QED
    BY <2>1, AllAreNumbered DEF AllNumbered
<1>11. Accounted(w)
  <2>1. IsFiniteSet(D) /\ v.total = Held(v, D)
    BY <1>1 DEF StoreGood, Accounted
  <2>2. /\ Held(v, D) \in Nat /\ Held(w, D) \in Nat
        /\ Held(w, D) = Held(v, D) - Bytes(v.buffers[e].frames) + Bytes(w.buffers[e].frames)
    <3>1. IsFiniteSet(DOMAIN v.buffers) /\ ChangedAt(v, w, e)
      BY <1>1, <1>8, <2>1 DEF ChangedAt
    <3>2. /\ Held(v, DOMAIN v.buffers) \in Nat /\ Held(w, DOMAIN v.buffers) \in Nat
          /\ Held(w, DOMAIN v.buffers) = Held(v, DOMAIN v.buffers)
               - Bytes(v.buffers[e].frames) + Bytes(w.buffers[e].frames)
      BY <1>10, <3>1, HeldChanged
    <3>3. QED
      BY <1>1, <3>2
  <2>3. PICK a, d, k, l, m : /\ a = Held(v, D) /\ d = Held(w, D)
                             /\ k = Bytes(frames) /\ l = Bytes(longer) /\ m = FrameBytes[i]
    OBVIOUS
  <2>4. a \in Nat /\ d \in Nat /\ k \in Nat /\ m \in Nat /\ l = k + m /\ d = a - k + l
    BY <1>1, <1>2, <1>3, <1>4, <1>5, <1>8, <2>2, <2>3
  <2>5. d = a + m
    BY <2>4
  <2>6. QED
    BY <1>7, <1>8, <2>1, <2>3, <2>5 DEF Accounted
<1>12. order \in Seq(Entries(D))
  BY <1>1, Zenon DEF StoreGood, OrderGood
<1>13. PICK after : after = Append(order, <<e, i>>)
  OBVIOUS
<1>14. /\ after \in Seq(Entries(D)) /\ Len(order) \in Nat
       /\ DOMAIN after = 1 .. Len(order) + 1 /\ DOMAIN order = 1 .. Len(order)
       /\ after[Len(order) + 1] = <<e, i>> /\ \A n \in 1 .. Len(order) : after[n] = order[n]
  BY <1>3, <1>12, <1>13, EntryAppended
<1>15. /\ \A n \in DOMAIN order : order[n][2] < v.buffers[order[n][1]].appended
       /\ \A m, n \in DOMAIN order :
            m < n /\ order[m][1] = order[n][1] => order[m][2] < order[n][2]
       /\ \A x \in D : \A j \in Range(v.buffers[x].frames) : <<x, j>> \in Range(order)
  BY <1>1 DEF StoreGood, OrderGood
<1>16. ASSUME NEW n \in DOMAIN order
       PROVE  order[n][1] \in D /\ order[n][2] \in Nat /\ after[n] = order[n]
  BY <1>12, <1>14, OrderEntries, Sizes
<1>17. ASSUME NEW n \in DOMAIN after PROVE after[n][2] < w.buffers[after[n][1]].appended
  <2>1. CASE n = Len(order) + 1
    <3>1. after[n][1] = e /\ after[n][2] = i
      BY <1>14, <2>1
    <3>2. i < i + 1
      BY <1>2, <1>3
    <3>3. QED
      BY <1>1, <1>5, <1>8, <3>1, <3>2
  <2>2. CASE n # Len(order) + 1
    <3>1. n \in DOMAIN order
      BY <1>14, <2>2
    <3>2. PICK x, j : x = order[n][1] /\ j = order[n][2]
      OBVIOUS
    <3>3. x \in D /\ j \in Nat /\ after[n] = order[n] /\ j < v.buffers[x].appended
      BY <1>15, <1>16, <3>1, <3>2
    <3>4. j < w.buffers[x].appended
      <4>1. CASE x = e
        <5>1. w.buffers[x].appended = i + 1 /\ v.buffers[x].appended = i
          BY <1>1, <1>5, <1>8, <4>1
        <5>2. j < i /\ i \in Nat
          BY <1>2, <1>3, <3>3, <5>1
        <5>3. QED
          BY <3>3, <5>1, <5>2
      <4>2. CASE x # e
        BY <1>8, <3>3, <4>2
      <4>3. QED
        BY <4>1, <4>2
    <3>5. QED
      BY <3>2, <3>3, <3>4
  <2>3. QED
    BY <2>1, <2>2
<1>18. ASSUME NEW m \in DOMAIN after, NEW n \in DOMAIN after, m < n, after[m][1] = after[n][1]
       PROVE  after[m][2] < after[n][2]
  <2>1. m \in DOMAIN order
    BY <1>14, <1>18
  <2>2. CASE n = Len(order) + 1
    <3>1. after[n][1] = e /\ after[n][2] = i
      BY <1>14, <2>2
    <3>2. order[m][1] = e /\ order[m][2] < b.appended
      BY <1>1, <1>15, <1>16, <1>18, <2>1, <3>1
    <3>3. QED
      BY <1>1, <1>16, <2>1, <3>1, <3>2
  <2>3. CASE n # Len(order) + 1
    <3>1. n \in DOMAIN order
      BY <1>14, <2>3
    <3>2. QED
      BY <1>15, <1>16, <1>18, <2>1, <3>1
  <2>4. QED
    BY <2>2, <2>3
<1>19. ASSUME NEW x \in D, NEW j \in Range(w.buffers[x].frames) PROVE <<x, j>> \in Range(after)
  <2>1. CASE x = e /\ j = i
    <3>1. Len(order) + 1 \in DOMAIN after
      BY <1>14
    <3>2. QED
      BY <1>14, <2>1, <3>1 DEF Range
  <2>2. CASE ~(x = e /\ j = i)
    <3>1. j \in Range(v.buffers[x].frames)
      BY <1>1, <1>4, <1>5, <1>8, <2>2
    <3>2. <<x, j>> \in Range(order)
      BY <1>15, <3>1
    <3>3. PICK n \in DOMAIN order : order[n] = <<x, j>>
      BY <3>2 DEF Range
    <3>4. n \in DOMAIN after /\ after[n] = <<x, j>>
      BY <1>14, <3>3
    <3>5. QED
      BY <3>4 DEF Range
  <2>3. QED
    BY <2>1, <2>2
<1>20. OrderGood(w)
  <2>1. w.order = after /\ DOMAIN w.buffers = D
    BY <1>7, <1>8, <1>13
  <2>2. w.order \in Seq(Entries(DOMAIN w.buffers))
    BY <1>14, <2>1
  <2>3. /\ \A n \in DOMAIN w.order : w.order[n][2] < w.buffers[w.order[n][1]].appended
        /\ \A m, n \in DOMAIN w.order :
             m < n /\ w.order[m][1] = w.order[n][1] => w.order[m][2] < w.order[n][2]
    BY <1>17, <1>18, <2>1
  <2>4. \A x \in DOMAIN w.buffers : \A j \in Range(w.buffers[x].frames) :
          <<x, j>> \in Range(w.order)
    BY <1>19, <2>1
  <2>5. QED
    BY <2>2, <2>3, <2>4, Zenon DEF OrderGood
<1>21. StoreGood(w)
  BY <1>7, <1>9, <1>11, <1>20 DEF StoreGood
<1>22. QED
  BY <1>1, <1>4, <1>5, <1>7, <1>8, <1>21

\* A frame that is accepted is appended within the limits.
LEMMA AppendedKeeps ==
  ASSUME NEW v, StoreGood(v), Limits(v), NEW e \in DOMAIN v.buffers, NEW i \in DOMAIN FrameBytes,
         i = v.buffers[e].appended, Accepts(v, e, i), NEW w, w = VideoAppended(v, e, i)
  PROVE  /\ StoreGood(w) /\ Limits(w) /\ DOMAIN w.buffers = DOMAIN v.buffers
         /\ \A x \in DOMAIN v.buffers : w.buffers[x].closed = v.buffers[x].closed
         /\ \A x \in DOMAIN v.buffers : x # e => w.buffers[x].appended = v.buffers[x].appended
         /\ w.buffers[e].appended = i + 1
<1>1. PICK u : u = WithRoom(v, e, i)
  OBVIOUS
<1>2. FrameBytes[i] <= MaxBytes /\ u.total + FrameBytes[i] <= MaxTotalBytes
  BY <1>1 DEF Accepts
<1>3. StoreGood(u) /\ Discarded(u, v) /\ Fits(u.buffers[e].frames, i)
  BY <1>1, <1>2, WithRoomKeeps
<1>4. /\ e \in DOMAIN u.buffers /\ DOMAIN u.buffers = DOMAIN v.buffers
      /\ u.buffers[e].appended = i
      /\ \A x \in DOMAIN v.buffers : /\ u.buffers[x].appended = v.buffers[x].appended
                                      /\ u.buffers[x].closed = v.buffers[x].closed
  BY <1>3 DEF Discarded
<1>5. PICK c : c = LongerBuffer(u.buffers[e], i)
  OBVIOUS
<1>6. w = Longer(u, e, i)
  BY <1>1 DEF VideoAppended, Longer, LongerBuffer
<1>7. /\ StoreGood(w) /\ DOMAIN w.buffers = DOMAIN u.buffers
      /\ w.buffers[e] = c /\ c.appended = u.buffers[e].appended + 1
      /\ c.closed = u.buffers[e].closed
      /\ \A x \in DOMAIN u.buffers : x # e => w.buffers[x] = u.buffers[x]
      /\ w.total = u.total + FrameBytes[i]
      /\ Len(c.frames) = Len(u.buffers[e].frames) + 1
      /\ Bytes(c.frames) = Bytes(u.buffers[e].frames) + FrameBytes[i]
  BY <1>3, <1>4, <1>5, <1>6, FrameAppended
<1>8. ASSUME NEW x \in DOMAIN v.buffers
      PROVE  Len(w.buffers[x].frames) <= MaxFrameSets /\ Bytes(w.buffers[x].frames) <= MaxBytes
  <2>1. CASE x = e
    BY <1>3, <1>7, <2>1 DEF Fits
  <2>2. CASE x # e
    <3>1. /\ Len(u.buffers[x].frames) <= Len(v.buffers[x].frames)
          /\ Bytes(u.buffers[x].frames) <= Bytes(v.buffers[x].frames)
          /\ Len(v.buffers[x].frames) <= MaxFrameSets /\ Bytes(v.buffers[x].frames) <= MaxBytes
      BY <1>3 DEF Discarded, Limits
    <3>2. /\ Len(u.buffers[x].frames) \in Nat /\ Bytes(u.buffers[x].frames) \in Nat
          /\ Len(v.buffers[x].frames) \in Nat /\ Bytes(v.buffers[x].frames) \in Nat
      BY <1>3, <1>4, BufferFacts
    <3>3. \A a, b, m \in Nat : a <= b /\ b <= m => a <= m
      OBVIOUS
    <3>4. Len(u.buffers[x].frames) <= MaxFrameSets /\ Bytes(u.buffers[x].frames) <= MaxBytes
      <4>1. MaxFrameSets \in Nat /\ MaxBytes \in Nat
        BY Sizes
      <4>2. QED
        BY <3>1, <3>2, <3>3, <4>1, Zenon
    <3>5. w.buffers[x] = u.buffers[x]
      BY <1>4, <1>7, <2>2
    <3>6. QED
      BY <3>4, <3>5
  <2>3. QED
    BY <2>1, <2>2
<1>9. Limits(w)
  BY <1>2, <1>4, <1>7, <1>8 DEF Limits
<1>10. QED
  BY <1>4, <1>7, <1>9

LEMMA NewBufferGood == BufferGood(NewBuffer) /\ NewBuffer.frames = <<>> /\ NewBuffer.appended = 0
<1>1. /\ DOMAIN NewBuffer = BufferFields /\ NewBuffer.frames = <<>> /\ NewBuffer.appended = 0
      /\ NewBuffer.dropped = 0
  BY DEF NewBuffer, BufferFields
<1>2. Numbered(<<>>, 0)
  BY DEF Numbered
<1>3. QED
  BY <1>1, <1>2, NoFrames DEF BufferGood

LEMMA EntriesMore ==
  ASSUME NEW D, NEW E, D \subseteq E, NEW order \in Seq(Entries(D))
  PROVE  order \in Seq(Entries(E))
<1>1. Entries(D) \subseteq Entries(E)
  BY DEF Entries
<1>2. QED
  BY <1>1

\* An episode that has no buffer gets an empty one.
LEMMA StartedKeeps ==
  ASSUME NEW v, StoreGood(v), Limits(v), NEW e, e \notin DOMAIN v.buffers,
         NEW w, w = VideoStarted(v, e)
  PROVE  /\ StoreGood(w) /\ Limits(w) /\ DOMAIN w.buffers = DOMAIN v.buffers \cup {e}
         /\ w.buffers[e].appended = 0
         /\ \A x \in DOMAIN v.buffers : x # e /\ w.buffers[x] = v.buffers[x]
<1>1. PICK D, E, order : D = DOMAIN v.buffers /\ E = D \cup {e} /\ order = v.order
  OBVIOUS
<1>2. /\ DOMAIN w = {"buffers", "total", "order"} /\ w.total = v.total /\ w.order = order
      /\ w.buffers = [x \in E |-> IF x = e THEN NewBuffer ELSE v.buffers[x]]
  BY <1>1 DEF VideoStarted, StoreGood
<1>3. /\ DOMAIN w.buffers = E /\ w.buffers[e] = NewBuffer /\ e \notin D /\ e \in E
      /\ \A x \in D : x # e /\ x \in E /\ w.buffers[x] = v.buffers[x]
  BY <1>1, <1>2
<1>4. \A x \in DOMAIN w.buffers : BufferGood(w.buffers[x])
  BY <1>1, <1>3, NewBufferGood DEF StoreGood
<1>5. Accounted(w)
  <2>1. IsFiniteSet(D) /\ v.total = Held(v, D)
    BY <1>1 DEF StoreGood, Accounted
  <2>2. IsFiniteSet(E)
    BY <1>1, <2>1, FS_AddElement
  <2>3. PICK f, g : f = BytesOf(v) /\ g = BytesOf(w)
    OBVIOUS
  <2>4. g[e] = 0 /\ \A x \in D : g[x] = f[x]
    BY <1>1, <1>3, <2>3, NewBufferGood, NoFrames DEF BytesOf
  <2>5. Natural(f, D)
    BY <1>1, <2>3, AllAreNumbered, BytesNatural
  <2>6. Natural(g, E)
    BY <1>1, <2>4, <2>5 DEF Natural
  <2>7. e \in E /\ E \ {e} = D
    BY <1>1, <1>3
  <2>8. SumFunctionOnSet(g, D) \in Nat /\ SumFunctionOnSet(g, E) = g[e] + SumFunctionOnSet(g, D)
    BY <2>2, <2>6, <2>7, SumWithout
  <2>9. SumFunctionOnSet(g, D) = SumFunctionOnSet(f, D)
    BY <2>1, <2>4, <2>5, SumOfSame
  <2>10. SumFunctionOnSet(g, E) = SumFunctionOnSet(f, D)
    <3>1. \A n \in Nat : 0 + n = n
      OBVIOUS
    <3>2. QED
      BY <2>4, <2>8, <2>9, <3>1
  <2>11. QED
    BY <1>2, <1>3, <2>1, <2>2, <2>3, <2>10, HeldIs DEF Accounted
<1>6. OrderGood(w)
  <2>1. order \in Seq(Entries(D))
    BY <1>1, Zenon DEF StoreGood, OrderGood
  <2>2. w.order \in Seq(Entries(DOMAIN w.buffers))
    <3>1. D \subseteq E
      BY <1>1
    <3>2. order \in Seq(Entries(E))
      BY <2>1, <3>1, EntriesMore
    <3>3. QED
      BY <1>2, <1>3, <3>2
  <2>3. /\ \A n \in DOMAIN order : order[n][2] < v.buffers[order[n][1]].appended
        /\ \A m, n \in DOMAIN order :
             m < n /\ order[m][1] = order[n][1] => order[m][2] < order[n][2]
        /\ \A x \in D : \A j \in Range(v.buffers[x].frames) : <<x, j>> \in Range(order)
    BY <1>1 DEF StoreGood, OrderGood
  <2>4. \A n \in DOMAIN w.order : w.order[n][2] < w.buffers[w.order[n][1]].appended
    <3>1. \A n \in DOMAIN order : order[n][1] \in D
      BY <2>1, OrderEntries
    <3>2. QED
      BY <1>2, <1>3, <2>3, <3>1
  <2>5. \A m, n \in DOMAIN w.order :
          m < n /\ w.order[m][1] = w.order[n][1] => w.order[m][2] < w.order[n][2]
    BY <1>2, <2>3
  <2>6. \A x \in DOMAIN w.buffers : \A j \in Range(w.buffers[x].frames) :
          <<x, j>> \in Range(w.order)
    BY <1>1, <1>2, <1>3, <2>3, NewBufferGood, NoFrames
  <2>7. QED
    BY <2>2, <2>4, <2>5, <2>6, Zenon DEF OrderGood
<1>7. StoreGood(w)
  BY <1>2, <1>4, <1>5, <1>6 DEF StoreGood
<1>8. Limits(w)
  <2>1. 0 <= MaxFrameSets /\ 0 <= MaxBytes
    BY Sizes
  <2>2. ASSUME NEW x \in E
        PROVE  Len(w.buffers[x].frames) <= MaxFrameSets /\ Bytes(w.buffers[x].frames) <= MaxBytes
    <3>1. CASE x = e
      BY <1>3, <2>1, <3>1, NewBufferGood, NoFrames
    <3>2. CASE x # e
      <4>1. x \in D
        BY <1>1, <3>2
      <4>2. QED
        BY <1>1, <1>3, <4>1 DEF Limits
    <3>3. QED
      BY <3>1, <3>2
  <2>3. QED
    BY <1>2, <1>3, <2>2 DEF Limits
<1>9. QED
  BY <1>1, <1>3, <1>7, <1>8, NewBufferGood

\* Closing a buffer changes no frame.
LEMMA FinishedKeeps ==
  ASSUME NEW v, StoreGood(v), Limits(v), NEW e \in DOMAIN v.buffers,
         NEW w, w = VideoFinished(v, e)
  PROVE  /\ StoreGood(w) /\ Limits(w) /\ DOMAIN w.buffers = DOMAIN v.buffers
         /\ w.buffers[e].closed /\ w.buffers[e].appended = v.buffers[e].appended
         /\ \A x \in DOMAIN v.buffers : x # e => w.buffers[x] = v.buffers[x]
<1>1. PICK D, b, c : D = DOMAIN v.buffers /\ b = v.buffers[e] /\ c = [b EXCEPT !.closed = TRUE]
  OBVIOUS
<1>2. /\ DOMAIN w = {"buffers", "total", "order"} /\ w.total = v.total /\ w.order = v.order
      /\ w.buffers = [v.buffers EXCEPT ![e] = c]
  BY <1>1 DEF VideoFinished, StoreGood
<1>3. BufferGood(b)
  BY <1>1, BufferFacts
<1>4. /\ DOMAIN c = BufferFields /\ c.frames = b.frames /\ c.dropped = b.dropped
      /\ c.appended = b.appended /\ c.closed
  BY <1>1, <1>3 DEF BufferGood, BufferFields
<1>5. BufferGood(c)
  BY <1>3, <1>4 DEF BufferGood
<1>6. /\ DOMAIN w.buffers = D
      /\ \A x \in D : /\ w.buffers[x].frames = v.buffers[x].frames
                      /\ w.buffers[x].appended = v.buffers[x].appended
                      /\ BufferGood(w.buffers[x])
  BY <1>1, <1>2, <1>4, <1>5 DEF StoreGood
<1>7. Accounted(w)
  <2>1. BytesOf(w) = BytesOf(v)
    BY <1>1, <1>6 DEF BytesOf
  <2>2. Held(w, D) = Held(v, D)
    BY <2>1, HeldIs
  <2>3. IsFiniteSet(D) /\ v.total = Held(v, D)
    BY <1>1 DEF StoreGood, Accounted
  <2>4. QED
    BY <1>2, <1>6, <2>2, <2>3 DEF Accounted
<1>8. OrderGood(w)
  <2>1. OrderGood(v)
    BY DEF StoreGood
  <2>2. /\ w.order = v.order /\ DOMAIN w.buffers = DOMAIN v.buffers
        /\ \A x \in DOMAIN v.buffers : /\ w.buffers[x].appended = v.buffers[x].appended
                                       /\ Range(w.buffers[x].frames) \subseteq Range(v.buffers[x].frames)
    BY <1>1, <1>2, <1>6
  <2>3. QED
    BY <2>1, <2>2, OrderKept
<1>9. StoreGood(w)
  BY <1>2, <1>6, <1>7, <1>8 DEF StoreGood
<1>10. Limits(w)
  BY <1>1, <1>2, <1>6 DEF Limits
<1>11. QED
  BY <1>1, <1>2, <1>4, <1>6, <1>9, <1>10

LEMMA EntriesFewer ==
  ASSUME NEW D, NEW gone, NEW order \in Seq(Entries(D)),
         Range(order) \cap (gone \X DOMAIN FrameBytes) = {}
  PROVE  order \in Seq(Entries(D \ gone))
<1>1. Len(order) \in Nat /\ DOMAIN order = 1 .. Len(order)
  OBVIOUS
<1>2. ASSUME NEW n \in DOMAIN order PROVE order[n] \in Entries(D \ gone)
  <2>1. /\ order[n] \in Range(order) /\ order[n][1] \in D /\ order[n][2] \in DOMAIN FrameBytes
        /\ order[n] = <<order[n][1], order[n][2]>>
    BY OrderEntries
  <2>2. order[n][1] \notin gone
    BY <2>1
  <2>3. QED
    BY <2>1, <2>2 DEF Entries
<1>3. PICK S, U : S = Entries(D) /\ U = Entries(D \ gone)
  OBVIOUS
<1>4. order \in Seq(S) /\ \A n \in 1 .. Len(order) : order[n] \in U
  BY <1>1, <1>2, <1>3
<1>5. order \in Seq(U)
  BY <1>1, <1>4
<1>6. QED
  BY <1>3, <1>5

\* The entries of the order left to other episodes keep their order.
LEMMA OrderLeft ==
  ASSUME NEW v, OrderGood(v), NEW gone, NEW w,
         w.order = Without(v.order, gone \X DOMAIN FrameBytes),
         DOMAIN w.buffers = DOMAIN v.buffers \ gone,
         \A x \in DOMAIN v.buffers \ gone : w.buffers[x] = v.buffers[x]
  PROVE  OrderGood(w)
<1>1. PICK D, order, left, taken : /\ D = DOMAIN v.buffers /\ order = v.order /\ left = w.order
                                   /\ taken = gone \X DOMAIN FrameBytes
  OBVIOUS
<1>2. order \in Seq(Entries(D))
  BY <1>1, Zenon DEF OrderGood
<1>3. left = Without(order, taken)
  BY <1>1
<1>4. /\ left \in Seq(Entries(D)) /\ Range(left) = Range(order) \ taken
      /\ InOrder(left, order, Len(order))
  BY <1>2, <1>3, WhatIsKept
<1>5. left \in Seq(Entries(D \ gone))
  BY <1>1, <1>4, EntriesFewer
<1>6. /\ \A n \in DOMAIN order : order[n][2] < v.buffers[order[n][1]].appended
      /\ \A m, n \in DOMAIN order :
           m < n /\ order[m][1] = order[n][1] => order[m][2] < order[n][2]
      /\ \A x \in D : \A j \in Range(v.buffers[x].frames) : <<x, j>> \in Range(order)
  BY <1>1 DEF OrderGood
<1>7. DOMAIN order = 1 .. Len(order) /\ Len(order) \in Nat
  BY <1>2
<1>8. ASSUME NEW n \in DOMAIN left PROVE left[n][2] < w.buffers[left[n][1]].appended
  <2>1. left[n] \in Range(left) /\ left[n][1] \in D \ gone
    BY <1>5, OrderEntries
  <2>2. left[n] \in Range(order)
    BY <1>4, <2>1
  <2>3. PICK m \in DOMAIN order : order[m] = left[n]
    BY <2>2 DEF Range
  <2>4. w.buffers[left[n][1]] = v.buffers[left[n][1]]
    BY <1>1, <2>1
  <2>5. QED
    BY <1>6, <2>3, <2>4
<1>9. ASSUME NEW m \in DOMAIN left, NEW n \in DOMAIN left, m < n, left[m][1] = left[n][1]
      PROVE  left[m][2] < left[n][2]
  <2>1. PICK c \in 1 .. Len(order), d \in 1 .. Len(order) :
          c < d /\ left[m] = order[c] /\ left[n] = order[d]
    BY <1>4, <1>9 DEF InOrder
  <2>2. QED
    BY <1>6, <1>7, <1>9, <2>1
<1>10. ASSUME NEW x \in D \ gone, NEW j \in Range(w.buffers[x].frames)
       PROVE  <<x, j>> \in Range(left)
  <2>1. <<x, j>> \in Range(order)
    BY <1>1, <1>6
  <2>2. <<x, j>> \notin taken
    BY <1>1
  <2>3. QED
    BY <1>4, <2>1, <2>2
<1>11. w.order = left /\ DOMAIN w.buffers = D \ gone
  BY <1>1
<1>12. w.order \in Seq(Entries(DOMAIN w.buffers))
  BY <1>5, <1>11
<1>13. /\ \A n \in DOMAIN w.order : w.order[n][2] < w.buffers[w.order[n][1]].appended
       /\ \A m, n \in DOMAIN w.order :
            m < n /\ w.order[m][1] = w.order[n][1] => w.order[m][2] < w.order[n][2]
  BY <1>8, <1>9, <1>11
<1>14. \A x \in DOMAIN w.buffers : \A j \in Range(w.buffers[x].frames) :
         <<x, j>> \in Range(w.order)
  BY <1>10, <1>11
<1>15. QED
  BY <1>12, <1>13, <1>14, Zenon DEF OrderGood

\* The buffers of the episodes gone are given up whole.
LEMMA DiscardedKeeps ==
  ASSUME NEW v, StoreGood(v), Limits(v), NEW gone, NEW w, w = VideoDiscarded(v, gone)
  PROVE  /\ StoreGood(w) /\ Limits(w) /\ DOMAIN w.buffers = DOMAIN v.buffers \ gone
         /\ \A x \in DOMAIN v.buffers \ gone : w.buffers[x] = v.buffers[x]
<1>1. PICK D, T, E : D = DOMAIN v.buffers /\ T = gone \cap D /\ E = D \ gone
  OBVIOUS
<1>2. /\ DOMAIN w = {"buffers", "total", "order"} /\ w.total = v.total - Held(v, T)
      /\ w.order = Without(v.order, gone \X DOMAIN FrameBytes)
      /\ w.buffers = [e \in E |-> v.buffers[e]]
  BY <1>1 DEF VideoDiscarded
<1>3. DOMAIN w.buffers = E /\ \A x \in E : x \in D /\ w.buffers[x] = v.buffers[x]
  BY <1>1, <1>2
<1>4. \A x \in DOMAIN w.buffers : BufferGood(w.buffers[x])
  BY <1>1, <1>3 DEF StoreGood
<1>5. Accounted(w) /\ w.total <= v.total
  <2>1. IsFiniteSet(D) /\ v.total = Held(v, D)
    BY <1>1 DEF StoreGood, Accounted
  <2>2. PICK f, g : f = BytesOf(v) /\ g = BytesOf(w)
    OBVIOUS
  <2>3. Natural(f, D) /\ T \subseteq D /\ D \ T = E /\ E \subseteq D
    BY <1>1, <2>2, AllAreNumbered, BytesNatural
  <2>4. /\ SumFunctionOnSet(f, T) \in Nat /\ SumFunctionOnSet(f, D) \in Nat
        /\ SumFunctionOnSet(f, E) \in Nat
        /\ SumFunctionOnSet(f, D) = SumFunctionOnSet(f, T) + SumFunctionOnSet(f, E)
    BY <2>1, <2>3, SumOfSome
  <2>5. IsFiniteSet(E) /\ Natural(f, E)
    BY <2>1, <2>3, FS_Subset DEF Natural
  <2>6. \A x \in E : g[x] = f[x]
    BY <1>1, <1>3, <2>2 DEF BytesOf
  <2>7. SumFunctionOnSet(g, E) = SumFunctionOnSet(f, E)
    BY <2>5, <2>6, SumOfSame
  <2>8. /\ Held(v, T) = SumFunctionOnSet(f, T) /\ Held(v, D) = SumFunctionOnSet(f, D)
        /\ Held(w, E) = SumFunctionOnSet(g, E)
    BY <2>2, HeldIs
  <2>9. PICK a, b, c : /\ a = SumFunctionOnSet(f, D) /\ b = SumFunctionOnSet(f, T)
                       /\ c = SumFunctionOnSet(f, E)
    OBVIOUS
  <2>10. a \in Nat /\ b \in Nat /\ c \in Nat /\ a = b + c /\ v.total = a /\ w.total = a - b
         /\ Held(w, E) = c
    BY <1>2, <2>1, <2>4, <2>7, <2>8, <2>9
  <2>11. a - b = c /\ c <= a
    BY <2>10
  <2>12. QED
    BY <1>3, <2>5, <2>10, <2>11 DEF Accounted
<1>6. OrderGood(w)
  <2>1. OrderGood(v)
    BY DEF StoreGood
  <2>2. /\ w.order = Without(v.order, gone \X DOMAIN FrameBytes)
        /\ DOMAIN w.buffers = DOMAIN v.buffers \ gone
        /\ \A x \in DOMAIN v.buffers \ gone : w.buffers[x] = v.buffers[x]
    BY <1>1, <1>2, <1>3
  <2>3. QED
    BY <2>1, <2>2, OrderLeft
<1>7. StoreGood(w)
  BY <1>2, <1>4, <1>5, <1>6 DEF StoreGood
<1>8. Limits(w)
  <2>1. w.total <= MaxTotalBytes
    <3>1. v.total <= MaxTotalBytes
      BY DEF Limits
    <3>2. v.total \in Nat /\ w.total \in Nat
      BY <1>7, TotalNatural
    <3>3. QED
      BY <1>5, <3>1, <3>2, Sizes
  <2>2. QED
    BY <1>1, <1>3, <2>1 DEF Limits
<1>9. QED
  BY <1>1, <1>3, <1>7, <1>8

-----------------------------------------------------------------------------
(* Rates: a tick every Ratio physics steps; frames are due at fractions.   *)

Ratio == PhysicsHz \div TelemetryHz

LEMMA Times ==
  ASSUME NEW a \in Int, NEW b \in Int, NEW c \in Nat \ {0}
  PROVE  /\ a * c \in Int /\ b * c \in Int
         /\ a <= b <=> a * c <= b * c
<1>1. a * c \in Int /\ b * c \in Int
  OBVIOUS
<1>2. a <= b => a * c <= b * c
  OBVIOUS
<1>3. ~(a <= b) => ~(a * c <= b * c)
  OBVIOUS
<1>4. QED
  BY <1>1, <1>2, <1>3

LEMMA Quotient ==
  ASSUME NEW a \in Nat, NEW b \in Nat \ {0}
  PROVE  /\ a \div b \in Nat /\ a % b \in 0 .. b - 1
         /\ a = (a \div b) * b + (a % b)
OBVIOUS

LEMMA Rates ==
  /\ MaxSteps \in Nat \ {0} /\ PhysicsHz \in Nat \ {0} /\ TelemetryHz \in Nat \ {0}
  /\ VideoHz \in Nat \ {0} /\ Ratio \in Nat \ {0} /\ PhysicsHz = Ratio * TelemetryHz
  /\ LastStep = MaxSteps + Ratio /\ LastStep \in Nat
<1>1. /\ MaxSteps \in Nat \ {0} /\ PhysicsHz \in Nat \ {0} /\ TelemetryHz \in Nat \ {0}
      /\ VideoHz \in Nat \ {0} /\ PhysicsHz % TelemetryHz = 0
  BY LiveAssumption DEF LiveAssumption
<1>2. /\ Ratio \in Nat
      /\ PhysicsHz = Ratio * TelemetryHz + (PhysicsHz % TelemetryHz)
  BY <1>1, Quotient DEF Ratio
<1>3. PhysicsHz = Ratio * TelemetryHz
  BY <1>1, <1>2
<1>4. Ratio # 0
  BY <1>1, <1>3
<1>5. LastStep = MaxSteps + Ratio
  BY DEF LastStep, Ratio
<1>6. QED
  BY <1>1, <1>2, <1>3, <1>4, <1>5

\* The n-th tick is due at step n * Ratio.
LEMMA TickTime ==
  ASSUME NEW n \in Nat, NEW s \in Nat
  PROVE  n * PhysicsHz <= s * TelemetryHz <=> n * Ratio <= s
<1>1. PICK a \in Nat : a = n * Ratio
  BY Rates
<1>2. n * PhysicsHz = a * TelemetryHz
  <2>1. n * (Ratio * TelemetryHz) = (n * Ratio) * TelemetryHz
    BY Rates
  <2>2. QED
    BY <1>1, <2>1, Rates
<1>3. a <= s <=> a * TelemetryHz <= s * TelemetryHz
  BY Rates, Times
<1>4. QED
  BY <1>1, <1>2, <1>3

\* A frame that precedes tick k is due at its step, and the other way round.
LEMMA FrameTime ==
  ASSUME NEW i \in Nat, NEW k \in Nat
  PROVE  i * TelemetryHz <= k * VideoHz <=> i * PhysicsHz <= (k * Ratio) * VideoHz
<1>1. PICK a \in Nat, b \in Nat : a = i * TelemetryHz /\ b = k * VideoHz
  BY Rates
<1>2. i * PhysicsHz = a * Ratio
  <2>1. i * (Ratio * TelemetryHz) = (i * TelemetryHz) * Ratio
    BY Rates
  <2>2. QED
    BY <1>1, <2>1, Rates
<1>3. (k * Ratio) * VideoHz = b * Ratio
  BY <1>1, Rates
<1>4. a <= b <=> a * Ratio <= b * Ratio
  BY Rates, Times
<1>5. QED
  BY <1>1, <1>2, <1>3, <1>4

\* What the first tick at or after a frame is.
LEMMA Assigned ==
  ASSUME NEW i \in Nat, NEW k \in Nat
  PROVE  AssignedTick(i) = k <=> i * TelemetryHz <= k * VideoHz /\ (k - 1) * VideoHz < i * TelemetryHz
<1>1. PICK a \in Nat : a = i * TelemetryHz
  BY Rates
<1>2. PICK m \in Nat : m = a + VideoHz - 1
  BY Rates
<1>3. PICK q \in Nat, r \in 0 .. VideoHz - 1 : q = m \div VideoHz /\ m = q * VideoHz + r
  BY <1>2, Rates, Quotient
<1>4. AssignedTick(i) = q
  BY <1>1, <1>2, <1>3 DEF AssignedTick
<1>5. q * VideoHz \in Nat /\ k * VideoHz \in Nat /\ (k - 1) * VideoHz = k * VideoHz - VideoHz
  BY Rates
<1>6. CASE q = k
  BY <1>1, <1>2, <1>3, <1>4, <1>5, <1>6, Rates
<1>7. CASE q # k
  <2>1. CASE q + 1 <= k
    <3>1. (q + 1) * VideoHz <= k * VideoHz
      BY <2>1, Rates, Times
    <3>2. (q + 1) * VideoHz = q * VideoHz + VideoHz
      BY Rates
    <3>3. QED
      BY <1>1, <1>2, <1>3, <1>4, <1>5, <1>7, <3>1, <3>2, Rates
  <2>2. CASE k + 1 <= q
    <3>1. (k + 1) * VideoHz <= q * VideoHz
      BY <2>2, Rates, Times
    <3>2. (k + 1) * VideoHz = k * VideoHz + VideoHz
      BY Rates
    <3>3. QED
      BY <1>1, <1>2, <1>3, <1>4, <1>5, <1>7, <3>1, <3>2, Rates
  <2>3. QED
    BY <1>7, <2>1, <2>2
<1>8. QED
  BY <1>6, <1>7

\* Every frame that is due before the last step is one of Frames.
LEMMA DueFrame ==
  ASSUME NEW i \in Nat, NEW s \in Nat, s <= LastStep, i * PhysicsHz <= s * VideoHz
  PROVE  i \in Frames
<1>1. PICK a \in Nat : a = LastStep * VideoHz
  BY Rates
<1>2. s * VideoHz <= a /\ s * VideoHz \in Nat
  BY <1>1, Rates, Times
<1>3. PICK q \in Nat, r \in 0 .. PhysicsHz - 1 : q = a \div PhysicsHz /\ a = q * PhysicsHz + r
  BY Rates, Quotient
<1>4. i * PhysicsHz <= a /\ i * PhysicsHz \in Nat /\ q * PhysicsHz \in Nat
  BY <1>2, Rates
<1>5. i <= q
  <2> SUFFICES ASSUME ~(i <= q) PROVE FALSE
    OBVIOUS
  <2>1. (q + 1) * PhysicsHz <= i * PhysicsHz
    <3>1. q + 1 <= i
      OBVIOUS
    <3>2. QED
      BY <3>1, Rates, Times
  <2>2. (q + 1) * PhysicsHz = q * PhysicsHz + PhysicsHz
    BY Rates
  <2>3. QED
    BY <1>3, <1>4, <2>1, <2>2, Rates
<1>6. QED
  BY <1>1, <1>3, <1>5 DEF Frames

-----------------------------------------------------------------------------
(* The clock of a run: what is captured, joined and recorded by then.      *)

RunFields == {"step", "index", "pending", "records", "reason"}
IsRun(r) == DOMAIN r = RunFields /\ r = [field \in RunFields |-> r[field]]
Records == [completed : BOOLEAN, frames : SUBSET Frames]

\* The frames of tick k.
Joinable(k) == {i \in Frames : i * TelemetryHz <= k * VideoHz /\ (k - 1) * VideoHz < i * TelemetryHz}

\* Frames were captured when they were due, and those of past ticks all were.
Captured(r) ==
  /\ \A i \in 0 .. r.index - 1 : i * PhysicsHz <= r.step * VideoHz
  /\ (Len(r.records) - 1) * VideoHz < r.index * TelemetryHz
PendingGood(r) ==
  r.pending = {i \in 0 .. r.index - 1 : (Len(r.records) - 1) * VideoHz < i * TelemetryHz}
RecordsGood(r) ==
  /\ r.records \in Seq(Records)
  /\ \A m \in 1 .. Len(r.records) : r.records[m].frames = Joinable(m - 1)
  /\ \A m \in 1 .. Len(r.records) - 1 : ~r.records[m].completed
RunGood(r) ==
  /\ IsRun(r) /\ r.step \in 0 .. LastStep /\ r.index \in Nat
  /\ r.reason \in Reasons \cup {NoReason}
  /\ Captured(r) /\ PendingGood(r) /\ RecordsGood(r)

\* Another run with the fields of this one but for some.
Keeps(q, r, fields) == IsRun(q) /\ \A f \in fields : q[f] = r[f]

LEMMA RunFacts ==
  ASSUME NEW r, RunGood(r)
  PROVE  /\ IsRun(r) /\ DOMAIN r = RunFields /\ r.step \in Nat /\ r.step <= LastStep /\ r.index \in Nat
         /\ r.reason \in Reasons \cup {NoReason} /\ r.records \in Seq(Records)
         /\ Len(r.records) \in Nat
         /\ Captured(r) /\ PendingGood(r) /\ RecordsGood(r)
<1>1. r.records \in Seq(Records)
  BY DEF RunGood, RecordsGood
<1>2. Len(r.records) \in Nat
  BY <1>1
<1>3. r.step \in Nat /\ r.step <= LastStep
  BY Rates DEF RunGood
<1>4. QED
  BY <1>1, <1>2, <1>3 DEF RunGood, IsRun

LEMMA NewRunGood == RunGood(NewRun)
<1>1. /\ IsRun(NewRun) /\ NewRun.step = 0 /\ NewRun.index = 0 /\ NewRun.pending = {}
      /\ NewRun.records = <<>> /\ NewRun.reason = NoReason
  BY DEF NewRun, RunFields, IsRun
<1>2. <<>> \in Seq(Records) /\ Len(<<>>) = 0
  OBVIOUS
<1>3. Captured(NewRun)
  BY <1>1, <1>2, Rates DEF Captured
<1>4. PendingGood(NewRun)
  BY <1>1, <1>2 DEF PendingGood
<1>5. RecordsGood(NewRun)
  BY <1>1, <1>2 DEF RecordsGood
<1>6. QED
  BY <1>1, <1>3, <1>4, <1>5, Rates DEF RunGood

\* Only the reason changes.
LEMMA Reasoned ==
  ASSUME NEW r, RunGood(r), NEW q, Keeps(q, r, {"step", "index", "pending", "records"}),
         q.reason \in Reasons \cup {NoReason}
  PROVE  RunGood(q)
<1>1. /\ IsRun(q) /\ q.step = r.step /\ q.index = r.index /\ q.pending = r.pending
      /\ q.records = r.records
  BY DEF Keeps
<1>2. Captured(q)
  BY <1>1, RunFacts DEF Captured
<1>3. PendingGood(q)
  BY <1>1, RunFacts DEF PendingGood
<1>4. RecordsGood(q)
  BY <1>1, RunFacts DEF RecordsGood
<1>5. QED
  BY <1>1, <1>2, <1>3, <1>4 DEF RunGood

\* A physics step.
LEMMA Stepped ==
  ASSUME NEW r, RunGood(r), NEW q, Keeps(q, r, {"index", "pending", "records"}),
         q.reason \in Reasons \cup {NoReason}, q.step = r.step + 1, r.step + 1 <= LastStep
  PROVE  RunGood(q)
<1>1. /\ IsRun(q) /\ q.index = r.index /\ q.pending = r.pending
      /\ q.records = r.records
  BY DEF Keeps
<1>2. Captured(q)
  <2>1. ASSUME NEW i \in 0 .. r.index - 1 PROVE i * PhysicsHz <= (r.step + 1) * VideoHz
    <3>1. i * PhysicsHz <= r.step * VideoHz
      BY RunFacts DEF Captured
    <3>2. i \in Nat /\ r.step \in Nat
      BY RunFacts
    <3>3. r.step * VideoHz <= (r.step + 1) * VideoHz
      BY <3>2, Rates, Times
    <3>4. i * PhysicsHz \in Nat /\ r.step * VideoHz \in Nat /\ (r.step + 1) * VideoHz \in Nat
      BY <3>2, Rates
    <3>5. QED
      BY <3>1, <3>3, <3>4
  <2>2. QED
    BY <1>1, <2>1, RunFacts DEF Captured
<1>3. PendingGood(q)
  BY <1>1, RunFacts DEF PendingGood
<1>4. RecordsGood(q)
  BY <1>1, RunFacts DEF RecordsGood
<1>5. q.step \in 0 .. LastStep
  BY RunFacts, Rates
<1>6. QED
  BY <1>1, <1>2, <1>3, <1>4, <1>5, RunFacts DEF RunGood

\* A frame that is due is one of Frames, and is pending when it is captured.
LEMMA DueIn ==
  ASSUME NEW r, RunGood(r), FrameDue(r)
  PROVE  r.index \in Frames
BY RunFacts, DueFrame DEF FrameDue

LEMMA CapturedMore ==
  ASSUME NEW r, RunGood(r), FrameDue(r), NEW q, Keeps(q, r, {"step", "records", "reason"}),
         q.index = r.index + 1, q.pending = r.pending \cup {r.index}
  PROVE  RunGood(q)
<1>1. IsRun(q) /\ q.step = r.step /\ q.records = r.records /\ q.reason = r.reason
  BY DEF Keeps
<1>2. PICK k, n : k = r.index /\ n = Len(r.records) - 1
  OBVIOUS
<1>3. k \in Nat /\ n \in Int
  BY <1>2, RunFacts
<1>4. 0 .. q.index - 1 = (0 .. k - 1) \cup {k}
  BY <1>2, <1>3
<1>5. k * PhysicsHz <= r.step * VideoHz /\ n * VideoHz < k * TelemetryHz
  BY <1>2, RunFacts DEF FrameDue, Captured
<1>6. k * TelemetryHz <= (k + 1) * TelemetryHz
  BY <1>3, Rates, Times
<1>7. n * VideoHz < (k + 1) * TelemetryHz
  <2>1. n * VideoHz \in Int /\ k * TelemetryHz \in Int /\ (k + 1) * TelemetryHz \in Int
    BY <1>3, Rates
  <2>2. QED
    BY <1>5, <1>6, <2>1
<1>8. Captured(q)
  BY <1>1, <1>2, <1>4, <1>5, <1>7, RunFacts DEF Captured
<1>9. PendingGood(q)
  <2>1. r.pending = {i \in 0 .. k - 1 : n * VideoHz < i * TelemetryHz}
    BY <1>2, RunFacts DEF PendingGood
  <2>2. q.pending = {i \in 0 .. q.index - 1 : n * VideoHz < i * TelemetryHz}
    BY <1>2, <1>4, <1>5, <2>1
  <2>3. QED
    BY <1>1, <1>2, <2>2 DEF PendingGood
<1>10. RecordsGood(q)
  BY <1>1, RunFacts DEF RecordsGood
<1>11. QED
  BY <1>1, <1>2, <1>3, <1>8, <1>9, <1>10, RunFacts DEF RunGood

\* The frames a tick is joined to are those that precede it and not the tick before.
LEMMA JoinedFrames ==
  ASSUME NEW r, RunGood(r), r.step = Len(r.records) * Ratio, ~FrameDue(r)
  PROVE  /\ Joined(r) = Joinable(Len(r.records))
         /\ Len(r.records) * VideoHz < r.index * TelemetryHz
<1>1. PICK n, k : n = Len(r.records) /\ k = r.index
  OBVIOUS
<1>2. n \in Nat /\ k \in Nat
  BY <1>1, RunFacts
<1>3. ~(k * PhysicsHz <= (n * Ratio) * VideoHz)
  BY <1>1 DEF FrameDue
<1>4. ~(k * TelemetryHz <= n * VideoHz)
  BY <1>2, <1>3, FrameTime
<1>5. n * VideoHz < k * TelemetryHz
  <2>1. n * VideoHz \in Nat /\ k * TelemetryHz \in Nat
    BY <1>2, Rates
  <2>2. QED
    BY <1>4, <2>1
<1>6. ASSUME NEW i \in Joined(r) PROVE i \in Joinable(n)
  <2>1. i \in r.pending /\ AssignedTick(i) = n
    BY <1>1, <1>6 DEF Joined
  <2>2. i \in 0 .. k - 1
    BY <1>1, <2>1, RunFacts DEF PendingGood
  <2>3. i \in Nat /\ i * PhysicsHz <= r.step * VideoHz
    BY <1>1, <2>2, RunFacts DEF Captured
  <2>4. i \in Frames
    BY <2>3, RunFacts, DueFrame
  <2>5. i * TelemetryHz <= n * VideoHz /\ (n - 1) * VideoHz < i * TelemetryHz
    BY <1>2, <2>1, <2>3, Assigned
  <2>6. QED
    BY <2>4, <2>5 DEF Joinable
<1>7. ASSUME NEW i \in Joinable(n) PROVE i \in Joined(r)
  <2>1. i \in Frames /\ i * TelemetryHz <= n * VideoHz /\ (n - 1) * VideoHz < i * TelemetryHz
    BY <1>7 DEF Joinable
  <2>2. i \in Nat
    BY <2>1 DEF Frames
  <2>3. AssignedTick(i) = n
    BY <1>2, <2>1, <2>2, Assigned
  <2>4. i < k
    <3> SUFFICES ASSUME k <= i PROVE FALSE
      BY <1>2, <2>2
    <3>1. k * TelemetryHz <= i * TelemetryHz /\ k * TelemetryHz \in Int /\ i * TelemetryHz \in Int
      BY <1>2, <2>2, Rates, Times
    <3>2. n * VideoHz \in Nat
      BY <1>2, Rates
    <3>3. QED
      BY <1>5, <2>1, <3>1, <3>2
  <2>5. i \in 0 .. k - 1
    BY <1>2, <2>2, <2>4
  <2>6. i \in r.pending
    BY <1>1, <2>1, <2>5, RunFacts DEF PendingGood
  <2>7. QED
    BY <1>1, <2>3, <2>6 DEF Joined
<1>8. QED
  BY <1>1, <1>5, <1>6, <1>7

LEMMA RecordAppended ==
  ASSUME NEW S, NEW seq \in Seq(S), NEW x \in S, NEW longer, longer = Append(seq, x)
  PROVE  /\ longer \in Seq(S) /\ Len(longer) = Len(seq) + 1 /\ longer[Len(seq) + 1] = x
         /\ Len(seq) \in Nat
         /\ \A m \in 1 .. Len(seq) : longer[m] = seq[m]
OBVIOUS

\* A tick that is due when no frame is.
LEMMA Ticked ==
  ASSUME NEW r, RunGood(r), r.step = Len(r.records) * Ratio, ~FrameDue(r),
         Len(r.records) = 0 \/ ~r.records[Len(r.records)].completed,
         NEW c \in BOOLEAN, NEW record, record = [completed |-> c, frames |-> Joined(r)],
         NEW q, Keeps(q, r, {"step", "index"}), q.reason \in Reasons \cup {NoReason},
         q.pending = r.pending \ Joined(r), q.records = Append(r.records, record)
  PROVE  /\ RunGood(q) /\ Len(q.records) = Len(r.records) + 1
         /\ q.records[Len(q.records)].completed = c
<1>1. IsRun(q) /\ q.step = r.step /\ q.index = r.index
  BY DEF Keeps
<1>2. PICK n, k : n = Len(r.records) /\ k = r.index
  OBVIOUS
<1>3. n \in Nat /\ k \in Nat
  BY <1>2, RunFacts
<1>4. Joined(r) = Joinable(n) /\ n * VideoHz < k * TelemetryHz
  BY <1>2, JoinedFrames
<1>5. /\ record \in Records /\ record.completed = c /\ record.frames = Joinable(n)
  <2>1. Joinable(n) \in SUBSET Frames
    BY DEF Joinable
  <2>2. QED
    BY <1>4, <2>1 DEF Records
<1>6. r.records \in Seq(Records)
  BY RunFacts
<1>7. /\ q.records \in Seq(Records) /\ Len(q.records) = n + 1 /\ q.records[n + 1] = record
      /\ \A m \in 1 .. n : q.records[m] = r.records[m]
  BY <1>2, <1>5, <1>6, RecordAppended
<1>8. RecordsGood(q)
  <2>1. /\ \A m \in 1 .. n : r.records[m].frames = Joinable(m - 1)
        /\ \A m \in 1 .. n - 1 : ~r.records[m].completed
    BY <1>2, RunFacts DEF RecordsGood
  <2>2. ASSUME NEW m \in 1 .. n + 1 PROVE q.records[m].frames = Joinable(m - 1)
    <3>1. CASE m = n + 1
      <4>1. m - 1 = n
        BY <1>3, <3>1
      <4>2. QED
        BY <1>5, <1>7, <3>1, <4>1
    <3>2. CASE m # n + 1
      <4>1. m \in 1 .. n
        BY <1>3, <3>2
      <4>2. QED
        BY <1>7, <2>1, <4>1
    <3>3. QED
      BY <3>1, <3>2
  <2>3. ASSUME NEW m \in 1 .. n PROVE ~q.records[m].completed
    <3>1. CASE m = n
      BY <1>2, <1>3, <1>7, <3>1
    <3>2. CASE m # n
      <4>1. m \in 1 .. n - 1
        BY <1>3, <3>2
      <4>2. QED
        BY <1>7, <2>1, <4>1
    <3>3. QED
      BY <3>1, <3>2
  <2>4. Len(q.records) = n + 1 /\ Len(q.records) - 1 = n
    BY <1>3, <1>7
  <2>5. \A m \in 1 .. Len(q.records) : q.records[m].frames = Joinable(m - 1)
    BY <2>2, <2>4
  <2>6. \A m \in 1 .. Len(q.records) - 1 : ~q.records[m].completed
    BY ONLY <2>3, <2>4, Zenon
  <2>7. q.records \in Seq(Records)
    BY <1>7
  <2>8. QED
    BY <2>5, <2>6, <2>7, Zenon DEF RecordsGood
<1>9. Captured(q)
  <2>1. n + 1 - 1 = n
    BY <1>3
  <2>2. QED
    BY <1>1, <1>2, <1>4, <1>7, <2>1, RunFacts DEF Captured
<1>10. PendingGood(q)
  <2>1. r.pending = {i \in 0 .. k - 1 : (n - 1) * VideoHz < i * TelemetryHz}
    BY <1>2, RunFacts DEF PendingGood
  <2>2. ASSUME NEW i \in 0 .. k - 1
        PROVE  (i \in r.pending /\ i \notin Joined(r)) <=> n * VideoHz < i * TelemetryHz
    <3>1. i \in Nat /\ i * TelemetryHz \in Nat /\ n * VideoHz \in Nat /\ (n - 1) * VideoHz \in Int
      BY <1>3, Rates
    <3>2. (n - 1) * VideoHz <= n * VideoHz
      BY <1>3, Rates, Times
    <3>3. i \in r.pending <=> (n - 1) * VideoHz < i * TelemetryHz
      BY <2>1
    <3>4. AssignedTick(i) = n <=>
            i * TelemetryHz <= n * VideoHz /\ (n - 1) * VideoHz < i * TelemetryHz
      BY <1>3, <3>1, Assigned
    <3>5. i \in Joined(r) <=> i \in r.pending /\ AssignedTick(i) = n
      BY <1>2 DEF Joined
    <3>6. QED
      BY <3>1, <3>2, <3>3, <3>4, <3>5
  <2>3. r.pending \subseteq 0 .. k - 1
    BY <2>1
  <2>4. q.pending = {i \in 0 .. k - 1 : n * VideoHz < i * TelemetryHz}
    BY <2>2, <2>3
  <2>5. n + 1 - 1 = n
    BY <1>3
  <2>6. QED
    BY <1>1, <1>2, <1>7, <2>4, <2>5 DEF PendingGood
<1>11. q.records[n + 1].completed = c
  BY <1>5, <1>7
<1>12. QED
  BY <1>1, <1>2, <1>7, <1>8, <1>9, <1>10, <1>11, RunFacts DEF RunGood

\* Where a run is between two ticks while its worker is there: n ticks are
\* recorded, the latest at step (n - 1) * Ratio.
Loop == {"check", "video", "tick", "physics"}
Ending == {"report", "close", "finish"}
Unfinished(r) == Len(r.records) = 0 \/ ~r.records[Len(r.records)].completed
Timely(r) == Len(r.records) = 0 \/ (Len(r.records) - 1) * Ratio < MaxSteps
Placed(r, w) ==
  /\ w \in Loop => Unfinished(r) /\ Timely(r) /\ r.step <= Len(r.records) * Ratio
  /\ w = "video" => FrameDue(r)
  /\ w = "tick" => r.step = Len(r.records) * Ratio /\ ~FrameDue(r)
  /\ w = "physics" => r.step # Len(r.records) * Ratio
  /\ w \in Ending => Len(r.records) # 0 /\ r.step = (Len(r.records) - 1) * Ratio
  /\ w = "report" => IF r.reason = NoReason THEN Unfinished(r) /\ Timely(r) ELSE ~Unfinished(r)
  /\ w \in {"close", "finish"} => ~Unfinished(r)
  /\ w \notin Loop \cup Ending => r = NewRun

LEMMA PlaceFacts ==
  ASSUME NEW r, RunGood(r), NEW n, n = Len(r.records)
  PROVE  n \in Nat /\ n * Ratio \in Nat /\ (n - 1) * Ratio \in Int /\ n * Ratio = (n - 1) * Ratio + Ratio
<1>1. n \in Nat
  BY RunFacts
<1>2. QED
  BY <1>1, Rates

\* What follows the top of the loop, and a frame.
LEMMA NextPlace ==
  ASSUME NEW r, RunGood(r), Unfinished(r), Timely(r), r.step <= Len(r.records) * Ratio,
         NEW w, w = IF FrameDue(r) THEN "video" ELSE IF TickDue(r) THEN "tick" ELSE "physics"
  PROVE  Placed(r, w)
<1>1. PICK n, s : n = Len(r.records) /\ s = r.step
  OBVIOUS
<1>2. n \in Nat /\ s \in Nat /\ n * Ratio \in Nat
  BY <1>1, RunFacts, PlaceFacts
<1>3. TickDue(r) <=> n * Ratio <= s
  BY <1>1, <1>2, TickTime DEF TickDue
<1>4. TickDue(r) => r.step = Len(r.records) * Ratio
  BY <1>1, <1>2, <1>3
<1>5. ~TickDue(r) => r.step # Len(r.records) * Ratio
  BY <1>1, <1>2, <1>3
<1>6. QED
  BY <1>4, <1>5 DEF Placed, Loop, Ending

LEMMA CheckPlaced ==
  ASSUME NEW r, RunGood(r), Placed(r, "check"), NEW q, Keeps(q, r, {"step", "index", "pending", "records"}),
         q.reason \in Reasons \cup {NoReason},
         NEW w, w = IF FrameDue(q) THEN "video" ELSE IF TickDue(q) THEN "tick" ELSE "physics"
  PROVE  RunGood(q) /\ Placed(q, w)
<1>1. RunGood(q)
  BY Reasoned
<1>2. q.step = r.step /\ q.records = r.records
  BY DEF Keeps
<1>3. Unfinished(q) /\ Timely(q) /\ q.step <= Len(q.records) * Ratio
  BY <1>2 DEF Placed, Loop, Unfinished, Timely
<1>4. QED
  BY <1>1, <1>3, NextPlace

LEMMA CapturePlaced ==
  ASSUME NEW r, RunGood(r), NEW w0 \in {"first", "video"}, Placed(r, w0),
         NEW q, Keeps(q, r, {"step", "records", "reason"}),
         q.index = r.index + 1, q.pending = r.pending \cup {r.index},
         NEW w, w = IF w0 = "first" THEN "check"
                    ELSE IF FrameDue(q) THEN "video" ELSE IF TickDue(q) THEN "tick" ELSE "physics"
  PROVE  RunGood(q) /\ Placed(q, w) /\ r.index \in Frames
<1>1. q.step = r.step /\ q.records = r.records
  BY DEF Keeps
<1>2. CASE w0 = "first"
  <2>1. r = NewRun
    BY <1>2 DEF Placed, Loop, Ending
  <2>2. FrameDue(r) /\ r.step = 0 /\ Len(r.records) = 0
    BY <2>1, Rates DEF NewRun, FrameDue
  <2>3. RunGood(q) /\ r.index \in Frames
    BY <2>2, CapturedMore, DueIn
  <2>4. w = "check" /\ q.step <= Len(q.records) * Ratio /\ Unfinished(q) /\ Timely(q)
    BY <1>1, <1>2, <2>2, Rates DEF Unfinished, Timely
  <2>5. QED
    BY <2>3, <2>4 DEF Placed, Loop, Ending
<1>3. CASE w0 = "video"
  <2>1. FrameDue(r) /\ Unfinished(r) /\ Timely(r) /\ r.step <= Len(r.records) * Ratio
    BY <1>3 DEF Placed, Loop
  <2>2. RunGood(q) /\ r.index \in Frames
    BY <2>1, CapturedMore, DueIn
  <2>3. Unfinished(q) /\ Timely(q) /\ q.step <= Len(q.records) * Ratio
    BY <1>1, <2>1 DEF Unfinished, Timely
  <2>4. QED
    BY <1>3, <2>2, <2>3, NextPlace
<1>4. QED
  BY <1>2, <1>3

LEMMA TickPlaced ==
  ASSUME NEW r, RunGood(r), Placed(r, "tick"),
         NEW q, NEW record, record = [completed |-> (q.reason # NoReason), frames |-> Joined(r)],
         Keeps(q, r, {"step", "index"}), q.reason \in Reasons \cup {NoReason},
         q.reason = NoReason => r.step < MaxSteps,
         q.pending = r.pending \ Joined(r), q.records = Append(r.records, record)
  PROVE  RunGood(q) /\ Placed(q, "report")
<1>1. /\ r.step = Len(r.records) * Ratio /\ ~FrameDue(r)
      /\ Len(r.records) = 0 \/ ~r.records[Len(r.records)].completed
  BY DEF Placed, Loop, Unfinished
<1>2. PICK n, c : n = Len(r.records) /\ c = (q.reason # NoReason)
  OBVIOUS
<1>3. c \in BOOLEAN /\ record = [completed |-> c, frames |-> Joined(r)]
  BY <1>2
<1>4. RunGood(q) /\ Len(q.records) = n + 1 /\ q.records[Len(q.records)].completed = c
  BY <1>1, <1>2, <1>3, Ticked
<1>5. n \in Nat /\ n + 1 - 1 = n
  BY <1>2, PlaceFacts
<1>6. q.step = n * Ratio /\ Len(q.records) # 0 /\ Len(q.records) - 1 = n
  BY <1>1, <1>2, <1>4, <1>5 DEF Keeps
<1>7. q.reason = NoReason => Unfinished(q) /\ Timely(q)
  BY <1>1, <1>2, <1>4, <1>6 DEF Unfinished, Timely
<1>8. q.reason # NoReason => ~Unfinished(q)
  BY <1>2, <1>4, <1>6 DEF Unfinished
<1>9. QED
  BY <1>4, <1>6, <1>7, <1>8 DEF Placed, Loop, Ending

LEMMA ReportPlaced ==
  ASSUME NEW r, RunGood(r), Placed(r, "report"),
         NEW w, w = IF r.reason = NoReason THEN "physics" ELSE "close"
  PROVE  Placed(r, w)
<1>1. PICK n, s : n = Len(r.records) /\ s = r.step
  OBVIOUS
<1>2. n * Ratio \in Nat /\ (n - 1) * Ratio \in Int /\ n * Ratio = (n - 1) * Ratio + Ratio
  BY <1>1, PlaceFacts
<1>3. n # 0 /\ s = (n - 1) * Ratio
  BY <1>1 DEF Placed, Ending
<1>4. s <= n * Ratio /\ s # n * Ratio
  BY <1>2, <1>3, Rates
<1>5. QED
  BY <1>1, <1>3, <1>4 DEF Placed, Loop, Ending

LEMMA PhysicsPlaced ==
  ASSUME NEW r, RunGood(r), Placed(r, "physics"),
         NEW q, Keeps(q, r, {"index", "pending", "records"}),
         q.reason \in Reasons \cup {NoReason}, q.step = r.step + 1
  PROVE  RunGood(q) /\ Placed(q, "check")
<1>1. PICK n, s : n = Len(r.records) /\ s = r.step
  OBVIOUS
<1>2. n \in Nat /\ n * Ratio \in Nat /\ (n - 1) * Ratio \in Int /\ n * Ratio = (n - 1) * Ratio + Ratio
  BY <1>1, PlaceFacts
<1>3. s <= n * Ratio /\ s # n * Ratio /\ Unfinished(r) /\ Timely(r) /\ s \in Nat
  BY <1>1, RunFacts DEF Placed, Loop
<1>4. n # 0
  BY <1>3, Rates
<1>5. (n - 1) * Ratio < MaxSteps
  BY <1>1, <1>3, <1>4 DEF Timely
<1>6. s + 1 <= n * Ratio /\ n * Ratio <= MaxSteps + Ratio
  BY <1>2, <1>3, <1>5, Rates
<1>7. RunGood(q)
  <2>1. s + 1 <= LastStep
    BY <1>2, <1>3, <1>6, Rates
  <2>2. QED
    BY <1>1, <2>1, Stepped
<1>8. q.records = r.records
  BY DEF Keeps
<1>9. Unfinished(q) /\ Timely(q) /\ q.step <= Len(q.records) * Ratio
  BY <1>1, <1>3, <1>6, <1>8 DEF Unfinished, Timely
<1>10. QED
  BY <1>7, <1>9 DEF Placed, Loop, Ending

-----------------------------------------------------------------------------
(* Every run is good, where its worker is.                                 *)

Places == Steps \cup {"none", "queued", "done"}
ClockInv ==
  /\ worker \in [Episodes -> Places] /\ run = [e \in Episodes |-> run[e]]
  /\ \A e \in Episodes : RunGood(run[e]) /\ Placed(run[e], worker[e])

LEMMA ClockFacts ==
  ASSUME ClockInv, NEW e \in Episodes
  PROVE  /\ worker \in [Episodes -> Places] /\ worker[e] \in Places /\ DOMAIN run = Episodes
         /\ run = [x \in Episodes |-> run[x]]
         /\ RunGood(run[e]) /\ Placed(run[e], worker[e]) /\ DOMAIN run[e] = RunFields
         /\ IsRun(run[e])
BY RunFacts DEF ClockInv

LEMMA ClockStep ==
  ASSUME ClockInv, NEW e \in Episodes, NEW w \in Places, Goto(e, w),
         NEW q, run' = [run EXCEPT ![e] = q], RunGood(q), Placed(q, w)
  PROVE  ClockInv'
<1>1. /\ worker' \in [Episodes -> Places] /\ worker'[e] = w
      /\ \A x \in Episodes \ {e} : worker'[x] = worker[x]
  BY DEF Goto, ClockInv
<1>2. run' = [x \in Episodes |-> run'[x]] /\ run'[e] = q /\ \A x \in Episodes \ {e} : run'[x] = run[x]
  BY DEF ClockInv
<1>3. ASSUME NEW x \in Episodes PROVE RunGood(run'[x]) /\ Placed(run'[x], worker'[x])
  BY <1>1, <1>2, ClockFacts
<1>4. QED
  BY <1>1, <1>2, <1>3 DEF ClockInv

\* A worker that is not in its run, before it and after it.
LEMMA ClockMove ==
  ASSUME ClockInv, NEW e \in Episodes, NEW w \in Places, Goto(e, w), run' = run,
         Placed(run[e], w)
  PROVE  ClockInv'
<1>1. run' = [run EXCEPT ![e] = run[e]]
  BY DEF ClockInv
<1>2. QED
  BY <1>1, ClockFacts, ClockStep

LEMMA ClockAnew ==
  ASSUME ClockInv, NEW e \in Episodes, NEW w \in Places, w \notin Loop \cup Ending, Goto(e, w),
         run' = [run EXCEPT ![e] = NewRun]
  PROVE  ClockInv'
<1>1. Placed(NewRun, w)
  BY DEF Placed, Loop, Ending
<1>2. QED
  BY <1>1, NewRunGood, ClockStep

LEMMA ClockIdle ==
  ASSUME ClockInv, NEW e \in Episodes, worker[e] \notin Loop \cup Ending,
         NEW w \in Places, w \notin Loop \cup Ending, Goto(e, w), run' = run
  PROVE  ClockInv'
<1>1. Placed(run[e], w)
  BY ClockFacts DEF Placed, Loop, Ending
<1>2. QED
  BY <1>1, ClockMove

LEMMA ClockUnchanged == ASSUME ClockInv, worker' = worker, run' = run PROVE ClockInv'
<1>1. worker' \in [Episodes -> Places] /\ run' = [e \in Episodes |-> run'[e]]
  BY DEF ClockInv
<1>2. ASSUME NEW e \in Episodes PROVE RunGood(run'[e]) /\ Placed(run'[e], worker'[e])
  BY ClockFacts
<1>3. QED
  BY <1>1, <1>2 DEF ClockInv

LEMMA ClockInit == Init => ClockInv
<1> SUFFICES ASSUME Init PROVE ClockInv
  OBVIOUS
<1>1. worker = [e \in Episodes |-> "none"] /\ run = [e \in Episodes |-> NewRun]
  BY DEF Init
<1>2. Placed(NewRun, "none")
  BY DEF Placed, Loop, Ending
<1>3. QED
  BY <1>1, <1>2, NewRunGood DEF ClockInv, Places

LEMMA CheckCancelClock == ASSUME ClockInv, NEW e \in Episodes, CheckCancel(e) PROVE ClockInv'
<1> DEFINE q == IF cancelled[e] /\ run[e].reason = NoReason
                THEN [run[e] EXCEPT !.reason = "cancelled"] ELSE run[e]
           w == IF FrameDue(q) THEN "video" ELSE IF TickDue(q) THEN "tick" ELSE "physics"
<1>1. worker[e] = "check" /\ run' = [run EXCEPT ![e] = q] /\ Goto(e, w)
  BY DEF CheckCancel
<1>2. /\ Keeps(q, run[e], {"step", "index", "pending", "records"})
      /\ q.reason \in Reasons \cup {NoReason} /\ w \in Places
  BY ClockFacts, RunFacts DEF Keeps, RunFields, IsRun, Reasons, Places, Steps
<1>3. w = IF FrameDue(q) THEN "video" ELSE IF TickDue(q) THEN "tick" ELSE "physics"
  OBVIOUS
<1> HIDE DEF q, w
<1>4. RunGood(run[e]) /\ Placed(run[e], "check")
  BY <1>1, ClockFacts
<1>5. RunGood(q) /\ Placed(q, w)
  BY <1>2, <1>3, <1>4, CheckPlaced
<1>6. QED
  BY <1>1, <1>2, <1>5, ClockStep

LEMMA CaptureClock ==
  ASSUME ClockInv, NEW e \in Episodes, Capture(e)
  PROVE  ClockInv' /\ run[e].index \in Frames /\ run'[e].index = run[e].index + 1
<1> DEFINE q == [run[e] EXCEPT !.index = @ + 1, !.pending = @ \cup {run[e].index}]
           w == IF worker[e] = "first" THEN "check"
                ELSE IF FrameDue(q) THEN "video" ELSE IF TickDue(q) THEN "tick" ELSE "physics"
<1>1. worker[e] \in {"first", "video"} /\ run' = [run EXCEPT ![e] = q] /\ Goto(e, w)
  BY DEF Capture
<1>2. /\ Keeps(q, run[e], {"step", "records", "reason"}) /\ w \in Places
      /\ q.index = run[e].index + 1 /\ q.pending = run[e].pending \cup {run[e].index}
  BY ClockFacts DEF Keeps, RunFields, IsRun, Places, Steps
<1>3. w = IF worker[e] = "first" THEN "check"
          ELSE IF FrameDue(q) THEN "video" ELSE IF TickDue(q) THEN "tick" ELSE "physics"
  OBVIOUS
<1> HIDE DEF q, w
<1>4. RunGood(run[e]) /\ Placed(run[e], worker[e])
  BY ClockFacts
<1>5. RunGood(q) /\ Placed(q, w) /\ run[e].index \in Frames
  BY <1>1, <1>2, <1>3, <1>4, CapturePlaced
<1>6. run'[e] = q
  BY <1>1, ClockFacts
<1>7. QED
  BY <1>1, <1>2, <1>5, <1>6, ClockStep

LEMMA RecordTickClock == ASSUME ClockInv, NEW e \in Episodes, RecordTick(e) PROVE ClockInv'
<1> DEFINE reason == IF run[e].reason = NoReason /\ AtLimit(run[e])
                     THEN "time_limit" ELSE run[e].reason
           record == [completed |-> (reason # NoReason), frames |-> Joined(run[e])]
           q == [run[e] EXCEPT !.reason = reason, !.pending = @ \ Joined(run[e]),
                               !.records = Append(@, record)]
<1>1. worker[e] = "tick" /\ run' = [run EXCEPT ![e] = q] /\ Goto(e, "report")
  BY DEF RecordTick
<1>2. RunGood(run[e]) /\ Placed(run[e], "tick") /\ DOMAIN run[e] = RunFields
  BY <1>1, ClockFacts
<1>3. reason \in Reasons \cup {NoReason} /\ (reason = NoReason => run[e].step < MaxSteps)
  <2>1. PICK s, limit : s = run[e].step /\ limit = MaxSteps
    OBVIOUS
  <2>2. s \in Nat /\ limit \in Nat /\ run[e].reason \in Reasons \cup {NoReason} /\ "time_limit" \in Reasons
    BY <1>2, <2>1, RunFacts, Rates DEF Reasons
  <2>3. reason = NoReason => ~(s >= limit)
    BY <2>1, <2>2, LiveAssumption DEF AtLimit, LiveAssumption
  <2>4. reason \in Reasons \cup {NoReason}
    BY <2>2
  <2>5. QED
    BY <2>1, <2>2, <2>3, <2>4
<1> HIDE DEF reason
<1>4. /\ Keeps(q, run[e], {"step", "index"}) /\ q.reason = reason
      /\ q.pending = run[e].pending \ Joined(run[e]) /\ q.records = Append(run[e].records, record)
  BY <1>2 DEF Keeps, RunFields, IsRun
<1>5. record = [completed |-> (q.reason # NoReason), frames |-> Joined(run[e])]
  BY <1>4
<1> HIDE DEF q, record
<1>6. RunGood(q) /\ Placed(q, "report")
  BY <1>2, <1>3, <1>4, <1>5, TickPlaced
<1>7. "report" \in Places
  BY DEF Places, Steps
<1>8. QED
  BY <1>1, <1>6, <1>7, ClockStep

LEMMA ReportClock == ASSUME ClockInv, NEW e \in Episodes, Report(e) PROVE ClockInv'
<1> DEFINE w == IF run[e].reason = NoReason THEN "physics" ELSE "close"
<1>1. worker[e] = "report" /\ Goto(e, w) /\ run' = run /\ w \in Places
  BY DEF Report, Places, Steps
<1>2. w = IF run[e].reason = NoReason THEN "physics" ELSE "close"
  OBVIOUS
<1> HIDE DEF w
<1>3. Placed(run[e], w)
  BY <1>1, <1>2, ClockFacts, ReportPlaced
<1>4. QED
  BY <1>1, <1>3, ClockMove

LEMMA PhysicsClock == ASSUME ClockInv, NEW e \in Episodes, Physics(e) PROVE ClockInv'
<1>1. worker[e] = "physics" /\ Goto(e, "check") /\ "check" \in Places
  BY DEF Physics, Places, Steps
<1>2. PICK settled \in BOOLEAN :
        run' = [run EXCEPT ![e] =
                 [run[e] EXCEPT !.step = @ + 1,
                                !.reason = IF @ # NoReason THEN @
                                           ELSE IF settled THEN "settled_at_destination"
                                           ELSE IF run[e].step + 1 >= MaxSteps THEN "time_limit"
                                           ELSE NoReason]]
  BY DEF Physics
<1> DEFINE q == [run[e] EXCEPT !.step = @ + 1,
                               !.reason = IF @ # NoReason THEN @
                                          ELSE IF settled THEN "settled_at_destination"
                                          ELSE IF run[e].step + 1 >= MaxSteps THEN "time_limit"
                                          ELSE NoReason]
<1>3. run' = [run EXCEPT ![e] = q]
  BY <1>2
<1>4. /\ Keeps(q, run[e], {"index", "pending", "records"}) /\ q.step = run[e].step + 1
      /\ q.reason \in Reasons \cup {NoReason}
  BY ClockFacts, RunFacts DEF Keeps, RunFields, IsRun, Reasons
<1> HIDE DEF q
<1>5. RunGood(q) /\ Placed(q, "check")
  BY <1>1, <1>4, ClockFacts, PhysicsPlaced
<1>6. QED
  BY <1>1, <1>3, <1>5, ClockStep

LEMMA WorksClock == ASSUME ClockInv, NEW e \in Episodes, Works(e) PROVE ClockInv'
<1>1. CASE RunRaises(e)
  BY <1>1, ClockAnew DEF RunRaises, Places, Steps, Loop, Ending
<1>2. CASE Abort(e)
  BY <1>2, ClockIdle DEF Abort, Places, Steps, Loop, Ending
<1>3. CASE WorkerStarts(e)
  BY <1>3, ClockIdle DEF WorkerStarts, Places, Steps, Loop, Ending
<1>4. CASE Open(e)
  BY <1>4, ClockIdle DEF Open, Places, Steps, Loop, Ending
<1>5. CASE Close(e)
  <2>1. worker[e] = "close" /\ Goto(e, "finish") /\ run' = run /\ "finish" \in Places
    BY <1>5 DEF Close, Places, Steps
  <2>2. Placed(run[e], "finish")
    BY <2>1, ClockFacts DEF Placed, Loop, Ending
  <2>3. QED
    BY <2>1, <2>2, ClockMove
<1>6. CASE FinishVideo(e)
  BY <1>6, ClockAnew DEF FinishVideo, Places, Steps, Loop, Ending
<1>7. CASE Update(e)
  BY <1>7, ClockIdle DEF Update, Places, Steps, Loop, Ending
<1>8. CASE Return(e)
  BY <1>8, ClockIdle DEF Return, Places, Steps, Loop, Ending
<1>9. QED
  BY <1>1, <1>2, <1>3, <1>4, <1>5, <1>6, <1>7, <1>8, CheckCancelClock, CaptureClock,
     RecordTickClock, ReportClock, PhysicsClock
     DEF Works

LEMMA ClockInvariance == Spec => []ClockInv
<1>1. ClockInv /\ [Next]_vars => ClockInv'
  <2> SUFFICES ASSUME ClockInv, [Next]_vars PROVE ClockInv'
    OBVIOUS
  <2>1. CASE \E e \in Episodes : Works(e)
    BY <2>1, WorksClock
  <2>2. CASE \E e \in Episodes : StartEpisode(e)
    BY <2>2, ClockIdle DEF StartEpisode, Places, Loop, Ending
  <2>3. CASE UNCHANGED <<worker, run>>
    <3>1. worker' = worker /\ run' = run
      BY <2>3
    <3>2. QED
      BY <3>1, ClockUnchanged
  <2>4. CASE \E e \in Episodes : Wait(e) \/ Cancel(e)
    BY <2>3, <2>4 DEF Wait, Cancel
  <2>5. CASE StartRefused \/ Shutdown \/ UNCHANGED vars
    BY <2>3, <2>5 DEF StartRefused, Shutdown, vars
  <2>6. QED
    BY <2>1, <2>2, <2>4, <2>5 DEF Next
<1>2. QED
  BY <1>1, ClockInit, PTL DEF Spec
-----------------------------------------------------------------------------
(* The inductive invariant.                                                *)

\* The variables are functions of the episodes, and the video store is good.
VideoGood(v) == StoreGood(v) /\ Limits(v)
Shape ==
  /\ worker \in [Episodes -> Steps \cup {"none", "queued", "done"}]
  /\ phase \in [Episodes -> Phases \cup {"absent"}]
  /\ DOMAIN cancelled = Episodes
  /\ DOMAIN run = Episodes /\ \A e \in Episodes : DOMAIN run[e] = RunFields
  /\ session \in [Episodes -> {"none", "open", "closed", "aborted", "stranded"}]
  /\ late \in [Episodes -> Nat]
  /\ VideoGood(video) /\ DOMAIN video.buffers \subseteq Episodes

\* The phases an episode may show while its worker is there.
PhaseSound(e) ==
  /\ worker[e] = "none" => phase[e] = "absent"
  /\ worker[e] = "queued" => phase[e] \in {"queued", "cancelling"}
  /\ worker[e] \in Steps \ {"returning"} => phase[e] \in {"starting", "running", "cancelling"}
  /\ worker[e] = "returning" => phase[e] \in Ended
  /\ worker[e] = "done" => phase[e] \in Ended \cup {"absent"}

SessionSound(e) ==
  /\ phase[e] = "closed" \/ worker[e] \in {"finish", "completed"} => session[e] = "closed"
  /\ phase[e] \in Ended \/ worker[e] \in {"release", "failed", "returning", "done"} =>
       session[e] # "open"

\* A listed episode has a buffer; while its run is under way, the buffer has as
\* many frames appended to it as the run has captured.
Filming == {"queued", "opening", "first", "check", "video", "tick", "report", "physics",
            "close", "finish"}
VideoSound(e) ==
  /\ phase[e] # "absent" <=> e \in DOMAIN video.buffers
  /\ worker[e] \in Filming => video.buffers[e].appended = run[e].index
  /\ phase[e] \in Ended \/ worker[e] \in {"completed", "failed"} => video.buffers[e].closed

\* After the tick that was under way, a cancelled run is about to be told.
LateSound(e) ==
  /\ late[e] <= 1
  /\ late[e] = 1 => /\ cancelled[e]
                    /\ \/ run[e].reason # NoReason
                       \/ worker[e] \in {"report", "physics", "check"}

Sound(e) == PhaseSound(e) /\ SessionSound(e) /\ VideoSound(e) /\ LateSound(e)

IInv == Shape /\ \A e \in Episodes : Sound(e)

-----------------------------------------------------------------------------
(* What the steps share.                                                   *)

LEMMA InvFacts ==
  ASSUME IInv, NEW e \in Episodes
  PROVE  /\ Shape /\ Sound(e)
         /\ worker \in [Episodes -> Steps \cup {"none", "queued", "done"}]
         /\ phase \in [Episodes -> Phases \cup {"absent"}]
         /\ DOMAIN run = Episodes /\ DOMAIN run[e] = RunFields
         /\ session \in [Episodes -> {"none", "open", "closed", "aborted", "stranded"}]
         /\ late \in [Episodes -> Nat] /\ late[e] \in Nat /\ VideoGood(video)
         /\ DOMAIN video.buffers \subseteq Episodes
BY DEF IInv, Shape

\* The buffer of an episode is as it was: there or not, closed or not, and as long.
SameFilm(w, v, e) ==
  /\ e \in DOMAIN w.buffers <=> e \in DOMAIN v.buffers
  /\ e \in DOMAIN v.buffers => /\ w.buffers[e].closed = v.buffers[e].closed
                               /\ w.buffers[e].appended = v.buffers[e].appended

\* What others do to an episode: its cancellation may be set and, when its worker
\* has returned, it may be pruned, with its video.
LEMMA Undisturbed ==
  ASSUME NEW e, Sound(e),
         worker'[e] = worker[e], session'[e] = session[e], run'[e] = run[e], late'[e] = late[e],
         cancelled[e] => cancelled'[e],
         \/ phase'[e] = "absent" /\ worker[e] = "done" /\ e \notin DOMAIN video'.buffers
         \/ phase'[e] = phase[e] /\ SameFilm(video', video, e)
  PROVE  Sound(e)'
<1>1. PhaseSound(e)' /\ SessionSound(e)' /\ LateSound(e)'
  BY DEF Sound, PhaseSound, SessionSound, LateSound, Ended, Steps
<1>2. VideoSound(e)'
  BY DEF Sound, VideoSound, PhaseSound, SameFilm, Filming, Ended, Steps
<1>3. QED
  BY <1>1, <1>2 DEF Sound

\* Pruning takes only episodes whose worker has returned.
LEMMA OnlyDone ==
  ASSUME NEW table, NEW ph, NEW e \in Removable(table, ph)
  PROVE  worker[e] = "done"
BY DEF Removable

LEMMA Pruned ==
  ASSUME IInv, NEW table, NEW ph \in [Episodes -> Phases \cup {"absent"}], Prune(table, ph, video)
  PROVE  /\ phase' \in [Episodes -> Phases \cup {"absent"}] /\ VideoGood(video')
         /\ \A e \in Episodes :
              \/ phase'[e] = "absent" /\ worker[e] = "done" /\ e \notin DOMAIN video'.buffers
              \/ phase'[e] = ph[e] /\ SameFilm(video', video, e)
         /\ DOMAIN video'.buffers \subseteq DOMAIN video.buffers
<1> DEFINE gone == Removable(table, ph)
<1>1. /\ phase' = [e \in Episodes |-> IF e \in gone THEN "absent" ELSE ph[e]]
      /\ video' = VideoDiscarded(video, gone)
  BY DEF Prune
<1>2. \A e \in gone : worker[e] = "done"
  BY OnlyDone
<1> HIDE DEF gone
<1>3. VideoGood(video)
  BY DEF IInv, Shape
<1>4. /\ VideoGood(video') /\ DOMAIN video'.buffers = DOMAIN video.buffers \ gone
      /\ \A x \in DOMAIN video.buffers \ gone : video'.buffers[x] = video.buffers[x]
  BY <1>1, <1>3, DiscardedKeeps DEF VideoGood
<1>5. ASSUME NEW e \in Episodes
      PROVE  \/ phase'[e] = "absent" /\ worker[e] = "done" /\ e \notin DOMAIN video'.buffers
             \/ phase'[e] = ph[e] /\ SameFilm(video', video, e)
  BY <1>1, <1>2, <1>4 DEF SameFilm
<1>6. QED
  BY <1>4, <1>5, <1>1

\* No frame is captured, and the video store is left alone.
LEMMA NotFilmed ==
  ASSUME video' = video
  PROVE  /\ DOMAIN video'.buffers = DOMAIN video.buffers
         /\ \A x \in Episodes : SameFilm(video', video, x)
BY DEF SameFilm

LEMMA SameIndex ==
  ASSUME IInv, video' = video, NEW e \in Episodes, worker[e] \in Filming,
         run'[e].index = run[e].index
  PROVE  /\ DOMAIN video'.buffers = DOMAIN video.buffers
         /\ \A x \in Episodes : SameFilm(video', video, x)
         /\ e \in DOMAIN video.buffers => /\ video'.buffers[e].closed = video.buffers[e].closed
                                          /\ video'.buffers[e].appended = run'[e].index
BY InvFacts, NotFilmed DEF Sound, VideoSound

LEMMA Going ==
  ASSUME worker \in [Episodes -> Steps \cup {"none", "queued", "done"}],
         NEW e \in Episodes, NEW step, Goto(e, step)
  PROVE  worker'[e] = step
BY DEF Goto

\* A step of one worker that leaves the table alone.
LEMMA WorkerStep ==
  ASSUME IInv, NEW e \in Episodes, NEW step \in Steps \cup {"done"}, Goto(e, step),
         cancelled' = cancelled,
         phase' = phase \/ \E p \in Phases : phase' = [phase EXCEPT ![e] = p],
         session' = session \/ \E q \in {"open", "closed", "aborted", "stranded"} :
                                 session' = [session EXCEPT ![e] = q],
         run' = run \/ \E r : DOMAIN r = RunFields /\ run' = [run EXCEPT ![e] = r],
         late' = late \/ \E n \in Nat : late' = [late EXCEPT ![e] = n],
         VideoGood(video'), DOMAIN video'.buffers = DOMAIN video.buffers,
         \A x \in Episodes \ {e} : SameFilm(video', video, x),
         Sound(e)'
  PROVE  IInv'
<1>1. /\ worker' = [worker EXCEPT ![e] = step] /\ worker'[e] = step
      /\ worker' \in [Episodes -> Steps \cup {"none", "queued", "done"}]
      /\ \A x \in Episodes \ {e} : worker'[x] = worker[x]
  BY InvFacts DEF Goto
<1>2. /\ phase' \in [Episodes -> Phases \cup {"absent"}]
      /\ \A x \in Episodes \ {e} : phase'[x] = phase[x]
  BY InvFacts
<1>3. /\ session' \in [Episodes -> {"none", "open", "closed", "aborted", "stranded"}]
      /\ \A x \in Episodes \ {e} : session'[x] = session[x]
  BY InvFacts
<1>4. /\ DOMAIN run' = Episodes /\ \A x \in Episodes : DOMAIN run'[x] = RunFields
      /\ \A x \in Episodes \ {e} : run'[x] = run[x]
  BY InvFacts
<1>5. /\ late' \in [Episodes -> Nat] /\ \A x \in Episodes \ {e} : late'[x] = late[x]
  BY InvFacts
<1>6. Shape'
  BY <1>1, <1>2, <1>3, <1>4, <1>5, InvFacts DEF Shape
<1>7. ASSUME NEW x \in Episodes PROVE Sound(x)'
  <2>1. CASE x = e
    BY <2>1
  <2>2. CASE x # e
    BY <1>1, <1>2, <1>3, <1>4, <1>5, <2>2, InvFacts, Undisturbed
  <2>3. QED
    BY <2>1, <2>2
<1>8. QED
  BY <1>6, <1>7 DEF IInv

-----------------------------------------------------------------------------
(* One lemma for each action.                                              *)

LEMMA NoVideoGood == StoreGood(NoVideo) /\ Limits(NoVideo)
<1>1. /\ DOMAIN NoVideo = {"buffers", "total", "order"} /\ NoVideo.total = 0
      /\ NoVideo.order = <<>> /\ NoVideo.buffers = <<>> /\ DOMAIN NoVideo.buffers = {}
  BY DEF NoVideo
<1>2. Accounted(NoVideo)
  <2>1. Held(NoVideo, {}) = 0
    BY SumOfNone DEF Held
  <2>2. QED
    BY <1>1, <2>1, FS_EmptySet DEF Accounted
<1>3. OrderGood(NoVideo)
  BY <1>1 DEF OrderGood
<1>4. Limits(NoVideo)
  BY <1>1, Sizes DEF Limits
<1>5. QED
  BY <1>1, <1>2, <1>3, <1>4 DEF StoreGood

LEMMA InitSound == Init => IInv
<1> SUFFICES ASSUME Init PROVE IInv
  OBVIOUS
<1>1. /\ phase = [e \in Episodes |-> "absent"] /\ worker = [e \in Episodes |-> "none"]
      /\ cancelled = [e \in Episodes |-> FALSE] /\ run = [e \in Episodes |-> NewRun]
      /\ session = [e \in Episodes |-> "none"] /\ video = NoVideo /\ late = [e \in Episodes |-> 0]
  BY DEF Init
<1>2. VideoGood(video) /\ DOMAIN video.buffers = {}
  <2>1. DOMAIN NoVideo.buffers = {} /\ DOMAIN NoVideo = {"buffers", "total", "order"}
    BY DEF NoVideo
  <2>2. QED
    BY <1>1, <2>1, NoVideoGood DEF VideoGood
<1>3. DOMAIN NewRun = RunFields
  BY DEF NewRun, RunFields
<1>4. Shape
  BY <1>1, <1>2, <1>3 DEF Shape
<1>5. ASSUME NEW e \in Episodes PROVE Sound(e)
  <2>1. phase[e] = "absent" /\ worker[e] = "none" /\ session[e] = "none" /\ late[e] = 0
    BY <1>1
  <2>2. QED
    BY <1>2, <2>1 DEF Sound, PhaseSound, SessionSound, VideoSound, LateSound, Filming, Ended, Steps
<1>6. QED
  BY <1>4, <1>5 DEF IInv

LEMMA StartEpisodeSound ==
  ASSUME ClockInv, NEW e \in Episodes PROVE IInv /\ StartEpisode(e) => IInv'
<1> SUFFICES ASSUME IInv, StartEpisode(e) PROVE IInv'
  OBVIOUS
<1> DEFINE gone == Removable(statuses, phase)
<1>1. /\ worker[e] = "none"
      /\ phase' = [x \in Episodes |-> IF x = e THEN "queued"
                                      ELSE IF x \in gone THEN "absent" ELSE phase[x]]
      /\ video' = VideoStarted(VideoDiscarded(video, gone), e)
      /\ worker' = [worker EXCEPT ![e] = "queued"]
      /\ UNCHANGED <<cancelled, run, session, late>>
  BY DEF StartEpisode, Goto
<1>2. \A x \in gone : worker[x] = "done"
  BY OnlyDone
<1> HIDE DEF gone
<1>3. /\ VideoGood(video') /\ DOMAIN video'.buffers = (DOMAIN video.buffers \ gone) \cup {e}
      /\ \A x \in DOMAIN video.buffers \ gone : video'.buffers[x] = video.buffers[x]
      /\ video'.buffers[e].appended = 0
  <2>1. PICK v : v = VideoDiscarded(video, gone)
    OBVIOUS
  <2>2. /\ StoreGood(v) /\ Limits(v) /\ DOMAIN v.buffers = DOMAIN video.buffers \ gone
        /\ \A x \in DOMAIN video.buffers \ gone : v.buffers[x] = video.buffers[x]
    BY <2>1, InvFacts, DiscardedKeeps DEF VideoGood
  <2>3. e \notin DOMAIN v.buffers
    BY <1>1, <2>2, InvFacts DEF Sound, PhaseSound, VideoSound
  <2>4. /\ StoreGood(video') /\ Limits(video') /\ DOMAIN video'.buffers = DOMAIN v.buffers \cup {e}
        /\ video'.buffers[e].appended = 0
        /\ \A x \in DOMAIN v.buffers : x # e /\ video'.buffers[x] = v.buffers[x]
    BY <1>1, <2>1, <2>2, <2>3, StartedKeeps
  <2>5. QED
    BY <2>2, <2>4 DEF VideoGood
<1>4. /\ worker' \in [Episodes -> Steps \cup {"none", "queued", "done"}] /\ worker'[e] = "queued"
      /\ \A x \in Episodes \ {e} : worker'[x] = worker[x]
      /\ phase' \in [Episodes -> Phases \cup {"absent"}] /\ phase'[e] = "queued"
  BY <1>1, InvFacts DEF Phases
<1>5. Shape'
  BY <1>1, <1>3, <1>4, InvFacts DEF Shape
<1>6. ASSUME NEW x \in Episodes PROVE Sound(x)'
  <2>1. CASE x # e
    <3>1. \/ phase'[x] = "absent" /\ worker[x] = "done" /\ x \notin DOMAIN video'.buffers
          \/ phase'[x] = phase[x] /\ SameFilm(video', video, x)
      BY <1>1, <1>2, <1>3, <2>1 DEF SameFilm
    <3>2. QED
      BY <1>1, <1>4, <2>1, <3>1, InvFacts, Undisturbed
  <2>2. CASE x = e
    <3>1. PhaseSound(x)' /\ SessionSound(x)' /\ VideoSound(x)'
      <4>1. run'[e].index = 0
        BY <1>1, ClockFacts DEF Placed, Loop, Ending, NewRun
      <4>2. QED
        BY <1>3, <1>4, <2>2, <4>1 DEF Filming, PhaseSound, SessionSound, VideoSound, Ended, Steps
    <3>2. LateSound(x)'
      BY <1>1, <1>4, <2>2, InvFacts DEF Sound, LateSound
    <3>3. QED
      BY <3>1, <3>2 DEF Sound
  <2>3. QED
    BY <2>1, <2>2
<1>7. QED
  BY <1>5, <1>6 DEF IInv

\* Pruning by a refused start or a wait.
LEMMA PruneSound ==
  ASSUME IInv, Prune(statuses, phase, video), UNCHANGED <<cancelled, worker, run, session, late>>
  PROVE  IInv'
<1>1. /\ phase \in [Episodes -> Phases \cup {"absent"}]
  BY DEF IInv, Shape
<1>2. /\ phase' \in [Episodes -> Phases \cup {"absent"}] /\ VideoGood(video')
      /\ \A x \in Episodes :
           \/ phase'[x] = "absent" /\ worker[x] = "done" /\ x \notin DOMAIN video'.buffers
           \/ phase'[x] = phase[x] /\ SameFilm(video', video, x)
      /\ DOMAIN video'.buffers \subseteq Episodes
  BY <1>1, Pruned DEF IInv, Shape
<1>3. Shape'
  BY <1>2 DEF IInv, Shape
<1>4. ASSUME NEW x \in Episodes PROVE Sound(x)'
  BY <1>2, InvFacts, Undisturbed
<1>5. QED
  BY <1>3, <1>4 DEF IInv

LEMMA CancelSound == ASSUME NEW e \in Episodes PROVE IInv /\ Cancel(e) => IInv'
<1> SUFFICES ASSUME IInv, Cancel(e) PROVE IInv'
  OBVIOUS
<1>1. /\ phase[e] \in Phases \ Ended /\ phase' = [phase EXCEPT ![e] = "cancelling"]
      /\ cancelled' = [cancelled EXCEPT ![e] = TRUE]
      /\ UNCHANGED <<worker, run, session, video, late>>
  BY DEF Cancel, Active
<1>2. DOMAIN cancelled = Episodes
  BY DEF IInv, Shape
<1>3. /\ phase' \in [Episodes -> Phases \cup {"absent"}] /\ phase'[e] = "cancelling"
      /\ \A x \in Episodes \ {e} : phase'[x] = phase[x]
      /\ DOMAIN cancelled' = Episodes /\ cancelled'[e]
      /\ \A x \in Episodes \ {e} : cancelled'[x] = cancelled[x]
  BY <1>1, <1>2, InvFacts DEF Phases
<1>4. Shape'
  BY <1>1, <1>3 DEF IInv, Shape
<1>5. ASSUME NEW x \in Episodes PROVE Sound(x)'
  <2>1. CASE x # e
    <3>1. SameFilm(video', video, x)
      BY <1>1 DEF SameFilm
    <3>2. QED
      BY <1>1, <1>3, <2>1, <3>1, InvFacts, Undisturbed
  <2>2. CASE x = e
    BY <1>1, <1>3, <2>2, InvFacts
       DEF Sound, PhaseSound, SessionSound, VideoSound, LateSound, Filming, Phases, Ended, Steps
  <2>3. QED
    BY <2>1, <2>2
<1>6. QED
  BY <1>4, <1>5 DEF IInv

LEMMA ShutdownSound == IInv /\ Shutdown => IInv'
<1> SUFFICES ASSUME IInv, Shutdown PROVE IInv'
  OBVIOUS
<1>1. /\ cancelled' = [e \in Episodes |-> cancelled[e] \/ e \in Active]
      /\ UNCHANGED <<phase, worker, run, session, video, late>>
  BY DEF Shutdown
<1>2. DOMAIN cancelled' = Episodes /\ \A e \in Episodes : cancelled[e] => cancelled'[e]
  BY <1>1
<1>3. Shape'
  BY <1>1, <1>2 DEF IInv, Shape
<1>4. ASSUME NEW x \in Episodes PROVE Sound(x)'
  <2>1. SameFilm(video', video, x)
    BY <1>1 DEF SameFilm
  <2>2. QED
    BY <1>1, <1>2, <2>1, InvFacts, Undisturbed
<1>5. QED
  BY <1>3, <1>4 DEF IInv

-----------------------------------------------------------------------------
(* What a worker does.                                                     *)

LEMMA WorkerStartsSound == ASSUME NEW e \in Episodes PROVE IInv /\ WorkerStarts(e) => IInv'
<1> SUFFICES ASSUME IInv, WorkerStarts(e) PROVE IInv'
  OBVIOUS
<1>1. /\ worker[e] = "queued" /\ Goto(e, "opening") /\ phase' = [phase EXCEPT ![e] = "starting"]
      /\ UNCHANGED <<cancelled, run, session, video, late>> /\ "opening" \in Steps
  BY DEF WorkerStarts, Steps
<1>2. worker'[e] = "opening" /\ phase'[e] = "starting" /\ "starting" \in Phases
  BY <1>1, InvFacts, Going DEF Phases
<1>3. Sound(e)'
  BY <1>1, <1>2, InvFacts
     DEF Sound, PhaseSound, SessionSound, VideoSound, LateSound, Filming, Ended, Steps
<1>4. QED
  BY <1>1, <1>2, <1>3, InvFacts, NotFilmed, WorkerStep

LEMMA OpenSound == ASSUME NEW e \in Episodes PROVE IInv /\ Open(e) => IInv'
<1> SUFFICES ASSUME IInv, Open(e) PROVE IInv'
  OBVIOUS
<1>1. /\ worker[e] = "opening" /\ Goto(e, "first") /\ session' = [session EXCEPT ![e] = "open"]
      /\ UNCHANGED <<phase, cancelled, run, video, late>> /\ "first" \in Steps
  BY DEF Open, Steps
<1>2. worker'[e] = "first" /\ session'[e] = "open"
  BY <1>1, InvFacts, Going
<1>3. Sound(e)'
  BY <1>1, <1>2, InvFacts
     DEF Sound, PhaseSound, SessionSound, VideoSound, LateSound, Filming, Ended, Steps
<1>4. QED
  BY <1>1, <1>2, <1>3, InvFacts, NotFilmed, WorkerStep

\* A step within the run's loop that keeps a reason once there is one.
LEMMA LoopStep ==
  ASSUME IInv, NEW e \in Episodes, NEW step \in {"check", "video", "tick", "report", "physics", "close"},
         worker[e] \in {"first", "check", "video", "tick", "report", "physics"},
         Goto(e, step), UNCHANGED <<cancelled, session>>,
         phase' = phase \/ \E p \in {"running", "cancelling"} : phase' = [phase EXCEPT ![e] = p],
         run' = run \/ \E r : DOMAIN r = RunFields /\ run' = [run EXCEPT ![e] = r],
         late' = late \/ \E n \in Nat : late' = [late EXCEPT ![e] = n],
         VideoGood(video'), DOMAIN video'.buffers = DOMAIN video.buffers,
         \A x \in Episodes \ {e} : SameFilm(video', video, x),
         e \in DOMAIN video.buffers => /\ video'.buffers[e].closed = video.buffers[e].closed
                                       /\ video'.buffers[e].appended = run'[e].index,
         LateSound(e)'
  PROVE  IInv'
<1>1. step \in Steps \cup {"done"} /\ worker'[e] = step
  BY InvFacts, Going DEF Steps
<1>2. /\ phase[e] \in {"starting", "running", "cancelling"}
      /\ phase'[e] \in {"starting", "running", "cancelling"}
      /\ phase' = phase \/ \E p \in Phases : phase' = [phase EXCEPT ![e] = p]
  BY InvFacts DEF Sound, PhaseSound, Steps, Phases
<1>3. Sound(e)'
  BY <1>1, <1>2, InvFacts DEF Sound, PhaseSound, SessionSound, VideoSound, Filming, Ended, Steps
<1>4. QED
  BY <1>1, <1>2, <1>3, WorkerStep

LEMMA CheckCancelSound == ASSUME NEW e \in Episodes PROVE IInv /\ CheckCancel(e) => IInv'
<1> SUFFICES ASSUME IInv, CheckCancel(e) PROVE IInv'
  OBVIOUS
<1> DEFINE r == IF cancelled[e] /\ run[e].reason = NoReason
                THEN [run[e] EXCEPT !.reason = "cancelled"] ELSE run[e]
           step == IF FrameDue(r) THEN "video" ELSE IF TickDue(r) THEN "tick" ELSE "physics"
<1>1. /\ worker[e] = "check" /\ run' = [run EXCEPT ![e] = r] /\ Goto(e, step)
      /\ UNCHANGED <<phase, cancelled, session, video, late>>
  BY DEF CheckCancel
<1>2. /\ DOMAIN r = RunFields /\ r.index = run[e].index /\ step \in {"video", "tick", "physics"}
      /\ cancelled[e] => r.reason # NoReason
  BY InvFacts, LiveAssumption DEF RunFields, Reasons, LiveAssumption
<1> HIDE DEF r, step
<1>3. run'[e] = r
  BY <1>1, InvFacts
<1>4. LateSound(e)'
  BY <1>1, <1>2, <1>3, InvFacts DEF Sound, LateSound
<1>5. run'[e].index = run[e].index /\ worker[e] \in Filming
  BY <1>1, <1>2, <1>3 DEF Filming
<1>6. QED
  BY <1>1, <1>2, <1>4, <1>5, InvFacts, SameIndex, LoopStep

LEMMA CaptureSound == ASSUME ClockInv, NEW e \in Episodes PROVE IInv /\ Capture(e) => IInv'
<1> SUFFICES ASSUME IInv, Capture(e) PROVE IInv'
  OBVIOUS
<1> DEFINE r == [run[e] EXCEPT !.index = @ + 1, !.pending = @ \cup {run[e].index}]
           step == IF worker[e] = "first" THEN "check"
                   ELSE IF FrameDue(r) THEN "video" ELSE IF TickDue(r) THEN "tick" ELSE "physics"
<1>1. /\ worker[e] \in {"first", "video"} /\ run' = [run EXCEPT ![e] = r] /\ Goto(e, step)
      /\ video' = VideoAppended(video, e, run[e].index)
      /\ UNCHANGED <<phase, cancelled, session, late>>
  BY DEF Capture
<1>2. /\ DOMAIN r = RunFields /\ step \in {"check", "video", "tick", "physics"}
      /\ r.reason = run[e].reason
  BY InvFacts DEF RunFields
<1> HIDE DEF r, step
<1>3. run'[e] = r
  BY <1>1, InvFacts
<1>4. e \in DOMAIN video.buffers
  BY <1>1, InvFacts DEF Sound, PhaseSound, VideoSound, Steps
<1>5. /\ VideoGood(video') /\ DOMAIN video'.buffers = DOMAIN video.buffers
      /\ \A x \in Episodes \ {e} : SameFilm(video', video, x)
      /\ video'.buffers[e].closed = video.buffers[e].closed
      /\ video'.buffers[e].appended = run'[e].index
  <2>1. PICK i : i = run[e].index
    OBVIOUS
  <2>2. i \in DOMAIN FrameBytes /\ run'[e].index = i + 1
    BY <2>1, CaptureClock, FramesAssumption
  <2>3. i = video.buffers[e].appended
    BY <1>1, <2>1, InvFacts DEF Sound, VideoSound, Filming
  <2>4. Accepts(video, e, i)
    BY <2>1 DEF Capture
  <2>5. StoreGood(video) /\ Limits(video) /\ video' = VideoAppended(video, e, i)
    BY <1>1, <2>1, InvFacts DEF VideoGood
  <2>6. /\ StoreGood(video') /\ Limits(video') /\ DOMAIN video'.buffers = DOMAIN video.buffers
        /\ \A x \in DOMAIN video.buffers : video'.buffers[x].closed = video.buffers[x].closed
        /\ \A x \in DOMAIN video.buffers : x # e => video'.buffers[x].appended = video.buffers[x].appended
        /\ video'.buffers[e].appended = i + 1
    BY <1>4, <2>2, <2>3, <2>4, <2>5, AppendedKeeps
  <2>7. QED
    BY <1>4, <2>2, <2>6 DEF VideoGood, SameFilm
<1>6. LateSound(e)'
  BY <1>1, <1>2, <1>3, InvFacts DEF Sound, LateSound
<1>7. QED
  BY <1>1, <1>2, <1>5, <1>6, LoopStep

LEMMA RecordTickSound == ASSUME NEW e \in Episodes PROVE IInv /\ RecordTick(e) => IInv'
<1> SUFFICES ASSUME IInv, RecordTick(e) PROVE IInv'
  OBVIOUS
<1> DEFINE reason == IF run[e].reason = NoReason /\ AtLimit(run[e]) THEN "time_limit"
                     ELSE run[e].reason
           n == IF cancelled[e] /\ reason = NoReason THEN late[e] + 1 ELSE late[e]
<1>1. /\ worker[e] = "tick" /\ Goto(e, "report")
      /\ UNCHANGED <<phase, cancelled, session, video>>
  BY DEF RecordTick
<1>2. PICK record : run' = [run EXCEPT ![e] =
        [run[e] EXCEPT !.reason = reason, !.pending = @ \ Joined(run[e]),
                       !.records = Append(@, record)]]
  BY Zenon DEF RecordTick
<1> DEFINE r == [run[e] EXCEPT !.reason = reason, !.pending = @ \ Joined(run[e]),
                               !.records = Append(@, record)]
<1>3. run' = [run EXCEPT ![e] = r]
  BY <1>2
<1>4. late' = [late EXCEPT ![e] = n]
  BY DEF RecordTick
<1>5. /\ DOMAIN r = RunFields /\ r.reason = reason /\ r.index = run[e].index
      /\ run[e].reason # NoReason => reason # NoReason
  BY InvFacts DEF RunFields
<1>6. n \in Nat /\ (late[e] = 1 => run[e].reason # NoReason) /\ late[e] <= 1
      /\ (n # late[e] => cancelled[e] /\ reason = NoReason /\ n = late[e] + 1)
  BY <1>1, InvFacts DEF Sound, LateSound
<1> HIDE DEF n, r, reason
<1>7. late'[e] = n /\ run'[e] = r /\ worker'[e] = "report"
  BY <1>1, <1>3, <1>4, InvFacts, Going
<1>8. LateSound(e)'
  BY <1>1, <1>5, <1>6, <1>7, InvFacts DEF Sound, LateSound
<1>9. run'[e].index = run[e].index /\ worker[e] \in Filming
  BY <1>1, <1>5, <1>7 DEF Filming
<1>10. QED
  BY <1>1, <1>3, <1>4, <1>5, <1>6, <1>8, <1>9, InvFacts, SameIndex, LoopStep

LEMMA ReportSound == ASSUME NEW e \in Episodes PROVE IInv /\ Report(e) => IInv'
<1> SUFFICES ASSUME IInv, Report(e) PROVE IInv'
  OBVIOUS
<1> DEFINE step == IF run[e].reason = NoReason THEN "physics" ELSE "close"
<1>1. /\ worker[e] = "report" /\ Goto(e, step)
      /\ \E p \in {"running", "cancelling"} : phase' = [phase EXCEPT ![e] = p]
      /\ UNCHANGED <<cancelled, run, session, video, late>>
  BY DEF Report
<1>2. step \in {"physics", "close"} /\ (step = "close" => run[e].reason # NoReason)
  OBVIOUS
<1> HIDE DEF step
<1>3. worker'[e] = step
  BY <1>1, InvFacts, Going
<1>4. LateSound(e)'
  BY <1>1, <1>2, <1>3, InvFacts DEF Sound, LateSound
<1>5. run'[e].index = run[e].index /\ worker[e] \in Filming
  BY <1>1 DEF Filming
<1>6. QED
  BY <1>1, <1>2, <1>4, <1>5, InvFacts, SameIndex, LoopStep

LEMMA PhysicsSound == ASSUME NEW e \in Episodes PROVE IInv /\ Physics(e) => IInv'
<1> SUFFICES ASSUME IInv, Physics(e) PROVE IInv'
  OBVIOUS
<1>1. /\ worker[e] = "physics" /\ Goto(e, "check")
      /\ UNCHANGED <<phase, cancelled, session, video, late>>
  BY DEF Physics
<1>2. PICK settled \in BOOLEAN :
        run' = [run EXCEPT ![e] =
                 [run[e] EXCEPT !.step = @ + 1,
                                !.reason = IF @ # NoReason THEN @
                                           ELSE IF settled THEN "settled_at_destination"
                                           ELSE IF run[e].step + 1 >= MaxSteps THEN "time_limit"
                                           ELSE NoReason]]
  BY DEF Physics
<1> DEFINE r == [run[e] EXCEPT !.step = @ + 1,
                               !.reason = IF @ # NoReason THEN @
                                          ELSE IF settled THEN "settled_at_destination"
                                          ELSE IF run[e].step + 1 >= MaxSteps THEN "time_limit"
                                          ELSE NoReason]
<1>3. run' = [run EXCEPT ![e] = r] /\ DOMAIN r = RunFields /\ r.index = run[e].index
  <2>1. run' = [run EXCEPT ![e] = r]
    BY <1>2
  <2>2. QED
    BY <2>1, InvFacts DEF RunFields
<1> HIDE DEF r
<1>4. worker'[e] = "check"
  BY <1>1, InvFacts, Going
<1>5. LateSound(e)'
  BY <1>1, <1>4, InvFacts DEF Sound, LateSound
<1>6. run'[e].index = run[e].index /\ worker[e] \in Filming
  BY <1>1, <1>3, InvFacts DEF Filming
<1>7. QED
  BY <1>1, <1>3, <1>5, <1>6, InvFacts, SameIndex, LoopStep

LEMMA CloseSound == ASSUME NEW e \in Episodes PROVE IInv /\ Close(e) => IInv'
<1> SUFFICES ASSUME IInv, Close(e) PROVE IInv'
  OBVIOUS
<1>1. /\ worker[e] = "close" /\ Goto(e, "finish") /\ session' = [session EXCEPT ![e] = "closed"]
      /\ UNCHANGED <<phase, cancelled, run, video, late>> /\ "finish" \in Steps
  BY DEF Close, Steps
<1>2. worker'[e] = "finish" /\ session'[e] = "closed"
  BY <1>1, InvFacts, Going
<1>3. Sound(e)'
  BY <1>1, <1>2, InvFacts
     DEF Sound, PhaseSound, SessionSound, VideoSound, LateSound, Filming, Ended, Steps
<1>4. QED
  BY <1>1, <1>2, <1>3, InvFacts, NotFilmed, WorkerStep

\* A run that is over starts anew with nothing late.
LEMMA Anew ==
  ASSUME IInv, NEW e \in Episodes, run' = [run EXCEPT ![e] = NewRun], late' = [late EXCEPT ![e] = 0]
  PROVE  /\ \E r : DOMAIN r = RunFields /\ run' = [run EXCEPT ![e] = r]
         /\ \E n \in Nat : late' = [late EXCEPT ![e] = n]
         /\ LateSound(e)'
<1>1. \E r : DOMAIN r = RunFields /\ run' = [run EXCEPT ![e] = r]
  <2>1. DOMAIN NewRun = RunFields
    BY DEF NewRun, RunFields
  <2>2. QED
    BY <2>1, Zenon
<1>2. \E n \in Nat : late' = [late EXCEPT ![e] = n]
  <2>1. 0 \in Nat
    OBVIOUS
  <2>2. QED
    BY <2>1, Zenon
<1>3. LateSound(e)'
  <2>1. late'[e] = 0
    BY InvFacts
  <2>2. QED
    BY <2>1 DEF LateSound
<1>4. QED
  BY <1>1, <1>2, <1>3

LEMMA FinishVideoSound == ASSUME NEW e \in Episodes PROVE IInv /\ FinishVideo(e) => IInv'
<1> SUFFICES ASSUME IInv, FinishVideo(e) PROVE IInv'
  OBVIOUS
<1> DEFINE step == IF worker[e] = "finish" THEN "completed" ELSE "failed"
<1>1. /\ worker[e] \in {"finish", "release"} /\ video' = VideoFinished(video, e)
      /\ run' = [run EXCEPT ![e] = NewRun] /\ late' = [late EXCEPT ![e] = 0] /\ Goto(e, step)
      /\ UNCHANGED <<phase, cancelled, session>>
  BY DEF FinishVideo
<1>2. step \in Steps /\ step \in {"completed", "failed"} /\ (step = "completed" => worker[e] = "finish")
      /\ (step = "failed" => worker[e] = "release")
  BY <1>1 DEF Steps
<1> HIDE DEF step
<1>3. worker'[e] = step
  BY <1>1, InvFacts, Going
<1>4. e \in DOMAIN video.buffers
  BY <1>1, InvFacts DEF Sound, PhaseSound, VideoSound, Steps
<1>5. /\ VideoGood(video') /\ DOMAIN video'.buffers = DOMAIN video.buffers
      /\ \A x \in Episodes \ {e} : SameFilm(video', video, x)
      /\ video'.buffers[e].closed
  BY <1>1, <1>4, InvFacts, FinishedKeeps DEF VideoGood, SameFilm
<1>6. /\ \E r : DOMAIN r = RunFields /\ run' = [run EXCEPT ![e] = r]
      /\ \E n \in Nat : late' = [late EXCEPT ![e] = n]
      /\ LateSound(e)'
  BY <1>1, Anew
<1>7. Sound(e)'
  BY <1>1, <1>2, <1>3, <1>4, <1>5, <1>6, InvFacts
     DEF Sound, PhaseSound, SessionSound, VideoSound, Filming, Ended, Steps
<1>8. QED
  BY <1>1, <1>2, <1>5, <1>6, <1>7, WorkerStep

LEMMA RunRaisesSound == ASSUME NEW e \in Episodes PROVE IInv /\ RunRaises(e) => IInv'
<1> SUFFICES ASSUME IInv, RunRaises(e) PROVE IInv'
  OBVIOUS
<1>1. /\ worker[e] \in {"opening", "first", "video", "tick", "physics", "close"}
      /\ session' = session \/ session' = [session EXCEPT ![e] = "closed"]
      /\ run' = [run EXCEPT ![e] = NewRun] /\ late' = [late EXCEPT ![e] = 0] /\ Goto(e, "abort")
      /\ UNCHANGED <<phase, cancelled, video>> /\ "abort" \in Steps
  BY DEF RunRaises, Steps
<1>2. worker'[e] = "abort" /\ (session'[e] = session[e] \/ session'[e] = "closed")
  BY <1>1, InvFacts, Going
<1>3. /\ \E r : DOMAIN r = RunFields /\ run' = [run EXCEPT ![e] = r]
      /\ \E n \in Nat : late' = [late EXCEPT ![e] = n]
      /\ LateSound(e)'
  BY <1>1, Anew
<1>4. Sound(e)'
  BY <1>1, <1>2, <1>3, InvFacts
     DEF Sound, PhaseSound, SessionSound, VideoSound, Filming, Ended, Steps
<1>5. QED
  BY <1>1, <1>3, <1>4, InvFacts, NotFilmed, WorkerStep

LEMMA AbortSound == ASSUME NEW e \in Episodes PROVE IInv /\ Abort(e) => IInv'
<1> SUFFICES ASSUME IInv, Abort(e) PROVE IInv'
  OBVIOUS
<1>1. /\ worker[e] = "abort" /\ Goto(e, "release")
      /\ session' = session \/ \E q \in {"open", "closed", "aborted", "stranded"} :
                                 session' = [session EXCEPT ![e] = q]
      /\ UNCHANGED <<phase, cancelled, run, video, late>> /\ "release" \in Steps
  BY DEF Abort, Steps
<1>2. worker'[e] = "release" /\ session'[e] # "open"
  BY <1>1, InvFacts, Going DEF Abort
<1>3. Sound(e)'
  BY <1>1, <1>2, InvFacts
     DEF Sound, PhaseSound, SessionSound, VideoSound, LateSound, Filming, Ended, Steps
<1>4. QED
  BY <1>1, <1>3, InvFacts, NotFilmed, WorkerStep

LEMMA ReturnSound == ASSUME NEW e \in Episodes PROVE IInv /\ Return(e) => IInv'
<1> SUFFICES ASSUME IInv, Return(e) PROVE IInv'
  OBVIOUS
<1>1. /\ worker[e] = "returning" /\ Goto(e, "done")
      /\ UNCHANGED <<phase, cancelled, run, session, video, late>>
  BY DEF Return
<1>2. worker'[e] = "done"
  BY <1>1, InvFacts, Going
<1>3. Sound(e)'
  BY <1>1, <1>2, InvFacts
     DEF Sound, PhaseSound, SessionSound, VideoSound, LateSound, Filming, Ended, Steps
<1>4. QED
  BY <1>1, <1>3, InvFacts, NotFilmed, WorkerStep

\* The last update shows how the run ended, and prunes the table.
LEMMA UpdateSound == ASSUME NEW e \in Episodes PROVE IInv /\ Update(e) => IInv'
<1> SUFFICES ASSUME IInv, Update(e) PROVE IInv'
  OBVIOUS
<1> DEFINE p == IF worker[e] = "completed" THEN "closed" ELSE "failed"
           ph == [phase EXCEPT ![e] = p]
<1>1. /\ worker[e] \in {"completed", "failed"} /\ Prune(statuses, ph, video) /\ Goto(e, "returning")
      /\ UNCHANGED <<cancelled, run, session, late>>
  BY DEF Update
<1>2. /\ p \in Ended /\ (p = "closed" => worker[e] = "completed")
      /\ ph \in [Episodes -> Phases \cup {"absent"}] /\ ph[e] = p
      /\ \A x \in Episodes \ {e} : ph[x] = phase[x]
  BY InvFacts DEF Ended, Phases
<1> HIDE DEF p, ph
<1>3. /\ phase' \in [Episodes -> Phases \cup {"absent"}] /\ VideoGood(video')
      /\ \A x \in Episodes :
           \/ phase'[x] = "absent" /\ worker[x] = "done" /\ x \notin DOMAIN video'.buffers
           \/ phase'[x] = ph[x] /\ SameFilm(video', video, x)
      /\ DOMAIN video'.buffers \subseteq Episodes
  BY <1>1, <1>2, Pruned DEF IInv, Shape
<1>4. /\ worker' \in [Episodes -> Steps \cup {"none", "queued", "done"}] /\ worker'[e] = "returning"
      /\ \A x \in Episodes \ {e} : worker'[x] = worker[x]
  BY <1>1, InvFacts DEF Goto, Steps
<1>5. Shape'
  BY <1>1, <1>3, <1>4 DEF IInv, Shape
<1>6. ASSUME NEW x \in Episodes PROVE Sound(x)'
  <2>1. CASE x # e
    BY <1>1, <1>2, <1>3, <1>4, <2>1, InvFacts, Undisturbed
  <2>2. CASE x = e
    <3>1. phase'[e] = p /\ e \in DOMAIN video.buffers /\ e \in DOMAIN video'.buffers
          /\ video'.buffers[e].closed
      BY <1>1, <1>2, <1>3, InvFacts DEF Sound, PhaseSound, VideoSound, SameFilm, Steps
    <3>2. QED
      BY <1>1, <1>2, <1>4, <2>2, <3>1, InvFacts
         DEF Sound, PhaseSound, SessionSound, VideoSound, LateSound, Filming, Ended, Steps
  <2>3. QED
    BY <2>1, <2>2
<1>7. QED
  BY <1>5, <1>6 DEF IInv

-----------------------------------------------------------------------------
LEMMA StepSound == IInv /\ ClockInv /\ [Next]_vars => IInv'
<1> SUFFICES ASSUME IInv, ClockInv, [Next]_vars PROVE IInv'
  OBVIOUS
<1>1. CASE UNCHANGED vars
  <2>1. UNCHANGED <<phase, cancelled, worker, run, session, video, late>>
    BY <1>1 DEF vars
  <2>2. Shape'
    BY <2>1 DEF IInv, Shape
  <2>3. \A e \in Episodes : Sound(e)'
    BY <2>1, InvFacts, NotFilmed, Undisturbed
  <2>4. QED
    BY <2>2, <2>3 DEF IInv
<1>2. CASE \E e \in Episodes : Works(e)
  BY <1>2, RunRaisesSound, AbortSound, WorkerStartsSound, OpenSound, CheckCancelSound,
     RecordTickSound, ReportSound, PhysicsSound, CloseSound, FinishVideoSound,
     UpdateSound, ReturnSound, CaptureSound
     DEF Works
<1>3. CASE \E e \in Episodes : StartEpisode(e) \/ Wait(e) \/ Cancel(e)
  BY <1>3, StartEpisodeSound, CancelSound, PruneSound DEF Wait
<1>4. CASE StartRefused \/ Shutdown
  BY <1>4, PruneSound, ShutdownSound DEF StartRefused
<1>5. QED
  BY <1>1, <1>2, <1>3, <1>4 DEF Next

LEMMA Invariance == Spec => []IInv
<1>1. Init => IInv
  BY InitSound
<1>2. IInv /\ ClockInv /\ [Next]_vars => IInv'
  BY StepSound
<1>3. QED
  BY <1>1, <1>2, ClockInvariance, PTL DEF Spec


-----------------------------------------------------------------------------
(* The table lists the episodes that have a phase.                         *)

TableInv ==
  /\ statuses \in Seq(Episodes) /\ Range(statuses) = {x \in Episodes : phase[x] # "absent"}
  /\ cancelled \in [Episodes -> BOOLEAN] /\ shutting \in BOOLEAN

LEMMA TablePruned ==
  ASSUME TableInv, NEW ph, {x \in Episodes : ph[x] # "absent"} = {x \in Episodes : phase[x] # "absent"},
         Prune(statuses, ph, video)
  PROVE  statuses' \in Seq(Episodes) /\ Range(statuses') = {x \in Episodes : phase'[x] # "absent"}
<1>1. PICK gone : gone = Removable(statuses, ph)
  OBVIOUS
<1>2. /\ statuses' = Without(statuses, gone)
      /\ phase' = [x \in Episodes |-> IF x \in gone THEN "absent" ELSE ph[x]]
  BY <1>1 DEF Prune
<1>3. statuses' \in Seq(Episodes) /\ Range(statuses') = Range(statuses) \ gone
  BY <1>2, WhatIsKept DEF TableInv
<1>4. QED
  BY <1>2, <1>3 DEF TableInv

LEMMA TableStarted == ASSUME TableInv, NEW e \in Episodes, StartEpisode(e) PROVE TableInv'
<1>1. PICK gone : gone = Removable(statuses, phase)
  OBVIOUS
<1>2. PICK left : left = Without(statuses, gone)
  OBVIOUS
<1>3. /\ statuses' = Append(left, e)
      /\ phase' = [x \in Episodes |-> IF x = e THEN "queued"
                                      ELSE IF x \in gone THEN "absent" ELSE phase[x]]
      /\ UNCHANGED <<cancelled, shutting>>
  BY <1>1, <1>2 DEF StartEpisode
<1>4. left \in Seq(Episodes) /\ Range(left) = Range(statuses) \ gone
  BY <1>2, WhatIsKept DEF TableInv
<1>5. PICK longer : longer = Append(left, e)
  OBVIOUS
<1>6. longer \in Seq(Episodes) /\ Range(longer) = Range(left) \cup {e}
  <2>1. PICK n : n = Len(left)
    OBVIOUS
  <2>2. /\ n \in Nat /\ DOMAIN left = 1 .. n /\ longer \in Seq(Episodes) /\ DOMAIN longer = 1 .. n + 1
        /\ longer[n + 1] = e /\ \A m \in 1 .. n : longer[m] = left[m]
    BY <1>4, <1>5, <2>1
  <2>3. \A x : x \in Range(longer) <=> \E m \in 1 .. n + 1 : x = longer[m]
    BY <2>2 DEF Range
  <2>4. \A x : x \in Range(left) <=> \E m \in 1 .. n : x = left[m]
    BY <2>2 DEF Range
  <2>5. n + 1 \in 1 .. n + 1 /\ \A m \in 1 .. n + 1 : m \in 1 .. n \/ m = n + 1
    BY <2>2
  <2>6. QED
    BY <2>2, <2>3, <2>4, <2>5
<1>7. QED
  BY <1>3, <1>4, <1>5, <1>6 DEF TableInv

\* An episode keeps being listed while its phase changes.
LEMMA TableRelisted ==
  ASSUME IInv, TableInv, NEW e \in Episodes, phase[e] # "absent", NEW p, p # "absent",
         phase' = [phase EXCEPT ![e] = p], statuses' = statuses
  PROVE  statuses' \in Seq(Episodes) /\ Range(statuses') = {x \in Episodes : phase'[x] # "absent"}
<1>1. DOMAIN phase = Episodes
  BY InvFacts
<1>2. phase'[e] = p /\ \A x \in Episodes \ {e} : phase'[x] = phase[x]
  BY <1>1
<1>3. QED
  BY <1>2 DEF TableInv

LEMMA TableWorks == ASSUME IInv, TableInv, NEW e \in Episodes, Works(e) PROVE TableInv'
<1>1. UNCHANGED <<cancelled, shutting>>
  BY DEF Works, RunRaises, Abort, WorkerStarts, Open, CheckCancel, RecordTick, Report, Physics,
         Close, FinishVideo, Update, Return, Capture
<1>2. statuses' \in Seq(Episodes) /\ Range(statuses') = {x \in Episodes : phase'[x] # "absent"}
  <2>1. CASE UNCHANGED <<statuses, phase>>
    BY <2>1 DEF TableInv
  <2>2. CASE WorkerStarts(e)
    <3>1. phase[e] # "absent"
      BY <2>2, InvFacts DEF WorkerStarts, Sound, PhaseSound
    <3>2. QED
      BY <2>2, <3>1, TableRelisted DEF WorkerStarts
  <2>3. CASE Report(e)
    <3>1. phase[e] # "absent"
      BY <2>3, InvFacts DEF Report, Sound, PhaseSound, Steps
    <3>2. QED
      BY <2>3, <3>1, TableRelisted DEF Report
  <2>4. CASE Update(e)
    <3> DEFINE p == IF worker[e] = "completed" THEN "closed" ELSE "failed"
               ph == [phase EXCEPT ![e] = p]
    <3>1. phase[e] # "absent" /\ DOMAIN phase = Episodes
      BY <2>4, InvFacts DEF Update, Sound, PhaseSound, Steps
    <3>2. ph[e] # "absent" /\ \A x \in Episodes \ {e} : ph[x] = phase[x]
      BY <3>1
    <3>3. Prune(statuses, ph, video)
      BY <2>4 DEF Update
    <3> HIDE DEF ph
    <3>4. {x \in Episodes : ph[x] # "absent"} = {x \in Episodes : phase[x] # "absent"}
      BY <3>1, <3>2
    <3>5. QED
      BY <3>3, <3>4, TablePruned
  <2>5. QED
    BY <2>1, <2>2, <2>3, <2>4
       DEF Works, RunRaises, Abort, Open, CheckCancel, RecordTick, Physics, Close, FinishVideo,
           Return, Capture
<1>3. QED
  BY <1>1, <1>2 DEF TableInv

LEMMA TableStep == IInv /\ TableInv /\ [Next]_vars => TableInv'
<1> SUFFICES ASSUME IInv, TableInv, [Next]_vars PROVE TableInv'
  OBVIOUS
<1>1. CASE UNCHANGED vars
  BY <1>1 DEF vars, TableInv
<1>2. CASE \E e \in Episodes : Works(e)
  BY <1>2, TableWorks
<1>3. CASE \E e \in Episodes : StartEpisode(e)
  BY <1>3, TableStarted
<1>4. CASE StartRefused \/ \E e \in Episodes : Wait(e)
  <2>1. Prune(statuses, phase, video) /\ cancelled' = cancelled /\ shutting' = shutting
    BY <1>4 DEF StartRefused, Wait
  <2>2. QED
    BY <2>1, TablePruned DEF TableInv
<1>5. ASSUME NEW e \in Episodes, Cancel(e) PROVE TableInv'
  <2>1. /\ phase[e] # "absent" /\ phase' = [phase EXCEPT ![e] = "cancelling"]
        /\ cancelled' = [cancelled EXCEPT ![e] = TRUE] /\ UNCHANGED <<statuses, shutting>>
    BY <1>5 DEF Cancel, Active, Phases
  <2>2. statuses' \in Seq(Episodes) /\ Range(statuses') = {x \in Episodes : phase'[x] # "absent"}
    BY <2>1, TableRelisted
  <2>3. cancelled' \in [Episodes -> BOOLEAN] /\ shutting' \in BOOLEAN
    BY <2>1 DEF TableInv
  <2>4. QED
    BY <2>2, <2>3 DEF TableInv
<1>6. CASE Shutdown
  <2>1. /\ shutting' = TRUE /\ UNCHANGED <<statuses, phase>>
        /\ cancelled' = [e \in Episodes |-> cancelled[e] \/ e \in Active]
    BY <1>6 DEF Shutdown
  <2>2. cancelled' \in [Episodes -> BOOLEAN]
    BY <2>1
  <2>3. QED
    BY <2>1, <2>2 DEF TableInv
<1>7. QED
  BY <1>1, <1>2, <1>3, <1>4, <1>5, <1>6 DEF Next

LEMMA TableInvariance == Spec => []TableInv
<1>1. Init => TableInv
  <2> SUFFICES ASSUME Init PROVE TableInv
    OBVIOUS
  <2>1. /\ statuses = <<>> /\ phase = [e \in Episodes |-> "absent"]
        /\ cancelled = [e \in Episodes |-> FALSE] /\ shutting = FALSE
    BY DEF Init
  <2>2. Range(statuses) = {} /\ statuses \in Seq(Episodes)
    BY <2>1 DEF Range
  <2>3. {x \in Episodes : phase[x] # "absent"} = {}
    BY <2>1
  <2>4. cancelled \in [Episodes -> BOOLEAN] /\ shutting \in BOOLEAN
    BY <2>1
  <2>5. QED
    BY <2>2, <2>3, <2>4 DEF TableInv
<1>2. QED
  BY <1>1, TableStep, Invariance, PTL DEF Spec

-----------------------------------------------------------------------------
(* What clients are shown is so.                                           *)

LEMMA Finite == /\ IsFiniteSet(Frames) /\ IsFiniteSet(Ticks) /\ Cardinality(Frames) \in Nat
                /\ Cardinality(Ticks) \in Nat /\ 1 <= Cardinality(Ticks)
<1>1. PICK a \in Nat, b \in Nat : a = LastStep * VideoHz /\ b = LastStep * TelemetryHz
  BY Rates
<1>2. PICK c \in Nat, d \in Nat : c = a \div PhysicsHz /\ d = b \div PhysicsHz
  BY Rates, Quotient
<1>3. Frames = 0 .. c /\ Ticks = 0 .. d
  BY <1>1, <1>2 DEF Frames, Ticks
<1>4. IsFiniteSet(0 .. c) /\ IsFiniteSet(0 .. d)
  BY FS_Interval
<1>5. IsFiniteSet(Frames) /\ IsFiniteSet(Ticks) /\ 0 \in Ticks
  BY <1>3, <1>4
<1>6. Cardinality(Frames) \in Nat /\ Cardinality(Ticks) \in Nat /\ Cardinality(Ticks) # 0
  BY <1>5, FS_CardinalityType, FS_EmptySet
<1>7. QED
  BY <1>5, <1>6

LEMMA RunTyped == ASSUME NEW r, RunGood(r) PROVE r \in Runs
<1>1. PICK k : k = r.index
  OBVIOUS
<1>2. k \in Nat /\ \A i \in 0 .. k - 1 : i \in Frames
  <2>1. ASSUME NEW i \in 0 .. k - 1 PROVE i \in Frames
    BY <1>1, <2>1, RunFacts, DueFrame DEF Captured
  <2>2. QED
    BY <1>1, <2>1, RunFacts
<1>3. k \in 0 .. Cardinality(Frames)
  <2>1. 0 .. k - 1 \subseteq Frames
    BY <1>2
  <2>2. Cardinality(0 .. k - 1) <= Cardinality(Frames)
    BY <2>1, Finite, FS_Subset
  <2>3. Cardinality(0 .. k - 1) = k
    <3>1. k - 1 \in Int /\ 0 \in Int
      BY <1>2
    <3>2. Cardinality(0 .. k - 1) = IF 0 > k - 1 THEN 0 ELSE k - 1 - 0 + 1
      BY <3>1, FS_Interval
    <3>3. QED
      BY <1>2, <3>2
  <2>4. QED
    BY <1>2, <2>2, <2>3, Finite
<1>4. r.pending \in SUBSET Frames
  BY <1>1, <1>2, RunFacts DEF PendingGood
<1>5. r.step \in 0 .. LastStep /\ r.reason \in Reasons \cup {NoReason} /\ r.records \in Seq(Records)
  BY RunFacts DEF RunGood
<1>6. r = [step |-> r.step, index |-> r.index, pending |-> r.pending, records |-> r.records,
           reason |-> r.reason]
  BY RunFacts DEF IsRun, RunFields
<1>7. QED
  BY <1>1, <1>3, <1>4, <1>5, <1>6 DEF Runs, Records

LEMMA AllTyped == ClockInv /\ IInv /\ TableInv => TypeOK
<1> SUFFICES ASSUME ClockInv, IInv, TableInv PROVE TypeOK
  OBVIOUS
<1>1. run \in [Episodes -> Runs]
  BY RunTyped DEF ClockInv
<1>2. late \in [Episodes -> 0 .. Cardinality(Ticks)]
  <2>1. late \in [Episodes -> Nat] /\ \A e \in Episodes : late[e] <= 1
    BY DEF IInv, Shape, Sound, LateSound
  <2>2. \A e \in Episodes : late[e] \in 0 .. Cardinality(Ticks)
    BY <2>1, Finite
  <2>3. QED
    BY <2>1, <2>2
<1>3. QED
  BY <1>1, <1>2 DEF TypeOK, IInv, Shape, TableInv

LEMMA RunWhole ==
  ASSUME NEW r, RunGood(r), NEW w, Placed(r, w)
  PROVE  /\ \A n \in DOMAIN r.records : r.records[n].frames = Joinable(n - 1)
         /\ \A n \in 1 .. Len(r.records) - 1 : ~r.records[n].completed
         /\ w \in {"close", "finish"} =>
              /\ r.records # <<>> /\ Last(r.records).completed /\ r.pending = {}
<1>1. r.records \in Seq(Records) /\ DOMAIN r.records = 1 .. Len(r.records)
  BY RunFacts
<1>2. \A n \in DOMAIN r.records : r.records[n].frames = Joinable(n - 1)
  BY <1>1, RunFacts DEF RecordsGood
<1>3. \A n \in 1 .. Len(r.records) - 1 : ~r.records[n].completed
  BY RunFacts DEF RecordsGood
<1>4. ASSUME w \in {"close", "finish"}
      PROVE  r.records # <<>> /\ Last(r.records).completed /\ r.pending = {}
  <2>1. PICK n, k, j : n = Len(r.records) /\ k = r.index /\ j = n - 1
    OBVIOUS
  <2>2. n \in Nat /\ k \in Nat /\ n # 0 /\ r.step = j * Ratio /\ ~Unfinished(r)
    BY <1>4, <2>1, RunFacts DEF Placed, Ending
  <2>3. j \in Nat /\ j * VideoHz \in Nat
    <3>1. j \in Nat
      BY <2>1, <2>2
    <3>2. QED
      BY <3>1, Rates
  <2>4. ASSUME NEW i \in r.pending PROVE FALSE
    <3>1. i \in 0 .. k - 1 /\ j * VideoHz < i * TelemetryHz
      BY <2>1, <2>4, RunFacts DEF PendingGood
    <3>2. i \in Nat /\ i * PhysicsHz <= (j * Ratio) * VideoHz
      BY <2>1, <2>2, <3>1, RunFacts DEF Captured
    <3>3. i * TelemetryHz <= j * VideoHz
      BY <2>3, <3>2, FrameTime
    <3>4. i * TelemetryHz \in Nat
      BY <3>2, Rates
    <3>5. QED
      BY <2>3, <3>1, <3>3, <3>4
  <2>5. r.records # <<>> /\ Last(r.records).completed
    BY <2>1, <2>2 DEF Unfinished, Last
  <2>6. QED
    BY <2>4, <2>5
<1>5. QED
  BY <1>2, <1>3, <1>4

LEMMA AllWhole == ClockInv => TelemetryWhole
<1> SUFFICES ASSUME ClockInv, NEW e \in Episodes
             PROVE  LET records == run[e].records IN
                    /\ \A n \in DOMAIN records : records[n].frames =
                         {i \in Frames : /\ i * TelemetryHz <= (n - 1) * VideoHz
                                         /\ i * TelemetryHz > (n - 2) * VideoHz}
                    /\ \A n \in 1 .. Len(records) - 1 : ~records[n].completed
                    /\ worker[e] \in {"close", "finish"} =>
                         records # <<>> /\ Last(records).completed /\ run[e].pending = {}
  BY DEF TelemetryWhole
<1>1. PICK r, w : r = run[e] /\ w = worker[e]
  OBVIOUS
<1>2. /\ \A n \in DOMAIN r.records : r.records[n].frames = Joinable(n - 1)
      /\ \A n \in 1 .. Len(r.records) - 1 : ~r.records[n].completed
      /\ w \in {"close", "finish"} =>
           /\ r.records # <<>> /\ Last(r.records).completed /\ r.pending = {}
  BY <1>1, ClockFacts, RunWhole
<1>3. ASSUME NEW n \in DOMAIN r.records
      PROVE  Joinable(n - 1) = {i \in Frames : /\ i * TelemetryHz <= (n - 1) * VideoHz
                                               /\ i * TelemetryHz > (n - 2) * VideoHz}
  <2>1. n \in Nat
    BY <1>1, ClockFacts, RunFacts
  <2>2. n - 1 - 1 = n - 2
    BY <2>1
  <2>3. ASSUME NEW i \in Frames
        PROVE  (n - 1 - 1) * VideoHz < i * TelemetryHz <=> i * TelemetryHz > (n - 2) * VideoHz
    <3>1. PICK a, b : a = i * TelemetryHz /\ b = (n - 2) * VideoHz
      OBVIOUS
    <3>2. a \in Int /\ b \in Int
      BY <2>1, <3>1, Rates DEF Frames
    <3>3. QED
      BY <2>2, <3>1, <3>2
  <2>4. QED
    BY <2>3 DEF Joinable
<1>4. QED
  BY <1>1, <1>2, <1>3

LEMMA AllAccounted == IInv => VideoAccounted
<1> SUFFICES ASSUME IInv PROVE VideoAccounted
  OBVIOUS
<1>1. PICK v : v = video
  OBVIOUS
<1>2. StoreGood(v) /\ Limits(v)
  BY <1>1 DEF IInv, Shape, VideoGood
<1>3. v.total = Held(v, DOMAIN v.buffers) /\ v.total <= MaxTotalBytes
  BY <1>2 DEF StoreGood, Accounted, Limits
<1>4. ASSUME NEW e \in DOMAIN v.buffers
      PROVE  /\ Len(v.buffers[e].frames) <= MaxFrameSets /\ Bytes(v.buffers[e].frames) <= MaxBytes
             /\ v.buffers[e].appended = v.buffers[e].dropped + Len(v.buffers[e].frames)
             /\ \A n \in DOMAIN v.buffers[e].frames :
                  v.buffers[e].frames[n] = v.buffers[e].dropped + n - 1
             /\ \A n \in DOMAIN v.buffers[e].frames : <<e, v.buffers[e].frames[n]>> \in Range(v.order)
  <2>1. Len(v.buffers[e].frames) <= MaxFrameSets /\ Bytes(v.buffers[e].frames) <= MaxBytes
    BY <1>2 DEF Limits
  <2>2. /\ v.buffers[e].appended = v.buffers[e].dropped + Len(v.buffers[e].frames)
        /\ Numbered(v.buffers[e].frames, v.buffers[e].dropped)
    BY <1>2, BufferFacts
  <2>3. \A i \in Range(v.buffers[e].frames) : <<e, i>> \in Range(v.order)
    BY <1>2 DEF StoreGood, OrderGood
  <2>4. \A n \in DOMAIN v.buffers[e].frames : v.buffers[e].frames[n] \in Range(v.buffers[e].frames)
    BY DEF Range
  <2>5. QED
    BY <2>1, <2>2, <2>3, <2>4 DEF Numbered
<1>5. QED
  BY <1>1, <1>3, <1>4 DEF VideoAccounted
\* The status a client reads is true however cancellations, failures and pruning
\* interleave: what is listed as closed was measured, an ended episode has left no
\* open session and no open video behind (live/manager.py:185).
THEOREM StatusAlwaysTruthful == Spec => []StatusTruthful
<1>1. IInv => StatusTruthful
  <2> SUFFICES ASSUME IInv, NEW e \in Episodes
               PROVE  /\ phase[e] = "closed" => session[e] = "closed"
                      /\ worker[e] = "done" => phase[e] \in Ended \cup {"absent"}
                      /\ phase[e] \in Ended => session[e] # "open"
                      /\ phase[e] \in Ended => video.buffers[e].closed
    BY DEF StatusTruthful
  <2>1. QED
    BY InvFacts DEF Sound, PhaseSound, SessionSound, VideoSound
<1>2. QED
  BY <1>1, Invariance, PTL

\* A cancelled run is completed on its next tick: at most the tick under way when
\* the cancellation came is recorded without it (live/runner.py:429).
THEOREM CancelAlwaysTakesEffect == Spec => []CancelTakesEffect
<1>1. IInv => CancelTakesEffect
  BY InvFacts DEF CancelTakesEffect, Sound, LateSound
<1>2. QED
  BY <1>1, Invariance, PTL

\* The telemetry of a run is whole at every moment of it: each tick recorded so far is
\* joined to all the frames since the tick before it and to no other, only the last
\* record may say completed, and when the episode is closed it does, with no frame
\* left to join (live/runner.py:366, live/telemetry.py).
THEOREM TelemetryAlwaysWhole == Spec => []TelemetryWhole
BY AllWhole, ClockInvariance, PTL

\* The bytes the video store counts are those of the frames it holds, never more than
\* its limits, and what it discards first is known for every frame, so that room can
\* be made for the next one (live/video.py:170).
THEOREM VideoAlwaysAccounted == Spec => []VideoAccounted
BY AllAccounted, Invariance, PTL

\* What clients are shown of a live episode is so: its status, its telemetry and the
\* video held for it, in every state the manager, its workers and its clients reach.
THEOREM LiveAlwaysTruthful == Spec => []LiveTruthful
<1>1. TypeOK /\ StatusTruthful /\ TelemetryWhole /\ VideoAccounted => LiveTruthful
  BY DEF LiveTruthful
<1>2. QED
  BY <1>1, AllTyped, ClockInvariance, Invariance, TableInvariance, StatusAlwaysTruthful,
     TelemetryAlwaysWhole, VideoAlwaysAccounted, PTL
===============================================================================
