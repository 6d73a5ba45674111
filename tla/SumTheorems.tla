---------------------------- MODULE SumTheorems ----------------------------
(***************************************************************************)
(* Sums over finite sets of integers that a function gives to the members: *)
(* what SumFunctionOnSet of the community modules is, by induction.  The   *)
(* induction is a least counterexample among the subsets of a finite set.  *)
(***************************************************************************)
EXTENDS Functions, FiniteSets, FiniteSetTheorems, TLAPS

Numbers(f, S) == IsFiniteSet(S) /\ \A x \in S : f[x] \in Int

\* What the fold makes of a set, the rest of it being summed by r.
Chosen(s) == CHOOSE x \in s : TRUE
Added(f, r, s) == IF s = {} THEN 0 ELSE f[Chosen(s)] + r[s \ {Chosen(s)}]
Sums(f, D) == CHOOSE r : r = [s \in SUBSET D |-> Added(f, r, s)]

\* The sum of a set is what its function of sums makes of the whole set.
LEMMA SumIsLast ==
    ASSUME NEW f, NEW D
    PROVE  SumFunctionOnSet(f, D) = Sums(f, D)[D]
BY DEF SumFunctionOnSet, FoldFunctionOnSet, MapThenFoldSet, Sums, Added, Chosen

\* The member that is added first is one of the set.
LEMMA ChosenIsMember == ASSUME NEW s, s # {} PROVE Chosen(s) \in s
BY DEF Chosen

---------------------------------------------------------------------------
(* Least counterexamples *)

\* A set of natural numbers has a least one.
LEMMA LeastNumber ==
    ASSUME NEW B \in SUBSET Nat, B # {}
    PROVE  \E n \in B : \A m \in B : n <= m
<1>1. PICK n \in B : \A m \in B : ~ (<<m, n>> \in OpToRel(<, Nat))
  BY NatLessThanWellFounded, WFMin
<1>2. \A m \in B : n <= m
  <2> SUFFICES ASSUME NEW m \in B PROVE n <= m
    OBVIOUS
  <2>1. ~ (m < n)
    BY <1>1 DEF OpToRel
  <2> QED BY <2>1
<1> QED BY <1>2

\* A family of subsets of a finite set has one with no smaller one in it.
LEMMA LeastSubset ==
    ASSUME NEW D, IsFiniteSet(D), NEW B \in SUBSET (SUBSET D), B # {}
    PROVE  \E m \in B : \A s \in B : s \subseteq m => s = m
<1>1. IsWellFoundedOn(StrictSubsetOrdering(D), SUBSET D)
  BY FS_StrictSubsetOrderingWellFounded, FS_FiniteSubsetsOfFinite
<1>2. PICK m \in B : \A s \in B : ~ (<<s, m>> \in StrictSubsetOrdering(D))
  <2> DEFINE R == StrictSubsetOrdering(D)
             F == SUBSET D
  <2>1. IsWellFoundedOn(R, F) /\ B \subseteq F /\ B # {}
    BY <1>1
  <2> HIDE DEF R, F
  <2>2. \E x \in B : \A y \in B : ~ (<<y, x>> \in R)
    BY <2>1, WFMin
  <2> QED BY <2>2 DEF R
<1> QED BY <1>2 DEF StrictSubsetOrdering

---------------------------------------------------------------------------
(* The fold is well defined *)

\* There is a function that sums all sets of less than n members.
Summed(f, D, n) ==
    \E r \in [SUBSET D -> Int] :
       \A s \in SUBSET D : Cardinality(s) < n => r[s] = Added(f, r, s)

\* ... and so there is one for the sets of one member more.
LEMMA SummedFurther ==
    ASSUME NEW f, NEW D, Numbers(f, D), NEW n \in Nat, Summed(f, D, n)
    PROVE  Summed(f, D, n + 1)
<1>1. PICK r \in [SUBSET D -> Int] :
         \A s \in SUBSET D : Cardinality(s) < n => r[s] = Added(f, r, s)
  BY DEF Summed
<1> DEFINE q == [s \in SUBSET D |-> IF Cardinality(s) = n THEN Added(f, r, s) ELSE r[s]]
<1>2. ASSUME NEW s \in SUBSET D
      PROVE  /\ Cardinality(s) \in Nat /\ Added(f, r, s) \in Int
             /\ s # {} => /\ Chosen(s) \in D /\ s \ {Chosen(s)} \in SUBSET D
                          /\ Cardinality(s \ {Chosen(s)}) = Cardinality(s) - 1
  <2>1. IsFiniteSet(s) /\ Cardinality(s) \in Nat
    BY FS_Subset, FS_CardinalityType DEF Numbers
  <2>2. s # {} => Chosen(s) \in s
    BY ChosenIsMember
  <2>3. s # {} => Cardinality(s \ {Chosen(s)}) = Cardinality(s) - 1
    BY <2>1, <2>2, FS_RemoveElement
  <2> QED BY <2>1, <2>2, <2>3 DEF Added, Numbers
<1>3. q \in [SUBSET D -> Int]
  BY <1>2
<1>4. ASSUME NEW s \in SUBSET D, Cardinality(s) < n + 1
      PROVE  q[s] = Added(f, q, s)
  <2>1. Added(f, q, s) = Added(f, r, s)
    <3>1. CASE s = {}
      BY <3>1 DEF Added
    <3>2. CASE s # {}
      <4>1. /\ Cardinality(s) \in Nat /\ s \ {Chosen(s)} \in SUBSET D
            /\ Cardinality(s \ {Chosen(s)}) = Cardinality(s) - 1
        BY <1>2, <3>2
      <4>2. Cardinality(s \ {Chosen(s)}) # n
        BY <1>4, <4>1
      <4>3. q[s \ {Chosen(s)}] = r[s \ {Chosen(s)}]
        BY <4>1, <4>2
      <4> HIDE DEF q
      <4> QED BY <4>3 DEF Added
    <3> QED BY <3>1, <3>2
  <2>2. Cardinality(s) = n \/ Cardinality(s) < n
    <3>1. Cardinality(s) \in Nat
      BY <1>2
    <3> HIDE DEF q
    <3> QED BY <1>4, <3>1
  <2>3. q[s] = Added(f, r, s)
    BY <1>1, <2>2
  <2> QED BY <2>1, <2>3
<1> HIDE DEF q
<1> QED BY <1>3, <1>4 DEF Summed

\* There is a function that sums every subset: its definition does not choose
\* among nothing.
LEMMA SumsExist ==
    ASSUME NEW f, NEW D, Numbers(f, D)
    PROVE  \E r \in [SUBSET D -> Int] : r = [s \in SUBSET D |-> Added(f, r, s)]
<1> DEFINE B == {n \in Nat : ~ Summed(f, D, n)}
<1>1. Summed(f, D, 0)
  <2>1. [s \in SUBSET D |-> 0] \in [SUBSET D -> Int]
    OBVIOUS
  <2>2. \A s \in SUBSET D : ~ (Cardinality(s) < 0)
    BY FS_Subset, FS_CardinalityType DEF Numbers
  <2> QED BY <2>1, <2>2 DEF Summed
<1>2. B = {}
  <2> SUFFICES ASSUME B # {} PROVE FALSE
    OBVIOUS
  <2>1. PICK n \in B : \A m \in B : n <= m
    BY LeastNumber
  <2>2. n # 0 /\ n \in Nat
    BY <1>1
  <2>3. n - 1 \in Nat /\ n - 1 \notin B
    BY <2>1, <2>2
  <2>4. Summed(f, D, n - 1)
    BY <2>3
  <2>5. Summed(f, D, (n - 1) + 1)
    BY <2>3, <2>4, SummedFurther
  <2>6. (n - 1) + 1 = n
    BY <2>2
  <2> QED BY <2>1, <2>5, <2>6
<1> DEFINE n == Cardinality(D) + 1
<1>3. n \in Nat /\ \A s \in SUBSET D : Cardinality(s) < n
  <2>1. Cardinality(D) \in Nat
    BY FS_CardinalityType DEF Numbers
  <2>2. ASSUME NEW s \in SUBSET D PROVE Cardinality(s) \in Nat /\ Cardinality(s) <= Cardinality(D)
    BY FS_Subset, FS_CardinalityType DEF Numbers
  <2> QED BY <2>1, <2>2
<1>4. Summed(f, D, n)
  BY <1>2, <1>3
<1> HIDE DEF n, B
<1>5. PICK r \in [SUBSET D -> Int] :
         \A s \in SUBSET D : Cardinality(s) < n => r[s] = Added(f, r, s)
  BY <1>4 DEF Summed
<1>6. \A s \in SUBSET D : r[s] = Added(f, r, s)
  BY <1>3, <1>5
<1>7. r = [s \in SUBSET D |-> Added(f, r, s)]
  BY <1>6
<1> QED BY <1>7

\* The chosen function of sums is such a one.
LEMMA SumsSum ==
    ASSUME NEW f, NEW D, Numbers(f, D)
    PROVE  \A s \in SUBSET D : Sums(f, D)[s] = Added(f, Sums(f, D), s)
<1>1. \E r : r = [s \in SUBSET D |-> Added(f, r, s)]
  <2>1. PICK q \in [SUBSET D -> Int] : q = [s \in SUBSET D |-> Added(f, q, s)]
    BY SumsExist
  <2> WITNESS q
  <2> QED BY <2>1
<1> DEFINE r == Sums(f, D)
<1>2. r = [s \in SUBSET D |-> Added(f, r, s)]
  BY <1>1 DEF Sums
<1> HIDE DEF r
<1>3. \A s \in SUBSET D : r[s] = Added(f, r, s)
  BY <1>2
<1> QED BY <1>3 DEF r

---------------------------------------------------------------------------
(* Sums of smaller sets *)

\* What a sum of D makes of a subset does not depend on D.
LEMMA SumsOfSubset ==
    ASSUME NEW f, NEW D, Numbers(f, D), NEW T \in SUBSET D
    PROVE  \A s \in SUBSET T : Sums(f, D)[s] = Sums(f, T)[s]
<1> DEFINE B == {s \in SUBSET T : Sums(f, D)[s] # Sums(f, T)[s]}
<1>1. Numbers(f, T)
  BY FS_Subset DEF Numbers
<1> SUFFICES ASSUME B # {} PROVE FALSE
  OBVIOUS
<1>2. B \in SUBSET (SUBSET T) /\ IsFiniteSet(T)
  BY <1>1 DEF Numbers
<1>3. PICK m \in B : \A s \in B : s \subseteq m => s = m
  <2> HIDE DEF B
  <2> QED BY <1>2, LeastSubset
<1>4. m \in SUBSET D /\ m \in SUBSET T /\ Sums(f, D)[m] # Sums(f, T)[m]
  BY <1>3
<1>5. /\ Sums(f, D)[m] = Added(f, Sums(f, D), m)
      /\ Sums(f, T)[m] = Added(f, Sums(f, T), m)
  BY <1>1, <1>4, SumsSum
<1>6. m # {}
  BY <1>4, <1>5 DEF Added
<1> DEFINE o == m \ {Chosen(m)}
<1>7. o \notin B /\ o \in SUBSET T
  <2>1. Chosen(m) \in m
    BY <1>6, ChosenIsMember
  <2>2. o # m /\ o \subseteq m
    BY <2>1
  <2> HIDE DEF B, o
  <2> QED BY <1>3, <1>4, <2>2
<1>8. Sums(f, D)[o] = Sums(f, T)[o]
  BY <1>7
<1> QED BY <1>4, <1>5, <1>6, <1>8 DEF Added

\* The sum of a set, by what is chosen first.
LEMMA SumStep ==
    ASSUME NEW f, NEW S, Numbers(f, S), S # {}
    PROVE  SumFunctionOnSet(f, S) = f[Chosen(S)] + SumFunctionOnSet(f, S \ {Chosen(S)})
<1> DEFINE o == S \ {Chosen(S)}
<1>1. S \in SUBSET S /\ o \in SUBSET S /\ o \in SUBSET o
  OBVIOUS
<1>2. Sums(f, S)[S] = Added(f, Sums(f, S), S)
  BY <1>1, SumsSum
<1>3. Sums(f, S)[o] = Sums(f, o)[o]
  BY <1>1, SumsOfSubset
<1> QED BY <1>2, <1>3, SumIsLast DEF Added

\* Nothing sums to zero.
THEOREM SumOfNothing ==
    ASSUME NEW f
    PROVE  SumFunctionOnSet(f, {}) = 0
<1>1. Numbers(f, {})
  BY FS_EmptySet DEF Numbers
<1>2. Sums(f, {})[{}] = Added(f, Sums(f, {}), {})
  BY <1>1, SumsSum
<1> QED BY <1>2, SumIsLast DEF Added

\* A sum of integers is an integer.
THEOREM SumIsInt ==
    ASSUME NEW f, NEW S, Numbers(f, S)
    PROVE  SumFunctionOnSet(f, S) \in Int
<1> DEFINE B == {s \in SUBSET S : SumFunctionOnSet(f, s) \notin Int}
<1>2. B = {}
  <2> SUFFICES ASSUME B # {} PROVE FALSE
    OBVIOUS
  <2>1. B \in SUBSET (SUBSET S) /\ IsFiniteSet(S)
    BY DEF Numbers
  <2>2. PICK m \in B : \A s \in B : s \subseteq m => s = m
    <3> HIDE DEF B
    <3> QED BY <2>1, LeastSubset
  <2>3. m \in SUBSET S /\ SumFunctionOnSet(f, m) \notin Int /\ Numbers(f, m)
    BY <2>2, FS_Subset DEF Numbers
  <2>4. m # {}
    <3>1. SumFunctionOnSet(f, {}) \in Int
      BY SumOfNothing
    <3> QED BY <2>3, <3>1
  <2> DEFINE o == m \ {Chosen(m)}
  <2>5. Chosen(m) \in m
    BY <2>4, ChosenIsMember
  <2>6. o \notin B /\ o \in SUBSET S
    <3>1. o # m /\ o \subseteq m
      BY <2>5
    <3> HIDE DEF B, o
    <3> QED BY <2>2, <2>3, <3>1
  <2>7. SumFunctionOnSet(f, o) \in Int /\ f[Chosen(m)] \in Int
    BY <2>3, <2>5, <2>6 DEF Numbers
  <2> QED BY <2>3, <2>4, <2>7, SumStep
<1> QED BY <1>2

\* Any member may be taken out of the sum, not only the chosen one.
THEOREM SumWithout ==
    ASSUME NEW f, NEW S, Numbers(f, S), NEW x \in S
    PROVE  SumFunctionOnSet(f, S) = f[x] + SumFunctionOnSet(f, S \ {x})
<1> DEFINE Total(s) == SumFunctionOnSet(f, s)
           B == {s \in SUBSET S : \E y \in s : Total(s) # f[y] + Total(s \ {y})}
<1> SUFFICES ASSUME B # {} PROVE FALSE
  OBVIOUS
<1>1. B \in SUBSET (SUBSET S) /\ IsFiniteSet(S)
  BY DEF Numbers
<1>2. PICK m \in B : \A s \in B : s \subseteq m => s = m
  <2> HIDE DEF B
  <2> QED BY <1>1, LeastSubset
<1>3. PICK y \in m : Total(m) # f[y] + Total(m \ {y})
  BY <1>2
<1>4. m \in SUBSET S /\ m # {}
  BY <1>2, <1>3
<1> HIDE DEF Total
<1>5. \A s \in SUBSET S : Numbers(f, s) /\ Total(s) \in Int
  BY SumIsInt, FS_Subset DEF Numbers, Total
<1> DEFINE c == Chosen(m)
<1>6. c \in m /\ Total(m) = f[c] + Total(m \ {c})
  BY <1>4, <1>5, ChosenIsMember, SumStep DEF Total
<1>7. c # y
  BY <1>3, <1>6
<1> HIDE DEF c
<1> DEFINE o == m \ {c, y}
<1>8. Total(m \ {c}) = f[y] + Total(o)
  <2>1. m \ {c} \notin B /\ m \ {c} \in SUBSET S /\ y \in m \ {c}
    <3> HIDE DEF B
    <3> QED BY <1>2, <1>4, <1>6, <1>7, <1>3
  <2>2. (m \ {c}) \ {y} = o
    OBVIOUS
  <2> QED BY <2>1, <2>2
<1>9. Total(m \ {y}) = f[c] + Total(o)
  <2>1. m \ {y} \notin B /\ m \ {y} \in SUBSET S /\ c \in m \ {y}
    <3> HIDE DEF B
    <3> QED BY <1>2, <1>4, <1>6, <1>7, <1>3
  <2>2. (m \ {y}) \ {c} = o
    OBVIOUS
  <2> QED BY <2>1, <2>2
<1>10. f[c] \in Int /\ f[y] \in Int /\ Total(o) \in Int
  BY <1>3, <1>4, <1>5, <1>6 DEF Numbers
<1> HIDE DEF o, B
<1> QED BY <1>3, <1>6, <1>8, <1>9, <1>10

\* A further member is added.
THEOREM SumWith ==
    ASSUME NEW f, NEW S, NEW x, x \notin S, Numbers(f, S \cup {x})
    PROVE  SumFunctionOnSet(f, S \cup {x}) = SumFunctionOnSet(f, S) + f[x]
<1>1. (S \cup {x}) \ {x} = S /\ x \in S \cup {x}
  OBVIOUS
<1>2. Numbers(f, S)
  BY FS_Subset DEF Numbers
<1>3. SumFunctionOnSet(f, S) \in Int /\ f[x] \in Int
  BY <1>2, SumIsInt DEF Numbers
<1> QED BY <1>1, <1>3, SumWithout

\* The sum depends on the members only, and grows with what they count.
THEOREM SumGrows ==
    ASSUME NEW f, NEW g, NEW S, Numbers(f, S), Numbers(g, S), \A x \in S : f[x] <= g[x]
    PROVE  SumFunctionOnSet(f, S) <= SumFunctionOnSet(g, S)
<1> DEFINE B == {s \in SUBSET S : ~ (SumFunctionOnSet(f, s) <= SumFunctionOnSet(g, s))}
<1> SUFFICES ASSUME B # {} PROVE FALSE
  OBVIOUS
<1>1. B \in SUBSET (SUBSET S) /\ IsFiniteSet(S)
  BY DEF Numbers
<1>2. PICK m \in B : \A s \in B : s \subseteq m => s = m
  <2> HIDE DEF B
  <2> QED BY <1>1, LeastSubset
<1>3. m \in SUBSET S /\ ~ (SumFunctionOnSet(f, m) <= SumFunctionOnSet(g, m))
  BY <1>2
<1>4. m # {}
  <2>1. SumFunctionOnSet(f, {}) = 0 /\ SumFunctionOnSet(g, {}) = 0
    BY SumOfNothing
  <2> QED BY <1>3, <2>1
<1>5. PICK x : x \in m
  BY <1>4
<1> DEFINE o == m \ {x}
<1>6. o \notin B /\ o \in SUBSET S
  <2>1. o # m /\ o \subseteq m
    BY <1>5
  <2> HIDE DEF B, o
  <2> QED BY <1>2, <1>3, <2>1
<1>7. \A s \in SUBSET S : Numbers(f, s) /\ Numbers(g, s)
  BY FS_Subset DEF Numbers
<1>8. /\ SumFunctionOnSet(f, m) = f[x] + SumFunctionOnSet(f, o)
      /\ SumFunctionOnSet(g, m) = g[x] + SumFunctionOnSet(g, o)
  BY <1>3, <1>5, <1>7, SumWithout
<1>9. /\ f[x] \in Int /\ g[x] \in Int /\ f[x] <= g[x]
      /\ SumFunctionOnSet(f, o) \in Int /\ SumFunctionOnSet(g, o) \in Int
  BY <1>3, <1>5, <1>6, <1>7, SumIsInt DEF Numbers
<1>10. SumFunctionOnSet(f, o) <= SumFunctionOnSet(g, o)
  BY <1>6
<1> HIDE DEF o, B
<1> QED BY <1>3, <1>8, <1>9, <1>10

\* Functions that agree on a set have the same sum over it.
THEOREM SumAgrees ==
    ASSUME NEW f, NEW g, NEW S, Numbers(f, S), \A x \in S : f[x] = g[x]
    PROVE  SumFunctionOnSet(f, S) = SumFunctionOnSet(g, S)
<1>1. Numbers(g, S) /\ \A x \in S : f[x] <= g[x] /\ g[x] <= f[x]
  BY DEF Numbers
<1>2. /\ SumFunctionOnSet(f, S) <= SumFunctionOnSet(g, S)
      /\ SumFunctionOnSet(g, S) <= SumFunctionOnSet(f, S)
  BY <1>1, SumGrows
<1>3. SumFunctionOnSet(f, S) \in Int /\ SumFunctionOnSet(g, S) \in Int
  BY <1>1, SumIsInt
<1> QED BY <1>2, <1>3

\* One member counts for something else.
THEOREM SumChanges ==
    ASSUME NEW f, NEW g, NEW S, Numbers(f, S), NEW x \in S, g[x] \in Int,
           \A y \in S : y # x => g[y] = f[y]
    PROVE  SumFunctionOnSet(g, S) = (SumFunctionOnSet(f, S) - f[x]) + g[x]
<1>1. Numbers(g, S) /\ Numbers(f, S \ {x})
  BY FS_Subset DEF Numbers
<1>2. SumFunctionOnSet(f, S \ {x}) = SumFunctionOnSet(g, S \ {x})
  BY <1>1, SumAgrees
<1>3. /\ SumFunctionOnSet(f, S) = f[x] + SumFunctionOnSet(f, S \ {x})
      /\ SumFunctionOnSet(g, S) = g[x] + SumFunctionOnSet(g, S \ {x})
  BY <1>1, SumWithout
<1>4. f[x] \in Int /\ SumFunctionOnSet(f, S \ {x}) \in Int
  BY <1>1, SumIsInt DEF Numbers
<1> QED BY <1>2, <1>3, <1>4

\* Zeros sum to zero.
THEOREM SumOfZeros ==
    ASSUME NEW f, NEW S, IsFiniteSet(S), \A x \in S : f[x] = 0
    PROVE  SumFunctionOnSet(f, S) = 0
<1> DEFINE B == {s \in SUBSET S : SumFunctionOnSet(f, s) # 0}
<1> SUFFICES ASSUME B # {} PROVE FALSE
  OBVIOUS
<1>1. B \in SUBSET (SUBSET S)
  OBVIOUS
<1>2. PICK m \in B : \A s \in B : s \subseteq m => s = m
  <2> HIDE DEF B
  <2> QED BY <1>1, LeastSubset
<1>3. m \in SUBSET S /\ SumFunctionOnSet(f, m) # 0 /\ Numbers(f, m)
  BY <1>2, FS_Subset DEF Numbers
<1>4. m # {}
  <2>1. SumFunctionOnSet(f, {}) = 0
    BY SumOfNothing
  <2> QED BY <1>3, <2>1
<1>5. PICK x : x \in m
  BY <1>4
<1>6. m \ {x} \notin B /\ m \ {x} \in SUBSET S
  <2>1. m \ {x} # m /\ m \ {x} \subseteq m
    BY <1>5
  <2> HIDE DEF B
  <2> QED BY <1>2, <1>3, <2>1
<1>7. SumFunctionOnSet(f, m) = f[x] + SumFunctionOnSet(f, m \ {x})
  BY <1>3, <1>5, SumWithout
<1>8. f[x] = 0 /\ SumFunctionOnSet(f, m \ {x}) = 0
  BY <1>3, <1>5, <1>6
<1> QED BY <1>3, <1>7, <1>8

\* Among natural numbers, a sum is one, and at least each of its parts.
THEOREM SumOfNaturals ==
    ASSUME NEW f, NEW S, IsFiniteSet(S), \A x \in S : f[x] \in Nat
    PROVE  /\ SumFunctionOnSet(f, S) \in Nat
           /\ \A x \in S : f[x] <= SumFunctionOnSet(f, S)
<1> DEFINE zero == [x \in S |-> 0]
<1>1. ASSUME NEW T \in SUBSET S PROVE SumFunctionOnSet(f, T) \in Nat
  <2>1. IsFiniteSet(T) /\ Numbers(f, T) /\ Numbers(zero, T)
        /\ \A x \in T : zero[x] = 0 /\ zero[x] <= f[x]
    BY FS_Subset DEF Numbers
  <2> HIDE DEF zero
  <2>2. SumFunctionOnSet(zero, T) = 0
    BY <2>1, SumOfZeros
  <2>3. SumFunctionOnSet(zero, T) <= SumFunctionOnSet(f, T)
    BY <2>1, SumGrows
  <2>4. SumFunctionOnSet(f, T) \in Int
    BY <2>1, SumIsInt
  <2> QED BY <2>2, <2>3, <2>4
<1>2. ASSUME NEW x \in S PROVE f[x] <= SumFunctionOnSet(f, S)
  <2>1. SumFunctionOnSet(f, S) = f[x] + SumFunctionOnSet(f, S \ {x})
    BY SumWithout DEF Numbers
  <2>2. SumFunctionOnSet(f, S \ {x}) \in Nat /\ f[x] \in Nat
    BY <1>1
  <2> QED BY <2>1, <2>2
<1> QED BY <1>1, <1>2

\* Disjoint sets are summed one after the other.
THEOREM SumOfUnion ==
    ASSUME NEW f, NEW S, NEW T, Numbers(f, S \cup T), S \cap T = {}
    PROVE  SumFunctionOnSet(f, S \cup T) = SumFunctionOnSet(f, S) + SumFunctionOnSet(f, T)
<1> DEFINE Total(s) == SumFunctionOnSet(f, s)
           B == {s \in SUBSET T : Total(S \cup s) # Total(S) + Total(s)}
<1> SUFFICES ASSUME B # {} PROVE FALSE
  OBVIOUS
<1>1. B \in SUBSET (SUBSET T) /\ IsFiniteSet(T)
  BY FS_Subset DEF Numbers
<1>2. PICK m \in B : \A s \in B : s \subseteq m => s = m
  <2> HIDE DEF B
  <2> QED BY <1>1, LeastSubset
<1>3. m \in SUBSET T /\ Total(S \cup m) # Total(S) + Total(m)
  BY <1>2
<1>4. \A s \in SUBSET (S \cup T) : Numbers(f, s) /\ Total(s) \in Int
  BY SumIsInt, FS_Subset DEF Numbers
<1>5. m # {}
  <2>1. Total({}) = 0 /\ S \cup {} = S /\ Total(S) \in Int
    BY <1>4, SumOfNothing
  <2> QED BY <1>3, <2>1
<1>6. PICK x : x \in m
  BY <1>5
<1> HIDE DEF Total
<1> DEFINE o == m \ {x}
           so == S \cup o
<1>7. Total(so) = Total(S) + Total(o)
  <2>1. o # m /\ o \subseteq m /\ o \in SUBSET T
    BY <1>3, <1>6
  <2>2. o \notin B
    <3> HIDE DEF B, o
    <3> QED BY <1>2, <2>1
  <2> QED BY <2>1, <2>2
<1>8. x \notin o /\ x \notin so /\ o \cup {x} = m /\ so \cup {x} = S \cup m
  BY <1>3, <1>6
<1>9. m \in SUBSET (S \cup T) /\ (S \cup m) \in SUBSET (S \cup T) /\ o \in SUBSET (S \cup T)
  BY <1>3
<1> HIDE DEF o, so, B
<1>10. Total(m) = Total(o) + f[x] /\ Total(S \cup m) = Total(so) + f[x]
  BY <1>4, <1>8, <1>9, SumWith DEF Total
<1>11. f[x] \in Int /\ Total(o) \in Int /\ Total(S) \in Int
  BY <1>3, <1>4, <1>6, <1>9 DEF Numbers
<1> QED BY <1>3, <1>7, <1>10, <1>11

\* Sums of numbers that differ by at most c, always in the same direction.
THEOREM SumsApart ==
    ASSUME NEW f, NEW g, NEW S, Numbers(f, S), Numbers(g, S), NEW c \in Nat,
           \A x \in S : f[x] - g[x] \in 0..c
    PROVE  SumFunctionOnSet(f, S) - SumFunctionOnSet(g, S) \in 0..(Cardinality(S) * c)
<1> DEFINE Gap(s) == SumFunctionOnSet(f, s) - SumFunctionOnSet(g, s)
           B == {s \in SUBSET S : Gap(s) \notin 0..(Cardinality(s) * c)}
<1> SUFFICES ASSUME B # {} PROVE FALSE
  OBVIOUS
<1>1. B \in SUBSET (SUBSET S) /\ IsFiniteSet(S)
  BY DEF Numbers
<1>2. PICK m \in B : \A s \in B : s \subseteq m => s = m
  <2> HIDE DEF B
  <2> QED BY <1>1, LeastSubset
<1>3. m \in SUBSET S /\ Gap(m) \notin 0..(Cardinality(m) * c)
  BY <1>2
<1>4. \A s \in SUBSET S : Numbers(f, s) /\ Numbers(g, s) /\ IsFiniteSet(s)
  BY FS_Subset DEF Numbers
<1>5. m # {}
  <2>1. SumFunctionOnSet(f, {}) = 0 /\ SumFunctionOnSet(g, {}) = 0 /\ Cardinality({}) = 0
    BY SumOfNothing, FS_EmptySet
  <2>2. Gap({}) = 0 /\ 0 * c = 0
    BY <2>1
  <2>3. Gap({}) \in 0..(Cardinality({}) * c)
    BY <2>1, <2>2
  <2> HIDE DEF Gap
  <2> QED BY <1>3, <2>3
<1>6. PICK x : x \in m
  BY <1>5
<1> DEFINE o == m \ {x}
<1>7. o \in SUBSET S /\ Gap(o) \in 0..(Cardinality(o) * c)
  <2>1. o # m /\ o \subseteq m /\ o \in SUBSET S
    BY <1>3, <1>6
  <2>2. o \notin B
    <3> HIDE DEF B, o
    <3> QED BY <1>2, <2>1
  <2> QED BY <2>1, <2>2
<1>8. /\ SumFunctionOnSet(f, m) = f[x] + SumFunctionOnSet(f, o)
      /\ SumFunctionOnSet(g, m) = g[x] + SumFunctionOnSet(g, o)
  BY <1>3, <1>4, <1>6, SumWithout
<1>9. /\ f[x] \in Int /\ g[x] \in Int /\ f[x] - g[x] \in 0..c
      /\ SumFunctionOnSet(f, o) \in Int /\ SumFunctionOnSet(g, o) \in Int
  BY <1>3, <1>4, <1>6, <1>7, SumIsInt DEF Numbers
<1>10. Cardinality(m) = Cardinality(o) + 1 /\ Cardinality(o) \in Nat
  <2>1. IsFiniteSet(o) /\ x \notin o /\ o \cup {x} = m
    BY <1>4, <1>6, <1>7
  <2> HIDE DEF o
  <2> QED BY <2>1, FS_AddElement, FS_CardinalityType
<1> DEFINE n == Cardinality(o)
<1>11. (n + 1) * c = n * c + c /\ n * c \in Nat
  BY <1>10
<1>12. Gap(m) = (f[x] - g[x]) + Gap(o)
  BY <1>8, <1>9
<1> HIDE DEF o, n, B
<1> QED BY <1>3, <1>7, <1>9, <1>10, <1>11, <1>12 DEF n

\* Nothing is lost by leaving out members that are natural numbers.
THEOREM SumOfPart ==
    ASSUME NEW f, NEW S, Numbers(f, S), \A x \in S : f[x] >= 0, NEW T \in SUBSET S
    PROVE  SumFunctionOnSet(f, T) <= SumFunctionOnSet(f, S)
<1> DEFINE U == S \ T
           zero == [x \in S |-> 0]
<1>1. /\ T \cup U = S /\ T \cap U = {} /\ U \subseteq S
      /\ \A x \in U : zero[x] = 0
  OBVIOUS
<1>2. Numbers(f, T) /\ Numbers(f, U)
  BY <1>1, FS_Subset DEF Numbers
<1>3. Numbers(zero, U)
  BY <1>1, <1>2 DEF Numbers
<1>4. SumFunctionOnSet(f, T \cup U) = SumFunctionOnSet(f, T) + SumFunctionOnSet(f, U)
  <2> HIDE DEF U
  <2> QED
    BY <1>1, SumOfUnion
<1>5. SumFunctionOnSet(zero, U) = 0 /\ SumFunctionOnSet(zero, U) <= SumFunctionOnSet(f, U)
  <2>1. \A x \in U : zero[x] <= f[x]
    BY <1>1
  <2> HIDE DEF U, zero
  <2> QED
    BY <1>1, <1>2, <1>3, <2>1, SumOfZeros, SumGrows DEF Numbers
<1>6. SumFunctionOnSet(f, T) \in Int /\ SumFunctionOnSet(f, U) \in Int
  BY <1>2, SumIsInt
<1> HIDE DEF U, zero
<1>7. SumFunctionOnSet(f, S) = SumFunctionOnSet(f, T) + SumFunctionOnSet(f, U)
  BY <1>1, <1>4
<1>8. 0 <= SumFunctionOnSet(f, U)
  BY <1>5
<1> QED
  BY <1>6, <1>7, <1>8
=============================================================================
