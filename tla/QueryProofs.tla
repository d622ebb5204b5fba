----------------------------- MODULE QueryProofs -----------------------------
(***************************************************************************)
(* What module Query guarantees for any command line, settings, databases  *)
(* and changes of them by others.                                          *)
(***************************************************************************)
EXTENDS Query, SequenceTheorems, FiniteSetTheorems, WellFoundedInduction, TLAPS

(***************************************************************************)
(* Sums.  Induction over finite sets and over numbers is by a smallest     *)
(* exception.                                                              *)
(***************************************************************************)
LEMMA LeastOne ==
    ASSUME NEW T, T \subseteq Nat, T # {}
    PROVE  \E x \in T : \A y \in T : x <= y
<1> DEFINE R == OpToRel(<, Nat)
<1>1. IsWellFoundedOn(R, Nat)
    BY NatLessThanWellFounded
<1>2. \A x, y \in Nat : x < y => <<x, y>> \in R
    BY DEF OpToRel
<1> HIDE DEF R
<1>3. PICK x \in T : \A y \in T : ~ (<<y, x>> \in R)
    BY <1>1, WFMin
<1>4. \A y \in T : x <= y
    <2>1. SUFFICES ASSUME NEW y \in T PROVE x <= y
        OBVIOUS
    <2>2. x \in Nat /\ y \in Nat /\ ~ (y < x)
        BY <1>2, <1>3
    <2>3. QED
        BY <2>2
<1>5. QED
    BY <1>4

(* If every exception has a smaller one in it there is none. *)
LEMMA NoSmallest ==
    ASSUME NEW B, \A S \in B : IsFiniteSet(S),
           \A S \in B : \E T \in B : T \subseteq S /\ T # S
    PROVE  B = {}
<1> DEFINE sizes == {Cardinality(S) : S \in B}
<1>1. SUFFICES ASSUME B # {} PROVE FALSE
    OBVIOUS
<1>2. sizes \subseteq Nat /\ sizes # {}
    BY <1>1, FS_CardinalityType
<1>3. PICK n \in sizes : \A m \in sizes : n <= m
    <2> HIDE DEF sizes
    <2>1. QED
        BY <1>2, LeastOne
<1>4. PICK S \in B : n = Cardinality(S)
    OBVIOUS
<1>5. PICK T \in B : T \subseteq S /\ T # S
    OBVIOUS
<1>6. Cardinality(T) <= Cardinality(S) /\ Cardinality(T) # Cardinality(S)
    BY <1>5, FS_Subset
<1>7. Cardinality(T) \in sizes /\ Cardinality(S) \in Nat /\ Cardinality(T) \in Nat
    BY FS_CardinalityType
<1>8. QED
    BY <1>3, <1>4, <1>6, <1>7

(* The function by which SumOf is defined. *)
One(S) == CHOOSE x \in S : TRUE
Sums(f, U, sum) ==
    sum = [S \in SUBSET U |-> IF S = {} THEN 0 ELSE f[One(S)] + sum[S \ {One(S)}]]

LEMMA SumDefinition ==
    ASSUME NEW f, NEW U
    PROVE  SumOf(f, U) = (CHOOSE sum : Sums(f, U, sum))[U]
BY DEF SumOf, MapThenSumSet, MapThenFoldSet, Sums, One

LEMMA OneMember ==
    ASSUME NEW S, S # {}
    PROVE  One(S) \in S /\ S \ {One(S)} \subseteq S /\ S \ {One(S)} # S
BY DEF One

LEMMA SumsAgree ==
    ASSUME NEW f, NEW U, NEW V, NEW a, NEW b, Sums(f, U, a), Sums(f, V, b),
           IsFiniteSet(U), NEW S, S \subseteq U, S \subseteq V
    PROVE  a[S] = b[S]
<1> DEFINE bad == {R \in SUBSET U : R \subseteq V /\ a[R] # b[R]}
<1>1. \A R \in SUBSET U :
         a[R] = IF R = {} THEN 0 ELSE f[One(R)] + a[R \ {One(R)}]
    BY DEF Sums
<1>2. \A R \in SUBSET V :
         b[R] = IF R = {} THEN 0 ELSE f[One(R)] + b[R \ {One(R)}]
    BY DEF Sums
<1>3. \A R \in bad : IsFiniteSet(R)
    BY FS_Subset
<1>4. ASSUME NEW R \in bad PROVE \E T \in bad : T \subseteq R /\ T # R
    <2>1. R # {}
        BY <1>1, <1>2
    <2> DEFINE T == R \ {One(R)}
    <2>2. T \subseteq R /\ T # R
        BY <2>1, OneMember
    <2>3. a[T] # b[T]
        BY <1>1, <1>2, <2>1
    <2>4. QED
        BY <2>2, <2>3
<1>5. bad = {}
    <2> HIDE DEF bad
    <2>1. QED
        BY <1>3, <1>4, NoSmallest
<1>6. QED
    BY <1>5

(* A set has its function, and so SumOf sums, if all smaller ones have.    *)
Summed(f, S) == \E sum : Sums(f, S, sum)

LEMMA SummedSum ==
    ASSUME NEW f, NEW S, IsFiniteSet(S), Summed(f, S), NEW sum, Sums(f, S, sum)
    PROVE  SumOf(f, S) = sum[S]
<1> DEFINE c == CHOOSE s : Sums(f, S, s)
<1>1. Sums(f, S, c)
    BY DEF Summed
<1>2. SumOf(f, S) = c[S]
    BY SumDefinition
<1> HIDE DEF c
<1>3. QED
    BY <1>1, <1>2, SumsAgree

LEMMA SummedStep ==
    ASSUME NEW f, NEW S, IsFiniteSet(S), S # {}, Summed(f, S), Summed(f, S \ {One(S)})
    PROVE  SumOf(f, S) = f[One(S)] + SumOf(f, S \ {One(S)})
<1> DEFINE T == S \ {One(S)}
<1>1. PICK a : Sums(f, S, a)
    BY DEF Summed
<1>2. PICK b : Sums(f, T, b)
    BY DEF Summed
<1>3. T \subseteq S /\ IsFiniteSet(T)
    BY FS_Subset
<1>4. SumOf(f, S) = a[S]
    BY <1>1, SummedSum
<1>5. SumOf(f, T) = b[T]
    BY <1>2, <1>3, SummedSum
<1>6. a[T] = b[T]
    BY <1>1, <1>2, <1>3, SumsAgree
<1>7. a[S] = f[One(S)] + a[T]
    BY <1>1 DEF Sums
<1>8. QED
    BY <1>4, <1>5, <1>6, <1>7

LEMMA EmptySummed ==
    ASSUME NEW f PROVE Summed(f, {}) /\ SumOf(f, {}) = 0
<1> DEFINE sum == [S \in SUBSET {} |-> 0]
<1>1. sum = [S \in SUBSET {} |-> IF S = {} THEN 0 ELSE f[One(S)] + sum[S \ {One(S)}]]
    OBVIOUS
<1>2. sum[{}] = 0
    OBVIOUS
<1> HIDE DEF sum
<1>3. Sums(f, {}, sum)
    BY <1>1 DEF Sums
<1>4. Summed(f, {})
    BY <1>3 DEF Summed
<1>5. QED
    BY <1>2, <1>3, <1>4, SummedSum, FS_EmptySet

LEMMA AllSummed ==
    ASSUME NEW f, NEW U, IsFiniteSet(U)
    PROVE  Summed(f, U)
<1> DEFINE bad == {S \in SUBSET U : ~Summed(f, S)}
<1>1. \A S \in bad : IsFiniteSet(S)
    BY FS_Subset
<1>2. ASSUME NEW S \in bad PROVE \E T \in bad : T \subseteq S /\ T # S
    <2>1. SUFFICES ASSUME \A T \in SUBSET S : T # S => Summed(f, T) PROVE FALSE
        OBVIOUS
    <2>2. IsFiniteSet(S)
        BY <1>1
    <2> DEFINE sum == [T \in SUBSET S |-> IF T = {} THEN 0
                                          ELSE f[One(T)] + SumOf(f, T \ {One(T)})]
    <2>3. ASSUME NEW T \in SUBSET S, T # S PROVE sum[T] = SumOf(f, T)
        <3>1. CASE T = {}
            BY <3>1, EmptySummed
        <3>2. CASE T # {}
            <4>1. T \ {One(T)} \subseteq S /\ T \ {One(T)} # S
                BY <2>3, <3>2, OneMember
            <4>2. Summed(f, T) /\ Summed(f, T \ {One(T)}) /\ IsFiniteSet(T)
                BY <2>1, <2>2, <2>3, <4>1, FS_Subset
            <4>3. SumOf(f, T) = f[One(T)] + SumOf(f, T \ {One(T)})
                BY <3>2, <4>2, SummedStep
            <4>4. sum[T] = f[One(T)] + SumOf(f, T \ {One(T)})
                BY <3>2
            <4>5. QED
                BY <4>3, <4>4
        <3>3. QED
            BY <3>1, <3>2
    <2>4. ASSUME NEW T \in SUBSET S
          PROVE  sum[T] = IF T = {} THEN 0 ELSE f[One(T)] + sum[T \ {One(T)}]
        <3>1. CASE T = {}
            BY <3>1
        <3>2. CASE T # {}
            <4>1. T \ {One(T)} \in SUBSET S /\ T \ {One(T)} # S
                BY <3>2, OneMember
            <4>2. sum[T] = f[One(T)] + SumOf(f, T \ {One(T)})
                BY <3>2
            <4> HIDE DEF sum
            <4>3. sum[T \ {One(T)}] = SumOf(f, T \ {One(T)})
                BY <2>3, <4>1
            <4>4. QED
                BY <3>2, <4>2, <4>3
        <3>3. QED
            BY <3>1, <3>2
    <2>5. sum = [T \in SUBSET S |-> sum[T]]
        OBVIOUS
    <2> HIDE DEF sum
    <2>6. sum = [T \in SUBSET S |->
                   IF T = {} THEN 0 ELSE f[One(T)] + sum[T \ {One(T)}]]
        BY <2>4, <2>5
    <2>7. Summed(f, S)
        BY <2>6 DEF Sums, Summed
    <2>8. QED
        BY <2>7
<1>3. bad = {}
    <2> HIDE DEF bad
    <2>1. QED
        BY <1>1, <1>2, NoSmallest
<1>4. QED
    BY <1>3

LEMMA SumStep ==
    ASSUME NEW f, NEW S, IsFiniteSet(S), S # {}
    PROVE  SumOf(f, S) = f[One(S)] + SumOf(f, S \ {One(S)})
<1>1. IsFiniteSet(S \ {One(S)})
    BY FS_Subset
<1>2. QED
    BY <1>1, AllSummed, SummedStep

LEMMA SumTyped ==
    ASSUME NEW f, NEW U, IsFiniteSet(U), \A s \in U : f[s] \in Nat
    PROVE  SumOf(f, U) \in Nat
<1> DEFINE bad == {S \in SUBSET U : SumOf(f, S) \notin Nat}
<1>1. \A S \in bad : IsFiniteSet(S)
    BY FS_Subset
<1>2. ASSUME NEW S \in bad PROVE \E T \in bad : T \subseteq S /\ T # S
    <2>1. S # {}
        BY EmptySummed
    <2> DEFINE T == S \ {One(S)}
    <2>2. T \subseteq S /\ T # S /\ One(S) \in S
        BY <2>1, OneMember
    <2>3. SumOf(f, S) = f[One(S)] + SumOf(f, T) /\ f[One(S)] \in Nat
        BY <1>1, <2>1, <2>2, SumStep
    <2>4. SumOf(f, T) \notin Nat
        BY <2>3
    <2>5. QED
        BY <2>2, <2>4
<1>3. bad = {}
    <2> HIDE DEF bad
    <2>1. QED
        BY <1>1, <1>2, NoSmallest
<1>4. QED
    BY <1>3

LEMMA SumEqual ==
    ASSUME NEW f, NEW g, NEW U, IsFiniteSet(U), \A s \in U : f[s] = g[s]
    PROVE  SumOf(f, U) = SumOf(g, U)
<1> DEFINE bad == {S \in SUBSET U : SumOf(f, S) # SumOf(g, S)}
<1>1. \A S \in bad : IsFiniteSet(S)
    BY FS_Subset
<1>2. ASSUME NEW S \in bad PROVE \E T \in bad : T \subseteq S /\ T # S
    <2>1. S # {}
        BY EmptySummed
    <2> DEFINE T == S \ {One(S)}
    <2>2. T \subseteq S /\ T # S /\ One(S) \in S
        BY <2>1, OneMember
    <2>3. /\ SumOf(f, S) = f[One(S)] + SumOf(f, T)
          /\ SumOf(g, S) = g[One(S)] + SumOf(g, T)
          /\ f[One(S)] = g[One(S)]
        BY <1>1, <2>1, <2>2, SumStep
    <2>4. SumOf(f, T) # SumOf(g, T)
        BY <2>3
    <2>5. QED
        BY <2>2, <2>4
<1>3. bad = {}
    <2> HIDE DEF bad
    <2>1. QED
        BY <1>1, <1>2, NoSmallest
<1>4. QED
    BY <1>3

LEMMA SumAdds ==
    ASSUME NEW f, NEW g, NEW h, NEW U, IsFiniteSet(U),
           \A s \in U : f[s] \in Nat /\ g[s] \in Nat /\ h[s] = f[s] + g[s]
    PROVE  SumOf(h, U) = SumOf(f, U) + SumOf(g, U)
<1> DEFINE bad == {S \in SUBSET U : SumOf(h, S) # SumOf(f, S) + SumOf(g, S)}
<1>1. \A S \in bad : IsFiniteSet(S)
    BY FS_Subset
<1>2. ASSUME NEW S \in bad PROVE \E T \in bad : T \subseteq S /\ T # S
    <2>1. S # {}
        <3>1. SumOf(f, {}) = 0 /\ SumOf(g, {}) = 0 /\ SumOf(h, {}) = 0
            BY EmptySummed
        <3>2. SumOf(h, {}) = SumOf(f, {}) + SumOf(g, {})
            BY <3>1
        <3>3. SumOf(h, S) # SumOf(f, S) + SumOf(g, S)
            OBVIOUS
        <3>4. QED
            BY <3>2, <3>3
    <2> DEFINE T == S \ {One(S)}
    <2>2. T \subseteq S /\ T # S /\ One(S) \in S /\ One(S) \in U
        BY <2>1, OneMember
    <2>3. /\ SumOf(f, S) = f[One(S)] + SumOf(f, T)
          /\ SumOf(g, S) = g[One(S)] + SumOf(g, T)
          /\ SumOf(h, S) = h[One(S)] + SumOf(h, T)
        BY <1>1, <2>1, SumStep
    <2>4. /\ f[One(S)] \in Nat /\ g[One(S)] \in Nat
          /\ h[One(S)] = f[One(S)] + g[One(S)]
        BY <2>2
    <2>5. SumOf(f, T) \in Nat /\ SumOf(g, T) \in Nat
        <3>1. IsFiniteSet(T) /\ T \subseteq U
            BY <2>2, FS_Subset
        <3>2. QED
            BY <3>1, SumTyped
    <2>6. SumOf(h, T) # SumOf(f, T) + SumOf(g, T)
        <3>1. SUFFICES ASSUME SumOf(h, T) = SumOf(f, T) + SumOf(g, T) PROVE FALSE
            OBVIOUS
        <3>2. SumOf(h, S) = (f[One(S)] + g[One(S)]) + (SumOf(f, T) + SumOf(g, T))
            BY <2>3, <2>4, <3>1
        <3>3. SumOf(h, S) = SumOf(f, S) + SumOf(g, S)
            BY <2>3, <2>4, <2>5, <3>2
        <3>4. QED
            BY <3>3
    <2>7. QED
        BY <2>2, <2>6
<1>3. bad = {}
    <2> HIDE DEF bad
    <2>1. QED
        BY <1>1, <1>2, NoSmallest
<1>4. QED
    BY <1>3

-----------------------------------------------------------------------------
(***************************************************************************)
(* Orders.  A strict order on a finite set gives each member its place.    *)
(***************************************************************************)
Below(R, S, r) == {s \in S : <<s, r>> \in R}

Orders(R, S) ==
    /\ \A r \in S : <<r, r>> \notin R
    /\ \A r, s, t \in S : <<r, s>> \in R /\ <<s, t>> \in R => <<r, t>> \in R
    /\ \A r, s \in S : r = s \/ <<r, s>> \in R \/ <<s, r>> \in R

LEMMA BelowFinite ==
    ASSUME NEW S, IsFiniteSet(S), NEW R, Orders(R, S), NEW r \in S
    PROVE  /\ IsFiniteSet(Below(R, S, r))
           /\ Cardinality(Below(R, S, r)) \in 0 .. Cardinality(S) - 1
<1>1. Below(R, S, r) \subseteq S \ {r}
    BY DEF Below, Orders
<1>2. IsFiniteSet(S \ {r}) /\ Cardinality(S \ {r}) = Cardinality(S) - 1
    BY FS_RemoveElement
<1>3. /\ IsFiniteSet(Below(R, S, r))
      /\ Cardinality(Below(R, S, r)) <= Cardinality(S \ {r})
    BY <1>1, <1>2, FS_Subset
<1>4. Cardinality(S) \in Nat /\ Cardinality(Below(R, S, r)) \in Nat
    BY <1>3, FS_CardinalityType
<1>5. QED
    BY <1>2, <1>3, <1>4

LEMMA BelowGrows ==
    ASSUME NEW S, IsFiniteSet(S), NEW R, Orders(R, S), NEW r \in S, NEW s \in S, <<r, s>> \in R
    PROVE  Cardinality(Below(R, S, r)) < Cardinality(Below(R, S, s))
<1>1. Below(R, S, r) \subseteq Below(R, S, s) /\ r \in Below(R, S, s) /\ r \notin Below(R, S, r)
    BY DEF Below, Orders
<1>2. /\ IsFiniteSet(Below(R, S, r)) /\ IsFiniteSet(Below(R, S, s))
      /\ Cardinality(Below(R, S, r)) \in Nat /\ Cardinality(Below(R, S, s)) \in Nat
    BY BelowFinite, FS_CardinalityType
<1>3. /\ Cardinality(Below(R, S, r)) <= Cardinality(Below(R, S, s))
      /\ Cardinality(Below(R, S, r)) # Cardinality(Below(R, S, s))
    BY <1>1, <1>2, FS_Subset
<1>4. QED
    BY <1>2, <1>3

(* No two have the same place, so that every place is taken. *)
LEMMA PlacesTaken ==
    ASSUME NEW S, IsFiniteSet(S), NEW R, Orders(R, S), NEW n \in 1 .. Cardinality(S)
    PROVE  \E r \in S : Cardinality(Below(R, S, r)) = n - 1
<1> DEFINE size == Cardinality(S)
           place == [r \in S |-> Cardinality(Below(R, S, r)) + 1]
<1>1. size \in Nat /\ IsFiniteSet(1 .. size) /\ Cardinality(1 .. size) = size
    BY FS_CardinalityType, FS_Interval
<1>2. \A r \in S : Cardinality(Below(R, S, r)) \in 0 .. size - 1
    BY BelowFinite
<1>3. place \in [S -> 1 .. size]
    BY <1>1, <1>2
<1>4. ASSUME NEW r \in S, NEW s \in S, place[r] = place[s] PROVE r = s
    <2>1. Cardinality(Below(R, S, r)) = Cardinality(Below(R, S, s))
        BY <1>1, <1>2, <1>4
    <2>2. <<r, s>> \notin R /\ <<s, r>> \notin R
        BY <1>1, <1>2, <2>1, BelowGrows
    <2>3. QED
        BY <2>2 DEF Orders
<1>5. place \in Injection(S, 1 .. size)
    BY <1>3, <1>4 DEF Injection, IsInjective
<1>6. place \in Surjection(S, 1 .. size)
    BY <1>1, <1>5, FS_Injection
<1>7. PICK r \in S : place[r] = n
    BY <1>6 DEF Surjection
<1>8. QED
    BY <1>1, <1>2, <1>7

LEMMA PlaceIsOne ==
    ASSUME NEW S, IsFiniteSet(S), NEW R, Orders(R, S), NEW r \in S, NEW s \in S,
           Cardinality(Below(R, S, r)) = Cardinality(Below(R, S, s))
    PROVE  r = s
<1>1. <<r, s>> \notin R /\ <<s, r>> \notin R
    BY BelowFinite, BelowGrows
<1>2. QED
    BY <1>1 DEF Orders

LEMMA FunctionIsSeq ==
    ASSUME NEW S, NEW n \in Nat, NEW f \in [1 .. n -> S]
    PROVE  f \in Seq(S) /\ Len(f) = n
<1> DEFINE g == SubSeq(f, 1, n)
<1>1. g \in Seq(S) /\ Len(g) = n /\ \A i \in 1 .. n : g[i] = f[i]
    BY SubSeqProperties
<1> HIDE DEF g
<1>2. g \in [1 .. n -> S]
    BY <1>1, LenProperties
<1>3. g = f
    BY <1>1, <1>2
<1>4. QED
    BY <1>1, <1>3

(* What InOrder makes of the two orders of the select statements. *)
Placed(S, list) ==
    /\ list \in [1 .. Cardinality(S) -> S]
    /\ list \in Seq(S) /\ Len(list) = Cardinality(S) /\ Cardinality(S) \in Nat

OneDate(S) == \A r, s \in S : r.at = s.at => r = s

Shown == [at : Nat, rx : Nat, tx : Nat]

LEMMA EarlierPlaces ==
    ASSUME NEW S, IsFiniteSet(S), S \subseteq Shown, OneDate(S)
    PROVE  LET list == InOrder(S, Earlier)
           IN  /\ Placed(S, list)
               /\ \A n \in 1 .. Cardinality(S) :
                     Cardinality({s \in S : s.at < list[n].at}) = n - 1
<1> DEFINE R == {x \in S \X S : x[1].at < x[2].at}
           list == InOrder(S, Earlier)
<1>1. Orders(R, S)
    <2>1. \A r, s \in S : <<r, s>> \in R <=> r.at < s.at
        OBVIOUS
    <2>2. \A r \in S : r.at \in Nat
        BY DEF Shown
    <2> HIDE DEF R
    <2>3. \A r \in S : <<r, r>> \notin R
        BY <2>1, <2>2
    <2>4. \A r, s, t \in S : <<r, s>> \in R /\ <<s, t>> \in R => <<r, t>> \in R
        BY <2>1, <2>2
    <2>5. ASSUME NEW r \in S, NEW s \in S PROVE r = s \/ <<r, s>> \in R \/ <<s, r>> \in R
        <3>1. r.at = s.at => r = s
            BY DEF OneDate
        <3>2. r.at \in Nat /\ s.at \in Nat
            BY <2>2
        <3>3. r.at = s.at \/ r.at < s.at \/ s.at < r.at
            BY <3>2
        <3>4. QED
            BY <2>1, <3>1, <3>3
    <2>6. QED
        BY <2>3, <2>4, <2>5 DEF Orders
<1>2. \A r \in S : Below(R, S, r) = {s \in S : Earlier(s, r)}
    BY DEF Below, Earlier
<1>3. Cardinality(S) \in Nat
    BY FS_CardinalityType
<1> HIDE DEF R
<1>4. list = [n \in 1 .. Cardinality(S) |->
                 CHOOSE r \in S : Cardinality({s \in S : Earlier(s, r)}) = n - 1]
    BY DEF InOrder
<1> HIDE DEF list
<1>5. ASSUME NEW n \in 1 .. Cardinality(S)
      PROVE  list[n] \in S /\ Cardinality({s \in S : Earlier(s, list[n])}) = n - 1
    <2>1. PICK r \in S : Cardinality(Below(R, S, r)) = n - 1
        BY <1>1, PlacesTaken
    <2>2. Cardinality({s \in S : Earlier(s, r)}) = n - 1
        BY <1>2, <2>1
    <2>3. list[n] = CHOOSE q \in S : Cardinality({s \in S : Earlier(s, q)}) = n - 1
        BY <1>4
    <2>4. QED
        BY <2>2, <2>3
<1>6. list \in [1 .. Cardinality(S) -> S]
    BY <1>4, <1>5
<1>7. Placed(S, list)
    BY <1>3, <1>6, FunctionIsSeq DEF Placed
<1>8. QED
    BY <1>5, <1>7 DEF list, Earlier

LEMMA LargerPlaces ==
    ASSUME NEW S, IsFiniteSet(S), S \subseteq Shown, OneDate(S)
    PROVE  LET list == InOrder(S, Larger)
           IN  /\ Placed(S, list)
               /\ \A n \in 1 .. Cardinality(S) :
                     Cardinality({s \in S : Larger(s, list[n])}) = n - 1
<1> DEFINE R == {x \in S \X S : Larger(x[1], x[2])}
           list == InOrder(S, Larger)
<1>1. Orders(R, S)
    <2>1. \A r, s \in S : <<r, s>> \in R <=> Larger(r, s)
        OBVIOUS
    <2>2. \A r \in S : r.at \in Nat /\ r.rx + r.tx \in Nat
        BY DEF Shown
    <2> HIDE DEF R
    <2>3. \A r \in S : <<r, r>> \notin R
        BY <2>1, <2>2 DEF Larger, Earlier
    <2>4. \A r, s, t \in S : <<r, s>> \in R /\ <<s, t>> \in R => <<r, t>> \in R
        BY <2>1, <2>2 DEF Larger, Earlier
    <2>5. ASSUME NEW r \in S, NEW s \in S PROVE r = s \/ <<r, s>> \in R \/ <<s, r>> \in R
        <3>1. r.at = s.at => r = s
            BY DEF OneDate
        <3>2. r.at \in Nat /\ s.at \in Nat /\ r.rx + r.tx \in Nat /\ s.rx + s.tx \in Nat
            BY <2>2
        <3>3. r.at = s.at \/ Larger(r, s) \/ Larger(s, r)
            BY <3>2 DEF Larger, Earlier
        <3>4. QED
            BY <2>1, <3>1, <3>3
    <2>6. QED
        BY <2>3, <2>4, <2>5 DEF Orders
<1>2. \A r \in S : Below(R, S, r) = {s \in S : Larger(s, r)}
    BY DEF Below
<1>3. Cardinality(S) \in Nat
    BY FS_CardinalityType
<1> HIDE DEF R
<1>4. list = [n \in 1 .. Cardinality(S) |->
                 CHOOSE r \in S : Cardinality({s \in S : Larger(s, r)}) = n - 1]
    BY DEF InOrder
<1> HIDE DEF list
<1>5. ASSUME NEW n \in 1 .. Cardinality(S)
      PROVE  list[n] \in S /\ Cardinality({s \in S : Larger(s, list[n])}) = n - 1
    <2>1. PICK r \in S : Cardinality(Below(R, S, r)) = n - 1
        BY <1>1, PlacesTaken
    <2>2. Cardinality({s \in S : Larger(s, r)}) = n - 1
        BY <1>2, <2>1
    <2>3. list[n] = CHOOSE q \in S : Cardinality({s \in S : Larger(s, q)}) = n - 1
        BY <1>4
    <2>4. QED
        BY <2>2, <2>3
<1>6. list \in [1 .. Cardinality(S) -> S]
    BY <1>4, <1>5
<1>7. Placed(S, list)
    BY <1>3, <1>6, FunctionIsSeq DEF Placed
<1>8. QED
    BY <1>5, <1>7 DEF list

-----------------------------------------------------------------------------
(***************************************************************************)
(* The rows of a list.                                                     *)
(***************************************************************************)
OfDate(rows, date) == {r \in rows : r.at = date}

DateRow(rows, date) ==
    [at |-> date,
     rx |-> SumOf([r \in OfDate(rows, date) |-> r.rx], OfDate(rows, date)),
     tx |-> SumOf([r \in OfDate(rows, date) |-> r.tx], OfDate(rows, date))]

LEMMA PerDateIs ==
    ASSUME NEW rows PROVE PerDate(rows) = {DateRow(rows, r.at) : r \in rows}
BY DEF PerDate, DateRow, OfDate

LEMMA DateRowTyped ==
    ASSUME NEW rows \in SUBSET Rows, IsFiniteSet(rows), NEW date \in Nat
    PROVE  /\ DateRow(rows, date) \in Shown /\ DateRow(rows, date).at = date
           /\ LET row == DateRow(rows, date)
              IN  row.rx + row.tx = SumOf([r \in rows |-> r.rx + r.tx], OfDate(rows, date))
<1> DEFINE same == OfDate(rows, date)
           f == [r \in same |-> r.rx]
           g == [r \in same |-> r.tx]
           h == [r \in rows |-> r.rx + r.tx]
<1>1. IsFiniteSet(same) /\ same \subseteq rows
    BY FS_Subset DEF OfDate
<1>2. \A r \in same : f[r] \in Nat /\ g[r] \in Nat /\ h[r] = f[r] + g[r]
    BY <1>1 DEF Rows
<1>3. DateRow(rows, date) = [at |-> date, rx |-> SumOf(f, same), tx |-> SumOf(g, same)]
    BY DEF DateRow
<1> HIDE DEF same, f, g, h
<1>4. SumOf(f, same) \in Nat /\ SumOf(g, same) \in Nat
    BY <1>1, <1>2, SumTyped
<1>5. SumOf(h, same) = SumOf(f, same) + SumOf(g, same)
    BY <1>1, <1>2, SumAdds
<1>6. QED
    BY <1>3, <1>4, <1>5 DEF Shown, h, same

LEMMA PerDateShown ==
    ASSUME NEW rows \in SUBSET Rows, IsFiniteSet(rows)
    PROVE  /\ IsFiniteSet(PerDate(rows)) /\ PerDate(rows) \subseteq Shown /\ OneDate(PerDate(rows))
           /\ {s.at : s \in PerDate(rows)} = {r.at : r \in rows}
           /\ \A s \in PerDate(rows) :
                 s.rx + s.tx = SumOf([r \in rows |-> r.rx + r.tx], {r \in rows : r.at = s.at})
<1> DEFINE D == PerDate(rows)
           f == [r \in rows |-> DateRow(rows, r.at)]
<1>1. D = {DateRow(rows, r.at) : r \in rows}
    BY PerDateIs
<1>2. \A r \in rows : r.at \in Nat
    BY DEF Rows
<1>3. \A r \in rows : DateRow(rows, r.at) \in Shown /\ DateRow(rows, r.at).at = r.at
    BY <1>2, DateRowTyped
<1>4. D \subseteq Shown /\ {s.at : s \in D} = {r.at : r \in rows}
    BY <1>1, <1>3
<1>5. OneDate(D)
    BY <1>1, <1>3 DEF OneDate
<1>6. f \in Surjection(rows, D)
    BY <1>1 DEF Surjection
<1>7. IsFiniteSet(D)
    BY <1>6, FS_Surjection
<1>8. ASSUME NEW s \in D
      PROVE  s.rx + s.tx = SumOf([r \in rows |-> r.rx + r.tx], {r \in rows : r.at = s.at})
    <2>1. PICK r \in rows : s = DateRow(rows, r.at)
        BY <1>1
    <2>2. s.rx + s.tx = SumOf([q \in rows |-> q.rx + q.tx], OfDate(rows, r.at)) /\ s.at = r.at
        BY <1>2, <2>1, DateRowTyped
    <2>3. QED
        BY <2>2 DEF OfDate
<1>9. QED
    BY <1>4, <1>5, <1>7, <1>8

LEMMA FirstTyped ==
    ASSUME NEW S, NEW seq \in Seq(S), NEW limit \in Nat
    PROVE  LET k == IF limit = 0 \/ limit > Len(seq) THEN Len(seq) ELSE limit
           IN  /\ FirstOf(seq, limit) \in Seq(S) /\ Len(FirstOf(seq, limit)) = k
               /\ \A n \in 1 .. k : FirstOf(seq, limit)[n] = seq[n]
<1> DEFINE k == IF limit = 0 \/ limit > Len(seq) THEN Len(seq) ELSE limit
<1>1. Len(seq) \in Nat /\ k \in 0 .. Len(seq) /\ \A n \in 1 .. k : seq[n] \in S
    BY LenProperties
<1>2. FirstOf(seq, limit) = SubSeq(seq, 1, k)
    BY <1>1 DEF FirstOf, Least
<1> HIDE DEF k
<1>3. /\ SubSeq(seq, 1, k) \in Seq(S) /\ Len(SubSeq(seq, 1, k)) = k
      /\ \A n \in 1 .. k : SubSeq(seq, 1, k)[n] = seq[n]
    BY <1>1, SubSeqProperties
<1>4. QED
    BY <1>2, <1>3 DEF k

LEMMA LastTyped ==
    ASSUME NEW S, NEW seq \in Seq(S), NEW limit \in Nat
    PROVE  LET k == IF limit = 0 \/ limit > Len(seq) THEN 0 ELSE Len(seq) - limit
           IN  /\ LastOf(seq, limit) \in Seq(S) /\ Len(LastOf(seq, limit)) = Len(seq) - k
               /\ k \in 0 .. Len(seq)
               /\ \A n \in 1 .. Len(seq) - k : LastOf(seq, limit)[n] = seq[n + k]
<1> DEFINE k == IF limit = 0 \/ limit > Len(seq) THEN 0 ELSE Len(seq) - limit
<1>1. Len(seq) \in Nat /\ k \in 0 .. Len(seq) /\ \A n \in k + 1 .. Len(seq) : seq[n] \in S
    BY LenProperties
<1>2. LastOf(seq, limit) = SubSeq(seq, k + 1, Len(seq))
    BY <1>1 DEF LastOf
<1> HIDE DEF k
<1>3. /\ SubSeq(seq, k + 1, Len(seq)) \in Seq(S) /\ Len(SubSeq(seq, k + 1, Len(seq))) = Len(seq) - k
      /\ \A n \in 1 .. Len(seq) - k : SubSeq(seq, k + 1, Len(seq))[n] = seq[n + k]
    BY <1>1, SubSeqProperties
<1>4. QED
    BY <1>1, <1>2, <1>3 DEF k

LEMMA FoundTyped ==
    ASSUME NEW rows \in SUBSET Rows, IsFiniteSet(rows), NEW ifaces, NEW table, NEW begin,
           NEW end, NEW today
    PROVE  LET found == Found(rows, ifaces, table, begin, end, today)
           IN  IsFiniteSet(found) /\ found \subseteq Shown /\ OneDate(found)
<1>1. PICK some \in SUBSET rows : Found(rows, ifaces, table, begin, end, today) = PerDate(some)
    BY DEF Found
<1>2. IsFiniteSet(some) /\ some \in SUBSET Rows
    BY FS_Subset
<1>3. QED
    BY <1>1, <1>2, PerDateShown

LEMMA RangeTyped ==
    ASSUME NEW rows \in SUBSET Rows, IsFiniteSet(rows), NEW ifaces, NEW table, NEW limit \in Nat,
           NEW begin, NEW end, NEW today
    PROVE  db_getdata_range(rows, ifaces, table, limit, begin, end, today) \in Seq(Shown)
<1> DEFINE found == Found(rows, ifaces, table, begin, end, today)
           earlier == InOrder(found, Earlier)
           larger == InOrder(found, Larger)
           list == db_getdata_range(rows, ifaces, table, limit, begin, end, today)
<1>1. IsFiniteSet(found) /\ found \subseteq Shown /\ OneDate(found)
    BY FoundTyped
<1>2. list \in {FirstOf(larger, limit), earlier, FirstOf(earlier, limit), LastOf(earlier, limit)}
    BY DEF db_getdata_range
<1> HIDE DEF found, list
<1>3. earlier \in Seq(found) /\ larger \in Seq(found)
    BY <1>1, EarlierPlaces, LargerPlaces DEF Placed
<1> HIDE DEF earlier, larger
<1>4. earlier \in Seq(Shown) /\ larger \in Seq(Shown)
    BY <1>1, <1>3, SeqMonotonic
<1>5. /\ FirstOf(larger, limit) \in Seq(Shown) /\ FirstOf(earlier, limit) \in Seq(Shown)
      /\ LastOf(earlier, limit) \in Seq(Shown)
    BY <1>4, FirstTyped, LastTyped
<1>6. QED
    BY <1>2, <1>4, <1>5 DEF list

(***************************************************************************)
(* The 95th percentile.                                                    *)
(***************************************************************************)
LEMMA Nearest ==
    ASSUME NEW n \in Nat \ {0}
    PROVE  /\ lrint95(n) \in 1 .. n
           /\ 20 * lrint95(n) <= 19 * n + 10 /\ 20 * lrint95(n) >= 19 * n - 10
<1> DEFINE whole == (19 * n) \div 20
           rest == (19 * n) % 20
<1>1. whole \in Nat /\ rest \in 0 .. 19 /\ 19 * n = 20 * whole + rest
    OBVIOUS
<1>2. lrint95(n) = IF rest > 10 \/ (rest = 10 /\ whole % 2 = 1) THEN whole + 1 ELSE whole
    BY DEF lrint95
<1> HIDE DEF whole, rest
<1>3. \/ lrint95(n) = whole + 1 /\ rest >= 10
      \/ lrint95(n) = whole /\ rest <= 10
    BY <1>1, <1>2
<1>4. QED
    BY <1>1, <1>3

LEMMA AtItsPlace ==
    ASSUME NEW size \in Nat \ {0}, NEW values \in [1 .. size -> Nat]
    PROVE  LET v == AtPercentile(values)
           IN  /\ v \in Nat
               /\ 20 * Cardinality({m \in 1 .. size : values[m] > v}) <= size + 10
               /\ 20 * Cardinality({m \in 1 .. size : values[m] >= v}) >= size + 10
<1> DEFINE S == 1 .. size
           Before(m, n) == values[m] < values[n] \/ (values[m] = values[n] /\ m < n)
           R == {x \in S \X S : Before(x[1], x[2])}
           k == lrint95(size)
           list == InOrder(S, Before)
           v == AtPercentile(values)
<1>1. IsFiniteSet(S) /\ Cardinality(S) = size
    BY FS_Interval
<1>2. values \in Seq(Nat) /\ Len(values) = size /\ DOMAIN values = S
    BY FunctionIsSeq
<1>3. v = values[list[k]]
    BY <1>2 DEF AtPercentile
<1>4. list = [n \in 1 .. Cardinality(S) |->
                CHOOSE m \in S : Cardinality({q \in S : Before(q, m)}) = n - 1]
    BY DEF InOrder
<1>5. \A m, n \in S : <<m, n>> \in R <=> Before(m, n)
    OBVIOUS
<1>6. \A m \in S : m \in Nat /\ values[m] \in Nat
    OBVIOUS
<1> HIDE DEF S, R, k, list, v
<1>7. Orders(R, S)
    <2>1. \A m \in S : <<m, m>> \notin R
        BY <1>5, <1>6
    <2>2. \A m, n, q \in S : <<m, n>> \in R /\ <<n, q>> \in R => <<m, q>> \in R
        BY <1>5, <1>6
    <2>3. ASSUME NEW m \in S, NEW n \in S PROVE m = n \/ <<m, n>> \in R \/ <<n, m>> \in R
        <3>1. m \in Nat /\ n \in Nat /\ values[m] \in Nat /\ values[n] \in Nat
            BY <1>6
        <3>2. m = n \/ Before(m, n) \/ Before(n, m)
            BY <3>1
        <3>3. QED
            BY <1>5, <3>2
    <2>4. QED
        BY <2>1, <2>2, <2>3 DEF Orders
<1>8. k \in 1 .. Cardinality(S)
    BY <1>1, Nearest DEF k
<1>9. \A m \in S : Below(R, S, m) = {q \in S : Before(q, m)}
    BY <1>5 DEF Below
<1>10. PICK place \in S : Cardinality(Below(R, S, place)) = k - 1
    <2>1. \A n \in 1 .. Cardinality(S) : \E m \in S : Cardinality(Below(R, S, m)) = n - 1
        BY <1>1, <1>7, PlacesTaken
    <2>2. QED
        BY <1>8, <2>1
<1>11. list[k] \in S /\ Cardinality({q \in S : Before(q, list[k])}) = k - 1
    <2>1. Cardinality({q \in S : Before(q, place)}) = k - 1
        BY <1>9, <1>10
    <2>2. list[k] = CHOOSE m \in S : Cardinality({q \in S : Before(q, m)}) = k - 1
        BY <1>4, <1>8
    <2>3. QED
        BY <2>1, <2>2
<1> DEFINE x == list[k]
           below == Below(R, S, x)
           over == {m \in S : values[m] > v}
           from == {m \in S : values[m] >= v}
<1>12. below = {q \in S : Before(q, x)} /\ Cardinality(below) = k - 1 /\ below \subseteq S /\ x \in S
    BY <1>9, <1>11 DEF Below
<1>13. v = values[x] /\ v \in Nat
    BY <1>3, <1>6, <1>11
<1>14. over \subseteq S \ (below \cup {x}) /\ x \notin below
    BY <1>6, <1>12, <1>13
<1>15. S \ below \subseteq from
    BY <1>6, <1>12, <1>13
<1> HIDE DEF x, below, over, from
<1>16. IsFiniteSet(below) /\ IsFiniteSet(S \ below) /\ Cardinality(S \ below) = size - (k - 1)
    <2>1. IsFiniteSet(below) /\ below \cap S = below
        BY <1>1, <1>12, FS_Subset
    <2>2. Cardinality(S \ below) = Cardinality(S) - Cardinality(S \cap below) /\ IsFiniteSet(S \ below)
        BY <1>1, FS_Difference, <2>1
    <2>3. S \cap below = below
        BY <2>1
    <2>4. QED
        BY <1>1, <1>12, <2>1, <2>2, <2>3
<1>17. IsFiniteSet((S \ below) \ {x}) /\ Cardinality((S \ below) \ {x}) = size - k
    <2>1. x \in S \ below
        BY <1>12, <1>14
    <2>2. Cardinality((S \ below) \ {x}) = Cardinality(S \ below) - 1 /\ IsFiniteSet((S \ below) \ {x})
        BY <1>16, <2>1, FS_RemoveElement
    <2>3. QED
        BY <1>1, <1>8, <1>16, <2>2
<1>18. Cardinality(over) <= size - k /\ Cardinality(over) \in Nat
    <2>1. over \subseteq (S \ below) \ {x}
        BY <1>14
    <2>2. QED
        BY <1>17, <2>1, FS_Subset, FS_CardinalityType
<1>19. Cardinality(from) >= size - k + 1 /\ Cardinality(from) \in Nat
    <2>1. from \subseteq S
        BY DEF from
    <2>2. IsFiniteSet(from)
        BY <1>1, <2>1, FS_Subset
    <2>3. Cardinality(S \ below) <= Cardinality(from)
        BY <1>15, <2>2, FS_Subset
    <2>4. QED
        BY <1>1, <1>8, <1>16, <2>2, <2>3, FS_CardinalityType
<1>20. 20 * k <= 19 * size + 10 /\ 20 * k >= 19 * size - 10 /\ k \in Nat
    <2>1. k = lrint95(size)
        BY DEF k
    <2>2. lrint95(size) \in 1 .. size
        BY Nearest
    <2>3. 20 * lrint95(size) <= 19 * size + 10 /\ 20 * lrint95(size) >= 19 * size - 10
        BY Nearest
    <2>4. QED
        BY <2>1, <2>2, <2>3
<1>21. 20 * Cardinality(over) <= size + 10 /\ 20 * Cardinality(from) >= size + 10
    BY <1>18, <1>19, <1>20
<1>22. QED
    BY <1>13, <1>21 DEF over, from, S, v

-----------------------------------------------------------------------------
(***************************************************************************)
(* Types.                                                                  *)
(***************************************************************************)
LEMMA MaxMember ==
    ASSUME NEW n \in Nat, NEW S \in SUBSET (1 .. n), S # {}
    PROVE  Max(S) \in S /\ \A m \in S : m <= Max(S)
<1> DEFINE T == {n - m : m \in S}
<1>1. T \subseteq Nat /\ T # {}
    <2>1. \A m \in S : n - m \in Nat
        OBVIOUS
    <2>2. QED
        BY <2>1
<1>2. PICK least \in T : \A t \in T : least <= t
    BY <1>1, LeastOne
<1>3. PICK m \in S : least = n - m
    BY <1>2
<1>4. \A k \in S : k <= m
    BY <1>2, <1>3
<1>5. \E k \in S : \A l \in S : k >= l
    BY <1>4
<1>6. Max(S) \in S /\ \A k \in S : Max(S) >= k
    BY <1>5 DEF Max
<1>7. QED
    BY <1>6

LEMMA MinMember ==
    ASSUME NEW S \in SUBSET Nat, S # {}
    PROVE  Min(S) \in S
<1>1. \E m \in S : \A k \in S : m <= k
    BY LeastOne
<1>2. QED
    BY <1>1 DEF Min

LEMMA ArgumentFields ==
    ASSUME NEW arg \in Arguments
    PROVE  /\ arg.opt = "iface" => arg.names \in Seq(Names)
           /\ arg.opt = "config" => arg.iface \in Seq(Names)
           /\ arg.opt = "query" => arg.mode \in Modes \cup {""}
           /\ arg.opt = "list" => arg.mode \in Lists /\ arg.limit \in Nat \cup {NoLimit}
           /\ arg.opt = "plain" => arg.mode \in Modes \ {"xml", "json"}
           /\ arg.opt \in {"xml", "json"} =>
                 arg.dump \in Dumps \cup {""} /\ arg.limit \in Nat \cup {NoLimit}
           /\ arg.opt \in {"begin", "end"} => arg.date \in Nat \cup {Today}
           /\ arg.opt = "limit" => arg.limit \in Nat
           /\ arg.opt = "alert" => arg.alert \in AlertRequests
           /\ arg.opt \in {"iface", "config", "query", "list", "plain", "xml", "json", "begin", "end",
                           "limit", "alert", "traffic", "live", "change", "setalias", "merge",
                           "info", "invalid"}
<1>1. CASE arg \in [opt : {"iface"}, names : Seq(Names)]
    BY <1>1
<1>2. CASE arg \in [opt : {"config"}, iface : Seq(Names)]
    BY <1>2
<1>3. CASE arg \in [opt : {"query"}, mode : Modes \cup {""}]
    BY <1>3
<1>4. CASE arg \in [opt : {"list"}, mode : Lists, limit : Nat \cup {NoLimit}]
    BY <1>4
<1>5. CASE arg \in [opt : {"plain"}, mode : Modes \ {"xml", "json"}]
    BY <1>5
<1>6. CASE arg \in [opt : {"xml", "json"}, dump : Dumps \cup {""}, limit : Nat \cup {NoLimit}]
    BY <1>6
<1>7. CASE arg \in [opt : {"begin", "end"}, date : Nat \cup {Today}]
    BY <1>7
<1>8. CASE arg \in [opt : {"limit"}, limit : Nat]
    BY <1>8
<1>9. CASE arg \in [opt : {"alert"}, alert : AlertRequests]
    BY <1>9
<1>10. CASE arg \in [opt : {"traffic", "live", "change", "setalias", "merge", "info", "invalid"}]
    BY <1>10
<1>11. QED
    BY <1>1, <1>2, <1>3, <1>4, <1>5, <1>6, <1>7, <1>8, <1>9, <1>10 DEF Arguments

Percentiles == [rx : Nat, tx : Nat, total : Nat]

Reading == [table : Lists, limit : Nat, begin : Int, end : Int]

ReadOut ==
    [ifaces : SUBSET Names, table : Lists, limit : Nat, begin : Int, from : DOMAIN Databases,
     rows : Seq(Shown), whole : BOOLEAN, percentile : Percentiles \cup {NoPercentile}]

(* The lines above and below the types are what they need to be inductive: *)
(* without a database only the places that ask for it first are reached.   *)
TInv ==
    /\ TypeOK
    /\ argv \in Seq(Arguments)
    /\ todo \in Seq(Reading)
    /\ out \in Seq(ReadOut)
    /\ db = 0 => pc \in {"select", "handle", "validate", "meter", "end"} /\ p.dbifcount = 0
    /\ db = 0 /\ pc = "select" => p.traffic
    /\ pc \in {"args", "main", "count"} => p.dbifcount = 0
    /\ pc = "fetch" => todo # <<>>

Infos == [read : BOOLEAN, period : [Estimated -> Periods]]

LEMMA NoInfoTyped == NoInfo \in Infos
BY DEF NoInfo, Infos, Periods, NoPeriod

(* A row that was read or not. *)
LEMMA InfoIs ==
    ASSUME TInv, ReadsInfo \/ InfoIsUnset
    PROVE  \/ info' = info
           \/ info' = [read |-> TRUE, period |-> Databases[db].period]
           \/ \E period \in [Estimated -> Periods] : info' = [read |-> FALSE, period |-> period]
<1>1. NoInfo.period \in [Estimated -> Periods]
    BY NoInfoTyped DEF Infos
<1>2. CASE ReadsInfo
    BY <1>2 DEF ReadsInfo, Now, TInv
<1>3. CASE InfoIsUnset
    BY <1>1, <1>3, GarbageAssumption DEF InfoIsUnset
<1>4. QED
    BY <1>2, <1>3

LEMMA DatabaseTyped ==
    ASSUME NEW d \in DOMAIN Databases
    PROVE  /\ IsFiniteSet(Databases[d].ifaces) /\ Databases[d].ifaces \subseteq Names
           /\ Databases[d].busiest \in Seq(Databases[d].ifaces)
           /\ IsFiniteSet(Databases[d].rows) /\ Databases[d].rows \subseteq Rows
           /\ Databases[d].today \in Nat
BY DatabasesAssumption

LEMMA ConfiguredTyped ==
    ASSUME argv \in Seq(Arguments) PROVE Configured \in Seq(Names)
<1> DEFINE found == {n \in DOMAIN argv : argv[n].opt = "config"}
<1>1. Configured = IF (IF found = {} THEN [opt |-> ""] ELSE argv[Max(found)]).opt = "" THEN cfgiface
                   ELSE (IF found = {} THEN [opt |-> ""] ELSE argv[Max(found)]).iface
    BY DEF Configured, LastArg
<1>2. Len(argv) \in Nat /\ DOMAIN argv = 1 .. Len(argv) /\ \A n \in DOMAIN argv : argv[n] \in Arguments
    BY LenProperties
<1>3. CASE found = {}
    BY <1>1, <1>3, SettingsAssumption
<1>4. CASE found # {}
    <2>1. Max(found) \in found
        BY <1>2, <1>4, MaxMember
    <2>2. argv[Max(found)] \in Arguments /\ argv[Max(found)].opt = "config"
        BY <1>2, <2>1
    <2>3. argv[Max(found)].iface \in Seq(Names)
        BY <2>2, ArgumentFields
    <2> HIDE DEF found
    <2>4. Configured = argv[Max(found)].iface
        BY <1>1, <1>4, <2>2
    <2>5. QED
        BY <2>3, <2>4
<1>5. QED
    BY <1>3, <1>4

LEMMA OneName == ASSUME NEW S, NEW name \in S PROVE <<name>> \in Seq(S) /\ Len(<<name>>) = 1
OBVIOUS

LEMMA InitTyped == Init => TInv
<1> SUFFICES ASSUME Init PROVE TInv
    OBVIOUS
<1>1. argv \in Seq(Arguments) /\ Len(argv) \in Nat
    BY CommandLinesAssumption, LenProperties DEF Init
<1>2. Configured \in Seq(Names)
    BY <1>1, ConfiguredTyped
<1>3. <<"default">> \in Seq(Names)
    BY OneName, NamesAssumption
<1>4. p \in Params
    <2>1. [d \in {"xml", "json"} |-> "a"] \in [{"xml", "json"} -> Dumps]
        BY DEF Dumps
    <2> DEFINE dump == [d \in {"xml", "json"} |-> "a"]
    <2>2. dump \in [{"xml", "json"} -> Dumps]
        BY <2>1
    <2>3. p.iface = <<"default">> /\ p.dump = dump /\ p = initparams
        BY DEF Init, initparams
    <2> HIDE DEF dump
    <2>4. p.iface \in Seq(Names) /\ p.dump \in [{"xml", "json"} -> Dumps]
        BY <1>3, <2>2, <2>3
    <2>5. /\ p.definterface \in Seq(Names) /\ p.qmode \in Modes
          /\ p.lists \in [Lists \cup {"dump"} -> Nat]
        BY <1>2, <2>3, SettingsAssumption DEF initparams
    <2>6. /\ p.defaultiface \in BOOLEAN /\ p.query \in BOOLEAN /\ p.limit \in Nat \cup {NoLimit}
          /\ p.begin \in Int /\ p.end \in Int /\ p.alert \in AlertRequests \cup {NoAlert}
          /\ p.traffic \in BOOLEAN /\ p.changes \in BOOLEAN /\ p.merge \in BOOLEAN
          /\ p.dbifcount \in Nat
        BY <2>3 DEF initparams, NoDate, NoLimit
    <2>7. QED
        BY <2>3, <2>4, <2>5, <2>6 DEF Params, initparams
<1>5. db \in 1 .. Len(Databases) /\ Len(Databases) \in Nat
    BY DatabasesAssumption DEF Init
<1>6. TypeOK
    <2>1. currentarg \in 1 .. Len(argv) + 1 /\ pc \in Places /\ db \in 0 .. Len(Databases)
        BY <1>1, <1>5 DEF Init, Places
    <2>2. queue \subseteq UNION {Databases[d].ifaces : d \in DOMAIN Databases}
        BY DEF Init
    <2>3. info = NoInfo /\ todo = <<>> /\ out = <<>>
        BY <1>5 DEF Init
    <2>4. /\ verdict \in [over : BOOLEAN, estimate : BOOLEAN, printed : BOOLEAN, reached : BOOLEAN]
          /\ status \in {Running, 0, 1, 2} /\ (status # Running <=> pc = "end")
        BY DEF Init, NoVerdict, Running
    <2>5. info \in Infos
        BY <2>3, NoInfoTyped
    <2>6. QED
        BY <1>4, <2>1, <2>2, <2>3, <2>4, <2>5 DEF TypeOK, Infos
<1>7. <<>> \in Seq(Reading) /\ <<>> \in Seq(ReadOut)
    BY EmptySeq
<1>8. QED
    BY <1>1, <1>5, <1>6, <1>7 DEF TInv, Init, initparams

LEMMA CountTyped ==
    ASSUME db \in 0 .. Len(Databases), NEW names
    PROVE  /\ db_getinterfacecountbyname(names) \in Nat
           /\ db = 0 => db_getinterfacecountbyname(names) = 0
<1>1. CASE db = 0
    BY <1>1 DEF db_getinterfacecountbyname
<1>2. CASE db # 0
    <2>1. db \in DOMAIN Databases
        BY <1>2, DatabasesAssumption
    <2>2. IsFiniteSet(Now.ifaces) /\ IsFiniteSet(Now.ifaces \cap ToSet(names))
        BY <2>1, DatabaseTyped, FS_Subset DEF Now
    <2>3. Cardinality(Now.ifaces) \in Nat /\ Cardinality(Now.ifaces \cap ToSet(names)) \in Nat
        BY <2>2, FS_CardinalityType
    <2>4. db_getinterfacecountbyname(names) \in
              {Cardinality(Now.ifaces), Cardinality(Now.ifaces \cap ToSet(names)), 0}
        BY <1>2 DEF db_getinterfacecountbyname
    <2>5. QED
        BY <1>2, <2>3, <2>4
<1>3. QED
    BY <1>1, <1>2

LEMMA AliasTyped ==
    ASSUME db \in 0 .. Len(Databases), NEW name
    PROVE  /\ db_setinterfacebyalias(name) \in Seq(Names)
           /\ db = 0 => db_setinterfacebyalias(name) = <<>>
<1> DEFINE Fits(m) == {n \in DOMAIN Busiest : <<name, Now.alias[Busiest[n]]>> \in Matches[m]}
           methods == {m \in 1 .. MatchMethod : db # 0 /\ Fits(m) # {}}
           found == db_setinterfacebyalias(name)
<1>1. found = IF methods = {} THEN <<>> ELSE <<Busiest[Min(Fits(Min(methods)))]>>
    BY DEF db_setinterfacebyalias
<1> HIDE DEF found
<1>2. CASE methods = {}
    BY <1>1, <1>2, EmptySeq DEF found
<1>3. CASE methods # {}
    <2>1. methods \subseteq Nat
        BY MatchAssumption
    <2>2. Min(methods) \in methods
        BY <1>3, <2>1, MinMember
    <2>3. db # 0 /\ Fits(Min(methods)) # {}
        BY <2>2
    <2>4. db \in DOMAIN Databases
        BY <2>3, DatabasesAssumption
    <2>5. Busiest \in Seq(Now.ifaces) /\ Now.ifaces \subseteq Names
        BY <2>4, DatabaseTyped DEF Busiest, Now
    <2>6. DOMAIN Busiest \subseteq Nat
        BY <2>5, LenProperties
    <2> DEFINE fits == Fits(Min(methods))
    <2>7. fits \subseteq DOMAIN Busiest /\ fits # {}
        BY <2>3
    <2> HIDE DEF methods, Fits, fits
    <2>8. Min(fits) \in DOMAIN Busiest
        BY <2>6, <2>7, MinMember
    <2>9. Busiest[Min(fits)] \in Names
        BY <2>5, <2>8, LenProperties
    <2>10. found = <<Busiest[Min(fits)]>>
        BY <1>1, <1>3 DEF fits
    <2>11. QED
        BY <2>3, <2>9, <2>10, OneName DEF found
<1>4. QED
    BY <1>2, <1>3

LEMMA ReadsTyped ==
    ASSUME p \in Params
    PROVE  Reads \in Seq(Reading) /\ Reads # <<>>
<1> DEFINE Typed(reads) == reads \in Seq(Reading) /\ reads # <<>>
<1>1. ASSUME NEW read \in Reading PROVE Typed(<<read>>)
    BY <1>1
<1>2. ASSUME NEW read \in Reading, NEW other \in Reading PROVE Typed(<<read, other>>)
    BY <1>2
<1>3. ASSUME NEW t \in Lists, NEW n \in Nat PROVE Read(t, n) \in Reading /\ InRange(t, n) \in Reading
    BY <1>3 DEF Read, InRange, Reading, NoDate, Params
<1>4. Typed(Month95th)
    <2>1. Read("month", 1) \in Reading /\ Read("fiveminute", MaxSamples) \in Reading
        BY <1>3, SettingsAssumption DEF Lists
    <2>2. QED
        BY <1>2, <2>1 DEF Month95th
<1>5. p.lists \in [Lists \cup {"dump"} -> Nat] /\ p.qmode \in Modes /\ p.dump \in [{"xml", "json"} -> Dumps]
    BY DEF Params
<1>6. ASSUME NEW dump \in Dumps PROVE Typed(DumpReads(dump))
    <2>1. p.lists.dump \in Nat
        BY <1>5
    <2>2. CASE dump = "p"
        BY <1>4, <2>2 DEF DumpReads
    <2>3. CASE dump = "s"
        <3> DEFINE tables == <<"fiveminute", "hour", "day", "month", "year">>
                   reads == [n \in 1 .. 5 |-> Read(tables[n], p.lists.dump)]
        <3>1. DOMAIN tables = 1 .. 5 /\ \A n \in 1 .. 5 : tables[n] \in Lists
            BY DEF Lists
        <3>2. DumpReads(dump) = reads
            BY <2>3, <3>1 DEF DumpReads, Each
        <3> HIDE DEF tables
        <3>3. reads \in [1 .. 5 -> Reading]
            BY <1>3, <2>1, <3>1
        <3> HIDE DEF reads
        <3>4. reads \in Seq(Reading) /\ Len(reads) = 5
            BY <3>3, FunctionIsSeq
        <3>5. QED
            BY <3>2, <3>4, EmptySeq
    <2>4. CASE dump = "a"
        <3> DEFINE tables == <<"fiveminute", "hour", "day", "month", "year", "top">>
                   reads == [n \in 1 .. 6 |-> InRange(tables[n], p.lists.dump)]
        <3>1. DOMAIN tables = 1 .. 6 /\ \A n \in 1 .. 6 : tables[n] \in Lists
            BY DEF Lists
        <3>2. DumpReads(dump) = reads
            BY <2>4, <3>1 DEF DumpReads, Each
        <3> HIDE DEF tables
        <3>3. reads \in [1 .. 6 -> Reading]
            BY <1>3, <2>1, <3>1
        <3> HIDE DEF reads
        <3>4. reads \in Seq(Reading) /\ Len(reads) = 6
            BY <3>3, FunctionIsSeq
        <3>5. QED
            BY <3>2, <3>4, EmptySeq
    <2>5. CASE dump \notin {"p", "s", "a"}
        <3>1. DumpReads(dump) = <<InRange(dump, p.lists.dump)>> /\ dump \in Lists
            BY <2>5 DEF DumpReads, Dumps
        <3>2. QED
            BY <1>1, <1>3, <2>1, <3>1
    <2>6. QED
        BY <2>2, <2>3, <2>4, <2>5
<1>7. ASSUME NEW qmode \in Modes, qmode \notin {"xml", "json"} PROVE Typed(ListReads(qmode))
    <2>1. {"month", "day", "hour"} \subseteq Lists
        BY DEF Lists
    <2>2. /\ Read("month", 2) \in Reading /\ Read("day", 2) \in Reading /\ Read("hour", 24) \in Reading
          /\ Read("day", 1) \in Reading /\ Read("month", 1) \in Reading
        BY <1>3, <2>1
    <2>3. CASE qmode \in {"all", "summary", "short"}
        BY <1>2, <2>2, <2>3 DEF ListReads
    <2>4. CASE qmode = "hoursgraph"
        BY <1>1, <2>2, <2>4 DEF ListReads
    <2>5. CASE qmode = "oneline"
        BY <1>2, <2>2, <2>5 DEF ListReads
    <2>6. CASE qmode = "95th"
        BY <1>4, <2>6 DEF ListReads
    <2>7. CASE qmode \notin {"all", "summary", "short", "hoursgraph", "oneline", "95th"}
        <3>1. qmode \in Lists /\ ListReads(qmode) = <<InRange(qmode, p.lists[qmode])>>
            BY <1>7, <2>7 DEF ListReads, Modes
        <3>2. p.lists[qmode] \in Nat
            BY <1>5, <3>1
        <3>3. QED
            BY <1>1, <1>3, <3>1, <3>2
    <2>8. QED
        BY <2>3, <2>4, <2>5, <2>6, <2>7
<1>8. CASE ShowsAlert /\ p.alert.type # "percentile"
    <2>1. p.alert.type \in Lists
        BY <1>8 DEF Params, ShowsAlert, AlertRequests, AlertTypes, Lists
    <2>2. Reads = <<Read(p.alert.type, 1)>>
        BY <1>8 DEF Reads
    <2>3. QED
        BY <1>1, <1>3, <2>1, <2>2
<1>9. CASE ShowsAlert /\ p.alert.type = "percentile"
    BY <1>4, <1>9 DEF Reads
<1>10. CASE ~ShowsAlert
    <2>1. CASE p.qmode \in {"xml", "json"}
        BY <1>5, <1>6, <1>10, <2>1 DEF Reads
    <2>2. CASE p.qmode \notin {"xml", "json"}
        BY <1>5, <1>7, <1>10, <2>2 DEF Reads
    <2>3. QED
        BY <2>1, <2>2
<1>11. QED
    BY <1>8, <1>9, <1>10

(* The options leave the count of interfaces alone. *)
SameCount == {q \in Params : q.dbifcount = p.dbifcount}

LEMMA ParsesTyped ==
    ASSUME TInv, pc = "args", currentarg <= Len(argv), NEW params \in SameCount, Parses(params)
    PROVE  TInv'
<1>1. Len(argv) \in Nat /\ params \in Params /\ params.dbifcount = p.dbifcount
    BY LenProperties DEF TInv, SameCount
<1>2. TypeOK'
    BY <1>1 DEF TInv, TypeOK, Parses, readvars
<1>3. QED
    BY <1>1, <1>2 DEF TInv, Parses, readvars

LEMMA SettingsTyped ==
    ASSUME p \in Params, NEW arg \in Arguments
    PROVE  /\ arg.opt = "iface" =>
                 /\ [p EXCEPT !.iface = <<>>, !.definterface = <<>>] \in SameCount
                 /\ [p EXCEPT !.iface = arg.names, !.defaultiface = FALSE] \in SameCount
           /\ arg.opt = "query" =>
                 [p EXCEPT !.query = TRUE, !.qmode = IF arg.mode = "" THEN @ ELSE arg.mode] \in SameCount
           /\ arg.opt = "list" =>
                 [p EXCEPT !.qmode = arg.mode, !.lists[arg.mode] = WithLimit(@, arg)] \in SameCount
           /\ arg.opt = "plain" => [p EXCEPT !.qmode = arg.mode] \in SameCount
           /\ arg.opt \in {"xml", "json"} =>
                 [p EXCEPT !.qmode = arg.opt,
                           !.dump[arg.opt] = IF arg.dump = "" THEN @ ELSE arg.dump,
                           !.lists.dump = WithLimit(IF arg.dump = "s" THEN 2 ELSE @, arg)] \in SameCount
           /\ arg.opt = "begin" => [p EXCEPT !.begin = arg.date] \in SameCount
           /\ arg.opt = "end" => [p EXCEPT !.end = arg.date] \in SameCount
           /\ arg.opt = "limit" => [p EXCEPT !.limit = arg.limit] \in SameCount
           /\ [p EXCEPT !.traffic = TRUE, !.query = FALSE] \in SameCount
           /\ [p EXCEPT !.changes = TRUE, !.query = @ /\ arg.opt = "setalias"] \in SameCount
           /\ [p EXCEPT !.merge = TRUE] \in SameCount
           /\ arg.opt = "alert" => [p EXCEPT !.alert = arg.alert] \in SameCount
<1>1. <<>> \in Seq(Names)
    BY EmptySeq
<1>2. ASSUME arg.opt = "iface"
      PROVE  /\ [p EXCEPT !.iface = <<>>, !.definterface = <<>>] \in SameCount
             /\ [p EXCEPT !.iface = arg.names, !.defaultiface = FALSE] \in SameCount
    <2>1. arg.names \in Seq(Names)
        BY <1>2, ArgumentFields
    <2>2. QED
        BY <1>1, <2>1 DEF Params, SameCount
<1>3. ASSUME arg.opt = "query"
      PROVE  [p EXCEPT !.query = TRUE, !.qmode = IF arg.mode = "" THEN @ ELSE arg.mode] \in SameCount
    <2>1. arg.mode \in Modes \cup {""}
        BY <1>3, ArgumentFields
    <2>2. QED
        BY <2>1 DEF Params, SameCount
<1>4. ASSUME arg.opt = "list"
      PROVE  [p EXCEPT !.qmode = arg.mode, !.lists[arg.mode] = WithLimit(@, arg)] \in SameCount
    <2>1. arg.mode \in Lists /\ arg.mode \in Modes /\ arg.limit \in Nat \cup {NoLimit}
        BY <1>4, ArgumentFields DEF Modes
    <2>2. p.lists \in [Lists \cup {"dump"} -> Nat]
        BY DEF Params, SameCount
    <2>3. WithLimit(p.lists[arg.mode], arg) \in Nat
        BY <2>1, <2>2 DEF WithLimit
    <2>4. [p.lists EXCEPT ![arg.mode] = WithLimit(p.lists[arg.mode], arg)] \in [Lists \cup {"dump"} -> Nat]
        BY <2>2, <2>3
    <2>5. QED
        BY <2>1, <2>4 DEF Params, SameCount
<1>5. ASSUME arg.opt = "plain" PROVE [p EXCEPT !.qmode = arg.mode] \in SameCount
    <2>1. arg.mode \in Modes
        BY <1>5, ArgumentFields
    <2>2. QED
        BY <2>1 DEF Params, SameCount
<1>6. ASSUME arg.opt \in {"xml", "json"}
      PROVE  [p EXCEPT !.qmode = arg.opt,
                       !.dump[arg.opt] = IF arg.dump = "" THEN @ ELSE arg.dump,
                       !.lists.dump = WithLimit(IF arg.dump = "s" THEN 2 ELSE @, arg)] \in SameCount
    <2>1. /\ arg.dump \in Dumps \cup {""} /\ arg.limit \in Nat \cup {NoLimit} /\ arg.opt \in Modes
        BY <1>6, ArgumentFields DEF Modes
    <2>2. p.lists \in [Lists \cup {"dump"} -> Nat] /\ p.dump \in [{"xml", "json"} -> Dumps]
        BY DEF Params, SameCount
    <2> DEFINE limit == WithLimit(IF arg.dump = "s" THEN 2 ELSE p.lists.dump, arg)
               dump == IF arg.dump = "" THEN p.dump[arg.opt] ELSE arg.dump
    <2>3. limit \in Nat /\ dump \in Dumps
        BY <1>6, <2>1, <2>2 DEF WithLimit
    <2>4. /\ [p.lists EXCEPT !["dump"] = limit] \in [Lists \cup {"dump"} -> Nat]
          /\ [p.dump EXCEPT ![arg.opt] = dump] \in [{"xml", "json"} -> Dumps]
        BY <1>6, <2>2, <2>3
    <2>5. QED
        BY <2>1, <2>4 DEF Params, SameCount
<1>7. arg.opt \in {"begin", "end"} => arg.date \in Int
    <2>1. arg.opt \in {"begin", "end"} => arg.date \in Nat \cup {Today}
        BY ArgumentFields
    <2>2. QED
        BY <2>1 DEF Today
<1>8. arg.opt = "limit" => arg.limit \in Nat
    BY ArgumentFields
<1>9. arg.opt = "alert" => arg.alert \in AlertRequests
    BY ArgumentFields
<1>10. arg.opt = "begin" => [p EXCEPT !.begin = arg.date] \in SameCount
    BY <1>7 DEF Params, SameCount
<1>11. arg.opt = "end" => [p EXCEPT !.end = arg.date] \in SameCount
    BY <1>7 DEF Params, SameCount
<1>12. arg.opt = "limit" => [p EXCEPT !.limit = arg.limit] \in SameCount
    BY <1>8 DEF Params, SameCount
<1>13. arg.opt = "alert" => [p EXCEPT !.alert = arg.alert] \in SameCount
    BY <1>9 DEF Params, SameCount
<1>14. /\ [p EXCEPT !.traffic = TRUE, !.query = FALSE] \in SameCount
       /\ [p EXCEPT !.changes = TRUE, !.query = @ /\ arg.opt = "setalias"] \in SameCount
       /\ [p EXCEPT !.merge = TRUE] \in SameCount
    BY DEF Params, SameCount
<1>15. QED
    BY <1>2, <1>3, <1>4, <1>5, <1>6, <1>10, <1>11, <1>12, <1>13, <1>14

LEMMA parseargsTyped == TInv /\ parseargs => TInv'
<1> SUFFICES ASSUME TInv, parseargs PROVE TInv'
    OBVIOUS
<1>1. Len(argv) \in Nat /\ p \in Params /\ argv \in Seq(Arguments)
    BY LenProperties DEF TInv, TypeOK
<1>2. CASE ParsingEnds
    <2>1. p.lists \in [Lists \cup {"dump"} -> Nat] /\ p.limit \in Nat \cup {NoLimit}
        BY <1>1 DEF Params
    <2>2. p.limit # NoLimit => [l \in DOMAIN p.lists |-> p.limit] \in [Lists \cup {"dump"} -> Nat]
        BY <2>1
    <2>3. p' \in Params /\ p'.dbifcount = p.dbifcount
        BY <1>1, <1>2, <2>2 DEF ParsingEnds, Params
    <2>4. TypeOK'
        BY <1>2, <2>3 DEF ParsingEnds, Goes, TInv, TypeOK, Places, readvars
    <2>5. QED
        BY <1>2, <2>3, <2>4 DEF ParsingEnds, Goes, TInv, readvars
<1>3. CASE ~ParsingEnds
    <2>1. PICK arg \in {argv[currentarg]} :
             /\ pc = "args" /\ currentarg <= Len(argv)
             /\ \/ ParsesIface(arg) \/ ParsesQuery(arg) \/ ParsesList(arg)
                \/ ParsesPlain(arg) \/ ParsesDump(arg) \/ ParsesRange(arg)
                \/ ParsesMeter(arg) \/ ParsesChange(arg) \/ ParsesMerge(arg) \/ ParsesConfig(arg)
                \/ parsealertargs(arg) \/ ParsingExits(arg)
        BY <1>3 DEF parseargs
    <2>2. arg \in Arguments
        BY <1>1, <2>1 DEF TInv, TypeOK
    <2>3. CASE ParsingExits(arg)
        <3>1. TypeOK'
            BY <1>1, <2>3 DEF ParsingExits, TInv, TypeOK, Places, readvars, Running
        <3>2. QED
            BY <2>1, <2>3, <3>1 DEF ParsingExits, TInv, readvars
    <2>4. ASSUME ParsesIface(arg) \/ ParsesQuery(arg)
          PROVE  \E params \in SameCount : Parses(params)
        BY <1>1, <2>1, <2>2, <2>4, SettingsTyped DEF ParsesIface, ParsesQuery
    <2>5. ASSUME ParsesList(arg) \/ ParsesPlain(arg)
          PROVE  \E params \in SameCount : Parses(params)
        BY <1>1, <2>1, <2>2, <2>5, SettingsTyped DEF ParsesList, ParsesPlain
    <2>6. ASSUME ParsesDump(arg)
          PROVE  \E params \in SameCount : Parses(params)
        BY <1>1, <2>1, <2>2, <2>6, SettingsTyped DEF ParsesDump
    <2>7. ASSUME ParsesRange(arg)
          PROVE  \E params \in SameCount : Parses(params)
        BY <1>1, <2>1, <2>2, <2>7, SettingsTyped DEF ParsesRange
    <2>8. ASSUME ParsesMeter(arg) \/ ParsesMerge(arg) \/ ParsesChange(arg)
          PROVE  \E params \in SameCount : Parses(params)
        BY <1>1, <2>1, <2>2, <2>8, SettingsTyped
           DEF ParsesMeter, ParsesMerge, ParsesChange
    <2>9. ASSUME ParsesConfig(arg)
          PROVE  \E params \in SameCount : Parses(params)
        BY <1>1, <2>9 DEF ParsesConfig, SameCount
    <2>10. ASSUME parsealertargs(arg)
          PROVE  \E params \in SameCount : Parses(params)
        BY <1>1, <2>1, <2>2, <2>10, SettingsTyped DEF parsealertargs
    <2>11. (\E params \in SameCount : Parses(params)) => TInv'
        BY <2>1, ParsesTyped
    <2>12. QED
        BY <2>1, <2>3, <2>4, <2>5, <2>6, <2>7, <2>8, <2>9, <2>10, <2>11
<1>4. QED
    BY <1>2, <1>3

LEMMA SelectionTyped ==
    TInv /\ (handlemerge \/ SkipsDatabase \/ db_open_ro \/ db_getinterfacecount \/ handleifselection)
        => TInv'
<1> SUFFICES ASSUME TInv, handlemerge \/ SkipsDatabase \/ db_open_ro \/ db_getinterfacecount
                          \/ handleifselection
             PROVE  TInv'
    OBVIOUS
<1>1. Len(Databases) \in Nat /\ p \in Params /\ argv \in Seq(Arguments)
    BY DatabasesAssumption DEF TInv, TypeOK
<1>2. CASE handlemerge
    <2>1. TypeOK'
        BY <1>2 DEF handlemerge, Exits, TInv, TypeOK, Places, readvars, Running
    <2>2. QED
        BY <1>2, <2>1 DEF handlemerge, Exits, TInv, readvars
<1>3. CASE SkipsDatabase
    <2>1. TypeOK'
        BY <1>1, <1>3 DEF SkipsDatabase, Goes, TInv, TypeOK, Places, readvars
    <2>2. QED
        BY <1>3, <2>1 DEF SkipsDatabase, Goes, TInv, readvars
<1>4. CASE db_open_ro
    <2>1. TypeOK'
        BY <1>1, <1>4 DEF db_open_ro, Exits, Goes, TInv, TypeOK, Places, readvars, Running
    <2>2. QED
        BY <1>4, <2>1 DEF db_open_ro, Exits, Goes, TInv, readvars
<1>5. CASE db_getinterfacecount
    <2>1. db # 0 /\ db \in 0 .. Len(Databases)
        BY <1>5 DEF db_getinterfacecount, TInv, TypeOK
    <2>2. db_getinterfacecountbyname(<<>>) \in Nat /\ Configured \in Seq(Names)
        BY <1>1, <2>1, CountTyped, ConfiguredTyped
    <2>3. p' \in Params
        BY <1>1, <1>5, <2>2 DEF db_getinterfacecount, Params
    <2>4. TypeOK'
        BY <1>5, <2>3 DEF db_getinterfacecount, Goes, TInv, TypeOK, Places, readvars
    <2>5. QED
        BY <1>5, <2>1, <2>4 DEF db_getinterfacecount, Goes, TInv, readvars
<1>6. CASE handleifselection
    <2>1. ASSUME NEW names \in Seq(Names), Selects(names) PROVE TInv'
        <3>1. p' \in Params /\ p'.dbifcount = p.dbifcount
            BY <1>1, <2>1 DEF Selects, Params
        <3>2. TypeOK'
            BY <1>6, <2>1, <3>1 DEF handleifselection, Selects, Goes, TInv, TypeOK, Places, readvars
        <3>3. db = 0 => p.dbifcount = 0
            BY DEF TInv
        <3>4. QED
            BY <2>1, <3>1, <3>2, <3>3 DEF Selects, Goes, TInv, readvars
    <2>2. ASSUME Exits(1), UNCHANGED <<p, db, readvars>> PROVE TInv'
        <3>1. TypeOK'
            BY <2>2 DEF Exits, TInv, TypeOK, Places, readvars, Running
        <3>2. QED
            BY <2>2, <3>1 DEF Exits, TInv, readvars
    <2>3. p.iface \in Seq(Names) /\ p.definterface \in Seq(Names)
        BY <1>1 DEF Params
    <2>4. \A i \in Available : <<i>> \in Seq(Names)
        BY OneName, SettingsAssumption
    <2>5. ~p.traffic /\ Busiest # <<>> => <<Head(Busiest)>> \in Seq(Names)
        <3>1. SUFFICES ASSUME ~p.traffic, Busiest # <<>> PROVE <<Head(Busiest)>> \in Seq(Names)
            OBVIOUS
        <3>2. db # 0 /\ db \in 0 .. Len(Databases)
            BY <1>6, <3>1 DEF handleifselection, TInv, TypeOK
        <3>3. db \in DOMAIN Databases
            BY <1>1, <3>2, DatabasesAssumption
        <3>4. Busiest \in Seq(Now.ifaces) /\ Now.ifaces \subseteq Names
            BY <3>3, DatabaseTyped DEF Busiest, Now
        <3>5. Head(Busiest) \in Names
            BY <3>1, <3>4, HeadTailProperties
        <3>6. QED
            BY <3>5, OneName
    <2>6. QED
        BY <1>6, <2>1, <2>2, <2>3, <2>4, <2>5 DEF handleifselection
<1>7. QED
    BY <1>2, <1>3, <1>4, <1>5, <1>6

LEMMA HandlingTyped ==
    TInv /\ (handleshowalert \/ HandlesChanges \/ handleshowdata \/ ShowsNothing \/ TakesNext
             \/ EndsQuery \/ handletrafficmeters \/ FetchFails)
        => TInv'
<1> SUFFICES ASSUME TInv, handleshowalert \/ HandlesChanges \/ handleshowdata \/ ShowsNothing
                          \/ TakesNext \/ EndsQuery \/ handletrafficmeters \/ FetchFails
             PROVE  TInv'
    OBVIOUS
<1>1. /\ Len(Databases) \in Nat /\ p \in Params /\ queue \subseteq UNION {Databases[d].ifaces : d \in DOMAIN Databases}
      /\ db \in 0 .. Len(Databases)
    BY DatabasesAssumption DEF TInv, TypeOK
<1>2. CASE handleshowalert \/ HandlesChanges \/ ShowsNothing \/ EndsQuery \/ handletrafficmeters \/ FetchFails
    <2>1. UNCHANGED <<argv, currentarg, p, db, readvars>>
        BY <1>2 DEF handleshowalert, HandlesChanges, ShowsNothing, EndsQuery, handletrafficmeters,
                    FetchFails, Fails, Goes, Exits
    <2>2. \/ pc' = "end" /\ status' \in {0, 1}
          \/ pc' \in {"validate", "meter"} /\ status' = status /\ pc # "end"
        BY <1>2 DEF handleshowalert, HandlesChanges, ShowsNothing, EndsQuery, handletrafficmeters,
                    FetchFails, Fails, Goes, Exits
    <2>3. TypeOK'
        BY <2>1, <2>2 DEF TInv, TypeOK, Places, readvars, Running
    <2>4. db = 0 => p.dbifcount = 0
        BY DEF TInv
    <2>5. QED
        BY <2>1, <2>2, <2>3, <2>4 DEF TInv, readvars
<1>3. CASE handleshowdata
    <2>1. p' \in Params /\ p'.dbifcount = p.dbifcount
        BY <1>1, <1>3 DEF handleshowdata, Params
    <2>2. db = 0 => p.dbifcount = 0
        BY DEF TInv
    <2>3. queue' \subseteq UNION {Databases[d].ifaces : d \in DOMAIN Databases}
          /\ (db = 0 => pc' \in {"meter", "validate"})
        <3>1. CASE ShowsAll
            <4>1. db # 0
                BY <2>2, <3>1 DEF ShowsAll
            <4>2. db \in DOMAIN Databases
                BY <1>1, <4>1, DatabasesAssumption
            <4>3. queue' \in {queue, Now.ifaces}
                BY <1>3 DEF handleshowdata
            <4>4. QED
                BY <1>1, <4>1, <4>2, <4>3 DEF Now
        <3>2. CASE ~ShowsAll
            BY <1>1, <1>3, <3>2 DEF handleshowdata, Goes
        <3>3. QED
            BY <3>1, <3>2
    <2>4. pc' \in {"meter", "next", "validate"}
        BY <1>3 DEF handleshowdata, Goes
    <2>5. TypeOK'
        BY <1>3, <2>1, <2>3, <2>4 DEF handleshowdata, Goes, TInv, TypeOK, Places
    <2>6. QED
        BY <1>3, <2>1, <2>2, <2>3, <2>4, <2>5 DEF handleshowdata, Goes, TInv
<1>4. CASE TakesNext
    <2>1. PICK i \in queue : queue' = queue \ {i} /\ p' = [p EXCEPT !.iface = <<i>>]
        BY <1>4 DEF TakesNext
    <2>2. i \in Names
        BY <1>1, <2>1, DatabaseTyped
    <2>3. p' \in Params /\ p'.dbifcount = p.dbifcount
        BY <1>1, <2>1, <2>2, OneName DEF Params
    <2>4. queue' \subseteq UNION {Databases[d].ifaces : d \in DOMAIN Databases}
        BY <1>1, <2>1
    <2>5. TypeOK'
        BY <1>4, <2>3, <2>4 DEF TakesNext, Goes, TInv, TypeOK, Places
    <2>6. QED
        BY <1>4, <2>3, <2>5 DEF TakesNext, Goes, TInv
<1>5. QED
    BY <1>2, <1>3, <1>4

LEMMA ValidationTyped == TInv /\ validateinterface => TInv'
<1> SUFFICES ASSUME TInv, validateinterface PROVE TInv'
    OBVIOUS
<1>1. /\ db \in 0 .. Len(Databases) /\ p \in Params /\ pc = "validate"
      /\ p.iface \in Seq(Names) /\ (db = 0 => p.dbifcount = 0)
    BY DEF TInv, TypeOK, validateinterface, Params
<1> DEFINE found == IF db_getinterfacecountbyname(p.iface) > 0 THEN p.iface
                    ELSE IF Len(p.iface) = 1 THEN db_setinterfacebyalias(p.iface[1]) ELSE <<>>
           unknown == found = <<>> /\ (p.iface # <<>> \/ db_getinterfacecountbyname(<<>>) = 0)
<1>2. found \in Seq(Names) /\ (db = 0 => unknown)
    BY <1>1, AliasTyped, CountTyped, EmptySeq
<1>3. /\ UNCHANGED <<db, readvars>>
      /\ IF unknown THEN Exits(1) /\ UNCHANGED p
         ELSE Goes("info") /\ p' = [p EXCEPT !.iface = found]
    BY DEF validateinterface
<1> HIDE DEF found, unknown
<1>4. CASE unknown
    <2>1. TypeOK'
        BY <1>3, <1>4 DEF Exits, TInv, TypeOK, Places, readvars, Running
    <2>2. QED
        BY <1>1, <1>3, <1>4, <2>1 DEF Exits, TInv, readvars
<1>5. CASE ~unknown
    <2>1. p' \in Params
        BY <1>1, <1>2, <1>3, <1>5 DEF Params
    <2>2. TypeOK'
        BY <1>1, <1>3, <1>5, <2>1 DEF Goes, TInv, TypeOK, Places, readvars
    <2>3. QED
        BY <1>1, <1>2, <1>3, <1>5, <2>2 DEF Goes, TInv, readvars
<1>6. QED
    BY <1>4, <1>5

LEMMA InfoTyped == TInv /\ (ReadsInfo \/ InfoIsUnset) => TInv'
<1> SUFFICES ASSUME TInv, ReadsInfo \/ InfoIsUnset PROVE TInv'
    OBVIOUS
<1>1. /\ db \in DOMAIN Databases /\ db # 0 /\ p \in Params /\ pc = "info" /\ Len(Databases) \in Nat
      /\ DOMAIN Databases = 1 .. Len(Databases)
    BY DatabasesAssumption DEF TInv, TypeOK, ReadsInfo, InfoIsUnset
<1>2. Reads \in Seq(Reading) /\ Reads # <<>> /\ \A n \in DOMAIN Reads : Reads[n] \in Reading
    BY <1>1, ReadsTyped, LenProperties
<1>3. \A n \in DOMAIN Reads : Reads[n].table \in Lists /\ Reads[n].limit \in Nat
    BY <1>2 DEF Reading
<1>4. db' \in DOMAIN Databases
    BY <1>1, ChangesAssumption DEF ReadsInfo, InfoIsUnset
<1>5. UNCHANGED <<argv, currentarg, queue, out, verdict>>
    BY DEF ReadsInfo, InfoIsUnset, Exits, Goes, Fails
<1>6. /\ \/ pc' = "end" /\ status' \in {0, 1} /\ UNCHANGED <<todo, info>>
         \/ pc' = "next" /\ status' = status /\ UNCHANGED <<todo, info>>
         \/ pc' = "fetch" /\ status' = status /\ todo' = Reads
    BY DEF ReadsInfo, InfoIsUnset, Exits, Goes, Fails
<1>7. p' \in Params
    <2>1. p' = p \/ \E i \in Databases[db'].ifaces : p' = [p EXCEPT !.iface = <<i>>]
        BY DEF ReadsInfo, InfoIsUnset
    <2>2. CASE p' = p
        BY <1>1, <2>2
    <2>3. ASSUME NEW i \in Databases[db'].ifaces, p' = [p EXCEPT !.iface = <<i>>] PROVE p' \in Params
        <3>1. <<i>> \in Seq(Names)
            BY <1>4, DatabaseTyped, OneName
        <3>2. QED
            BY <1>1, <2>3, <3>1 DEF Params
    <2>4. QED
        BY <2>1, <2>2, <2>3
<1>8. TypeOK'
    <2>1. info' \in Infos /\ db' \in 0 .. Len(Databases)
        <3>1. info \in Infos /\ Databases[db].period \in [Estimated -> Periods]
            BY <1>1, DatabasesAssumption DEF TInv, TypeOK, Infos
        <3>2. \/ info' = info
              \/ info' = [read |-> TRUE, period |-> Databases[db].period]
              \/ \E period \in [Estimated -> Periods] : info' = [read |-> FALSE, period |-> period]
            BY InfoIs
        <3>3. info' \in Infos
            <4>1. ASSUME NEW period \in [Estimated -> Periods], NEW b \in BOOLEAN,
                         info' = [read |-> b, period |-> period]
                  PROVE  info' \in Infos
                BY <4>1 DEF Infos
            <4> HIDE DEF Infos
            <4>2. QED
                BY <3>1, <3>2, <4>1
        <3>4. QED
            BY <1>1, <1>4, <3>3
    <2>2. \A n \in DOMAIN todo' : todo'[n].table \in Lists /\ todo'[n].limit \in Nat
        BY <1>3, <1>6 DEF TInv, TypeOK
    <2>3. pc' \in Places /\ status' \in {Running, 0, 1, 2} /\ (status' # Running <=> pc' = "end")
        BY <1>1, <1>6 DEF TInv, TypeOK, Places, Running
    <2>4. QED
        BY <1>5, <1>7, <2>1, <2>2, <2>3 DEF TInv, TypeOK, Infos
<1>9. QED
    BY <1>1, <1>2, <1>4, <1>5, <1>6, <1>8 DEF TInv

LEMMA PercentileFair ==
    ASSUME NEW rows \in Seq(Shown), rows # <<>>
    PROVE  LET size == Len(rows)
           IN  /\ Percentile(rows) \in Percentiles
               /\ LET v == Percentile(rows).rx
                  IN  /\ 20 * Cardinality({m \in 1 .. size : rows[m].rx > v}) <= size + 10
                      /\ 20 * Cardinality({m \in 1 .. size : rows[m].rx >= v}) >= size + 10
               /\ LET v == Percentile(rows).tx
                  IN  /\ 20 * Cardinality({m \in 1 .. size : rows[m].tx > v}) <= size + 10
                      /\ 20 * Cardinality({m \in 1 .. size : rows[m].tx >= v}) >= size + 10
               /\ LET v == Percentile(rows).total
                  IN  /\ 20 * Cardinality({m \in 1 .. size : rows[m].rx + rows[m].tx > v}) <= size + 10
                      /\ 20 * Cardinality({m \in 1 .. size : rows[m].rx + rows[m].tx >= v}) >= size + 10
<1> DEFINE size == Len(rows)
           rx == [n \in 1 .. size |-> rows[n].rx]
           tx == [n \in 1 .. size |-> rows[n].tx]
           total == [n \in 1 .. size |-> rows[n].rx + rows[n].tx]
<1>1. size \in Nat \ {0} /\ DOMAIN rows = 1 .. size /\ \A n \in 1 .. size : rows[n] \in Shown
    BY EmptySeq, LenProperties
<1>2. Percentile(rows) = [rx |-> AtPercentile(rx), tx |-> AtPercentile(tx), total |-> AtPercentile(total)]
    BY <1>1 DEF Percentile
<1> HIDE DEF size
<1>3. rx \in [1 .. size -> Nat] /\ tx \in [1 .. size -> Nat] /\ total \in [1 .. size -> Nat]
    BY <1>1 DEF Shown
<1>4. /\ \A m \in 1 .. size : rx[m] = rows[m].rx
      /\ \A m \in 1 .. size : tx[m] = rows[m].tx
      /\ \A m \in 1 .. size : total[m] = rows[m].rx + rows[m].tx
    OBVIOUS
<1> HIDE DEF rx, tx, total
<1>5. /\ AtPercentile(rx) \in Nat /\ AtPercentile(tx) \in Nat /\ AtPercentile(total) \in Nat
    BY <1>1, <1>3, AtItsPlace
<1>6. Percentile(rows) \in Percentiles
    BY <1>2, <1>5 DEF Percentiles
<1>7. LET v == Percentile(rows).rx
      IN  /\ 20 * Cardinality({m \in 1 .. size : rows[m].rx > v}) <= size + 10
          /\ 20 * Cardinality({m \in 1 .. size : rows[m].rx >= v}) >= size + 10
    <2> DEFINE v == AtPercentile(rx)
    <2>1. /\ 20 * Cardinality({m \in 1 .. size : rx[m] > v}) <= size + 10
          /\ 20 * Cardinality({m \in 1 .. size : rx[m] >= v}) >= size + 10
        BY <1>1, <1>3, AtItsPlace
    <2>2. Percentile(rows).rx = v
        BY <1>2
    <2> HIDE DEF v
    <2>3. /\ {m \in 1 .. size : rows[m].rx > v} = {m \in 1 .. size : rx[m] > v}
          /\ {m \in 1 .. size : rows[m].rx >= v} = {m \in 1 .. size : rx[m] >= v}
        BY <1>4
    <2>4. QED
        BY <2>1, <2>2, <2>3
<1>8. LET v == Percentile(rows).tx
      IN  /\ 20 * Cardinality({m \in 1 .. size : rows[m].tx > v}) <= size + 10
          /\ 20 * Cardinality({m \in 1 .. size : rows[m].tx >= v}) >= size + 10
    <2> DEFINE v == AtPercentile(tx)
    <2>1. /\ 20 * Cardinality({m \in 1 .. size : tx[m] > v}) <= size + 10
          /\ 20 * Cardinality({m \in 1 .. size : tx[m] >= v}) >= size + 10
        BY <1>1, <1>3, AtItsPlace
    <2>2. Percentile(rows).tx = v
        BY <1>2
    <2> HIDE DEF v
    <2>3. /\ {m \in 1 .. size : rows[m].tx > v} = {m \in 1 .. size : tx[m] > v}
          /\ {m \in 1 .. size : rows[m].tx >= v} = {m \in 1 .. size : tx[m] >= v}
        BY <1>4
    <2>4. QED
        BY <2>1, <2>2, <2>3
<1>9. LET v == Percentile(rows).total
      IN  /\ 20 * Cardinality({m \in 1 .. size : rows[m].rx + rows[m].tx > v}) <= size + 10
          /\ 20 * Cardinality({m \in 1 .. size : rows[m].rx + rows[m].tx >= v}) >= size + 10
    <2> DEFINE v == AtPercentile(total)
    <2>1. /\ 20 * Cardinality({m \in 1 .. size : total[m] > v}) <= size + 10
          /\ 20 * Cardinality({m \in 1 .. size : total[m] >= v}) >= size + 10
        BY <1>1, <1>3, AtItsPlace
    <2>2. Percentile(rows).total = v
        BY <1>2
    <2> HIDE DEF v
    <2>3. /\ {m \in 1 .. size : rows[m].rx + rows[m].tx > v} = {m \in 1 .. size : total[m] > v}
          /\ {m \in 1 .. size : rows[m].rx + rows[m].tx >= v} = {m \in 1 .. size : total[m] >= v}
        BY <1>4
    <2>4. QED
        BY <2>1, <2>2, <2>3
<1>10. QED
    BY <1>6, <1>7, <1>8, <1>9 DEF size

(* The parts of a fetch. *)
ReadNow(r) ==
    db_getdata_range(Now.rows, db_getinterfaceidin(p.iface), r.table, r.limit, r.begin, r.end, Now.today)

Fetched(r, rows, ends, last) ==
    [ifaces |-> db_getinterfaceidin(p.iface), table |-> r.table, limit |-> r.limit,
     begin |-> r.begin, from |-> db, rows |-> rows, whole |-> rows = ReadNow(r),
     percentile |-> IF Is95th /\ last /\ ~ends THEN Percentile(rows) ELSE NoPercentile]

Ending(rows) == rows = <<>> /\ (ShowsAlert \/ Is95th)

LEMMA FetchIs ==
    ASSUME TInv, Fetches
    PROVE  /\ Head(todo) \in Reading /\ Tail(todo) \in Seq(Reading) /\ db \in DOMAIN Databases
           /\ pc = "fetch" /\ UNCHANGED <<argv, currentarg, p, db, queue, info, verdict>>
           /\ \E rows \in Seq(Shown) :
                /\ rows \in BreakOff(ReadNow(Head(todo)))
                /\ out' = Append(out, Fetched(Head(todo), rows, Ending(rows), Tail(todo) = <<>>))
                /\ todo' = IF Ending(rows) THEN <<>> ELSE Begins(Tail(todo), rows)
                /\ \/ Ending(rows) /\ Fails
                   \/ ~Ending(rows) /\ Tail(todo) # <<>> /\ Goes("fetch")
                   \/ ~Ending(rows) /\ Tail(todo) = <<>> /\ Goes(IF ShowsAlert THEN "alert" ELSE "next")
<1> DEFINE r == Head(todo)
           all == ReadNow(r)
<1>1. todo \in Seq(Reading) /\ todo # <<>> /\ pc = "fetch" /\ db # 0 /\ db \in 0 .. Len(Databases)
    BY DEF TInv, TypeOK, Fetches
<1>2. r \in Reading /\ Tail(todo) \in Seq(Reading)
    BY <1>1, HeadTailProperties
<1>3. db \in DOMAIN Databases
    BY <1>1, DatabasesAssumption
<1>4. Now.rows \in SUBSET Rows /\ IsFiniteSet(Now.rows) /\ r.limit \in Nat
    BY <1>2, <1>3, DatabaseTyped DEF Now, Reading
<1>5. all \in Seq(Shown)
    BY <1>4, RangeTyped DEF ReadNow
<1>6. /\ UNCHANGED <<p, db, queue, info, verdict>>
      /\ \E rows \in BreakOff(all) :
            /\ out' = Append(out, Fetched(r, rows, Ending(rows), Tail(todo) = <<>>))
            /\ todo' = IF Ending(rows) THEN <<>> ELSE Begins(Tail(todo), rows)
            /\ \/ Ending(rows) /\ Fails
               \/ ~Ending(rows) /\ Tail(todo) # <<>> /\ Goes("fetch")
               \/ ~Ending(rows) /\ Tail(todo) = <<>> /\ Goes(IF ShowsAlert THEN "alert" ELSE "next")
    BY DEF Fetches, Fetched, Ending, ReadNow
<1> HIDE DEF all, r
<1>7. ASSUME NEW rows \in BreakOff(all) PROVE rows \in Seq(Shown)
    <2>1. rows = all \/ rows = <<>> \/ (rows = Tail(all) /\ all # <<>>)
        <3>1. rows = all \/ rows = <<>> \/ \E n \in DOMAIN all : rows = Tail(all)
            BY <1>7 DEF BreakOff
        <3>2. DOMAIN all = 1 .. Len(all)
            BY <1>5, LenProperties
        <3>3. all = <<>> => DOMAIN all = {}
            BY <3>2
        <3>4. QED
            BY <3>1, <3>3
    <2>2. QED
        BY <1>5, <2>1, HeadTailProperties, EmptySeq
<1>8. UNCHANGED <<argv, currentarg>>
    BY <1>6 DEF Goes, Fails, Exits
<1>9. QED
    BY <1>1, <1>2, <1>3, <1>6, <1>7, <1>8 DEF r, all

LEMMA FetchedTyped ==
    ASSUME TInv, db \in DOMAIN Databases, NEW r \in Reading, NEW rows \in Seq(Shown),
           NEW last \in BOOLEAN
    PROVE  Fetched(r, rows, Ending(rows), last) \in ReadOut
<1>1. db_getinterfaceidin(p.iface) \in SUBSET Names
    BY DatabaseTyped DEF db_getinterfaceidin, Now
<1>2. Is95th /\ last /\ ~Ending(rows) => Percentile(rows) \in Percentiles
    BY PercentileFair DEF Ending
<1>3. QED
    BY <1>1, <1>2 DEF Fetched, ReadOut, Reading

LEMMA BeginsTyped ==
    ASSUME NEW reads \in Seq(Reading), NEW rows \in Seq(Shown), ~Ending(rows)
    PROVE  Begins(reads, rows) \in Seq(Reading) /\ (reads # <<>> => Begins(reads, rows) # <<>>)
<1>1. CASE Is95th /\ reads # <<>>
    <2>1. rows # <<>> /\ rows[1] \in Shown
        BY <1>1, EmptySeq, LenProperties DEF Ending
    <2>2. Len(reads) \in Nat \ {0} /\ reads[1] \in Reading
        BY <1>1, EmptySeq, LenProperties
    <2> DEFINE read == [reads[1] EXCEPT !.begin = rows[1].at]
    <2>3. read \in Reading
        <3>1. ASSUME NEW r \in Reading, NEW b \in Int PROVE [r EXCEPT !.begin = b] \in Reading
            BY DEF Reading
        <3>2. rows[1].at \in Int
            BY <2>1 DEF Shown
        <3>3. QED
            BY <2>2, <3>1, <3>2
    <2>4. Begins(reads, rows) = [reads EXCEPT ![1] = read]
        BY <1>1 DEF Begins
    <2> HIDE DEF read
    <2>5. /\ [reads EXCEPT ![1] = read] \in Seq(Reading)
          /\ Len([reads EXCEPT ![1] = read]) = Len(reads)
        BY <2>2, <2>3, ExceptSeq
    <2>6. QED
        BY <2>2, <2>4, <2>5, EmptySeq
<1>2. CASE ~(Is95th /\ reads # <<>>)
    BY <1>2 DEF Begins
<1>3. QED
    BY <1>1, <1>2

LEMMA FetchesTyped == TInv /\ Fetches => TInv'
<1> SUFFICES ASSUME TInv, Fetches PROVE TInv'
    OBVIOUS
<1>1. /\ Head(todo) \in Reading /\ Tail(todo) \in Seq(Reading) /\ db \in DOMAIN Databases
      /\ pc = "fetch" /\ UNCHANGED <<argv, currentarg, p, db, queue, info, verdict>>
    BY FetchIs
<1>2. PICK rows \in Seq(Shown) :
        /\ out' = Append(out, Fetched(Head(todo), rows, Ending(rows), Tail(todo) = <<>>))
        /\ todo' = IF Ending(rows) THEN <<>> ELSE Begins(Tail(todo), rows)
        /\ \/ Ending(rows) /\ Fails
           \/ ~Ending(rows) /\ Tail(todo) # <<>> /\ Goes("fetch")
           \/ ~Ending(rows) /\ Tail(todo) = <<>> /\ Goes(IF ShowsAlert THEN "alert" ELSE "next")
    BY FetchIs
<1>3. out' \in Seq(ReadOut)
    <2>1. Fetched(Head(todo), rows, Ending(rows), Tail(todo) = <<>>) \in ReadOut
        BY <1>1, FetchedTyped
    <2>2. out \in Seq(ReadOut)
        BY DEF TInv
    <2>3. QED
        BY <1>2, <2>1, <2>2, AppendProperties
<1>4. todo' \in Seq(Reading) /\ (pc' = "fetch" => todo' # <<>>)
    <2>1. Ending(rows) => pc' # "fetch" /\ todo' = <<>>
        BY <1>2 DEF Fails, Exits, Goes
    <2>2. ~Ending(rows) => todo' \in Seq(Reading) /\ (Tail(todo) # <<>> => todo' # <<>>)
        BY <1>1, <1>2, BeginsTyped
    <2>3. ~Ending(rows) /\ pc' = "fetch" => Tail(todo) # <<>>
        BY <1>2 DEF Fails, Exits, Goes
    <2>4. QED
        BY <2>1, <2>2, <2>3, EmptySeq
<1>5. /\ \A n \in DOMAIN todo' : todo'[n].table \in Lists /\ todo'[n].limit \in Nat
      /\ \A n \in DOMAIN out' : out'[n].from \in DOMAIN Databases /\ out'[n].limit \in Nat
    <2>1. \A n \in DOMAIN todo' : todo'[n] \in Reading
        BY <1>4, LenProperties
    <2>2. \A n \in DOMAIN out' : out'[n] \in ReadOut
        BY <1>3, LenProperties
    <2>3. QED
        BY <2>1, <2>2 DEF Reading, ReadOut
<1>6. \/ pc' = "end" /\ status' \in {0, 1}
      \/ pc' \in {"fetch", "alert", "next"} /\ status' = status
    BY <1>2 DEF Fails, Exits, Goes
<1>7. TypeOK'
    <2>1. pc' \in Places /\ status' \in {Running, 0, 1, 2} /\ (status' # Running <=> pc' = "end")
        BY <1>1, <1>6 DEF TInv, TypeOK, Places, Running
    <2>2. QED
        BY <1>1, <1>5, <2>1 DEF TInv, TypeOK
<1>8. db # 0
    BY <1>1 DEF TInv
<1>9. QED
    BY <1>1, <1>3, <1>4, <1>6, <1>7, <1>8 DEF TInv

LEMMA AlertTyped == TInv /\ showalert => TInv'
<1> SUFFICES ASSUME TInv, showalert PROVE TInv'
    OBVIOUS
<1>1. /\ pc = "alert" /\ pc' = "end" /\ UNCHANGED <<argv, currentarg, p, db, queue, todo, info, out>>
      /\ verdict' \in [over : BOOLEAN, estimate : BOOLEAN, printed : BOOLEAN, reached : BOOLEAN]
    <2>1. Exceeds(Used, p.alert.limit) \in BOOLEAN /\ Exceeds(Expected, p.alert.limit) \in BOOLEAN
        BY DEF Exceeds
    <2>2. QED
        BY <2>1 DEF showalert, Exits
<1>2. status' \in {0, 1, 2}
    BY DEF showalert, Exits, AlertStatus
<1>3. TypeOK'
    BY <1>1, <1>2 DEF TInv, TypeOK, Places, Running
<1>4. db = 0 => p.dbifcount = 0
    BY DEF TInv
<1>5. QED
    BY <1>1, <1>3, <1>4 DEF TInv

LEMMA ChangesTyped == TInv /\ ChangedByOthers => TInv'
<1> SUFFICES ASSUME TInv, ChangedByOthers PROVE TInv'
    OBVIOUS
<1>1. /\ db' \in DOMAIN Databases /\ db' \in 0 .. Len(Databases) /\ db' # 0
      /\ UNCHANGED <<argv, currentarg, p, pc, readvars, status>>
    BY ChangesAssumption, DatabasesAssumption DEF ChangedByOthers
<1>2. TypeOK'
    BY <1>1 DEF TInv, TypeOK, readvars
<1>3. QED
    BY <1>1, <1>2 DEF TInv, readvars

LEMMA StepTyped == TInv /\ [Next]_vars => TInv'
<1>1. TInv /\ UNCHANGED vars => TInv'
    BY DEF TInv, TypeOK, vars
<1>2. QED
    BY <1>1, parseargsTyped, SelectionTyped, HandlingTyped, ValidationTyped, InfoTyped, FetchesTyped,
       AlertTyped, ChangesTyped DEF Next

(* Module Query's state stays in its types: in particular no read has a    *)
(* table or a limit that is none, whatever options were given in whatever  *)
(* order, and a command without a database never reaches a statement.      *)
THEOREM TypeCorrect == Spec => []TypeOK
<1>1. TInv => TypeOK
    BY DEF TInv
<1>2. QED
    BY <1>1, InitTyped, StepTyped, PTL DEF Spec

-----------------------------------------------------------------------------
(***************************************************************************)
(* The answer of --alert.                                                  *)
(***************************************************************************)
LEMMA Times ==
    ASSUME NEW a \in Int, NEW b \in Int, NEW k \in Nat
    PROVE  /\ a * k \in Int
           /\ a <= b => a * k <= b * k
           /\ a < b /\ k > 0 => a * k < b * k
<1>1. a * k \in Int /\ (b - a) * k = b * k - a * k /\ b * k \in Int
    OBVIOUS
<1>2. a <= b => (b - a) * k >= 0
    OBVIOUS
<1>3. a < b /\ k > 0 => (b - a) * k > 0
    OBVIOUS
<1>4. QED
    BY <1>1, <1>2, <1>3

LEMMA Quotient ==
    ASSUME NEW x \in Nat, NEW k \in Nat \ {0}
    PROVE  LET q == x \div k IN q \in Nat /\ q * k <= x /\ q * k > x - k
<1> DEFINE q == x \div k
           r == x % k
<1>1. q \in Nat /\ r \in 0 .. k - 1 /\ x = k * q + r
    OBVIOUS
<1> HIDE DEF q, r
<1>2. k * q = q * k /\ q * k \in Nat
    BY <1>1
<1>3. q * k <= x /\ q * k > x - k
    BY <1>1, <1>2
<1>4. QED
    BY <1>1, <1>3 DEF q

(* What the estimate of one or two amounts being over the limit says.      *)
LEMMA Grown ==
    ASSUME NEW value \in Nat, NEW sum \in Nat, NEW length \in Nat, NEW elapsed \in Nat \ {0},
           NEW limit \in Nat, sum * elapsed <= value, sum * elapsed > value - 2 * elapsed
    PROVE  /\ sum * length > limit => value * length > limit * elapsed
           /\ (value - 2 * elapsed) * length > limit * elapsed => sum * length > limit
<1>1. sum * elapsed \in Nat /\ sum * length \in Nat /\ limit * elapsed \in Nat
      /\ value * length \in Nat /\ (value - 2 * elapsed) * length \in Int
    OBVIOUS
<1> DEFINE both == (sum * elapsed) * length
<1>2. both = (sum * length) * elapsed /\ both \in Nat
    OBVIOUS
<1> HIDE DEF both
<1>3. ASSUME sum * length > limit PROVE value * length > limit * elapsed
    <2>1. limit * elapsed < (sum * length) * elapsed
        BY <1>1, <1>3, Times
    <2>2. both <= value * length
        BY <1>1, Times DEF both
    <2>3. QED
        BY <1>1, <1>2, <2>1, <2>2
<1>4. ASSUME (value - 2 * elapsed) * length > limit * elapsed PROVE sum * length > limit
    <2>1. (value - 2 * elapsed) * length <= both
        BY <1>1, Times DEF both
    <2>2. limit * elapsed < both
        BY <1>1, <1>2, <1>4, <2>1
    <2>3. ~ (sum * length <= limit)
        <3>1. sum * length <= limit => (sum * length) * elapsed <= limit * elapsed
            BY <1>1, Times
        <3>2. QED
            BY <1>1, <1>2, <2>2, <3>1
    <2>4. QED
        BY <1>1, <2>3
<1>5. QED
    BY <1>3, <1>4

(* The estimate against the row, the period that is elapsed and its length. *)
LEMMA EstimateIs ==
    ASSUME NEW kind \in AlertTypes \ {"percentile"},
           NEW period \in [kind : {kind}, elapsed : Nat, length : Nat, offset : Nat],
           NEW row \in Shown, NEW condition \in Conditions, NEW limit \in Nat
    PROVE  LET late == /\ kind # "hour" /\ period.elapsed > period.offset
                       /\ period.length > period.offset
               elapsed == IF late THEN period.elapsed - period.offset ELSE period.elapsed
               length == IF late THEN period.length - period.offset ELSE period.length
               value == Of(condition, row)
               estimate == Of(condition, getestimates(row, period))
           IN  /\ estimate > limit => value * length > limit * elapsed \/ elapsed = 0
               /\ row.rx > 0 /\ row.tx > 0 /\ elapsed > 0
                  /\ (value - 2 * elapsed) * length > limit * elapsed => estimate > limit
<1> DEFINE late == /\ kind # "hour" /\ period.elapsed > period.offset
                   /\ period.length > period.offset
           elapsed == IF late THEN period.elapsed - period.offset ELSE period.elapsed
           length == IF late THEN period.length - period.offset ELSE period.length
           value == Of(condition, row)
           estimates == getestimates(row, period)
           estimate == Of(condition, estimates)
<1>1. /\ late <=> /\ period.kind \in {"day", "month", "year"} /\ period.elapsed > period.offset
                  /\ period.length > period.offset
      /\ elapsed \in Nat /\ length \in Nat
    BY DEF AlertTypes
<1>2. estimates = CASE row.rx = 0 \/ row.tx = 0 -> [rx |-> 0, tx |-> 0]
                    [] row.rx > 0 /\ row.tx > 0 /\ elapsed > 0 ->
                          [rx |-> (row.rx \div elapsed) * length, tx |-> (row.tx \div elapsed) * length]
                    [] period.kind = "hour" /\ row.rx > 0 /\ row.tx > 0 /\ elapsed = 0 ->
                          [rx |-> row.rx, tx |-> row.tx]
                    [] OTHER -> [rx |-> 0, tx |-> 0]
    BY <1>1 DEF getestimates
<1>3. row.rx \in Nat /\ row.tx \in Nat
    BY DEF Shown
<1> HIDE DEF late, elapsed, length, estimates
<1>4. CASE row.rx = 0 \/ row.tx = 0
    <2>1. estimates = [rx |-> 0, tx |-> 0]
        BY <1>2, <1>4
    <2>2. estimate = 0
        BY <2>1 DEF Of
    <2>3. QED
        BY <1>4, <2>2 DEF late, elapsed, length, estimates
<1>5. CASE elapsed = 0
    BY <1>5 DEF late, elapsed, length, estimates
<1>6. CASE row.rx > 0 /\ row.tx > 0 /\ elapsed > 0
    <2> DEFINE q == row.rx \div elapsed
               s == row.tx \div elapsed
    <2>1. estimates = [rx |-> q * length, tx |-> s * length]
        BY <1>2, <1>3, <1>6
    <2>2. /\ q \in Nat /\ q * elapsed <= row.rx /\ q * elapsed > row.rx - elapsed
          /\ s \in Nat /\ s * elapsed <= row.tx /\ s * elapsed > row.tx - elapsed
        <3>1. elapsed \in Nat \ {0}
            BY <1>1, <1>6
        <3>2. \A x \in Nat : /\ x \div elapsed \in Nat /\ (x \div elapsed) * elapsed <= x
                            /\ (x \div elapsed) * elapsed > x - elapsed
            BY <3>1, Quotient, Zenon
        <3>3. QED
            BY <1>3, <3>2, Zenon
    <2> HIDE DEF q, s
    <2>3. q * elapsed \in Nat /\ s * elapsed \in Nat /\ (q + s) * elapsed = q * elapsed + s * elapsed
          /\ (q + s) * length = q * length + s * length
        BY <1>1, <2>2
    <2> DEFINE sum == IF condition \in {"rx", "rx_estimate"} THEN q
                      ELSE IF condition \in {"tx", "tx_estimate"} THEN s ELSE q + s
    <2>4. /\ sum \in Nat /\ value \in Nat
          /\ sum * elapsed <= value /\ sum * elapsed > value - 2 * elapsed
        <3>1. CASE condition \in {"rx", "rx_estimate"}
            BY <1>1, <1>3, <1>6, <2>2, <2>3, <3>1 DEF Of
        <3>2. CASE condition \in {"tx", "tx_estimate"}
            BY <1>1, <1>3, <1>6, <2>2, <2>3, <3>2 DEF Of
        <3>3. CASE condition \notin {"rx", "rx_estimate", "tx", "tx_estimate"}
            BY <1>1, <1>3, <1>6, <2>2, <2>3, <3>3 DEF Of
        <3>4. QED
            BY <3>1, <3>2, <3>3
    <2>5. estimate = sum * length
        BY <2>1, <2>3 DEF Of
    <2> HIDE DEF sum, value, estimate
    <2>6. /\ sum * length > limit => value * length > limit * elapsed
          /\ (value - 2 * elapsed) * length > limit * elapsed => sum * length > limit
        BY <1>1, <1>6, <2>4, Grown
    <2>7. QED
        BY <2>5, <2>6 DEF late, elapsed, length, estimates, value, estimate
<1>7. QED
    BY <1>1, <1>3, <1>4, <1>5, <1>6

(* Of the arguments that are parsed, the last --alert is the one in force. *)
LastAlert ==
    \/ /\ p.alert = NoAlert
       /\ \A n \in 1 .. currentarg - 1 : argv[n].opt # "alert"
    \/ \E n \in 1 .. currentarg - 1 :
          /\ argv[n].opt = "alert" /\ argv[n].alert = p.alert /\ ValidAlert(p.alert)
          /\ \A m \in n + 1 .. currentarg - 1 : argv[m].opt # "alert"

(* The periods of times that were read are what the names say. *)
Fitting == info.read => \A t \in Estimated : info.period[t].kind = t

RowIsRead == out # <<>> /\ Last(out).rows # <<>>

(* What showalert leaves. *)
Answered ==
    /\ pc = "end" /\ currentarg = Len(argv) + 1
    /\ ShowsAlert /\ RowIsRead
    /\ status = AlertStatus(p.alert.exit, Exceeds(Used, p.alert.limit), Exceeds(Expected, p.alert.limit))
    /\ p.alert.output = 3 => verdict.printed = Exceeds(Used, p.alert.limit)

(* The invariant: the alert in force is the last one given, and what it is *)
(* answered from is there when showalert is reached.                       *)
AInv ==
    /\ LastAlert
    /\ pc \notin {"args", "end"} => currentarg = Len(argv) + 1
    /\ Fitting
    /\ pc = "alert" => ShowsAlert /\ RowIsRead
    /\ verdict.reached => Answered

LEMMA InitAlert == Init => AInv
<1> SUFFICES ASSUME Init PROVE AInv
    OBVIOUS
<1>1. p.alert = NoAlert /\ 1 .. currentarg - 1 = {}
    BY DEF Init, initparams
<1>2. QED
    BY <1>1 DEF Init, AInv, LastAlert, NoVerdict, Fitting, NoInfo

(* A step after the options that does not come to the last read. *)
LEMMA QuietStep ==
    ASSUME AInv, UNCHANGED <<argv, currentarg, info, verdict>>, p'.alert = p.alert,
           pc \notin {"args", "end"}, pc' \notin {"args", "fetch", "alert"}
    PROVE  AInv'
<1>1. LastAlert'
    BY DEF AInv, LastAlert
<1>2. ~verdict.reached /\ currentarg = Len(argv) + 1
    BY DEF AInv, Answered
<1>3. QED
    BY <1>1, <1>2 DEF AInv, Fitting

LEMMA ParsedAlert == TInv /\ AInv /\ parseargs => AInv'
<1> SUFFICES ASSUME TInv, AInv, parseargs PROVE AInv'
    OBVIOUS
<1>1. /\ Len(argv) \in Nat /\ p \in Params /\ argv \in Seq(Arguments) /\ pc = "args"
      /\ currentarg \in 1 .. Len(argv) + 1
    BY LenProperties DEF TInv, TypeOK, parseargs, ParsingEnds
<1>2. ~verdict.reached /\ LastAlert
    BY <1>1 DEF AInv, Answered
<1>3. CASE ParsingEnds
    <2>1. p'.alert = p.alert /\ UNCHANGED <<argv, currentarg, info, verdict>> /\ pc' = "main"
        BY <1>1, <1>3 DEF ParsingEnds, Goes, readvars, Params
    <2>2. currentarg = Len(argv) + 1
        BY <1>1, <1>3 DEF ParsingEnds
    <2>3. LastAlert'
        BY <1>2, <2>1 DEF LastAlert
    <2>4. QED
        BY <1>2, <2>1, <2>2, <2>3 DEF AInv, Fitting
<1>4. CASE ~ParsingEnds
    <2>1. PICK arg \in {argv[currentarg]} :
             /\ pc = "args" /\ currentarg <= Len(argv)
             /\ \/ ParsesIface(arg) \/ ParsesQuery(arg) \/ ParsesList(arg)
                \/ ParsesPlain(arg) \/ ParsesDump(arg) \/ ParsesRange(arg)
                \/ ParsesMeter(arg) \/ ParsesChange(arg) \/ ParsesMerge(arg) \/ ParsesConfig(arg)
                \/ parsealertargs(arg) \/ ParsingExits(arg)
        BY <1>4 DEF parseargs
    <2>2. arg = argv[currentarg]
        BY <2>1
    <2>3. CASE ParsingExits(arg)
        <3>1. UNCHANGED <<argv, currentarg, p, info, verdict>> /\ pc' = "end"
            BY <2>3 DEF ParsingExits, readvars
        <3>2. LastAlert'
            BY <1>2, <3>1 DEF LastAlert
        <3>3. QED
            BY <1>2, <3>1, <3>2 DEF AInv, Fitting
    <2>4. CASE parsealertargs(arg)
        <3>1. /\ arg.opt = "alert" /\ ValidAlert(arg.alert) /\ p' = [p EXCEPT !.alert = arg.alert]
              /\ currentarg' = currentarg + 1 /\ UNCHANGED <<argv, pc, info, verdict>>
            BY <2>4 DEF parsealertargs, Parses, readvars
        <3>2. p'.alert = arg.alert
            BY <1>1, <3>1 DEF Params
        <3>3. currentarg \in 1 .. currentarg' - 1 /\ currentarg + 1 .. currentarg' - 1 = {}
            BY <1>1, <3>1
        <3>4. /\ argv'[currentarg].opt = "alert" /\ argv'[currentarg].alert = p'.alert
              /\ ValidAlert(p'.alert)
            BY <2>2, <3>1, <3>2
        <3>5. LastAlert'
            BY <3>3, <3>4 DEF LastAlert, ValidAlert
        <3>6. QED
            BY <1>1, <1>2, <3>1, <3>5 DEF AInv, Fitting
    <2>5. CASE ~ParsingExits(arg) /\ ~parsealertargs(arg)
        <3>1. /\ arg.opt # "alert" /\ p'.alert = p.alert
              /\ currentarg' = currentarg + 1 /\ UNCHANGED <<argv, pc, info, verdict>>
            <4>1. CASE ParsesIface(arg) \/ ParsesQuery(arg) \/ ParsesList(arg)
                BY <1>1, <4>1 DEF ParsesIface, ParsesQuery, ParsesList, Parses, readvars, Params
            <4>2. CASE ParsesPlain(arg) \/ ParsesDump(arg) \/ ParsesRange(arg)
                BY <1>1, <4>2 DEF ParsesPlain, ParsesDump, ParsesRange, Parses, readvars, Params
            <4>3. CASE ParsesMeter(arg) \/ ParsesChange(arg) \/ ParsesMerge(arg) \/ ParsesConfig(arg)
                BY <1>1, <4>3
                   DEF ParsesMeter, ParsesChange, ParsesMerge, ParsesConfig, Parses, readvars, Params
            <4>4. QED
                BY <2>1, <2>5, <4>1, <4>2, <4>3
        <3>2. LastAlert'
            <4>1. CASE p.alert = NoAlert /\ \A n \in 1 .. currentarg - 1 : argv[n].opt # "alert"
                <5>1. \A n \in 1 .. currentarg' - 1 : argv'[n].opt # "alert"
                    BY <1>1, <2>2, <3>1, <4>1
                <5>2. QED
                    BY <3>1, <4>1, <5>1 DEF LastAlert
            <4>2. ASSUME NEW n \in 1 .. currentarg - 1,
                         argv[n].opt = "alert", argv[n].alert = p.alert, ValidAlert(p.alert),
                         \A m \in n + 1 .. currentarg - 1 : argv[m].opt # "alert"
                  PROVE  LastAlert'
                <5>1. \A m \in n + 1 .. currentarg' - 1 : argv'[m].opt # "alert"
                    BY <1>1, <2>2, <3>1, <4>2
                <5>2. n \in 1 .. currentarg' - 1
                    BY <1>1, <3>1
                <5>3. argv'[n].opt = "alert" /\ argv'[n].alert = p'.alert
                    BY <3>1, <4>2
                <5>4. QED
                    BY <3>1, <4>2, <5>1, <5>2, <5>3 DEF LastAlert, ValidAlert
            <4>3. QED
                BY <1>2, <4>1, <4>2 DEF LastAlert
        <3>3. QED
            BY <1>1, <1>2, <3>1, <3>2 DEF AInv, Fitting
    <2>6. QED
        BY <2>3, <2>4, <2>5
<1>5. QED
    BY <1>3, <1>4

LEMMA QuietSteps ==
    /\ TInv /\ AInv
    /\ \/ handlemerge \/ SkipsDatabase \/ db_open_ro \/ db_getinterfacecount \/ handleifselection
       \/ handleshowalert \/ HandlesChanges \/ handleshowdata \/ ShowsNothing \/ validateinterface
       \/ TakesNext \/ EndsQuery \/ handletrafficmeters
    => AInv'
<1> SUFFICES ASSUME TInv, AInv,
                    \/ handlemerge \/ SkipsDatabase \/ db_open_ro \/ db_getinterfacecount \/ handleifselection
                    \/ handleshowalert \/ HandlesChanges \/ handleshowdata \/ ShowsNothing \/ validateinterface
                    \/ TakesNext \/ EndsQuery \/ handletrafficmeters
             PROVE  AInv'
    OBVIOUS
<1>1. p \in Params
    BY DEF TInv, TypeOK
<1>2. CASE handlemerge \/ SkipsDatabase \/ db_open_ro \/ db_getinterfacecount
    <2>1. /\ UNCHANGED <<argv, currentarg, info, verdict>> /\ p'.alert = p.alert
          /\ pc \notin {"args", "end"} /\ pc' \notin {"args", "fetch", "alert"}
        BY <1>1, <1>2 DEF handlemerge, SkipsDatabase, db_open_ro, db_getinterfacecount, Goes, Exits,
                          readvars, Params
    <2>2. QED
        BY <2>1, QuietStep
<1>3. CASE handleifselection
    <2>1. (\E names : Selects(names)) \/ (pc' = "end" /\ UNCHANGED <<argv, currentarg, p, readvars>>)
        BY <1>3 DEF handleifselection, Exits
    <2>2. ASSUME NEW names, Selects(names)
          PROVE  UNCHANGED <<argv, currentarg, info, verdict>> /\ p'.alert = p.alert /\ pc' = "handle"
        BY <1>1, <2>2 DEF Selects, Goes, readvars, Params
    <2>3. /\ UNCHANGED <<argv, currentarg, info, verdict>> /\ p'.alert = p.alert
          /\ pc \notin {"args", "end"} /\ pc' \notin {"args", "fetch", "alert"}
        BY <1>3, <2>1, <2>2 DEF handleifselection, readvars
    <2>4. QED
        BY <2>3, QuietStep
<1>4. CASE handleshowalert \/ HandlesChanges \/ handleshowdata \/ ShowsNothing
    <2>1. /\ UNCHANGED <<argv, currentarg, info, verdict>> /\ p'.alert = p.alert
          /\ pc \notin {"args", "end"} /\ pc' \notin {"args", "fetch", "alert"}
        BY <1>1, <1>4 DEF handleshowalert, HandlesChanges, handleshowdata, ShowsNothing, Goes, Exits,
                          readvars, Params
    <2>2. QED
        BY <2>1, QuietStep
<1>5. CASE validateinterface
    <2>1. \/ p' = p /\ pc' = "end"
          \/ pc' = "info" /\ \E found : p' = [p EXCEPT !.iface = found]
        BY <1>5 DEF validateinterface, Goes, Exits
    <2>2. p'.alert = p.alert /\ pc' \in {"end", "info"}
        BY <1>1, <2>1 DEF Params
    <2>3. UNCHANGED <<argv, currentarg, info, verdict>> /\ pc = "validate"
        BY <1>5 DEF validateinterface, Goes, Exits, readvars
    <2>4. QED
        BY <2>2, <2>3, QuietStep
<1>6. CASE TakesNext \/ EndsQuery \/ handletrafficmeters
    <2>1. /\ UNCHANGED <<argv, currentarg, info, verdict>> /\ p'.alert = p.alert
          /\ pc \notin {"args", "end"} /\ pc' \notin {"args", "fetch", "alert"}
        BY <1>1, <1>6 DEF TakesNext, EndsQuery, handletrafficmeters, Goes, Exits, readvars, Params
    <2>2. QED
        BY <2>1, QuietStep
<1>7. QED
    BY <1>2, <1>3, <1>4, <1>5, <1>6

LEMMA InfoAlert == TInv /\ AInv /\ (ReadsInfo \/ InfoIsUnset) => AInv'
<1> SUFFICES ASSUME TInv, AInv, ReadsInfo \/ InfoIsUnset PROVE AInv'
    OBVIOUS
<1>1. /\ p \in Params /\ db # 0 /\ pc = "info" /\ Len(Databases) \in Nat
      /\ DOMAIN Databases = 1 .. Len(Databases)
    BY DatabasesAssumption DEF TInv, TypeOK, ReadsInfo, InfoIsUnset
<1>2. UNCHANGED <<argv, currentarg, queue, out, verdict>> /\ pc' \in {"end", "next", "fetch"}
    BY DEF ReadsInfo, InfoIsUnset, Exits, Goes, Fails
<1>3. p'.alert = p.alert
    <2>1. p' = p \/ \E i \in Databases[db'].ifaces : p' = [p EXCEPT !.iface = <<i>>]
        BY DEF ReadsInfo, InfoIsUnset
    <2>2. QED
        BY <1>1, <2>1 DEF Params
<1>4. Fitting'
    <2>1. \A t \in Estimated : Databases[db].period[t].kind = t
        BY <1>1, DatabasesAssumption DEF TInv, TypeOK
    <2>2. \/ info' = info
          \/ info' = [read |-> TRUE, period |-> Databases[db].period]
          \/ \E period \in [Estimated -> Periods] : info' = [read |-> FALSE, period |-> period]
        BY InfoIs
    <2>3. QED
        BY <2>1, <2>2 DEF AInv, Fitting
<1>5. LastAlert'
    BY <1>2, <1>3 DEF AInv, LastAlert
<1>6. ~verdict.reached /\ currentarg = Len(argv) + 1
    BY <1>1 DEF AInv, Answered
<1>7. QED
    BY <1>2, <1>4, <1>5, <1>6 DEF AInv, Fitting

LEMMA LastAppended ==
    ASSUME NEW S, NEW seq \in Seq(S), NEW e \in S
    PROVE  Append(seq, e) # <<>> /\ Last(Append(seq, e)) = e
<1>1. Len(seq) \in Nat /\ Len(Append(seq, e)) = Len(seq) + 1 /\ Append(seq, e)[Len(seq) + 1] = e
    BY AppendProperties, LenProperties
<1>2. QED
    BY <1>1, EmptySeq DEF Last

LEMMA FetchAlert == TInv /\ AInv /\ (Fetches \/ FetchFails) => AInv'
<1> SUFFICES ASSUME TInv, AInv, Fetches \/ FetchFails PROVE AInv'
    OBVIOUS
<1>1. pc = "fetch" /\ ~verdict.reached /\ currentarg = Len(argv) + 1
    BY DEF AInv, Answered, Fetches, FetchFails
<1>2. CASE FetchFails
    <2>1. /\ UNCHANGED <<argv, currentarg, info, verdict>> /\ p' = p /\ pc' = "end"
        BY <1>2 DEF FetchFails, Fails, Exits, readvars
    <2>2. QED
        BY <1>1, <2>1, QuietStep
<1>3. CASE Fetches
    <2>1. /\ Head(todo) \in Reading /\ db \in DOMAIN Databases
          /\ UNCHANGED <<argv, currentarg, p, db, queue, info, verdict>>
        BY <1>3, FetchIs
    <2>2. PICK rows \in Seq(Shown) :
            /\ out' = Append(out, Fetched(Head(todo), rows, Ending(rows), Tail(todo) = <<>>))
            /\ \/ Ending(rows) /\ Fails
               \/ ~Ending(rows) /\ Tail(todo) # <<>> /\ Goes("fetch")
               \/ ~Ending(rows) /\ Tail(todo) = <<>> /\ Goes(IF ShowsAlert THEN "alert" ELSE "next")
        BY <1>3, FetchIs
    <2>3. pc' \in {"end", "fetch", "next", "alert"} /\ (pc' = "alert" => ShowsAlert /\ ~Ending(rows))
        BY <2>2 DEF Fails, Exits, Goes
    <2>4. pc' = "alert" => rows # <<>>
        BY <2>3 DEF Ending
    <2>5. Fetched(Head(todo), rows, Ending(rows), Tail(todo) = <<>>) \in ReadOut
        BY <2>1, FetchedTyped
    <2>6. out \in Seq(ReadOut)
        BY DEF TInv
    <2>7. out' # <<>> /\ Last(out').rows = rows
        BY <2>2, <2>5, <2>6, LastAppended DEF Fetched
    <2>8. LastAlert'
        BY <2>1 DEF AInv, LastAlert
    <2>9. pc' = "alert" => ShowsAlert' /\ RowIsRead'
        BY <2>1, <2>3, <2>4, <2>7 DEF ShowsAlert, RowIsRead
    <2>10. QED
        BY <1>1, <2>1, <2>3, <2>8, <2>9 DEF AInv, Fitting
<1>4. QED
    BY <1>2, <1>3

LEMMA AnswerAlert == TInv /\ AInv /\ showalert => AInv'
<1> SUFFICES ASSUME TInv, AInv, showalert PROVE AInv'
    OBVIOUS
<1>1. /\ pc = "alert" /\ ShowsAlert /\ RowIsRead /\ currentarg = Len(argv) + 1
    BY DEF showalert, AInv
<1>2. UNCHANGED <<argv, currentarg, p, db, queue, todo, info, out>> /\ pc' = "end"
    BY DEF showalert, Exits
<1> DEFINE over == Exceeds(Used, p.alert.limit)
           estimate == Exceeds(Expected, p.alert.limit)
<1>3. /\ status' = AlertStatus(p.alert.exit, over, estimate)
      /\ p.alert.output = 3 => verdict'.printed = over
    <2>1. over \in BOOLEAN
        BY DEF Exceeds
    <2> HIDE DEF over, estimate
    <2>2. /\ status' = AlertStatus(p.alert.exit, over, estimate)
          /\ verdict'.printed = (\/ p.alert.output = 1
                                 \/ p.alert.output = 2 /\ (over \/ estimate)
                                 \/ p.alert.output = 3 /\ over)
        BY DEF showalert, Exits, over, estimate
    <2>3. p.alert.output = 3 => verdict'.printed = over
        <3>1. SUFFICES ASSUME p.alert.output = 3 PROVE verdict'.printed = over
            OBVIOUS
        <3>2. p.alert.output # 1 /\ p.alert.output # 2
            BY <3>1
        <3>3. CASE over = TRUE
            <4>1. verdict'.printed = TRUE
                BY <2>2, <3>1, <3>3, Zenon
            <4>2. QED
                BY <3>3, <4>1
        <3>4. CASE over = FALSE
            <4>1. verdict'.printed = FALSE
                BY <2>2, <3>1, <3>2, <3>4, Zenon
            <4>2. QED
                BY <3>4, <4>1
        <3>5. QED
            BY <2>1, <3>3, <3>4
    <2>4. QED
        BY <2>2, <2>3
<1>4. Used' = Used /\ Expected' = Expected /\ ShowsAlert' /\ RowIsRead'
    BY <1>1, <1>2 DEF Used, Expected, Estimate, Row, Is95th, ShowsAlert, RowIsRead
<1>5. over' = over /\ estimate' = estimate
    BY <1>2, <1>4 DEF Exceeds
<1> HIDE DEF over, estimate
<1>6. Answered'
    BY <1>1, <1>2, <1>3, <1>4, <1>5 DEF Answered, over, estimate
<1>7. LastAlert'
    BY <1>2 DEF AInv, LastAlert
<1>8. QED
    BY <1>2, <1>6, <1>7 DEF AInv, Fitting

LEMMA OthersAlert == AInv /\ (ChangedByOthers \/ UNCHANGED vars) => AInv'
<1> SUFFICES ASSUME AInv, ChangedByOthers \/ UNCHANGED vars PROVE AInv'
    OBVIOUS
<1>1. UNCHANGED <<argv, currentarg, p, pc, todo, info, out, verdict, status>>
    BY DEF ChangedByOthers, readvars, vars
<1>2. LastAlert' /\ (RowIsRead => RowIsRead') /\ (ShowsAlert => ShowsAlert')
    BY <1>1 DEF AInv, LastAlert, RowIsRead, ShowsAlert
<1>3. Used' = Used /\ Expected' = Expected
    BY <1>1 DEF Used, Expected, Estimate, Row, Is95th, ShowsAlert
<1>4. Answered => Answered'
    BY <1>1, <1>2, <1>3 DEF Answered, Exceeds
<1>5. QED
    BY <1>1, <1>2, <1>4 DEF AInv, Fitting

LEMMA AlertStep == TInv /\ AInv /\ [Next]_vars => AInv'
BY ParsedAlert, QuietSteps, InfoAlert, FetchAlert, AnswerAlert, OthersAlert DEF Next

(* The alert in force is the last one of the arguments. *)
LEMMA AlertGiven ==
    ASSUME TInv, AInv, currentarg = Len(argv) + 1, ShowsAlert
    PROVE  /\ LastArg(LAMBDA arg : arg.opt = "alert").alert = p.alert
           /\ ValidAlert(p.alert) /\ p.alert \in AlertRequests
<1> DEFINE found == {n \in DOMAIN argv : argv[n].opt = "alert"}
<1>1. Len(argv) \in Nat /\ DOMAIN argv = 1 .. Len(argv) /\ \A n \in 1 .. Len(argv) : argv[n] \in Arguments
    BY LenProperties DEF TInv
<1>2. PICK n \in 1 .. Len(argv) :
         /\ argv[n].opt = "alert" /\ argv[n].alert = p.alert /\ ValidAlert(p.alert)
         /\ \A m \in n + 1 .. Len(argv) : argv[m].opt # "alert"
    BY <1>1 DEF AInv, LastAlert, ShowsAlert
<1>3. found \in SUBSET (1 .. Len(argv)) /\ n \in found
    BY <1>1, <1>2
<1>4. Max(found) \in found /\ n <= Max(found)
    BY <1>1, <1>3, MaxMember
<1>5. Max(found) = n
    <2>1. Max(found) \in 1 .. Len(argv) /\ argv[Max(found)].opt = "alert"
        BY <1>3, <1>4
    <2>2. ~ (Max(found) \in n + 1 .. Len(argv))
        BY <1>2, <2>1
    <2>3. QED
        BY <1>1, <1>4, <2>1, <2>2
<1>6. LastArg(LAMBDA arg : arg.opt = "alert") = argv[n]
    <2>1. LastArg(LAMBDA arg : arg.opt = "alert") = IF found = {} THEN [opt |-> ""] ELSE argv[Max(found)]
        BY DEF LastArg
    <2> HIDE DEF found
    <2>2. QED
        BY <1>3, <1>5, <2>1
<1>7. argv[n].alert \in AlertRequests
    BY <1>1, <1>2, ArgumentFields
<1>8. QED
    BY <1>2, <1>6, <1>7

(* AlertIsRight is what the invariant says of the last state. *)
LEMMA AlertFollows == TInv /\ AInv => AlertIsRight
<1> SUFFICES ASSUME TInv, AInv, verdict.reached PROVE AlertIsRight
    BY DEF AlertIsRight
<1> DEFINE a == p.alert
           period == info.period[a.type]
           late == /\ a.type # "hour" /\ period.elapsed > period.offset
                   /\ period.length > period.offset
           elapsed == IF late THEN period.elapsed - period.offset ELSE period.elapsed
           length == IF late THEN period.length - period.offset ELSE period.length
           value == Of(a.condition, Row)
           grows == value * length > a.limit * elapsed
           grown == (value - 2 * elapsed) * length > a.limit * elapsed
           used == a.condition \notin Estimates
           estimated == /\ info.read /\ a.type # "percentile"
                        /\ a.exit \in {2, 4} \/ (a.exit \in {3, 5} /\ ~used)
           over == Exceeds(Used, a.limit)
           estimate == Exceeds(Expected, a.limit)
<1>1. Answered
    BY DEF AInv
<1>2. /\ LastArg(LAMBDA arg : arg.opt = "alert").alert = a
      /\ ValidAlert(a) /\ a \in AlertRequests
    BY <1>1, AlertGiven DEF Answered
<1>3. status = AlertStatus(a.exit, over, estimate) /\ (a.output = 3 => verdict.printed = over)
    BY <1>1 DEF Answered
<1>4. Row \in Shown
    <2>1. out \in Seq(ReadOut) /\ out # <<>> /\ Last(out).rows # <<>>
        BY <1>1 DEF TInv, Answered, RowIsRead
    <2>2. Last(out) \in ReadOut
        BY <2>1, LenProperties, EmptySeq DEF Last
    <2>3. Last(out).rows \in Seq(Shown)
        BY <2>2 DEF ReadOut
    <2>4. QED
        BY <2>1, <2>3, LenProperties, EmptySeq DEF Row, Last
<1>5. /\ a.type \in AlertTypes /\ a.condition \in Conditions /\ a.limit \in Nat /\ a.limit > 0
      /\ a.exit \in 0 .. 5 /\ a.output \in Nat
    BY <1>2 DEF AlertRequests, ValidAlert
<1>6. a.type # "percentile" /\ info.read =>
         /\ period \in [kind : {a.type}, elapsed : Nat, length : Nat, offset : Nat]
         /\ Of(a.condition, Estimate) > a.limit => grows \/ elapsed = 0
         /\ Row.rx > 0 /\ Row.tx > 0 /\ elapsed > 0 /\ grown => Of(a.condition, Estimate) > a.limit
    <2>1. SUFFICES ASSUME a.type # "percentile", info.read
                   PROVE  /\ period \in [kind : {a.type}, elapsed : Nat, length : Nat, offset : Nat]
                          /\ Of(a.condition, Estimate) > a.limit => grows \/ elapsed = 0
                          /\ Row.rx > 0 /\ Row.tx > 0 /\ elapsed > 0 /\ grown
                                => Of(a.condition, Estimate) > a.limit
        OBVIOUS
    <2>2. a.type \in AlertTypes \ {"percentile"}
        BY <1>5, <2>1
    <2>3. period \in [kind : {a.type}, elapsed : Nat, length : Nat, offset : Nat]
        <3>1. period \in Periods /\ period.kind = a.type
            BY <2>1, <2>2 DEF TInv, TypeOK, AInv, Fitting, Estimated
        <3>2. QED
            BY <3>1 DEF Periods
    <2>4. Estimate = getestimates(Row, period)
        BY DEF Estimate
    <2> HIDE DEF period
    <2>5. QED
        BY <1>4, <1>5, <2>2, <2>3, <2>4, EstimateIs
<1>7. a.type # "percentile" =>
         /\ used => Used = value
         /\ ~used => Used = Of(a.condition, Estimate)
         /\ used /\ EstimateVisible => Expected = Of(a.condition, Estimate)
         /\ used /\ ~EstimateVisible => Expected = 0
    BY <1>1 DEF Used, Expected, Is95th, Answered
<1>8. /\ ~used => a.exit \notin {2, 4}
    BY <1>2 DEF ValidAlert
<1>9. over \in BOOLEAN /\ estimate \in BOOLEAN /\ (over <=> Used > a.limit) /\ (estimate <=> Expected > a.limit)
    BY DEF Exceeds
<1> HIDE DEF period, late, elapsed, length, value, grows, grown, used, estimated, over, estimate, a
<1>10. /\ a.exit = 0 => status = 0
       /\ a.exit = 1 => status = 1
       /\ a.exit = 2 => status = IF estimate THEN 1 ELSE 0
       /\ a.exit = 3 => status = IF over THEN 1 ELSE 0
       /\ a.exit = 4 => status = IF estimate THEN 2 ELSE 0
       /\ a.exit = 5 => status = IF over THEN 2 ELSE 0
    BY <1>3, <1>9 DEF AlertStatus
<1>11. a.exit \in {0, 1} => status = a.exit
    BY <1>10
<1>12. a.type # "percentile" /\ used /\ a.exit \in {3, 5} =>
          status = IF value > a.limit THEN (a.exit - 1) \div 2 ELSE 0
    BY <1>5, <1>7, <1>9, <1>10
<1>e. estimated => /\ info.read /\ a.type # "percentile"
                   /\ a.exit \in {2, 4} \/ (a.exit \in {3, 5} /\ ~used)
    BY DEF estimated
<1>13. status # 0 /\ estimated => grows \/ elapsed = 0
    <2>1. SUFFICES ASSUME a.type # "percentile", status # 0, estimated
                   PROVE  Of(a.condition, Estimate) > a.limit
        BY <1>6, <1>e
    <2>2. CASE a.exit \in {2, 4}
        <3>1. used /\ estimate
            BY <1>8, <1>10, <2>1, <2>2
        <3>2. EstimateVisible
            BY <1>5, <1>7, <1>9, <2>1, <3>1
        <3>3. QED
            BY <1>7, <1>9, <2>1, <3>1, <3>2
    <2>3. CASE a.exit \in {3, 5} /\ ~used
        BY <1>7, <1>9, <1>10, <2>1, <2>3
    <2>4. QED
        BY <2>1, <2>2, <2>3, <1>e
<1>14. /\ EstimateVisible /\ Row.rx > 0 /\ Row.tx > 0 /\ elapsed > 0
       /\ grown /\ estimated
       => status # 0
    <2>1. SUFFICES ASSUME a.type # "percentile", EstimateVisible, estimated,
                          Of(a.condition, Estimate) > a.limit
                   PROVE  status # 0
        BY <1>6, <1>e
    <2>2. QED
        BY <1>7, <1>8, <1>9, <1>10, <1>e, <2>1
<1>15. a.output = 3 /\ a.exit \in {3, 5} => (verdict.printed <=> status # 0)
    <2>1. over = TRUE \/ over = FALSE
        BY <1>9
    <2>2. QED
        BY <1>3, <1>10, <2>1
<1>16. QED
    BY <1>2, <1>11, <1>12, <1>13, <1>14, <1>15
       DEF AlertIsRight, a, period, late, elapsed, length, value, grows, grown, used, estimated

(* Whatever the arguments, the rows and the changes of other processes:    *)
(* the exit status of --alert, and what is printed with output 3, are the  *)
(* comparison of the last --alert with the row that was read, and for an   *)
(* estimate with the growth of that row over its period, unless the times  *)
(* of the interface were not read: the usage counts even then (showalert). *)
THEOREM AlertCorrect == Spec => []AlertIsRight
<1>1. TInv /\ AInv /\ [Next]_vars => (TInv /\ AInv)'
    BY StepTyped, AlertStep
<1>2. QED
    BY <1>1, InitTyped, InitAlert, AlertFollows, PTL DEF Spec

-----------------------------------------------------------------------------
(***************************************************************************)
(* What a list holds.                                                      *)
(***************************************************************************)
Members(list) == {list[n] : n \in 1 .. Len(list)}

(* Every member has the place of its rank. *)
Ranked(S, list, rank) ==
    /\ Placed(S, list) /\ rank \in [S -> Nat]
    /\ \A n \in 1 .. Cardinality(S) : rank[list[n]] = n - 1

LEMMA AllPlaced ==
    ASSUME NEW S, IsFiniteSet(S), NEW list, NEW rank, Ranked(S, list, rank)
    PROVE  \A e \in S : \E n \in 1 .. Cardinality(S) : e = list[n] /\ rank[e] = n - 1
<1> DEFINE size == Cardinality(S)
<1>1. /\ size \in Nat /\ list \in [1 .. size -> S]
      /\ \A n \in 1 .. size : rank[list[n]] = n - 1
    BY DEF Ranked, Placed
<1>2. IsFiniteSet(1 .. size) /\ Cardinality(1 .. size) = size
    BY <1>1, FS_Interval
<1> HIDE DEF size
<1>3. list \in Injection(1 .. size, S)
    <2>1. ASSUME NEW m \in 1 .. size, NEW n \in 1 .. size, list[m] = list[n] PROVE m = n
        BY <1>1, <2>1
    <2>2. QED
        BY <1>1, <2>1 DEF Injection, IsInjective
<1>4. list \in Surjection(1 .. size, S)
    BY <1>2, <1>3, FS_Injection DEF size
<1>5. QED
    BY <1>1, <1>4 DEF Surjection, size

LEMMA FirstMembers ==
    ASSUME NEW S, IsFiniteSet(S), NEW list, NEW rank, Ranked(S, list, rank), NEW limit \in Nat
    PROVE  Members(FirstOf(list, limit)) = {e \in S : limit # 0 => rank[e] < limit}
<1> DEFINE size == Cardinality(S)
           k == IF limit = 0 \/ limit > Len(list) THEN Len(list) ELSE limit
<1>1. /\ size \in Nat /\ list \in [1 .. size -> S] /\ list \in Seq(S) /\ Len(list) = size
      /\ \A n \in 1 .. size : rank[list[n]] = n - 1
    BY DEF Ranked, Placed
<1>2. Len(FirstOf(list, limit)) = k /\ \A n \in 1 .. k : FirstOf(list, limit)[n] = list[n]
    BY <1>1, FirstTyped
<1>3. k \in 0 .. size /\ (k < size => limit # 0 /\ k = limit) /\ (limit # 0 => k <= limit)
    BY <1>1
<1> HIDE DEF k
<1>4. Members(FirstOf(list, limit)) = {list[n] : n \in 1 .. k}
    BY <1>2 DEF Members
<1>5. \A e \in S : \E n \in 1 .. size : e = list[n] /\ rank[e] = n - 1
    BY AllPlaced
<1> HIDE DEF size
<1>6. ASSUME NEW n \in 1 .. k PROVE list[n] \in S /\ (limit # 0 => rank[list[n]] < limit)
    <2>1. n \in 1 .. size
        BY <1>1, <1>3
    <2>2. rank[list[n]] = n - 1
        BY <1>1, <2>1
    <2>3. limit # 0 => n - 1 < limit
        BY <1>1, <1>3
    <2>4. QED
        BY <1>1, <2>1, <2>2, <2>3
<1>7. ASSUME NEW e \in S, limit # 0 => rank[e] < limit PROVE \E n \in 1 .. k : e = list[n]
    <2>1. PICK n \in 1 .. size : e = list[n] /\ rank[e] = n - 1
        BY <1>5
    <2>2. n \in 1 .. k
        BY <1>1, <1>3, <1>7, <2>1
    <2>3. QED
        BY <2>1, <2>2
<1>8. QED
    BY <1>4, <1>6, <1>7

LEMMA LastMembers ==
    ASSUME NEW S, IsFiniteSet(S), NEW list, NEW rank, Ranked(S, list, rank), NEW limit \in Nat
    PROVE  Members(LastOf(list, limit)) = {e \in S : limit # 0 => (Cardinality(S) - 1) - rank[e] < limit}
<1> DEFINE size == Cardinality(S)
           k == IF limit = 0 \/ limit > Len(list) THEN 0 ELSE Len(list) - limit
<1>1. /\ size \in Nat /\ list \in [1 .. size -> S] /\ list \in Seq(S) /\ Len(list) = size
      /\ \A n \in 1 .. size : rank[list[n]] = n - 1
    BY DEF Ranked, Placed
<1>2. /\ Len(LastOf(list, limit)) = Len(list) - k
      /\ \A n \in 1 .. Len(list) - k : LastOf(list, limit)[n] = list[n + k]
    BY <1>1, LastTyped
<1>3. k \in 0 .. size /\ (k > 0 => limit # 0 /\ k = size - limit) /\ (limit # 0 => size - k <= limit)
    BY <1>1
<1> HIDE DEF k
<1>4. Members(LastOf(list, limit)) = {list[n + k] : n \in 1 .. size - k}
    BY <1>1, <1>2 DEF Members
<1>5. \A e \in S : \E n \in 1 .. size : e = list[n] /\ rank[e] = n - 1
    BY AllPlaced
<1> HIDE DEF size
<1>6. ASSUME NEW n \in 1 .. size - k
      PROVE  list[n + k] \in S /\ (limit # 0 => (size - 1) - rank[list[n + k]] < limit)
    <2>1. n + k \in 1 .. size
        BY <1>1, <1>3
    <2>2. rank[list[n + k]] = (n + k) - 1
        BY <1>1, <2>1
    <2>3. limit # 0 => (size - 1) - ((n + k) - 1) < limit
        BY <1>1, <1>3
    <2>4. QED
        BY <1>1, <2>1, <2>2, <2>3
<1>7. ASSUME NEW e \in S, limit # 0 => (size - 1) - rank[e] < limit
      PROVE  \E n \in 1 .. size - k : e = list[n + k]
    <2>1. PICK n \in 1 .. size : e = list[n] /\ rank[e] = n - 1
        BY <1>5
    <2>2. n - k \in 1 .. size - k /\ (n - k) + k = n
        BY <1>1, <1>3, <1>7, <2>1
    <2>3. QED
        BY <2>1, <2>2
<1>8. QED
    BY <1>4, <1>6, <1>7 DEF size

(* How many rows are earlier, later and larger than one. *)
EarlierOnes(S, e) == {s \in S : s.at < e.at}
LaterOnes(S, e) == {s \in S : s.at > e.at}
LargerOnes(S, e) == {s \in S : Larger(s, e)}

LEMMA LaterCount ==
    ASSUME NEW S, IsFiniteSet(S), S \subseteq Shown, OneDate(S), NEW e \in S
    PROVE  Cardinality(LaterOnes(S, e)) = (Cardinality(S) - 1) - Cardinality(EarlierOnes(S, e))
<1> DEFINE later == LaterOnes(S, e)
           earlier == EarlierOnes(S, e)
<1>1. later \subseteq S /\ earlier \subseteq S /\ e \notin later
    BY DEF LaterOnes, EarlierOnes, Shown
<1>2. S \ earlier = later \cup {e}
    <2>1. \A s \in S : s.at \in Nat
        BY DEF Shown
    <2>2. \A s \in S : s \notin earlier <=> s \in later \/ s = e
        BY <2>1 DEF LaterOnes, EarlierOnes, OneDate
    <2>3. QED
        BY <1>1, <2>2
<1>3. IsFiniteSet(later) /\ IsFiniteSet(earlier)
    BY <1>1, FS_Subset
<1>4. S \cap earlier = earlier
    BY <1>1
<1>5. Cardinality(S \ earlier) = Cardinality(S) - Cardinality(earlier)
    BY <1>4, FS_Difference
<1>6. Cardinality(later \cup {e}) = Cardinality(later) + 1
    BY <1>1, <1>3, FS_AddElement
<1>7. Cardinality(S) \in Nat /\ Cardinality(later) \in Nat /\ Cardinality(earlier) \in Nat
    BY <1>3, FS_CardinalityType
<1>8. Cardinality(later) + 1 = Cardinality(S) - Cardinality(earlier)
    BY <1>2, <1>5, <1>6, Zenon
<1> HIDE DEF later, earlier
<1>9. Cardinality(later) = (Cardinality(S) - 1) - Cardinality(earlier)
    BY <1>7, <1>8
<1>10. QED
    BY <1>9 DEF later, earlier

LEMMA RangeIs ==
    ASSUME NEW rows \in SUBSET Rows, IsFiniteSet(rows), NEW ifaces, NEW table, NEW limit \in Nat,
           NEW begin, NEW end, NEW today
    PROVE  LET found == Found(rows, ifaces, table, begin, end, today)
               cut == limit # 0 /\ (table = "top" \/ begin = NoDate \/ end = NoDate)
           IN  Members(db_getdata_range(rows, ifaces, table, limit, begin, end, today)) =
               {e \in found : cut =>
                   Cardinality(IF table = "top" THEN LargerOnes(found, e)
                               ELSE IF begin # NoDate THEN EarlierOnes(found, e)
                               ELSE LaterOnes(found, e)) < limit}
<1> DEFINE found == Found(rows, ifaces, table, begin, end, today)
           earlier == InOrder(found, Earlier)
           larger == InOrder(found, Larger)
           early == [e \in found |-> Cardinality(EarlierOnes(found, e))]
           large == [e \in found |-> Cardinality(LargerOnes(found, e))]
           list == db_getdata_range(rows, ifaces, table, limit, begin, end, today)
<1>1. IsFiniteSet(found) /\ found \subseteq Shown /\ OneDate(found)
    BY FoundTyped
<1>2. list = CASE table = "top" -> FirstOf(larger, limit)
               [] table # "top" /\ begin # NoDate /\ end # NoDate -> earlier
               [] table # "top" /\ begin # NoDate /\ end = NoDate -> FirstOf(earlier, limit)
               [] OTHER -> LastOf(earlier, limit)
    BY DEF db_getdata_range
<1> HIDE DEF found, list
<1>3. early \in [found -> Nat] /\ large \in [found -> Nat]
    <2>1. ASSUME NEW e \in found
          PROVE  Cardinality(EarlierOnes(found, e)) \in Nat /\ Cardinality(LargerOnes(found, e)) \in Nat
        <3>1. IsFiniteSet(EarlierOnes(found, e)) /\ IsFiniteSet(LargerOnes(found, e))
            BY <1>1, FS_Subset DEF EarlierOnes, LargerOnes
        <3>2. QED
            BY <3>1, FS_CardinalityType
    <2>2. QED
        BY <2>1
<1>4. Ranked(found, earlier, early)
    <2>1. /\ Placed(found, earlier)
          /\ \A n \in 1 .. Cardinality(found) : Cardinality({s \in found : s.at < earlier[n].at}) = n - 1
        BY <1>1, EarlierPlaces
    <2> HIDE DEF earlier
    <2>2. \A n \in 1 .. Cardinality(found) : earlier[n] \in found /\ early[earlier[n]] = n - 1
        BY <2>1 DEF Placed, EarlierOnes
    <2>3. QED
        BY <1>3, <2>1, <2>2 DEF Ranked
<1>5. Ranked(found, larger, large)
    <2>1. /\ Placed(found, larger)
          /\ \A n \in 1 .. Cardinality(found) : Cardinality({s \in found : Larger(s, larger[n])}) = n - 1
        BY <1>1, LargerPlaces
    <2> HIDE DEF larger
    <2>2. \A n \in 1 .. Cardinality(found) : larger[n] \in found /\ large[larger[n]] = n - 1
        BY <2>1 DEF Placed, LargerOnes
    <2>3. QED
        BY <1>3, <2>1, <2>2 DEF Ranked
<1>6. \A e \in found : Cardinality(LaterOnes(found, e)) = (Cardinality(found) - 1) - early[e]
    BY <1>1, LaterCount
<1>7. /\ \A e \in found : early[e] = Cardinality(EarlierOnes(found, e))
      /\ \A e \in found : large[e] = Cardinality(LargerOnes(found, e))
    OBVIOUS
<1> HIDE DEF earlier, larger, early, large
<1>8. /\ Members(FirstOf(larger, limit)) = {e \in found : limit # 0 => large[e] < limit}
      /\ Members(FirstOf(earlier, limit)) = {e \in found : limit # 0 => early[e] < limit}
      /\ Members(LastOf(earlier, limit)) = {e \in found : limit # 0 => (Cardinality(found) - 1) - early[e] < limit}
    BY <1>1, <1>4, <1>5, FirstMembers, LastMembers
<1>9. Members(earlier) = found
    <2>1. Placed(found, earlier)
        BY <1>4 DEF Ranked
    <2>2. \A e \in found : \E n \in 1 .. Cardinality(found) : e = earlier[n]
        BY <1>1, <1>4, AllPlaced
    <2>3. QED
        BY <2>1, <2>2 DEF Placed, Members
<1>10. CASE table = "top"
    BY <1>2, <1>7, <1>8, <1>10 DEF found, list
<1>11. CASE table # "top" /\ begin # NoDate /\ end # NoDate
    BY <1>2, <1>9, <1>11 DEF found, list
<1>12. CASE table # "top" /\ begin # NoDate /\ end = NoDate
    BY <1>2, <1>7, <1>8, <1>12 DEF found, list
<1>13. CASE table # "top" /\ begin = NoDate
    <2>1. list = LastOf(earlier, limit)
        BY <1>2, <1>13
    <2>2. QED
        BY <1>6, <1>8, <1>13, <2>1 DEF found, list
<1>14. QED
    BY <1>10, <1>11, <1>12, <1>13

(***************************************************************************)
(* The samples of the 95th percentile.                                     *)
(***************************************************************************)
Dates(S) == {s.at : s \in S}

LEMMA DatesCount ==
    ASSUME NEW S, IsFiniteSet(S), OneDate(S)
    PROVE  /\ IsFiniteSet(Dates(S)) /\ Cardinality(Dates(S)) = Cardinality(S)
           /\ Cardinality(S) \in Nat
<1> DEFINE at == [s \in S |-> s.at]
<1>1. at \in Surjection(S, Dates(S))
    BY DEF Surjection, Dates
<1>2. at \in Injection(S, Dates(S))
    BY DEF Injection, IsInjective, Dates, OneDate
<1>3. QED
    BY <1>1, <1>2, FS_Surjection, FS_CardinalityType

SamplesIn(rows, ifaces, month) ==
    {r.at : r \in {r \in rows : r.table = "fiveminute" /\ r.iface \in ifaces /\ r.at >= month}}

LEMMA MonthIs ==
    ASSUME NEW rows \in SUBSET Rows, IsFiniteSet(rows), NEW ifaces, NEW limit \in Nat,
           NEW month \in Nat, NEW today
    PROVE  LET samples == SamplesIn(rows, ifaces, month)
               shown == Dates(Members(db_getdata_range(rows, ifaces, "fiveminute", limit, month,
                                                       NoDate, today)))
           IN  shown \subseteq samples /\ (Cardinality(samples) <= limit => shown = samples)
<1> DEFINE sel == {r \in rows : r.table = "fiveminute" /\ r.iface \in ifaces /\ r.at >= month}
           samples == {r.at : r \in sel}
           found == Found(rows, ifaces, "fiveminute", month, NoDate, today)
           members == Members(db_getdata_range(rows, ifaces, "fiveminute", limit, month, NoDate, today))
<1>1. found = PerDate(sel)
    <2>1. month # NoDate /\ month # Today
        BY DEF NoDate, Today
    <2>2. \A r \in rows : (Since(r.at, month, today) /\ Until(r.at, NoDate)) <=> r.at >= month
        <3>1. ASSUME NEW r \in rows PROVE Since(r.at, month, today) <=> r.at >= month
            BY <2>1 DEF Since
        <3>2. ASSUME NEW r \in rows PROVE Until(r.at, NoDate)
            BY DEF Until, NoDate, Today
        <3>3. QED
            BY <3>1, <3>2
    <2>3. {r \in {r \in rows : r.table = "fiveminute" /\ r.iface \in ifaces} :
              Since(r.at, month, today) /\ Until(r.at, NoDate)} = sel
        BY <2>2
    <2> HIDE DEF sel
    <2>4. found = PerDate({r \in {r \in rows : r.table = "fiveminute" /\ r.iface \in ifaces} :
              Since(r.at, month, today) /\ Until(r.at, NoDate)})
        BY <2>1 DEF Found
    <2>5. QED
        BY <2>3, <2>4
<1>2. IsFiniteSet(sel) /\ sel \in SUBSET Rows
    BY FS_Subset
<1>3. members = {e \in found : limit # 0 => Cardinality(EarlierOnes(found, e)) < limit}
    <2>1. month # NoDate
        BY DEF NoDate
    <2>2. QED
        BY <2>1, RangeIs
<1> HIDE DEF sel, found, members
<1>4. IsFiniteSet(found) /\ found \subseteq Shown /\ OneDate(found) /\ Dates(found) = samples
    BY <1>1, <1>2, PerDateShown DEF Dates
<1>5. Dates(members) \subseteq samples
    BY <1>3, <1>4 DEF Dates
<1>6. ASSUME Cardinality(samples) <= limit PROVE Dates(members) = samples
    <2>1. Cardinality(samples) = Cardinality(found) /\ Cardinality(found) \in Nat
        BY <1>4, DatesCount
    <2>2. ASSUME NEW e \in found PROVE Cardinality(EarlierOnes(found, e)) < limit
        <3>1. IsFiniteSet(EarlierOnes(found, e)) /\ EarlierOnes(found, e) \subseteq found \ {e}
            BY <1>4, FS_Subset DEF EarlierOnes, Shown
        <3>2. IsFiniteSet(found \ {e}) /\ Cardinality(found \ {e}) = Cardinality(found) - 1
            BY <1>4, FS_RemoveElement
        <3>3. Cardinality(EarlierOnes(found, e)) <= Cardinality(found \ {e})
            BY <3>1, <3>2, FS_Subset
        <3>4. Cardinality(EarlierOnes(found, e)) \in Nat
            BY <3>1, FS_CardinalityType
        <3>5. QED
            BY <1>6, <2>1, <3>2, <3>3, <3>4
    <2>3. members = found
        BY <1>3, <2>2
    <2>4. QED
        BY <1>4, <2>3
<1>7. QED
    BY <1>5, <1>6 DEF sel, members, SamplesIn

Samples(f, month) == SamplesIn(Databases[f.from].rows, f.ifaces, month)

OfMonth(f, month) ==
    /\ Dates(Members(f.rows)) \subseteq Samples(f, month)
    /\ f.whole /\ Cardinality(Samples(f, month)) <= MaxSamples
           => Dates(Members(f.rows)) = Samples(f, month)

PercentilesKnown ==
    \A n \in DOMAIN out : out[n].percentile # NoPercentile =>
        /\ n > 1 /\ out[n].rows # <<>> /\ out[n].percentile = Percentile(out[n].rows)
        /\ OfMonth(out[n], Last(out[n - 1].rows).at)

SamplesOf(month) ==
    <<[table |-> "fiveminute", limit |-> MaxSamples, begin |-> month, end |-> NoDate]>>

(* The invariant: the samples are read from the month that was read last,  *)
(* and nothing else is between the two.                                    *)
PInv ==
    /\ PercentilesKnown
    /\ pc = "fetch" /\ Is95th =>
           \/ todo = Month95th
           \/ RowIsRead /\ todo = SamplesOf(Last(Last(out).rows).at)

LEMMA PercentileFollows == TInv /\ PInv => PercentileIs95th
<1> SUFFICES ASSUME TInv, PInv, NEW n \in DOMAIN out, out[n].percentile # NoPercentile
             PROVE  LET f == out[n]
                        size == Len(f.rows)
                        month == Last(out[n - 1].rows).at
                        shown == {f.rows[m].at : m \in 1 .. size}
                        samples == {r.at : r \in {r \in Databases[f.from].rows :
                          r.table = "fiveminute" /\ r.iface \in f.ifaces /\ r.at >= month}}
                    IN  /\ 20 * Cardinality({m \in 1 .. size : f.rows[m].rx > f.percentile.rx}) <= size + 10
                        /\ 20 * Cardinality({m \in 1 .. size : f.rows[m].rx >= f.percentile.rx}) >= size + 10
                        /\ 20 * Cardinality({m \in 1 .. size : f.rows[m].tx > f.percentile.tx}) <= size + 10
                        /\ 20 * Cardinality({m \in 1 .. size : f.rows[m].tx >= f.percentile.tx}) >= size + 10
                        /\ 20 * Cardinality({m \in 1 .. size : f.rows[m].rx + f.rows[m].tx > f.percentile.total}) <= size + 10
                        /\ 20 * Cardinality({m \in 1 .. size : f.rows[m].rx + f.rows[m].tx >= f.percentile.total}) >= size + 10
                        /\ shown \subseteq samples
                        /\ f.whole /\ Cardinality(samples) <= MaxSamples => shown = samples
    BY DEF PercentileIs95th
<1>1. out[n] \in ReadOut
    BY LenProperties DEF TInv
<1>2. /\ out[n].rows \in Seq(Shown) /\ out[n].rows # <<>> /\ out[n].percentile = Percentile(out[n].rows)
      /\ OfMonth(out[n], Last(out[n - 1].rows).at)
    BY <1>1 DEF PInv, PercentilesKnown, ReadOut
<1> DEFINE rows == out[n].rows
<1>3. Dates(Members(rows)) = {rows[m].at : m \in 1 .. Len(rows)}
    BY DEF Dates, Members
<1>4. QED
    BY <1>2, <1>3, PercentileFair DEF OfMonth, Samples, SamplesIn

(* Steps that read nothing. *)
LEMMA UnsampledStep ==
    ASSUME PInv, out' = out,
           \/ pc' # "fetch"
           \/ UNCHANGED <<pc, p, todo>>
           \/ (Is95th' => todo' = Month95th)
    PROVE  PInv'
<1>1. PercentilesKnown'
    BY DEF PInv, PercentilesKnown, OfMonth, Samples
<1>2. Month95th' = Month95th
    BY DEF Month95th, Read
<1>3. CASE UNCHANGED <<pc, p, todo>>
    <2>1. (Is95th' => Is95th) /\ (RowIsRead => RowIsRead')
        BY <1>3 DEF Is95th, ShowsAlert, RowIsRead
    <2>2. QED
        BY <1>1, <1>2, <1>3, <2>1 DEF PInv
<1>4. QED
    BY <1>1, <1>2, <1>3 DEF PInv

LEMMA QuietSamples ==
    /\ PInv
    /\ \/ parseargs \/ handlemerge \/ SkipsDatabase \/ db_open_ro \/ db_getinterfacecount
       \/ handleifselection \/ handleshowalert \/ HandlesChanges \/ handleshowdata \/ ShowsNothing
       \/ validateinterface \/ TakesNext \/ EndsQuery \/ FetchFails \/ showalert
       \/ handletrafficmeters \/ ChangedByOthers \/ UNCHANGED vars
    => PInv'
<1> SUFFICES ASSUME PInv,
                    \/ parseargs \/ handlemerge \/ SkipsDatabase \/ db_open_ro \/ db_getinterfacecount
                    \/ handleifselection \/ handleshowalert \/ HandlesChanges \/ handleshowdata
                    \/ ShowsNothing \/ validateinterface \/ TakesNext \/ EndsQuery \/ FetchFails
                    \/ showalert \/ handletrafficmeters \/ ChangedByOthers \/ UNCHANGED vars
             PROVE  PInv'
    OBVIOUS
<1>1. CASE parseargs
    <2>1. out' = out /\ pc' # "fetch"
        BY <1>1 DEF parseargs, ParsingEnds, ParsesIface, ParsesQuery, ParsesList, ParsesPlain, ParsesDump,
                    ParsesRange, ParsesMeter, ParsesChange, ParsesMerge, ParsesConfig, parsealertargs,
                    ParsingExits, Parses, Goes, readvars
    <2>2. QED
        BY <2>1, UnsampledStep
<1>2. CASE handlemerge \/ SkipsDatabase \/ db_open_ro \/ db_getinterfacecount \/ handleifselection
           \/ handleshowalert \/ HandlesChanges
    <2>1. out' = out /\ pc' # "fetch"
        BY <1>2 DEF handlemerge, SkipsDatabase, db_open_ro, db_getinterfacecount, handleifselection,
                    handleshowalert, HandlesChanges, Selects, Goes, Exits, readvars
    <2>2. QED
        BY <2>1, UnsampledStep
<1>3. CASE handleshowdata \/ ShowsNothing \/ validateinterface \/ TakesNext \/ EndsQuery \/ FetchFails
           \/ showalert \/ handletrafficmeters
    <2>1. out' = out /\ pc' # "fetch"
        BY <1>3 DEF handleshowdata, ShowsNothing, validateinterface, TakesNext, EndsQuery, FetchFails,
                    showalert, handletrafficmeters, Fails, Goes, Exits, readvars
    <2>2. QED
        BY <2>1, UnsampledStep
<1>4. CASE ChangedByOthers \/ UNCHANGED vars
    <2>1. UNCHANGED <<out, pc, p, todo>>
        BY <1>4 DEF ChangedByOthers, readvars, vars
    <2>2. QED
        BY <2>1, UnsampledStep
<1>5. QED
    BY <1>1, <1>2, <1>3, <1>4

LEMMA ReadsSamples == p \in Params /\ Is95th => Reads = Month95th
<1> SUFFICES ASSUME p \in Params, Is95th PROVE Reads = Month95th
    OBVIOUS
<1>1. CASE ShowsAlert
    BY <1>1 DEF Is95th, Reads
<1>2. CASE ~ShowsAlert /\ p.qmode = "95th"
    BY <1>2 DEF Reads, ListReads
<1>3. CASE ~ShowsAlert /\ p.qmode \in {"xml", "json"} /\ p.dump[p.qmode] = "p"
    BY <1>3 DEF Reads, DumpReads
<1>4. QED
    BY <1>1, <1>2, <1>3 DEF Is95th

LEMMA InfoSamples == TInv /\ PInv /\ (ReadsInfo \/ InfoIsUnset) => PInv'
<1> SUFFICES ASSUME TInv, PInv, ReadsInfo \/ InfoIsUnset PROVE PInv'
    OBVIOUS
<1>1. p \in Params /\ pc = "info"
    BY DEF TInv, TypeOK, ReadsInfo, InfoIsUnset
<1>2. out' = out /\ (pc' = "fetch" => todo' = Reads)
    BY <1>1 DEF ReadsInfo, InfoIsUnset, Exits, Goes, Fails
<1>3. p'.alert = p.alert /\ p'.qmode = p.qmode /\ p'.dump = p.dump
    <2>1. p' = p \/ \E i \in Databases[db'].ifaces : p' = [p EXCEPT !.iface = <<i>>]
        BY DEF ReadsInfo, InfoIsUnset
    <2>2. QED
        BY <1>1, <2>1 DEF Params
<1>4. Is95th' => Is95th
    BY <1>3 DEF Is95th, ShowsAlert
<1>5. pc' # "fetch" \/ (Is95th' => todo' = Month95th)
    BY <1>1, <1>2, <1>4, ReadsSamples
<1>6. QED
    BY <1>2, <1>5, UnsampledStep

(* A read of one month finds one row at most. *)
LEMMA OneMonth ==
    ASSUME NEW rows \in SUBSET Rows, IsFiniteSet(rows), NEW ifaces, NEW today
    PROVE  Len(db_getdata_range(rows, ifaces, "month", 1, NoDate, NoDate, today)) \in 0 .. 1
<1> DEFINE found == Found(rows, ifaces, "month", NoDate, NoDate, today)
           all == InOrder(found, Earlier)
<1>1. IsFiniteSet(found) /\ found \subseteq Shown /\ OneDate(found)
    BY FoundTyped
<1>2. db_getdata_range(rows, ifaces, "month", 1, NoDate, NoDate, today) = LastOf(all, 1)
    BY DEF db_getdata_range
<1> HIDE DEF found
<1>3. all \in Seq(found)
    BY <1>1, EarlierPlaces DEF Placed
<1> HIDE DEF all
<1>4. Len(all) \in Nat
    BY <1>3, LenProperties
<1>5. Len(LastOf(all, 1)) \in 0 .. 1
    <2>1. Len(LastOf(all, 1)) = Len(all) - (IF 1 = 0 \/ 1 > Len(all) THEN 0 ELSE Len(all) - 1)
        BY <1>3, LastTyped
    <2> DEFINE new == Len(LastOf(all, 1))
               old == Len(all)
    <2>2. new = old - (IF 1 = 0 \/ 1 > old THEN 0 ELSE old - 1) /\ old \in Nat
        BY <1>4, <2>1
    <2> HIDE DEF new, old
    <2>3. new \in 0 .. 1
        BY <2>2
    <2>4. QED
        BY <2>3 DEF new
<1>6. QED
    BY <1>2, <1>5

LEMMA BrokenOff ==
    ASSUME NEW all \in Seq(Shown), NEW rows \in BreakOff(all)
    PROVE  /\ rows \in Seq(Shown) /\ Members(rows) \subseteq Members(all)
           /\ Len(rows) <= Len(all)
<1>1. Len(all) \in Nat /\ DOMAIN all = 1 .. Len(all)
    BY LenProperties
<1>2. rows = all \/ rows = <<>> \/ (rows = Tail(all) /\ all # <<>>)
    <2>1. rows = all \/ rows = <<>> \/ \E n \in DOMAIN all : rows = Tail(all)
        BY DEF BreakOff
    <2>2. all = <<>> => DOMAIN all = {}
        BY <1>1
    <2>3. QED
        BY <2>1, <2>2
<1>3. CASE rows = all
    BY <1>1, <1>3
<1>4. CASE rows = <<>>
    BY <1>1, <1>4, EmptySeq DEF Members
<1>5. CASE rows = Tail(all) /\ all # <<>>
    <2>1. rows \in Seq(Shown) /\ Len(rows) = Len(all) - 1 /\ \A n \in 1 .. Len(rows) : rows[n] = all[n + 1]
        BY <1>5, HeadTailProperties
    <2>2. \A n \in 1 .. Len(rows) : n + 1 \in 1 .. Len(all)
        BY <1>1, <2>1
    <2>3. QED
        BY <1>1, <2>1, <2>2 DEF Members
<1>6. QED
    BY <1>2, <1>3, <1>4, <1>5

(* The entries that are there stay, and the new one is the last. *)
LEMMA AppendedEntry ==
    ASSUME NEW S, NEW seq \in Seq(S), NEW e \in S
    PROVE  LET new == Append(seq, e)
           IN  /\ DOMAIN new = 1 .. Len(seq) + 1 /\ DOMAIN seq = 1 .. Len(seq) /\ Len(seq) \in Nat
               /\ \A n \in 1 .. Len(seq) : new[n] = seq[n]
               /\ new[Len(seq) + 1] = e
BY AppendProperties, LenProperties

LEMMA KnownKept ==
    ASSUME PercentilesKnown, out \in Seq(ReadOut), NEW e \in ReadOut, out' = Append(out, e),
           e.percentile # NoPercentile =>
               /\ out # <<>> /\ e.rows # <<>> /\ e.percentile = Percentile(e.rows)
               /\ OfMonth(e, Last(Last(out).rows).at)
    PROVE  PercentilesKnown'
<1> DEFINE last == Len(out) + 1
<1>1. /\ DOMAIN out' = 1 .. last /\ out'[last] = e /\ DOMAIN out = 1 .. Len(out) /\ Len(out) \in Nat
      /\ \A n \in 1 .. Len(out) : out'[n] = out[n]
    BY AppendedEntry
<1>2. out # <<>> => Len(out) > 0 /\ Last(out) = out'[last - 1]
    <2>1. SUFFICES ASSUME out # <<>> PROVE Len(out) > 0 /\ Last(out) = out'[last - 1]
        OBVIOUS
    <2>2. Len(out) > 0 /\ Len(out) \in 1 .. Len(out) /\ last - 1 = Len(out)
        BY <1>1, <2>1, EmptySeq
    <2>3. out'[Len(out)] = out[Len(out)]
        BY <1>1, <2>2
    <2>4. QED
        BY <2>2, <2>3 DEF Last
<1>3. ASSUME NEW n \in DOMAIN out', out'[n].percentile # NoPercentile
      PROVE  /\ n > 1 /\ out'[n].rows # <<>> /\ out'[n].percentile = Percentile(out'[n].rows)
             /\ OfMonth(out'[n], Last(out'[n - 1].rows).at)
    <2>1. CASE n = last
        <3>1. out'[n] = e
            BY <1>1, <2>1
        <3>2. /\ out # <<>> /\ e.rows # <<>> /\ e.percentile = Percentile(e.rows)
              /\ OfMonth(e, Last(Last(out).rows).at)
            BY <1>3, <3>1
        <3>3. n > 1 /\ Last(out) = out'[n - 1]
            <4>1. out # <<>>
                BY <3>2, Zenon
            <4>2. Len(out) > 0 /\ Last(out) = out'[last - 1]
                BY <1>2, <4>1, Zenon
            <4>3. Len(out) \in Nat /\ Len(out) > 0
                BY <1>1, <4>2, Zenon
            <4> DEFINE size == Len(out)
            <4>4. size \in Nat /\ size > 0 /\ n = size + 1
                BY <2>1, <4>3, Zenon
            <4> HIDE DEF size
            <4>5. n > 1
                BY <4>4
            <4>6. Last(out) = out'[n - 1]
                BY <2>1, <4>2, Zenon
            <4>7. QED
                BY <4>5, <4>6
        <3>4. QED
            BY <3>1, <3>2, <3>3
    <2>2. CASE n # last
        <3>1. n \in 1 .. Len(out)
            BY <1>1, <2>2
        <3>2. out'[n] = out[n]
            BY <1>1, <3>1
        <3>3. /\ n > 1 /\ out[n].rows # <<>> /\ out[n].percentile = Percentile(out[n].rows)
              /\ OfMonth(out[n], Last(out[n - 1].rows).at)
            BY <1>1, <1>3, <3>1, <3>2 DEF PercentilesKnown
        <3>4. out'[n - 1] = out[n - 1]
            BY <1>1, <3>1, <3>3
        <3>5. QED
            BY <3>2, <3>3, <3>4
    <2>3. QED
        BY <2>1, <2>2
<1>4. QED
    BY <1>3 DEF PercentilesKnown, OfMonth, Samples

LEMMA FetchSamples == TInv /\ PInv /\ Fetches => PInv'
<1> SUFFICES ASSUME TInv, PInv, Fetches PROVE PInv'
    OBVIOUS
<1>1. /\ Head(todo) \in Reading /\ Tail(todo) \in Seq(Reading) /\ db \in DOMAIN Databases /\ pc = "fetch"
      /\ UNCHANGED <<argv, currentarg, p, db, queue, info, verdict>>
    BY FetchIs
<1> DEFINE r == Head(todo)
           all == ReadNow(r)
           lasts == Tail(todo) = <<>>
<1>2. PICK rows \in Seq(Shown) :
        /\ rows \in BreakOff(all)
        /\ out' = Append(out, Fetched(r, rows, Ending(rows), lasts))
        /\ todo' = IF Ending(rows) THEN <<>> ELSE Begins(Tail(todo), rows)
        /\ \/ Ending(rows) /\ Fails
           \/ ~Ending(rows) /\ Tail(todo) # <<>> /\ Goes("fetch")
           \/ ~Ending(rows) /\ Tail(todo) = <<>> /\ Goes(IF ShowsAlert THEN "alert" ELSE "next")
    BY FetchIs
<1> DEFINE e == Fetched(r, rows, Ending(rows), lasts)
<1>3. e \in ReadOut /\ out \in Seq(ReadOut)
    BY <1>1, FetchedTyped DEF TInv
<1>4. /\ e.rows = rows /\ e.whole = (rows = all) /\ e.from = db /\ e.ifaces = db_getinterfaceidin(p.iface)
      /\ e.percentile = IF Is95th /\ lasts /\ ~Ending(rows) THEN Percentile(rows) ELSE NoPercentile
    BY DEF Fetched
<1>5. Now.rows \in SUBSET Rows /\ IsFiniteSet(Now.rows) /\ Now.rows = Databases[db].rows
    BY <1>1, DatabaseTyped DEF Now
<1>6. all = db_getdata_range(Now.rows, e.ifaces, r.table, r.limit, r.begin, r.end, Now.today)
    BY <1>4 DEF ReadNow
<1>7. all \in Seq(Shown)
    <2>1. r.limit \in Nat
        BY <1>1 DEF Reading
    <2>2. QED
        BY <1>5, <1>6, <2>1, RangeTyped
<1> HIDE DEF r, all, lasts, e
<1>8. Is95th' = Is95th /\ Month95th' = Month95th
    BY <1>1 DEF Is95th, ShowsAlert, Month95th, Read
<1>9. RowIsRead' = (rows # <<>>) /\ Last(out') = e /\ out' # <<>>
    BY <1>2, <1>3, <1>4, LastAppended DEF RowIsRead, e
<1>10. Is95th /\ rows = <<>> => pc' # "fetch"
    BY <1>2 DEF Ending, Fails, Exits
<1>11. CASE ~Is95th
    <2>1. e.percentile = NoPercentile
        BY <1>4, <1>11
    <2>2. PercentilesKnown'
        BY <1>2, <1>3, <2>1, KnownKept DEF PInv, e
    <2>3. QED
        BY <1>8, <1>11, <2>2 DEF PInv
<1>12. CASE Is95th /\ todo = Month95th
    <2>1. /\ r = Read("month", 1) /\ Tail(todo) = <<Read("fiveminute", MaxSamples)>>
          /\ Tail(todo) # <<>>
        BY <1>12 DEF r, Month95th
    <2>2. e.percentile = NoPercentile
        BY <1>4, <2>1 DEF lasts
    <2>3. PercentilesKnown'
        BY <1>2, <1>3, <2>2, KnownKept DEF PInv, e
    <2>4. CASE rows = <<>>
        BY <1>10, <1>12, <2>3, <2>4 DEF PInv
    <2>5. CASE rows # <<>>
        <3>1. Len(all) \in 0 .. 1
            BY <1>5, <1>6, <2>1, OneMonth DEF Read
        <3>2. Len(rows) = 1
            BY <1>2, <1>7, <2>5, <3>1, BrokenOff, EmptySeq, LenProperties
        <3>3. Last(rows) = rows[1]
            BY <3>2 DEF Last
        <3>4. todo' = [<<Read("fiveminute", MaxSamples)>> EXCEPT ![1].begin = rows[1].at]
            BY <1>2, <1>12, <2>1, <2>5 DEF Ending, Begins
        <3>5. todo' = SamplesOf(rows[1].at)
            BY <3>4 DEF Read, SamplesOf
        <3>6. RowIsRead' /\ todo' = SamplesOf(Last(Last(out').rows).at)
            BY <1>4, <1>9, <2>5, <3>3, <3>5
        <3>7. SamplesOf(Last(Last(out').rows).at) = SamplesOf(Last(Last(out).rows).at)'
            BY DEF SamplesOf
        <3>8. QED
            BY <2>3, <3>6, <3>7 DEF PInv
    <2>6. QED
        BY <2>4, <2>5
<1>13. CASE Is95th /\ RowIsRead /\ todo = SamplesOf(Last(Last(out).rows).at)
    <2> DEFINE month == Last(Last(out).rows).at
    <2>1. month \in Nat
        <3>1. Last(out) \in ReadOut
            BY <1>3, <1>13, LenProperties, EmptySeq DEF Last, RowIsRead
        <3>2. Last(out).rows \in Seq(Shown) /\ Last(out).rows # <<>>
            BY <1>13, <3>1 DEF ReadOut, RowIsRead
        <3>3. Last(Last(out).rows) \in Shown
            BY <3>2, LenProperties, EmptySeq DEF Last
        <3>4. QED
            BY <3>3 DEF Shown
    <2> HIDE DEF month
    <2>2. /\ r = [table |-> "fiveminute", limit |-> MaxSamples, begin |-> month, end |-> NoDate]
          /\ Tail(todo) = <<>>
        BY <1>13 DEF r, SamplesOf, month
    <2>3. /\ Dates(Members(all)) \subseteq Samples(e, month)
          /\ Cardinality(Samples(e, month)) <= MaxSamples => Dates(Members(all)) = Samples(e, month)
        <3>1. Samples(e, month) = SamplesIn(Now.rows, e.ifaces, month)
            BY <1>4, <1>5 DEF Samples
        <3>2. all = db_getdata_range(Now.rows, e.ifaces, "fiveminute", MaxSamples, month, NoDate, Now.today)
            BY <1>6, <2>2
        <3>3. MaxSamples \in Nat
            BY SettingsAssumption
        <3>4. QED
            <4> DEFINE rowsnow == Now.rows
            <4>1. /\ rowsnow \in SUBSET Rows /\ IsFiniteSet(rowsnow)
                  /\ all = db_getdata_range(rowsnow, e.ifaces, "fiveminute", MaxSamples, month, NoDate, Now.today)
                  /\ Samples(e, month) = SamplesIn(rowsnow, e.ifaces, month)
                BY <1>5, <3>1, <3>2
            <4> HIDE DEF rowsnow
            <4>2. /\ Dates(Members(db_getdata_range(rowsnow, e.ifaces, "fiveminute", MaxSamples, month,
                                                    NoDate, Now.today)))
                        \subseteq SamplesIn(rowsnow, e.ifaces, month)
                  /\ Cardinality(SamplesIn(rowsnow, e.ifaces, month)) <= MaxSamples =>
                     Dates(Members(db_getdata_range(rowsnow, e.ifaces, "fiveminute", MaxSamples, month,
                                                    NoDate, Now.today)))
                        = SamplesIn(rowsnow, e.ifaces, month)
                BY <2>1, <3>3, <4>1, MonthIs
            <4>3. QED
                BY <4>1, <4>2
    <2>4. OfMonth(e, month)
        <3>1. Members(rows) \subseteq Members(all)
            BY <1>2, <1>7, BrokenOff
        <3>2. Dates(Members(rows)) \subseteq Samples(e, month)
            BY <2>3, <3>1 DEF Dates
        <3>3. e.whole => rows = all
            BY <1>4
        <3>4. QED
            BY <1>4, <2>3, <3>2, <3>3 DEF OfMonth
    <2>5. out # <<>>
        BY <1>13 DEF RowIsRead
    <2>6. e.percentile # NoPercentile => e.rows # <<>> /\ e.percentile = Percentile(e.rows)
        BY <1>4, <1>13 DEF Ending
    <2>7. PercentilesKnown'
        BY <1>2, <1>3, <2>4, <2>5, <2>6, KnownKept DEF PInv, month, e
    <2>8. pc' # "fetch"
        BY <1>2, <2>2 DEF Goes, Fails, Exits
    <2>9. QED
        BY <2>7, <2>8 DEF PInv
<1>14. QED
    BY <1>1, <1>11, <1>12, <1>13 DEF PInv

LEMMA InitSamples == Init => PInv
BY DEF Init, PInv, PercentilesKnown

(* For samples of any number and size, whatever changes between the two    *)
(* reads: at most 5 % of the samples exceed a 95th percentile that is      *)
(* shown or compared, at least 5 % reach it, and they are the samples the  *)
(* database has from the month on that was read (getpercentiledata).       *)
THEOREM PercentileCorrect == Spec => []PercentileIs95th
<1>1. TInv /\ PInv /\ [Next]_vars => (TInv /\ PInv)'
    BY StepTyped, QuietSamples, InfoSamples, FetchSamples DEF Next
<1>2. QED
    BY <1>1, InitTyped, InitSamples, PercentileFollows, PTL DEF Spec

-----------------------------------------------------------------------------
(***************************************************************************)
(* The range and the limit of a list.                                      *)
(***************************************************************************)
InDates(at, begin, end, today) ==
    /\ begin # NoDate => at >= (IF begin = Today THEN 100 * today ELSE begin)
    /\ end = Today => FALSE
    /\ end \notin {NoDate, Today} =>
           IF IsMoment(end) THEN at <= end ELSE at \div 100 <= end \div 100

Fits(rows, ifaces, table, begin, end, today) ==
    {r \in rows :
        /\ r.table = (IF table = "top" /\ begin # NoDate THEN "day" ELSE table) /\ r.iface \in ifaces
        /\ (table = "top" => begin # NoDate) => InDates(r.at, begin, end, today)}

TrafficOf(fits, date) == SumOf([r \in fits |-> r.rx + r.tx], {r \in fits : r.at = date})

BeforeDate(fits, table, begin, date) ==
    IF table = "top"
    THEN {e \in Dates(fits) : \/ TrafficOf(fits, e) > TrafficOf(fits, date)
                              \/ TrafficOf(fits, e) = TrafficOf(fits, date) /\ e < date}
    ELSE {e \in Dates(fits) : IF begin # NoDate THEN e < date ELSE e > date}

Wanted(fits, table, limit, begin, end) ==
    {e \in Dates(fits) :
        limit # 0 /\ (table = "top" \/ begin = NoDate \/ end = NoDate)
            => Cardinality(BeforeDate(fits, table, begin, e)) < limit}

Day == Nat \cup {NoDate, Today}

LEMMA DatesBounds ==
    ASSUME NEW at \in Nat, NEW begin \in Day, NEW end \in Day, NEW today \in Nat
    PROVE  Since(at, begin, today) /\ Until(at, end) <=> InDates(at, begin, end, today)
<1> DEFINE since == begin # NoDate => at >= (IF begin = Today THEN 100 * today ELSE begin)
           until == /\ end = Today => FALSE
                    /\ end \notin {NoDate, Today} =>
                           IF IsMoment(end) THEN at <= end ELSE at \div 100 <= end \div 100
<1>1. Since(at, begin, today) <=> since
    <2>1. CASE begin = NoDate
        BY <2>1 DEF Since, NoDate, Today
    <2>2. CASE begin = Today
        BY <2>2 DEF Since, NoDate, Today
    <2>3. CASE begin \notin {NoDate, Today}
        BY <2>3 DEF Since
    <2>4. QED
        BY <2>1, <2>2, <2>3
<1>2. Until(at, end) <=> until
    <2>1. CASE end = NoDate
        BY <2>1 DEF Until, NoDate, Today
    <2>2. CASE end = Today
        BY <2>2 DEF Until, NoDate, Today
    <2>3. CASE end \in Nat
        <3>1. end # NoDate /\ end # Today
            BY <2>3 DEF NoDate, Today
        <3>2. CASE IsMoment(end)
            BY <2>3, <3>1, <3>2 DEF Until
        <3>3. CASE ~IsMoment(end)
            <4>1. end % 100 = 0
                BY <3>3 DEF IsMoment
            <4>2. at <= end + 99 <=> at \div 100 <= end \div 100
                BY <2>3, <4>1
            <4>3. Until(at, end) <=> at <= end + 99
                BY <3>1, <3>3 DEF Until
            <4>4. QED
                BY <3>1, <3>3, <4>2, <4>3
        <3>4. QED
            BY <3>2, <3>3
    <2>4. QED
        BY <2>1, <2>2, <2>3 DEF Day
<1>3. InDates(at, begin, end, today) <=> since /\ until
    BY DEF InDates
<1>4. QED
    BY <1>1, <1>2, <1>3

LEMMA FitsFound ==
    ASSUME NEW rows \in SUBSET Rows, NEW ifaces, NEW table, NEW begin \in Day, NEW end \in Day,
           NEW today \in Nat
    PROVE  Found(rows, ifaces, table, begin, end, today) =
           PerDate(Fits(rows, ifaces, table, begin, end, today))
<1> DEFINE source == IF table = "top" /\ begin # NoDate THEN "day" ELSE table
           of == {r \in rows : r.table = source /\ r.iface \in ifaces}
           sel == {r \in of : source = "top" \/ (Since(r.at, begin, today) /\ Until(r.at, end))}
<1>1. source = "top" <=> ~(table = "top" => begin # NoDate)
    OBVIOUS
<1>2. \A r \in rows : Since(r.at, begin, today) /\ Until(r.at, end) <=> InDates(r.at, begin, end, today)
    <2>1. \A r \in rows : r.at \in Nat
        BY DEF Rows
    <2>2. QED
        BY <2>1, DatesBounds
<1> HIDE DEF source
<1>3. sel = {r \in rows : /\ r.table = source /\ r.iface \in ifaces
                          /\ (table = "top" => begin # NoDate) => InDates(r.at, begin, end, today)}
    BY <1>1, <1>2
<1> HIDE DEF sel
<1>4. sel = Fits(rows, ifaces, table, begin, end, today)
    BY <1>3 DEF Fits, source
<1>5. Found(rows, ifaces, table, begin, end, today) = PerDate(sel)
    BY DEF Found, sel, source
<1>6. QED
    BY <1>4, <1>5

LEMMA BeforeCount ==
    ASSUME NEW fits \in SUBSET Rows, IsFiniteSet(fits), NEW table, NEW begin, NEW e \in PerDate(fits)
    PROVE  LET found == PerDate(fits)
           IN  Cardinality(IF table = "top" THEN LargerOnes(found, e)
                           ELSE IF begin # NoDate THEN EarlierOnes(found, e)
                           ELSE LaterOnes(found, e))
               = Cardinality(BeforeDate(fits, table, begin, e.at))
<1> DEFINE found == PerDate(fits)
           ones == IF table = "top" THEN LargerOnes(found, e)
                   ELSE IF begin # NoDate THEN EarlierOnes(found, e)
                   ELSE LaterOnes(found, e)
<1>1. /\ IsFiniteSet(found) /\ found \subseteq Shown /\ OneDate(found) /\ Dates(found) = Dates(fits)
      /\ \A s \in found : s.rx + s.tx = TrafficOf(fits, s.at)
    BY PerDateShown DEF Dates, TrafficOf
<1>2. e \in found
    OBVIOUS
<1> HIDE DEF found
<1>3. ones \subseteq found
    BY DEF LargerOnes, EarlierOnes, LaterOnes
<1>4. Cardinality(Dates(ones)) = Cardinality(ones)
    <2>1. IsFiniteSet(ones) /\ OneDate(ones)
        BY <1>1, <1>3, FS_Subset DEF OneDate
    <2>2. QED
        BY <2>1, DatesCount
<1>5. Dates(ones) = BeforeDate(fits, table, begin, e.at)
    <2>1. CASE table = "top"
        <3>1. ones = {s \in found : \/ TrafficOf(fits, s.at) > TrafficOf(fits, e.at)
                                    \/ TrafficOf(fits, s.at) = TrafficOf(fits, e.at) /\ s.at < e.at}
            BY <1>1, <1>2, <2>1 DEF LargerOnes, Larger, Earlier
        <3> HIDE DEF ones
        <3>2. BeforeDate(fits, table, begin, e.at) =
                 {d \in Dates(found) : \/ TrafficOf(fits, d) > TrafficOf(fits, e.at)
                                       \/ TrafficOf(fits, d) = TrafficOf(fits, e.at) /\ d < e.at}
            BY <1>1, <2>1 DEF BeforeDate
        <3>3. QED
            BY <3>1, <3>2 DEF Dates
    <2>2. CASE table # "top" /\ begin # NoDate
        <3>1. ones = {s \in found : s.at < e.at}
            BY <2>2 DEF EarlierOnes
        <3> HIDE DEF ones
        <3>2. BeforeDate(fits, table, begin, e.at) = {d \in Dates(found) : d < e.at}
            BY <1>1, <2>2 DEF BeforeDate
        <3>3. QED
            BY <3>1, <3>2 DEF Dates
    <2>3. CASE table # "top" /\ begin = NoDate
        <3>1. ones = {s \in found : s.at > e.at}
            BY <2>3 DEF LaterOnes
        <3> HIDE DEF ones
        <3>2. BeforeDate(fits, table, begin, e.at) = {d \in Dates(found) : d > e.at}
            BY <1>1, <2>3 DEF BeforeDate
        <3>3. QED
            BY <3>1, <3>2 DEF Dates
    <2>4. QED
        BY <2>1, <2>2, <2>3
<1>6. QED
    BY <1>4, <1>5 DEF found

(* A statement finds the dates that are wanted, with their traffic. *)
FindsWanted(rows, ifaces, table, limit, begin, end, today) ==
    LET fits == Fits(rows, ifaces, table, begin, end, today)
        members == Members(db_getdata_range(rows, ifaces, table, limit, begin, end, today))
    IN  /\ Dates(members) = Wanted(fits, table, limit, begin, end)
        /\ \A e \in members : e.rx + e.tx = TrafficOf(fits, e.at)

LEMMA ListIs ==
    ASSUME NEW rows \in SUBSET Rows, IsFiniteSet(rows), NEW ifaces, NEW table, NEW limit \in Nat,
           NEW begin \in Day, NEW end \in Day, NEW today \in Nat
    PROVE  FindsWanted(rows, ifaces, table, limit, begin, end, today)
<1> DEFINE fits == Fits(rows, ifaces, table, begin, end, today)
           found == PerDate(fits)
           cut == limit # 0 /\ (table = "top" \/ begin = NoDate \/ end = NoDate)
           members == Members(db_getdata_range(rows, ifaces, table, limit, begin, end, today))
<1>1. fits \in SUBSET Rows /\ IsFiniteSet(fits)
    BY FS_Subset DEF Fits
<1>2. Found(rows, ifaces, table, begin, end, today) = found
    BY FitsFound
<1>3. members =
               {e \in found : cut =>
                   Cardinality(IF table = "top" THEN LargerOnes(found, e)
                               ELSE IF begin # NoDate THEN EarlierOnes(found, e)
                               ELSE LaterOnes(found, e)) < limit}
    BY <1>2, RangeIs
<1> HIDE DEF fits, members
<1>4. members = {e \in found : cut => Cardinality(BeforeDate(fits, table, begin, e.at)) < limit}
    BY <1>1, <1>3, BeforeCount
<1>5. Dates(found) = Dates(fits) /\ \A s \in found : s.rx + s.tx = TrafficOf(fits, s.at)
    BY <1>1, PerDateShown DEF Dates, TrafficOf
<1> HIDE DEF found
<1>6. Wanted(fits, table, limit, begin, end) =
         {d \in Dates(found) : cut => Cardinality(BeforeDate(fits, table, begin, d)) < limit}
    BY <1>5 DEF Wanted
<1> HIDE DEF cut
<1>7. Dates(members) = Wanted(fits, table, limit, begin, end)
    BY <1>4, <1>6 DEF Dates
<1>8. QED
    BY <1>4, <1>5, <1>7 DEF FindsWanted, fits, members

(* Of the arguments in S, those before k have been looked at: x is what    *)
(* the last of them gave, and the default if there was none.               *)
InForce(x, S, k, default, val) ==
    \/ x = default /\ \A m \in S : m >= k
    \/ \E n \in S : n < k /\ x = val[n] /\ \A m \in S : m < k => m <= n

LEMMA InForceStep ==
    ASSUME NEW S \in SUBSET Nat, NEW k \in Nat, NEW x, NEW y, NEW default, NEW val,
           InForce(x, S, k, default, val),
           y = IF k \in S THEN val[k] ELSE x
    PROVE  InForce(y, S, k + 1, default, val)
<1>1. CASE k \in S
    <2>1. k < k + 1 /\ y = val[k] /\ \A m \in S : m < k + 1 => m <= k
        BY <1>1
    <2>2. QED
        BY <1>1, <2>1 DEF InForce
<1>2. CASE k \notin S
    <2>1. y = x /\ \A m \in S : (m >= k <=> m >= k + 1) /\ (m < k <=> m < k + 1)
        BY <1>2
    <2>2. CASE x = default /\ \A m \in S : m >= k
        BY <2>1, <2>2 DEF InForce
    <2>3. ASSUME NEW n \in S, n < k, x = val[n], \A m \in S : m < k => m <= n
          PROVE  InForce(y, S, k + 1, default, val)
        BY <2>1, <2>3 DEF InForce
    <2>4. QED
        BY <2>2, <2>3 DEF InForce
<1>3. QED
    BY <1>1, <1>2

Latest(S, default, val) == IF S = {} THEN default ELSE val[Max(S)]

LEMMA InForceLast ==
    ASSUME NEW k \in Nat, NEW S \in SUBSET (1 .. k), NEW x, NEW default, NEW val,
           InForce(x, S, k + 1, default, val)
    PROVE  x = Latest(S, default, val)
<1>1. \A m \in S : m \in Nat /\ m < k + 1 /\ ~(m >= k + 1)
    OBVIOUS
<1>2. CASE S = {}
    BY <1>2 DEF InForce, Latest
<1>3. CASE S # {}
    <2>1. Max(S) \in S /\ \A m \in S : m <= Max(S)
        BY <1>3, MaxMember
    <2>2. PICK n \in S : x = val[n] /\ \A m \in S : m <= n
        BY <1>1, <1>3 DEF InForce
    <2>3. PICK last \in S : last = Max(S) /\ \A m \in S : m <= last
        BY <2>1
    <2>4. n \in Nat /\ last \in Nat /\ n <= last /\ last <= n
        BY <1>1, <2>2, <2>3
    <2>5. n = last
        BY <2>4
    <2>6. QED
        BY <1>3, <2>2, <2>3, <2>5 DEF Latest
<1>4. QED
    BY <1>2, <1>3

(* The arguments that set the range and the limits, and what they give. *)
Opts(opt) == {n \in DOMAIN argv : argv[n].opt = opt}

ListOpts(t) == {n \in DOMAIN argv : argv[n].opt = "list" /\ argv[n].mode = t /\ argv[n].limit # NoLimit}

DumpOpts == {n \in DOMAIN argv : /\ argv[n].opt \in {"xml", "json"}
                                 /\ argv[n].dump = "s" \/ argv[n].limit # NoLimit}

DatesGiven == [n \in DOMAIN argv |-> argv[n].date]
LimitsGiven == [n \in DOMAIN argv |-> argv[n].limit]
DumpLimits == [n \in DOMAIN argv |-> IF argv[n].limit # NoLimit THEN argv[n].limit ELSE 2]

DateOf(opt) == Latest(Opts(opt), NoDate, DatesGiven)

OwnLimit(t) ==
    IF t = "dump" THEN Latest(DumpOpts, ListLimits["dump"], DumpLimits)
    ELSE Latest(ListOpts(t), ListLimits[t], LimitsGiven)

LimitOf(t) == IF Opts("limit") = {} THEN OwnLimit(t) ELSE LimitsGiven[Max(Opts("limit"))]

IsDump == p.qmode \in {"xml", "json"}

LimitsOf(t) == LimitOf(IF IsDump THEN "dump" ELSE t)

LEMMA OptsMembers ==
    ASSUME argv \in Seq(Arguments)
    PROVE  /\ Len(argv) \in Nat /\ DOMAIN argv = 1 .. Len(argv)
           /\ \A n \in DOMAIN argv : argv[n] \in Arguments
           /\ \A opt : Opts(opt) \in SUBSET (1 .. Len(argv))
           /\ \A t : ListOpts(t) \in SUBSET (1 .. Len(argv))
           /\ DumpOpts \in SUBSET (1 .. Len(argv))
<1>1. Len(argv) \in Nat /\ DOMAIN argv = 1 .. Len(argv) /\ \A n \in DOMAIN argv : argv[n] \in Arguments
    BY LenProperties
<1>2. QED
    BY <1>1 DEF Opts, ListOpts, DumpOpts

LEMMA RangedIs ==
    ASSUME argv \in Seq(Arguments), NEW opt \in {"begin", "end"}
    PROVE  Ranged(opt) = DateOf(opt) /\ DateOf(opt) \in Day
<1> DEFINE found == {n \in DOMAIN argv : argv[n].opt = opt}
           last == LastArg(LAMBDA a : a.opt = opt)
<1>1. found \in SUBSET (1 .. Len(argv)) /\ Len(argv) \in Nat /\ found = Opts(opt)
    BY OptsMembers DEF Opts
<1>2. last = IF found = {} THEN [opt |-> ""] ELSE argv[Max(found)]
    BY DEF LastArg
<1>3. Ranged(opt) = IF last.opt = "" THEN NoDate ELSE last.date
    BY DEF Ranged
<1>4. found # {} => argv[Max(found)].opt = opt /\ Max(found) \in DOMAIN argv
    <2>1. SUFFICES ASSUME found # {} PROVE Max(found) \in found
        OBVIOUS
    <2>2. QED
        BY <1>1, <2>1, MaxMember
<1> HIDE DEF found, last
<1>5. CASE found = {}
    BY <1>1, <1>2, <1>3, <1>5 DEF DateOf, Latest, Day
<1>6. CASE found # {}
    <2>1. argv[Max(found)] \in Arguments /\ argv[Max(found)].opt \in {"begin", "end"}
        BY <1>4, <1>6, OptsMembers
    <2>2. argv[Max(found)].date \in Day
        BY <2>1, ArgumentFields DEF Day
    <2>3. Ranged(opt) = argv[Max(found)].date
        BY <1>2, <1>3, <1>6, <2>1
    <2>4. DateOf(opt) = argv[Max(found)].date
        BY <1>1, <1>4, <1>6 DEF DateOf, Latest, DatesGiven
    <2>5. QED
        BY <2>2, <2>3, <2>4
<1>7. QED
    BY <1>5, <1>6

LEMMA OwnTyped ==
    ASSUME argv \in Seq(Arguments), NEW t \in Lists \cup {"dump"}
    PROVE  OwnLimit(t) \in Nat /\ LimitOf(t) \in Nat
<1>1. /\ Len(argv) \in Nat /\ DOMAIN argv = 1 .. Len(argv) /\ \A n \in DOMAIN argv : argv[n] \in Arguments
      /\ Opts("limit") \in SUBSET (1 .. Len(argv)) /\ ListOpts(t) \in SUBSET (1 .. Len(argv))
      /\ DumpOpts \in SUBSET (1 .. Len(argv))
    BY OptsMembers
<1>2. ListLimits[t] \in Nat /\ ListLimits["dump"] \in Nat
    BY SettingsAssumption
<1>3. ListOpts(t) # {} => LimitsGiven[Max(ListOpts(t))] \in Nat
    <2> SUFFICES ASSUME ListOpts(t) # {} PROVE LimitsGiven[Max(ListOpts(t))] \in Nat
        OBVIOUS
    <2>1. Max(ListOpts(t)) \in ListOpts(t)
        BY <1>1, MaxMember
    <2>2. PICK n \in ListOpts(t) : n = Max(ListOpts(t))
        BY <2>1
    <2>3. n \in DOMAIN argv /\ argv[n].opt = "list" /\ argv[n].limit # NoLimit
        BY DEF ListOpts
    <2>4. argv[n].limit \in Nat
        BY <1>1, <2>3, ArgumentFields
    <2>5. QED
        BY <2>2, <2>3, <2>4 DEF LimitsGiven
<1>4. Opts("limit") # {} => LimitsGiven[Max(Opts("limit"))] \in Nat
    <2> SUFFICES ASSUME Opts("limit") # {} PROVE LimitsGiven[Max(Opts("limit"))] \in Nat
        OBVIOUS
    <2>1. Max(Opts("limit")) \in Opts("limit")
        BY <1>1, MaxMember
    <2>2. PICK n \in Opts("limit") : n = Max(Opts("limit"))
        BY <2>1
    <2>3. n \in DOMAIN argv /\ argv[n].opt = "limit"
        BY DEF Opts
    <2>4. argv[n].limit \in Nat
        BY <1>1, <2>3, ArgumentFields
    <2>5. QED
        BY <2>2, <2>3, <2>4 DEF LimitsGiven
<1>5. DumpOpts # {} => DumpLimits[Max(DumpOpts)] \in Nat
    <2> SUFFICES ASSUME DumpOpts # {} PROVE DumpLimits[Max(DumpOpts)] \in Nat
        OBVIOUS
    <2>1. Max(DumpOpts) \in DumpOpts
        BY <1>1, MaxMember
    <2>2. PICK n \in DumpOpts : n = Max(DumpOpts)
        BY <2>1
    <2>3. n \in DOMAIN argv /\ argv[n].opt \in {"xml", "json"}
        BY DEF DumpOpts
    <2>4. argv[n].limit \in Nat \cup {NoLimit}
        BY <1>1, <2>3, ArgumentFields
    <2>5. QED
        BY <2>2, <2>3, <2>4 DEF DumpLimits
<1>6. OwnLimit(t) \in Nat
    BY <1>2, <1>3, <1>5 DEF OwnLimit, Latest
<1>7. QED
    BY <1>4, <1>6 DEF LimitOf

(* The limit a reader of the arguments expects is that of the option in    *)
(* force.                                                                  *)
LEMMA LimitGivenIs ==
    ASSUME argv \in Seq(Arguments), NEW t \in Lists
    PROVE  LimitGiven(t) = LimitsOf(t)
<1> DEFINE limit == LastArg(LAMBDA a : a.opt = "limit")
           list == LastArg(LAMBDA a : a.opt = "list" /\ a.mode = t /\ a.limit # NoLimit)
           dump == LastArg(LAMBDA a : a.opt \in {"xml", "json"} /\ (a.dump = "s" \/ a.limit # NoLimit))
           none == [opt |-> ""]
           limits == Opts("limit")
           lists == ListOpts(t)
<1>1. /\ Len(argv) \in Nat /\ DOMAIN argv = 1 .. Len(argv)
      /\ limits \in SUBSET (1 .. Len(argv)) /\ lists \in SUBSET (1 .. Len(argv))
      /\ DumpOpts \in SUBSET (1 .. Len(argv))
    BY OptsMembers
<1>2. limit = IF limits = {} THEN none ELSE argv[Max(limits)]
    BY DEF LastArg, Opts
<1>3. list = IF lists = {} THEN none ELSE argv[Max(lists)]
    BY DEF LastArg, ListOpts
<1>4. dump = IF DumpOpts = {} THEN none ELSE argv[Max(DumpOpts)]
    BY DEF LastArg, DumpOpts
<1>5. LimitGiven(t) =
          IF limit.opt # "" THEN limit.limit
          ELSE IF ~IsDump /\ list.opt # "" THEN list.limit
          ELSE IF IsDump /\ dump.opt # "" THEN (IF dump.limit # NoLimit THEN dump.limit ELSE 2)
          ELSE ListLimits[IF IsDump THEN "dump" ELSE t]
    BY DEF LimitGiven, IsDump
<1> HIDE DEF limit, list, dump
<1>6. limits # {} => Max(limits) \in DOMAIN argv /\ argv[Max(limits)].opt = "limit"
    <2>1. limits # {} => Max(limits) \in limits
        BY <1>1, MaxMember
    <2>2. \A n \in limits : n \in DOMAIN argv /\ argv[n].opt = "limit"
        BY DEF Opts
    <2> HIDE DEF limits
    <2>3. QED
        BY <2>1, <2>2
<1>7. lists # {} => Max(lists) \in DOMAIN argv /\ argv[Max(lists)].opt = "list"
    <2>1. lists # {} => Max(lists) \in lists
        BY <1>1, MaxMember
    <2>2. \A n \in lists : n \in DOMAIN argv /\ argv[n].opt = "list"
        BY DEF ListOpts
    <2> HIDE DEF lists
    <2>3. QED
        BY <2>1, <2>2
<1>8. DumpOpts # {} => Max(DumpOpts) \in DOMAIN argv /\ argv[Max(DumpOpts)].opt \in {"xml", "json"}
    <2>1. DumpOpts # {} => Max(DumpOpts) \in DumpOpts
        BY <1>1, MaxMember
    <2>2. \A n \in DumpOpts : n \in DOMAIN argv /\ argv[n].opt \in {"xml", "json"}
        BY DEF DumpOpts
    <2>3. QED
        BY <2>1, <2>2
<1>9. t # "dump"
    BY DEF Lists
<1>10. CASE limits # {}
    <2>1. limit.opt = "limit" /\ limit.limit = LimitsGiven[Max(limits)]
        BY <1>2, <1>6, <1>10 DEF LimitsGiven
    <2>2. LimitsOf(t) = LimitsGiven[Max(limits)]
        BY <1>10 DEF LimitsOf, LimitOf
    <2>3. QED
        BY <1>5, <2>1, <2>2
<1>11. CASE limits = {}
    <2>1. limit.opt = ""
        BY <1>2, <1>11
    <2>2. (IsDump => LimitsOf(t) = OwnLimit("dump")) /\ (~IsDump => LimitsOf(t) = OwnLimit(t))
        BY <1>11 DEF LimitsOf, LimitOf
    <2>3. CASE IsDump
        <3>1. LimitGiven(t) = IF dump.opt # "" THEN (IF dump.limit # NoLimit THEN dump.limit ELSE 2)
                              ELSE ListLimits["dump"]
            BY <1>5, <2>1, <2>3
        <3>2. OwnLimit("dump") = IF DumpOpts = {} THEN ListLimits["dump"] ELSE DumpLimits[Max(DumpOpts)]
            BY DEF OwnLimit, Latest
        <3>3. DumpOpts = {} => dump.opt = ""
            BY <1>4
        <3>4. DumpOpts # {} =>
                  /\ dump.opt # ""
                  /\ DumpLimits[Max(DumpOpts)] = IF dump.limit # NoLimit THEN dump.limit ELSE 2
            BY <1>4, <1>8 DEF DumpLimits
        <3>5. OwnLimit("dump") = LimitGiven(t)
            <4>1. CASE DumpOpts = {}
                BY <3>1, <3>2, <3>3, <4>1
            <4>2. CASE DumpOpts # {}
                <5>1. OwnLimit("dump") = DumpLimits[Max(DumpOpts)]
                    BY <3>2, <4>2
                <5>2. LimitGiven(t) = IF dump.limit # NoLimit THEN dump.limit ELSE 2
                    BY <3>1, <3>4, <4>2
                <5>3. QED
                    BY <3>4, <4>2, <5>1, <5>2
            <4>3. QED
                BY <4>1, <4>2
        <3>6. QED
            BY <2>2, <2>3, <3>5
    <2>4. CASE ~IsDump
        <3>1. LimitGiven(t) = IF list.opt # "" THEN list.limit ELSE ListLimits[t]
            BY <1>5, <2>1, <2>4
        <3>2. OwnLimit(t) = IF lists = {} THEN ListLimits[t] ELSE LimitsGiven[Max(lists)]
            BY <1>9 DEF OwnLimit, Latest
        <3>3. lists = {} => list.opt = ""
            BY <1>3
        <3>4. lists # {} => list.opt # "" /\ LimitsGiven[Max(lists)] = list.limit
            BY <1>3, <1>7 DEF LimitsGiven
        <3>5. QED
            BY <2>2, <2>4, <3>1, <3>2, <3>3, <3>4
    <2>5. QED
        BY <2>3, <2>4
<1>12. QED
    BY <1>10, <1>11

(* What the arguments before k have set. *)
SetBy(params, k) ==
    /\ InForce(params.begin, Opts("begin"), k, NoDate, DatesGiven)
    /\ InForce(params.end, Opts("end"), k, NoDate, DatesGiven)
    /\ InForce(params.limit, Opts("limit"), k, NoLimit, LimitsGiven)
    /\ \A t \in Lists : InForce(params.lists[t], ListOpts(t), k, ListLimits[t], LimitsGiven)
    /\ InForce(params.lists["dump"], DumpOpts, k, ListLimits["dump"], DumpLimits)

(* What all of them have. *)
AllSet ==
    /\ p.begin = DateOf("begin") /\ p.end = DateOf("end")
    /\ \A t \in Lists \cup {"dump"} : p.lists[t] = LimitOf(t)

InTheRange(r) ==
    r.limit = LimitsOf(r.table) /\ r.begin = DateOf("begin") /\ r.end = DateOf("end")

FitsOf(f) ==
    Fits(Databases[f.from].rows, f.ifaces, f.table, DateOf("begin"), DateOf("end"),
         Databases[f.from].today)

WantedOf(f) == Wanted(FitsOf(f), f.table, LimitsOf(f.table), DateOf("begin"), DateOf("end"))

ShowsTheRange(f) ==
    /\ Dates(Members(f.rows)) \subseteq WantedOf(f)
    /\ f.whole => Dates(Members(f.rows)) = WantedOf(f)
    /\ \A e \in Members(f.rows) : e.rx + e.tx = TrafficOf(FitsOf(f), e.at)

(* While the arguments are looked at, the settings are those of the ones   *)
(* before; then they stay, what is still to be read is of their range, and *)
(* what has been read shows it.                                            *)
RInv ==
    /\ pc = "args" => out = <<>> /\ SetBy(p, currentarg)
    /\ pc \notin {"args", "end"} => AllSet
    /\ pc = "fetch" /\ IsList => \A n \in 1 .. Len(todo) : InTheRange(todo[n])
    /\ IsList => \A n \in DOMAIN out : ShowsTheRange(out[n])

LEMMA InitRange == Init => RInv
<1> SUFFICES ASSUME Init PROVE RInv
    OBVIOUS
<1>1. /\ pc = "args" /\ out = <<>> /\ currentarg = 1 /\ p = initparams /\ argv \in Seq(Arguments)
    BY CommandLinesAssumption DEF Init
<1>2. /\ p.begin = NoDate /\ p.end = NoDate /\ p.limit = NoLimit /\ p.lists = ListLimits
    BY <1>1 DEF initparams
<1>3. ASSUME NEW x, NEW val, NEW S \in SUBSET (1 .. Len(argv)) PROVE InForce(x, S, 1, x, val)
    <2>1. \A m \in S : m >= 1
        OBVIOUS
    <2>2. QED
        BY <2>1 DEF InForce
<1>4. SetBy(p, 1)
    <2>1. /\ \A opt : Opts(opt) \in SUBSET (1 .. Len(argv))
          /\ \A t : ListOpts(t) \in SUBSET (1 .. Len(argv))
          /\ DumpOpts \in SUBSET (1 .. Len(argv))
        BY <1>1, OptsMembers
    <2>2. QED
        BY <1>2, <1>3, <2>1 DEF SetBy
<1>5. QED
    BY <1>1, <1>4 DEF RInv

(* One argument sets what it is about and leaves the rest. *)
LEMMA ArgumentSets ==
    ASSUME TInv, RInv, pc = "args", currentarg <= Len(argv), NEW params, Parses(params),
           params.begin = IF argv[currentarg].opt = "begin" THEN argv[currentarg].date ELSE p.begin,
           params.end = IF argv[currentarg].opt = "end" THEN argv[currentarg].date ELSE p.end,
           params.limit = IF argv[currentarg].opt = "limit" THEN argv[currentarg].limit ELSE p.limit,
           \A t \in Lists :
               params.lists[t] = IF currentarg \in ListOpts(t) THEN LimitsGiven[currentarg] ELSE p.lists[t],
           params.lists["dump"] = IF currentarg \in DumpOpts THEN DumpLimits[currentarg] ELSE p.lists["dump"]
    PROVE  RInv'
<1> DEFINE k == currentarg
           arg == argv[k]
<1>1. /\ Len(argv) \in Nat /\ k \in 1 .. Len(argv) + 1 /\ argv \in Seq(Arguments)
      /\ DOMAIN argv = 1 .. Len(argv)
    BY OptsMembers DEF TInv, TypeOK
<1>2. k \in Nat /\ k \in DOMAIN argv /\ out = <<>> /\ SetBy(p, k)
    BY <1>1 DEF RInv
<1>3. /\ UNCHANGED <<argv, pc, out>> /\ currentarg' = k + 1 /\ p' = params
    BY DEF Parses, readvars
<1>4. /\ \A opt : Opts(opt) \in SUBSET Nat /\ (k \in Opts(opt) <=> arg.opt = opt)
      /\ \A t : ListOpts(t) \in SUBSET Nat
      /\ DumpOpts \in SUBSET Nat
    BY <1>1, <1>2, OptsMembers DEF Opts
<1>5. DatesGiven[k] = arg.date /\ LimitsGiven[k] = arg.limit
    BY <1>2 DEF DatesGiven, LimitsGiven
<1> HIDE DEF k, arg
<1>6. InForce(params.begin, Opts("begin"), k + 1, NoDate, DatesGiven)
    <2>1. params.begin = IF k \in Opts("begin") THEN DatesGiven[k] ELSE p.begin
        BY <1>4, <1>5 DEF k, arg
    <2>2. InForce(p.begin, Opts("begin"), k, NoDate, DatesGiven) /\ Opts("begin") \in SUBSET Nat
        BY <1>2, <1>4 DEF SetBy
    <2>3. QED
        BY <1>2, <2>1, <2>2, InForceStep
<1>7. InForce(params.end, Opts("end"), k + 1, NoDate, DatesGiven)
    <2>1. params.end = IF k \in Opts("end") THEN DatesGiven[k] ELSE p.end
        BY <1>4, <1>5 DEF k, arg
    <2>2. InForce(p.end, Opts("end"), k, NoDate, DatesGiven) /\ Opts("end") \in SUBSET Nat
        BY <1>2, <1>4 DEF SetBy
    <2>3. QED
        BY <1>2, <2>1, <2>2, InForceStep
<1>8. InForce(params.limit, Opts("limit"), k + 1, NoLimit, LimitsGiven)
    <2>1. params.limit = IF k \in Opts("limit") THEN LimitsGiven[k] ELSE p.limit
        BY <1>4, <1>5 DEF k, arg
    <2>2. InForce(p.limit, Opts("limit"), k, NoLimit, LimitsGiven) /\ Opts("limit") \in SUBSET Nat
        BY <1>2, <1>4 DEF SetBy
    <2>3. QED
        BY <1>2, <2>1, <2>2, InForceStep
<1>9. ASSUME NEW t \in Lists
      PROVE  InForce(params.lists[t], ListOpts(t), k + 1, ListLimits[t], LimitsGiven)
    <2>1. params.lists[t] = IF k \in ListOpts(t) THEN LimitsGiven[k] ELSE p.lists[t]
        BY DEF k
    <2>2. InForce(p.lists[t], ListOpts(t), k, ListLimits[t], LimitsGiven) /\ ListOpts(t) \in SUBSET Nat
        BY <1>2, <1>4 DEF SetBy
    <2>3. QED
        BY <1>2, <2>1, <2>2, InForceStep
<1>10. InForce(params.lists["dump"], DumpOpts, k + 1, ListLimits["dump"], DumpLimits)
    <2>1. params.lists["dump"] = IF k \in DumpOpts THEN DumpLimits[k] ELSE p.lists["dump"]
        BY DEF k
    <2>2. InForce(p.lists["dump"], DumpOpts, k, ListLimits["dump"], DumpLimits) /\ DumpOpts \in SUBSET Nat
        BY <1>2, <1>4 DEF SetBy
    <2>3. QED
        BY <1>2, <2>1, <2>2, InForceStep
<1>11. SetBy(params, k + 1)
    BY <1>6, <1>7, <1>8, <1>9, <1>10 DEF SetBy
<1>12. SetBy(p, currentarg)'
    <2>1. SetBy(params, k + 1) = SetBy(p, currentarg)'
        BY <1>3 DEF SetBy, Opts, ListOpts, DumpOpts, DatesGiven, LimitsGiven, DumpLimits
    <2>2. QED
        BY <1>11, <2>1
<1>13. pc' = "args" /\ out' = <<>>
    BY <1>2, <1>3
<1>14. QED
    BY <1>12, <1>13 DEF RInv

LEMMA ParsedRange ==
    ASSUME TInv, RInv, pc = "args", currentarg <= Len(argv), NEW arg, arg = argv[currentarg],
           \/ ParsesIface(arg) \/ ParsesQuery(arg) \/ ParsesList(arg)
           \/ ParsesPlain(arg) \/ ParsesDump(arg) \/ ParsesRange(arg)
           \/ ParsesMeter(arg) \/ ParsesChange(arg) \/ ParsesMerge(arg) \/ ParsesConfig(arg)
           \/ parsealertargs(arg)
    PROVE  RInv'
<1> DEFINE k == currentarg
<1>1. /\ k \in DOMAIN argv /\ arg \in Arguments /\ p \in Params
      /\ p.lists \in [Lists \cup {"dump"} -> Nat] /\ p.dump \in [{"xml", "json"} -> Dumps]
    BY OptsMembers DEF TInv, TypeOK, Params
<1>2. /\ \A t : k \in ListOpts(t) <=> arg.opt = "list" /\ arg.mode = t /\ arg.limit # NoLimit
      /\ k \in DumpOpts <=> arg.opt \in {"xml", "json"} /\ (arg.dump = "s" \/ arg.limit # NoLimit)
      /\ LimitsGiven[k] = arg.limit
      /\ DumpLimits[k] = IF arg.limit # NoLimit THEN arg.limit ELSE 2
    BY <1>1 DEF ListOpts, DumpOpts, LimitsGiven, DumpLimits
<1> DEFINE Sets(params) ==
               /\ params.begin = IF arg.opt = "begin" THEN arg.date ELSE p.begin
               /\ params.end = IF arg.opt = "end" THEN arg.date ELSE p.end
               /\ params.limit = IF arg.opt = "limit" THEN arg.limit ELSE p.limit
               /\ \A t \in Lists :
                     params.lists[t] = IF k \in ListOpts(t) THEN LimitsGiven[k] ELSE p.lists[t]
               /\ params.lists["dump"] = IF k \in DumpOpts THEN DumpLimits[k] ELSE p.lists["dump"]
<1>3. ASSUME NEW params, Parses(params), Sets(params) PROVE RInv'
    BY <1>3, ArgumentSets
<1> DEFINE Quiet == arg.opt \notin {"begin", "end", "limit", "list", "xml", "json"}
<1> DEFINE Leaves(params) ==
               /\ params.begin = p.begin /\ params.end = p.end /\ params.limit = p.limit
               /\ params.lists = p.lists
<1>4. ASSUME NEW params, Quiet, Leaves(params) PROVE Sets(params)
    BY <1>2, <1>4
<1>5. /\ Leaves(p)
      /\ Leaves([p EXCEPT !.iface = <<>>, !.definterface = <<>>])
      /\ Leaves([p EXCEPT !.iface = arg.names, !.defaultiface = FALSE])
      /\ Leaves([p EXCEPT !.query = TRUE, !.qmode = IF arg.mode = "" THEN @ ELSE arg.mode])
      /\ Leaves([p EXCEPT !.qmode = arg.mode])
      /\ Leaves([p EXCEPT !.traffic = TRUE, !.query = FALSE])
      /\ Leaves([p EXCEPT !.changes = TRUE, !.query = @ /\ arg.opt = "setalias"])
      /\ Leaves([p EXCEPT !.merge = TRUE])
      /\ Leaves([p EXCEPT !.alert = arg.alert])
    BY <1>1 DEF Params
<1> HIDE DEF k, Quiet, Sets, Leaves
<1>6. ASSUME ParsesIface(arg) \/ ParsesQuery(arg) \/ ParsesPlain(arg)
      PROVE  \E params : Parses(params) /\ Sets(params)
    <2>1. Quiet
        BY <1>6 DEF ParsesIface, ParsesQuery, ParsesPlain, Quiet
    <2>2. \E params : Parses(params) /\ Leaves(params)
        <3>1. CASE ParsesIface(arg)
            <4>1. CASE arg.names = <<>>
                <5>1. Parses([p EXCEPT !.iface = <<>>, !.definterface = <<>>])
                    BY <3>1, <4>1 DEF ParsesIface
                <5>2. QED
                    BY <1>5, <5>1
            <4>2. CASE arg.names # <<>>
                <5>1. Parses([p EXCEPT !.iface = arg.names, !.defaultiface = FALSE])
                    BY <3>1, <4>2 DEF ParsesIface
                <5>2. QED
                    BY <1>5, <5>1
            <4>3. QED
                BY <4>1, <4>2
        <3>2. CASE ParsesQuery(arg)
            BY <1>5, <3>2 DEF ParsesQuery
        <3>3. CASE ParsesPlain(arg)
            BY <1>5, <3>3 DEF ParsesPlain
        <3>4. QED
            BY <1>6, <3>1, <3>2, <3>3
    <2>3. QED
        BY <1>4, <2>1, <2>2
<1>7. ASSUME \/ ParsesMeter(arg) \/ ParsesChange(arg) \/ ParsesMerge(arg)
             \/ ParsesConfig(arg) \/ parsealertargs(arg)
      PROVE  \E params : Parses(params) /\ Sets(params)
    <2>1. Quiet
        BY <1>7 DEF ParsesMeter, ParsesChange, ParsesMerge, ParsesConfig, parsealertargs, Quiet
    <2>2. \E params : Parses(params) /\ Leaves(params)
        <3>1. CASE ParsesMeter(arg)
            BY <1>5, <3>1 DEF ParsesMeter
        <3>2. CASE ParsesChange(arg)
            BY <1>5, <3>2 DEF ParsesChange
        <3>3. CASE ParsesMerge(arg)
            BY <1>5, <3>3 DEF ParsesMerge
        <3>4. CASE ParsesConfig(arg)
            BY <1>5, <3>4 DEF ParsesConfig
        <3>5. CASE parsealertargs(arg)
            BY <1>5, <3>5 DEF parsealertargs
        <3>6. QED
            BY <1>7, <3>1, <3>2, <3>3, <3>4, <3>5
    <2>3. QED
        BY <1>4, <2>1, <2>2
<1>8. ASSUME ParsesList(arg)
      PROVE  \E params : Parses(params) /\ Sets(params)
    <2> DEFINE params == [p EXCEPT !.qmode = arg.mode, !.lists[arg.mode] = WithLimit(@, arg)]
    <2>1. arg.opt = "list" /\ Parses(params)
        BY <1>8 DEF ParsesList
    <2>2. arg.mode \in Lists
        BY <1>1, <2>1, ArgumentFields
    <2>3. arg.mode # "dump"
        BY <2>2 DEF Lists
    <2>4. /\ params.begin = p.begin /\ params.end = p.end /\ params.limit = p.limit
          /\ params.lists = [p.lists EXCEPT ![arg.mode] = WithLimit(p.lists[arg.mode], arg)]
        BY <1>1 DEF Params
    <2> HIDE DEF params
    <2>5. /\ params.lists[arg.mode] = IF arg.limit = NoLimit THEN p.lists[arg.mode] ELSE arg.limit
          /\ \A t \in Lists \cup {"dump"} : t # arg.mode => params.lists[t] = p.lists[t]
        BY <1>1, <2>2, <2>4 DEF WithLimit
    <2>6. \A t \in Lists :
              params.lists[t] = IF k \in ListOpts(t) THEN LimitsGiven[k] ELSE p.lists[t]
        BY <1>2, <2>1, <2>5
    <2>7. params.lists["dump"] = IF k \in DumpOpts THEN DumpLimits[k] ELSE p.lists["dump"]
        BY <1>2, <2>1, <2>3, <2>5
    <2>8. QED
        BY <2>1, <2>4, <2>6, <2>7 DEF Sets
<1>9. ASSUME ParsesDump(arg)
      PROVE  \E params : Parses(params) /\ Sets(params)
    <2> DEFINE params == [p EXCEPT !.qmode = arg.opt,
                                   !.dump[arg.opt] = IF arg.dump = "" THEN @ ELSE arg.dump,
                                   !.lists.dump = WithLimit(IF arg.dump = "s" THEN 2 ELSE @, arg)]
    <2>1. arg.opt \in {"xml", "json"} /\ Parses(params)
        BY <1>9 DEF ParsesDump
    <2>2. "dump" \notin Lists
        BY DEF Lists
    <2>3. /\ params.begin = p.begin /\ params.end = p.end /\ params.limit = p.limit
          /\ params.lists = [p.lists EXCEPT !["dump"] =
                                 WithLimit(IF arg.dump = "s" THEN 2 ELSE p.lists["dump"], arg)]
        BY <1>1 DEF Params
    <2> HIDE DEF params
    <2>4. /\ params.lists["dump"] = IF arg.limit = NoLimit
                                    THEN IF arg.dump = "s" THEN 2 ELSE p.lists["dump"]
                                    ELSE arg.limit
          /\ \A t \in Lists : params.lists[t] = p.lists[t]
        BY <1>1, <2>2, <2>3 DEF WithLimit
    <2>5. params.lists["dump"] = IF k \in DumpOpts THEN DumpLimits[k] ELSE p.lists["dump"]
        BY <1>2, <2>1, <2>4
    <2>6. \A t \in Lists :
              params.lists[t] = IF k \in ListOpts(t) THEN LimitsGiven[k] ELSE p.lists[t]
        BY <1>2, <2>1, <2>4
    <2>7. QED
        BY <2>1, <2>3, <2>5, <2>6 DEF Sets
<1>10. ASSUME ParsesRange(arg)
      PROVE  \E params : Parses(params) /\ Sets(params)
    <2>1. \E params :
             /\ Parses(params) /\ params.lists = p.lists /\ arg.opt \in {"begin", "end", "limit"}
             /\ params.begin = IF arg.opt = "begin" THEN arg.date ELSE p.begin
             /\ params.end = IF arg.opt = "end" THEN arg.date ELSE p.end
             /\ params.limit = IF arg.opt = "limit" THEN arg.limit ELSE p.limit
        BY <1>1, <1>10 DEF ParsesRange, Params
    <2>2. PICK params :
             /\ Parses(params) /\ params.lists = p.lists /\ arg.opt \in {"begin", "end", "limit"}
             /\ params.begin = IF arg.opt = "begin" THEN arg.date ELSE p.begin
             /\ params.end = IF arg.opt = "end" THEN arg.date ELSE p.end
             /\ params.limit = IF arg.opt = "limit" THEN arg.limit ELSE p.limit
        BY <2>1
    <2>3. /\ \A t \in Lists : k \notin ListOpts(t)
          /\ k \notin DumpOpts
        BY <1>2, <2>2
    <2>4. QED
        BY <2>2, <2>3 DEF Sets
<1>11. QED
    BY <1>3, <1>6, <1>7, <1>8, <1>9, <1>10

(* When all have been looked at, --limit overrules the limits of the lists. *)
LEMMA AllParsed ==
    ASSUME TInv, RInv, ParsingEnds
    PROVE  RInv'
<1>1. /\ argv \in Seq(Arguments) /\ p \in Params /\ p.lists \in [Lists \cup {"dump"} -> Nat]
      /\ currentarg = Len(argv) + 1 /\ out = <<>> /\ SetBy(p, currentarg) /\ Len(argv) \in Nat
    BY OptsMembers DEF TInv, TypeOK, ParsingEnds, RInv, Params
<1> DEFINE n == Len(argv)
<1>2. /\ \A opt : Opts(opt) \in SUBSET (1 .. n)
      /\ \A t : ListOpts(t) \in SUBSET (1 .. n)
      /\ DumpOpts \in SUBSET (1 .. n) /\ n \in Nat /\ SetBy(p, n + 1)
    BY <1>1, OptsMembers
<1> HIDE DEF n
<1>3. p.begin = DateOf("begin") /\ p.end = DateOf("end") /\ p.limit = Latest(Opts("limit"), NoLimit, LimitsGiven)
    <2>1. ASSUME NEW x, NEW S \in SUBSET (1 .. n), NEW default, NEW val, InForce(x, S, n + 1, default, val)
          PROVE  x = Latest(S, default, val)
        BY <1>2, <2>1, InForceLast
    <2>2. /\ InForce(p.begin, Opts("begin"), n + 1, NoDate, DatesGiven) /\ Opts("begin") \in SUBSET (1 .. n)
          /\ InForce(p.end, Opts("end"), n + 1, NoDate, DatesGiven) /\ Opts("end") \in SUBSET (1 .. n)
          /\ InForce(p.limit, Opts("limit"), n + 1, NoLimit, LimitsGiven) /\ Opts("limit") \in SUBSET (1 .. n)
        BY <1>2 DEF SetBy
    <2>3. p.begin = DateOf("begin")
        BY <2>1, <2>2 DEF DateOf
    <2>4. p.end = DateOf("end")
        BY <2>1, <2>2 DEF DateOf
    <2>5. p.limit = Latest(Opts("limit"), NoLimit, LimitsGiven)
        BY <2>1, <2>2
    <2>6. QED
        BY <2>3, <2>4, <2>5
<1>4. \A t \in Lists : p.lists[t] = OwnLimit(t)
    <2>1. ASSUME NEW t \in Lists PROVE p.lists[t] = OwnLimit(t)
        <3>1. InForce(p.lists[t], ListOpts(t), n + 1, ListLimits[t], LimitsGiven) /\ ListOpts(t) \in SUBSET (1 .. n)
            BY <1>2 DEF SetBy
        <3>2. p.lists[t] = Latest(ListOpts(t), ListLimits[t], LimitsGiven)
            BY <1>2, <3>1, InForceLast
        <3>3. t # "dump"
            BY DEF Lists
        <3>4. QED
            BY <3>2, <3>3 DEF OwnLimit
    <2>2. QED
        BY <2>1
<1>5. p.lists["dump"] = OwnLimit("dump")
    <2>1. InForce(p.lists["dump"], DumpOpts, n + 1, ListLimits["dump"], DumpLimits) /\ DumpOpts \in SUBSET (1 .. n)
        BY <1>2 DEF SetBy
    <2>2. p.lists["dump"] = Latest(DumpOpts, ListLimits["dump"], DumpLimits)
        BY <1>2, <2>1, InForceLast
    <2>3. QED
        BY <2>2 DEF OwnLimit
<1>6. LimitOf("dump") \in Nat /\ (Opts("limit") # {} => \A t \in Lists \cup {"dump"} : LimitOf(t) = p.limit)
    <2>1. LimitOf("dump") \in Nat
        BY <1>1, OwnTyped
    <2>2. QED
        BY <1>3, <2>1 DEF LimitOf, Latest
<1>7. p.limit = NoLimit <=> Opts("limit") = {}
    <2>1. Opts("limit") # {} => p.limit \in Nat
        BY <1>6
    <2>2. QED
        BY <1>3, <2>1 DEF NoLimit, Latest
<1>8. /\ UNCHANGED <<argv, out>> /\ pc' = "main"
      /\ p' = IF p.limit = NoLimit THEN p ELSE [p EXCEPT !.lists = [l \in DOMAIN @ |-> p.limit]]
    BY DEF ParsingEnds, Goes, readvars
<1>9. p'.begin = p.begin /\ p'.end = p.end
    BY <1>1, <1>8 DEF Params
<1>10. \A t \in Lists \cup {"dump"} : p'.lists[t] = LimitOf(t)
    <2>1. CASE p.limit = NoLimit
        <3>1. Opts("limit") = {} /\ p' = p
            BY <1>7, <1>8, <2>1
        <3>2. QED
            BY <1>4, <1>5, <3>1 DEF LimitOf
    <2>2. CASE p.limit # NoLimit
        <3>1. p'.lists = [l \in Lists \cup {"dump"} |-> p.limit]
            BY <1>1, <1>8, <2>2 DEF Params
        <3>2. QED
            BY <1>6, <1>7, <2>2, <3>1
    <2>3. QED
        BY <2>1, <2>2
<1>11. AllSet'
    <2>1. /\ DateOf("begin")' = DateOf("begin") /\ DateOf("end")' = DateOf("end")
          /\ \A t : LimitOf(t)' = LimitOf(t)
        BY <1>8 DEF DateOf, Opts, DatesGiven, LimitOf, OwnLimit, ListOpts, DumpOpts, LimitsGiven, DumpLimits
    <2>2. QED
        BY <1>3, <1>9, <1>10, <2>1 DEF AllSet
<1>12. QED
    BY <1>1, <1>8, <1>11 DEF RInv

LEMMA ParseRange == TInv /\ RInv /\ parseargs => RInv'
<1> SUFFICES ASSUME TInv, RInv, parseargs PROVE RInv'
    OBVIOUS
<1>1. CASE ParsingEnds
    BY <1>1, AllParsed
<1>2. CASE ~ParsingEnds
    <2>1. PICK arg \in {argv[currentarg]} :
             /\ pc = "args" /\ currentarg <= Len(argv)
             /\ \/ ParsesIface(arg) \/ ParsesQuery(arg) \/ ParsesList(arg)
                \/ ParsesPlain(arg) \/ ParsesDump(arg) \/ ParsesRange(arg)
                \/ ParsesMeter(arg) \/ ParsesChange(arg) \/ ParsesMerge(arg) \/ ParsesConfig(arg)
                \/ parsealertargs(arg) \/ ParsingExits(arg)
        BY <1>2 DEF parseargs
    <2>2. CASE ParsingExits(arg)
        <3>1. out' = <<>> /\ pc' = "end"
            BY <2>1, <2>2 DEF ParsingExits, readvars, RInv
        <3>2. QED
            BY <3>1 DEF RInv
    <2>3. CASE ~ParsingExits(arg)
        BY <2>1, <2>3, ParsedRange
    <2>4. QED
        BY <2>2, <2>3
<1>3. QED
    BY <1>1, <1>2

(* After the arguments nothing changes what is shown of which range. *)
SameQuery ==
    /\ argv' = argv
    /\ p'.begin = p.begin /\ p'.end = p.end /\ p'.lists = p.lists
    /\ p'.qmode = p.qmode /\ p'.dump = p.dump /\ p'.alert = p.alert

LEMMA SameRange ==
    ASSUME SameQuery
    PROVE  /\ IsList' = IsList /\ AllSet' = AllSet /\ Is95th' = Is95th /\ ShowsAlert' = ShowsAlert
           /\ DateOf("begin")' = DateOf("begin") /\ DateOf("end")' = DateOf("end")
           /\ \A t : LimitsOf(t)' = LimitsOf(t)
           /\ \A r : InTheRange(r)' = InTheRange(r)
           /\ \A f : FitsOf(f)' = FitsOf(f) /\ WantedOf(f)' = WantedOf(f)
           /\ \A f : ShowsTheRange(f)' = ShowsTheRange(f)
<1>1. argv' = argv
    BY DEF SameQuery
<1>2. /\ DateOf("begin")' = DateOf("begin") /\ DateOf("end")' = DateOf("end")
      /\ \A t : LimitOf(t)' = LimitOf(t)
    BY <1>1 DEF DateOf, Opts, DatesGiven, LimitOf, OwnLimit, ListOpts, DumpOpts, LimitsGiven, DumpLimits
<1>3. IsList' = IsList /\ ShowsAlert' = ShowsAlert /\ IsDump' = IsDump /\ Is95th' = Is95th
    BY DEF SameQuery, IsList, ShowsAlert, IsDump, Is95th
<1>4. \A t : LimitsOf(t)' = LimitsOf(t)
    BY <1>2, <1>3 DEF LimitsOf
<1>5. AllSet' = AllSet
    BY <1>2 DEF AllSet, SameQuery
<1>6. \A r : InTheRange(r)' = InTheRange(r)
    BY <1>2, <1>4 DEF InTheRange
<1>7. \A f : FitsOf(f)' = FitsOf(f) /\ WantedOf(f)' = WantedOf(f)
    BY <1>2, <1>4 DEF FitsOf, WantedOf
<1>8. \A f : ShowsTheRange(f)' = ShowsTheRange(f)
    BY <1>7 DEF ShowsTheRange
<1>9. QED
    BY <1>2, <1>3, <1>4, <1>5, <1>6, <1>7, <1>8

(* A step that reads nothing. *)
LEMMA NothingRead ==
    ASSUME RInv, SameQuery, out' = out, pc \notin {"args", "end"}, pc' # "args",
           pc' # "fetch" \/ UNCHANGED <<pc, todo>>
    PROVE  RInv'
<1>1. (pc' \notin {"args", "end"} => AllSet') /\ IsList' = IsList
    BY SameRange DEF RInv
<1>2. ASSUME pc' = "fetch", IsList', NEW n \in 1 .. Len(todo') PROVE InTheRange(todo[n])'
    <2>1. InTheRange(todo[n]) /\ todo' = todo
        BY <1>1, <1>2 DEF RInv
    <2>2. DateOf("begin")' = DateOf("begin") /\ DateOf("end")' = DateOf("end") /\ \A t : LimitsOf(t)' = LimitsOf(t)
        BY SameRange
    <2>3. QED
        BY <2>1, <2>2 DEF InTheRange
<1>3. ASSUME IsList', NEW n \in DOMAIN out' PROVE ShowsTheRange(out[n])'
    <2> DEFINE f == out[n]
    <2>1. ShowsTheRange(f) /\ out'[n] = f
        BY <1>1, <1>3 DEF RInv
    <2>2. \A g : FitsOf(g)' = FitsOf(g) /\ WantedOf(g)' = WantedOf(g)
        BY SameRange
    <2>3. FitsOf(f)' = FitsOf(f) /\ WantedOf(f)' = WantedOf(f)
        BY <2>1, <2>2 DEF FitsOf, WantedOf
    <2>4. QED
        BY <2>1, <2>3 DEF ShowsTheRange
<1>4. QED
    BY <1>1, <1>2, <1>3 DEF RInv

LEMMA QuietRange ==
    /\ TInv /\ RInv
    /\ \/ handlemerge \/ SkipsDatabase \/ db_open_ro \/ db_getinterfacecount \/ handleifselection
       \/ handleshowalert \/ HandlesChanges \/ handleshowdata \/ ShowsNothing \/ validateinterface
       \/ TakesNext \/ EndsQuery \/ FetchFails \/ showalert \/ handletrafficmeters \/ ChangedByOthers
    => RInv'
<1> SUFFICES ASSUME TInv, RInv,
                    \/ handlemerge \/ SkipsDatabase \/ db_open_ro \/ db_getinterfacecount \/ handleifselection
                    \/ handleshowalert \/ HandlesChanges \/ handleshowdata \/ ShowsNothing \/ validateinterface
                    \/ TakesNext \/ EndsQuery \/ FetchFails \/ showalert \/ handletrafficmeters \/ ChangedByOthers
             PROVE  RInv'
    OBVIOUS
<1> DEFINE Quiet == /\ SameQuery /\ out' = out /\ pc \notin {"args", "end"} /\ pc' # "args"
                    /\ pc' # "fetch" \/ UNCHANGED <<pc, todo>>
<1>1. p \in Params
    BY DEF TInv, TypeOK
<1>2. CASE handlemerge \/ SkipsDatabase \/ db_open_ro \/ db_getinterfacecount
    <2>1. Quiet
        BY <1>1, <1>2 DEF handlemerge, SkipsDatabase, db_open_ro, db_getinterfacecount, Goes, Exits,
                          readvars, Params, SameQuery
    <2>2. QED
        BY <2>1, NothingRead
<1>3. CASE handleifselection
    <2>1. (\E names : Selects(names)) \/ (pc' = "end" /\ UNCHANGED <<argv, currentarg, p, readvars>>)
        BY <1>3 DEF handleifselection, Exits
    <2>2. ASSUME NEW names, Selects(names)
          PROVE  SameQuery /\ out' = out /\ pc' = "handle"
        BY <1>1, <2>2 DEF Selects, Goes, readvars, Params, SameQuery
    <2>3. Quiet
        BY <1>3, <2>1, <2>2 DEF handleifselection, readvars, SameQuery
    <2>4. QED
        BY <2>3, NothingRead
<1>4. CASE handleshowalert \/ HandlesChanges \/ handleshowdata \/ ShowsNothing
    <2>1. Quiet
        BY <1>1, <1>4 DEF handleshowalert, HandlesChanges, handleshowdata, ShowsNothing, Goes, Exits,
                          readvars, Params, SameQuery
    <2>2. QED
        BY <2>1, NothingRead
<1>5. CASE validateinterface
    <2>1. \/ p' = p /\ pc' = "end"
          \/ pc' = "info" /\ \E found : p' = [p EXCEPT !.iface = found]
        BY <1>5 DEF validateinterface, Goes, Exits
    <2>2. UNCHANGED <<argv, currentarg, out>> /\ pc = "validate"
        BY <1>5 DEF validateinterface, Goes, Exits, readvars
    <2>3. Quiet
        BY <1>1, <2>1, <2>2 DEF Params, SameQuery
    <2>4. QED
        BY <2>3, NothingRead
<1>6. CASE TakesNext \/ EndsQuery \/ handletrafficmeters
    <2>1. Quiet
        BY <1>1, <1>6 DEF TakesNext, EndsQuery, handletrafficmeters, Goes, Exits, readvars, Params, SameQuery
    <2>2. QED
        BY <2>1, NothingRead
<1>7. CASE FetchFails \/ showalert
    <2>1. Quiet
        BY <1>7 DEF FetchFails, showalert, Fails, Exits, readvars, SameQuery
    <2>2. QED
        BY <2>1, NothingRead
<1>8. CASE ChangedByOthers
    <2>1. Quiet
        BY <1>8 DEF ChangedByOthers, readvars, SameQuery
    <2>2. QED
        BY <2>1, NothingRead
<1>9. QED
    BY <1>2, <1>3, <1>4, <1>5, <1>6, <1>7, <1>8

LEMMA StuttersRange == RInv /\ UNCHANGED vars => RInv'
<1> SUFFICES ASSUME RInv, UNCHANGED vars PROVE RInv'
    OBVIOUS
<1>1. UNCHANGED <<argv, currentarg, p, pc, todo, out>>
    BY DEF vars
<1>2. CASE pc \notin {"args", "end"}
    BY <1>1, <1>2, NothingRead DEF SameQuery
<1>3. CASE pc = "args"
    <2>1. SetBy(p, currentarg)' = SetBy(p, currentarg)
        BY <1>1 DEF SetBy, Opts, ListOpts, DumpOpts, DatesGiven, LimitsGiven, DumpLimits
    <2>2. QED
        BY <1>1, <1>3, <2>1 DEF RInv
<1>4. CASE pc = "end"
    <2>1. IsList' = IsList
        BY <1>1 DEF IsList, ShowsAlert
    <2>2. ASSUME NEW n \in DOMAIN out PROVE ShowsTheRange(out[n])' = ShowsTheRange(out[n])
        BY <1>1 DEF ShowsTheRange, FitsOf, WantedOf, LimitsOf, IsDump, DateOf, Opts, DatesGiven, LimitOf,
                    OwnLimit, ListOpts, DumpOpts, LimitsGiven, DumpLimits
    <2>3. QED
        BY <1>1, <1>4, <2>1, <2>2 DEF RInv
<1>5. QED
    BY <1>2, <1>3, <1>4

(* A list reads nothing but the range. *)
LEMMA ReadsRange ==
    ASSUME p \in Params, AllSet, IsList
    PROVE  ~Is95th /\ \A n \in 1 .. Len(Reads) : InTheRange(Reads[n])
<1>1. p.qmode \in Modes /\ p.dump \in [{"xml", "json"} -> Dumps]
    BY DEF Params
<1>2. ~ShowsAlert /\ ~Is95th
    BY <1>1 DEF IsList, Is95th, Lists
<1>3. ASSUME NEW t \in Lists
      PROVE  InTheRange(InRange(t, p.lists[IF IsDump THEN "dump" ELSE t]))
    <2>1. p.lists[IF IsDump THEN "dump" ELSE t] = LimitsOf(t)
        <3>1. CASE IsDump
            BY <3>1 DEF AllSet, LimitsOf
        <3>2. CASE ~IsDump
            BY <3>2 DEF AllSet, LimitsOf
        <3>3. QED
            BY <3>1, <3>2
    <2>2. p.begin = DateOf("begin") /\ p.end = DateOf("end")
        BY DEF AllSet
    <2>3. QED
        BY <2>1, <2>2 DEF InTheRange, InRange
<1>4. CASE p.qmode \in Lists
    <2>1. p.qmode \notin {"xml", "json"}
        BY <1>4 DEF Lists
    <2>2. Reads = <<InRange(p.qmode, p.lists[p.qmode])>>
        BY <1>2, <1>4, <2>1 DEF Reads, ListReads, Lists
    <2>3. InTheRange(InRange(p.qmode, p.lists[p.qmode]))
        BY <1>3, <1>4, <2>1 DEF IsDump
    <2>4. QED
        BY <1>2, <2>2, <2>3
<1>5. CASE p.qmode \in {"xml", "json"} /\ p.dump[p.qmode] \notin {"p", "s"}
    <2> DEFINE dump == p.dump[p.qmode]
    <2>1. Reads = DumpReads(dump) /\ dump \in Lists \cup {"a"}
        BY <1>1, <1>2, <1>5 DEF Reads, Dumps
    <2>2. \A t \in Lists : InTheRange(InRange(t, p.lists.dump))
        BY <1>3, <1>5 DEF IsDump
    <2>3. dump \notin {"p", "s"}
        BY <1>5
    <2> HIDE DEF dump
    <2>4. CASE dump = "a"
        <3> DEFINE tables == <<"fiveminute", "hour", "day", "month", "year", "top">>
                   reads == [n \in 1 .. 6 |-> InRange(tables[n], p.lists.dump)]
        <3>1. DOMAIN tables = 1 .. 6 /\ \A n \in 1 .. 6 : tables[n] \in Lists
            BY DEF Lists
        <3>2. DumpReads(dump) = reads
            BY <2>4, <3>1 DEF DumpReads, Each
        <3> HIDE DEF tables
        <3>3. \A n \in 1 .. 6 : InTheRange(reads[n])
            BY <2>2, <3>1
        <3> DEFINE Ranges == {InRange(t, p.lists.dump) : t \in Lists}
        <3>4. reads \in [1 .. 6 -> Ranges]
            BY <3>1
        <3> HIDE DEF reads, Ranges
        <3>5. Len(reads) = 6
            BY <3>4, FunctionIsSeq
        <3>6. QED
            BY <1>2, <2>1, <3>2, <3>3, <3>5
    <2>5. CASE dump # "a"
        <3>1. DumpReads(dump) = <<InRange(dump, p.lists.dump)>> /\ dump \in Lists
            BY <2>1, <2>3, <2>5 DEF DumpReads
        <3>2. QED
            BY <1>2, <2>1, <2>2, <3>1
    <2>6. QED
        BY <2>4, <2>5
<1>6. QED
    BY <1>4, <1>5 DEF IsList

LEMMA InfoRange == TInv /\ RInv /\ (ReadsInfo \/ InfoIsUnset) => RInv'
<1> SUFFICES ASSUME TInv, RInv, ReadsInfo \/ InfoIsUnset PROVE RInv'
    OBVIOUS
<1>1. p \in Params /\ pc = "info" /\ AllSet
    BY DEF TInv, TypeOK, ReadsInfo, InfoIsUnset, RInv
<1>2. /\ UNCHANGED <<argv, out>> /\ pc' \in {"end", "next", "fetch"}
      /\ pc' = "fetch" => todo' = Reads
    BY DEF ReadsInfo, InfoIsUnset, Exits, Goes, Fails
<1>3. SameQuery
    <2>1. p' = p \/ \E i \in Databases[db'].ifaces : p' = [p EXCEPT !.iface = <<i>>]
        BY DEF ReadsInfo, InfoIsUnset
    <2>2. QED
        BY <1>1, <1>2, <2>1 DEF Params, SameQuery
<1>4. CASE pc' # "fetch"
    BY <1>1, <1>2, <1>3, <1>4, NothingRead
<1>5. CASE pc' = "fetch"
    <2>1. AllSet' /\ IsList' = IsList
        BY <1>1, <1>3, SameRange
    <2>2. ASSUME IsList, NEW n \in 1 .. Len(todo') PROVE InTheRange(todo[n])'
        <3>1. InTheRange(Reads[n]) /\ todo' = Reads
            BY <1>1, <1>2, <1>5, <2>2, ReadsRange
        <3>2. DateOf("begin")' = DateOf("begin") /\ DateOf("end")' = DateOf("end") /\ \A t : LimitsOf(t)' = LimitsOf(t)
            BY <1>3, SameRange
        <3>3. QED
            BY <3>1, <3>2 DEF InTheRange
    <2>3. ASSUME IsList, NEW n \in DOMAIN out PROVE ShowsTheRange(out[n])'
        <3> DEFINE f == out[n]
        <3>1. ShowsTheRange(f) /\ out'[n] = f
            BY <1>2, <2>3 DEF RInv
        <3>2. \A g : FitsOf(g)' = FitsOf(g) /\ WantedOf(g)' = WantedOf(g)
            BY <1>3, SameRange
        <3>3. FitsOf(f)' = FitsOf(f) /\ WantedOf(f)' = WantedOf(f)
            BY <3>1, <3>2 DEF FitsOf, WantedOf
        <3>4. QED
            BY <3>1, <3>3 DEF ShowsTheRange
    <2>4. QED
        BY <1>2, <1>5, <2>1, <2>2, <2>3 DEF RInv
<1>6. QED
    BY <1>4, <1>5

(* What a read of the range has found shows it, broken off or not. *)
LEMMA FetchedRange ==
    ASSUME argv \in Seq(Arguments), db \in DOMAIN Databases, NEW r \in Reading, InTheRange(r),
           NEW rows \in BreakOff(ReadNow(r)), NEW ends, NEW last
    PROVE  ShowsTheRange(Fetched(r, rows, ends, last))
<1> DEFINE e == Fetched(r, rows, ends, last)
           now == Now.rows
           today == Now.today
           all == ReadNow(r)
           begin == DateOf("begin")
           end == DateOf("end")
<1>1. /\ e.rows = rows /\ (e.whole <=> rows = all) /\ e.from = db /\ e.table = r.table
      /\ e.ifaces = db_getinterfaceidin(p.iface)
    BY DEF Fetched
<1>2. r.limit = LimitsOf(r.table) /\ r.begin = begin /\ r.end = end /\ r.limit \in Nat
    BY DEF InTheRange, Reading
<1>3. begin \in Day /\ end \in Day
    BY RangedIs
<1>4. now \in SUBSET Rows /\ IsFiniteSet(now) /\ today \in Nat
    BY DatabasesAssumption, DatabaseTyped DEF Now
<1>5. all = db_getdata_range(now, e.ifaces, e.table, r.limit, begin, end, today)
    BY <1>1, <1>2 DEF ReadNow
<1>6. FitsOf(e) = Fits(now, e.ifaces, e.table, begin, end, today)
    BY <1>1 DEF FitsOf, Now
<1>7. WantedOf(e) = Wanted(FitsOf(e), e.table, r.limit, begin, end)
    BY <1>1, <1>2 DEF WantedOf
<1> HIDE DEF e, now, today, all, begin, end
<1>8. /\ Dates(Members(all)) = WantedOf(e)
      /\ \A s \in Members(all) : s.rx + s.tx = TrafficOf(FitsOf(e), s.at)
    <2> DEFINE fits == Fits(now, e.ifaces, e.table, begin, end, today)
               members == Members(db_getdata_range(now, e.ifaces, e.table, r.limit, begin, end, today))
    <2>1. /\ Dates(members) = Wanted(fits, e.table, r.limit, begin, end)
          /\ \A s \in members : s.rx + s.tx = TrafficOf(fits, s.at)
        <3>1. FindsWanted(now, e.ifaces, e.table, r.limit, begin, end, today)
            BY <1>2, <1>3, <1>4, ListIs
        <3>2. QED
            BY <3>1 DEF FindsWanted
    <2>2. members = Members(all) /\ fits = FitsOf(e)
        BY <1>5, <1>6
    <2> HIDE DEF fits, members
    <2>3. QED
        BY <1>7, <2>1, <2>2
<1>9. all \in Seq(Shown)
    BY <1>2, <1>4, <1>5, RangeTyped
<1>10. Members(rows) \subseteq Members(all)
    BY <1>9, BrokenOff DEF all
<1>11. Dates(Members(rows)) \subseteq WantedOf(e)
    BY <1>8, <1>10 DEF Dates
<1>12. e.whole => Dates(Members(e.rows)) = WantedOf(e)
    BY <1>1, <1>8
<1>13. QED
    BY <1>1, <1>8, <1>10, <1>11, <1>12 DEF ShowsTheRange, e

LEMMA FetchRange == TInv /\ RInv /\ Fetches => RInv'
<1> SUFFICES ASSUME TInv, RInv, Fetches PROVE RInv'
    OBVIOUS
<1>1. /\ Head(todo) \in Reading /\ Tail(todo) \in Seq(Reading) /\ db \in DOMAIN Databases
      /\ pc = "fetch" /\ UNCHANGED <<argv, currentarg, p, db, queue, info, verdict>>
    BY FetchIs
<1> DEFINE r == Head(todo)
           lasts == Tail(todo) = <<>>
<1>2. PICK rows \in Seq(Shown) :
        /\ rows \in BreakOff(ReadNow(r))
        /\ out' = Append(out, Fetched(r, rows, Ending(rows), lasts))
        /\ todo' = IF Ending(rows) THEN <<>> ELSE Begins(Tail(todo), rows)
        /\ \/ Ending(rows) /\ Fails
           \/ ~Ending(rows) /\ Tail(todo) # <<>> /\ Goes("fetch")
           \/ ~Ending(rows) /\ Tail(todo) = <<>> /\ Goes(IF ShowsAlert THEN "alert" ELSE "next")
    BY FetchIs
<1>3. SameQuery /\ AllSet /\ p \in Params /\ argv \in Seq(Arguments)
    BY <1>1 DEF SameQuery, RInv, TInv, TypeOK
<1>4. AllSet' /\ IsList' = IsList
    BY <1>3, SameRange
<1>5. pc' # "args" /\ (pc' = "fetch" => ~Ending(rows))
    BY <1>2 DEF Fails, Exits, Goes
<1> DEFINE e == Fetched(r, rows, Ending(rows), lasts)
<1>6. e \in ReadOut /\ out \in Seq(ReadOut)
    BY <1>1, FetchedTyped DEF TInv
<1>7. CASE ~IsList
    BY <1>4, <1>5, <1>7 DEF RInv
<1>8. CASE IsList
    <2>1. ~Is95th
        BY <1>3, <1>8, ReadsRange
    <2>2. todo # <<>> /\ todo \in Seq(Reading)
        BY <1>1 DEF TInv, Fetches
    <2>3. /\ r = todo[1] /\ Len(todo) \in Nat /\ Len(todo) > 0
          /\ Len(Tail(todo)) = Len(todo) - 1
          /\ \A n \in 1 .. Len(Tail(todo)) : Tail(todo)[n] = todo[n + 1]
        BY <2>2, HeadTailProperties, LenProperties, EmptySeq
    <2>4. \A n \in 1 .. Len(todo) : InTheRange(todo[n])
        BY <1>1, <1>8 DEF RInv
    <2>5. InTheRange(r)
        BY <2>3, <2>4
    <2>6. ShowsTheRange(e)
        BY <1>1, <1>2, <1>3, <2>5, FetchedRange
    <2>7. /\ DOMAIN out' = 1 .. Len(out) + 1 /\ DOMAIN out = 1 .. Len(out) /\ Len(out) \in Nat
          /\ \A n \in 1 .. Len(out) : out'[n] = out[n]
          /\ out'[Len(out) + 1] = e
        BY <1>2, <1>6, AppendedEntry
    <2> HIDE DEF e, r
    <2>8. ASSUME NEW n \in DOMAIN out' PROVE ShowsTheRange(out[n])'
        <3>1. PICK f : out'[n] = f /\ ShowsTheRange(f)
            <4>1. CASE n = Len(out) + 1
                BY <2>6, <2>7, <4>1
            <4>2. CASE n # Len(out) + 1
                <5>1. n \in DOMAIN out /\ out'[n] = out[n]
                    BY <2>7, <4>2
                <5>2. ShowsTheRange(out[n])
                    BY <1>8, <5>1 DEF RInv
                <5>3. QED
                    BY <5>1, <5>2
            <4>3. QED
                BY <4>1, <4>2
        <3>2. \A g : FitsOf(g)' = FitsOf(g) /\ WantedOf(g)' = WantedOf(g)
            BY <1>3, SameRange
        <3>3. FitsOf(f)' = FitsOf(f) /\ WantedOf(f)' = WantedOf(f)
            BY <3>2 DEF FitsOf, WantedOf
        <3>4. QED
            BY <3>1, <3>3 DEF ShowsTheRange
    <2>9. ASSUME pc' = "fetch", NEW n \in 1 .. Len(todo') PROVE InTheRange(todo[n])'
        <3>1. todo' = Tail(todo)
            BY <1>2, <1>5, <2>1, <2>9 DEF Begins
        <3>2. todo'[n] = todo[n + 1] /\ n + 1 \in 1 .. Len(todo)
            BY <2>3, <2>9, <3>1
        <3>3. InTheRange(todo[n + 1])
            BY <2>4, <3>2
        <3>4. DateOf("begin")' = DateOf("begin") /\ DateOf("end")' = DateOf("end") /\ \A t : LimitsOf(t)' = LimitsOf(t)
            BY <1>3, SameRange
        <3>5. QED
            BY <3>2, <3>3, <3>4 DEF InTheRange
    <2>10. QED
        BY <1>4, <1>5, <2>8, <2>9 DEF RInv
<1>9. QED
    BY <1>7, <1>8

LEMMA RangeFollows == TInv /\ RInv => RangeShown
<1> SUFFICES ASSUME TInv, RInv, IsList PROVE RangeShown
    BY DEF RangeShown
<1>1. argv \in Seq(Arguments) /\ out \in Seq(ReadOut)
    BY DEF TInv
<1>2. Ranged("begin") = DateOf("begin") /\ Ranged("end") = DateOf("end")
    BY <1>1, RangedIs
<1>3. \A date, today : Within(date, today) <=> InDates(date, DateOf("begin"), DateOf("end"), today)
    BY <1>2 DEF Within, InDates
<1>4. ASSUME NEW n \in DOMAIN out
      PROVE  LET f == out[n]
                 d == Databases[f.from]
                 ranged == f.table = "top" => Ranged("begin") # NoDate
                 source == IF f.table = "top" /\ Ranged("begin") # NoDate THEN "day" ELSE f.table
                 fits == {r \in d.rows : /\ r.table = source /\ r.iface \in f.ifaces
                                         /\ ranged => Within(r.at, d.today)}
                 traffic == [r \in fits |-> r.rx + r.tx]
                 Traffic(date) == SumOf(traffic, {r \in fits : r.at = date})
                 dates == {r.at : r \in fits}
                 Before(date) ==
                     IF f.table = "top"
                     THEN {e \in dates : Traffic(e) > Traffic(date) \/ (Traffic(e) = Traffic(date) /\ e < date)}
                     ELSE {e \in dates : IF Ranged("begin") # NoDate THEN e < date ELSE e > date}
                 limit == LimitGiven(f.table)
                 cut == limit # 0 /\ (f.table = "top" \/ Ranged("begin") = NoDate \/ Ranged("end") = NoDate)
                 wanted == {e \in dates : cut => Cardinality(Before(e)) < limit}
                 shown == {f.rows[m].at : m \in DOMAIN f.rows}
             IN  /\ shown \subseteq wanted
                 /\ f.whole => shown = wanted
                 /\ \A m \in DOMAIN f.rows : f.rows[m].rx + f.rows[m].tx = Traffic(f.rows[m].at)
    <2> DEFINE f == out[n]
               d == Databases[f.from]
               begin == Ranged("begin")
               end == Ranged("end")
               ranged == f.table = "top" => begin # NoDate
               source == IF f.table = "top" /\ begin # NoDate THEN "day" ELSE f.table
               fits == {r \in d.rows : /\ r.table = source /\ r.iface \in f.ifaces
                                       /\ ranged => Within(r.at, d.today)}
               Traffic(date) == SumOf([r \in fits |-> r.rx + r.tx], {r \in fits : r.at = date})
               dates == {r.at : r \in fits}
               Before(date) ==
                   IF f.table = "top"
                   THEN {e \in dates : Traffic(e) > Traffic(date) \/ (Traffic(e) = Traffic(date) /\ e < date)}
                   ELSE {e \in dates : IF begin # NoDate THEN e < date ELSE e > date}
               limit == LimitGiven(f.table)
               cut == limit # 0 /\ (f.table = "top" \/ begin = NoDate \/ end = NoDate)
               wanted == {e \in dates : cut => Cardinality(Before(e)) < limit}
               shown == {f.rows[m].at : m \in DOMAIN f.rows}
    <2>1. f \in ReadOut /\ f.table \in Lists
        <3>1. f \in ReadOut
            BY <1>1, <1>4, LenProperties
        <3> HIDE DEF f
        <3>2. QED
            BY <3>1 DEF ReadOut
    <2>2. DOMAIN f.rows = 1 .. Len(f.rows)
        BY <2>1, LenProperties DEF ReadOut
    <2>3. limit = LimitsOf(f.table)
        BY <1>1, <2>1, LimitGivenIs
    <2>4. ShowsTheRange(f)
        BY <1>4 DEF RInv
    <2>5. fits = FitsOf(f)
        BY <1>2, <1>3 DEF FitsOf, Fits
    <2>6. \A date : Traffic(date) = TrafficOf(FitsOf(f), date)
        BY <2>5 DEF TrafficOf
    <2>7. dates = Dates(FitsOf(f))
        BY <2>5 DEF Dates
    <2> HIDE DEF Traffic, dates
    <2>8. \A date : Before(date) = BeforeDate(FitsOf(f), f.table, begin, date)
        BY <2>6, <2>7 DEF BeforeDate
    <2> HIDE DEF Before
    <2>9. wanted = WantedOf(f)
        BY <1>2, <2>3, <2>7, <2>8 DEF WantedOf, Wanted
    <2>10. shown = Dates(Members(f.rows))
        <3>1. shown = {f.rows[m].at : m \in 1 .. Len(f.rows)}
            BY <2>2
        <3>2. Dates(Members(f.rows)) = {f.rows[m].at : m \in 1 .. Len(f.rows)}
            BY DEF Dates, Members
        <3>3. QED
            BY <3>1, <3>2
    <2> HIDE DEF wanted, shown
    <2>11. shown \subseteq wanted /\ (f.whole => shown = wanted)
        BY <2>4, <2>9, <2>10 DEF ShowsTheRange
    <2>12. \A m \in DOMAIN f.rows : f.rows[m].rx + f.rows[m].tx = Traffic(f.rows[m].at)
        <3>1. \A e \in Members(f.rows) : e.rx + e.tx = TrafficOf(FitsOf(f), e.at)
            BY <2>4 DEF ShowsTheRange
        <3>2. \A m \in DOMAIN f.rows : f.rows[m] \in Members(f.rows)
            BY <2>2 DEF Members
        <3>3. QED
            BY <2>6, <3>1, <3>2
    <2>13. QED
        BY <2>11, <2>12 DEF Traffic, dates, Before, wanted, shown
<1>5. QED
    BY <1>4 DEF RangeShown

(* For every command line and database: a list shows the dates of the      *)
(* range it was given, as many as the limit in force allows and from the   *)
(* right end, each with the traffic of all its interfaces, whatever other  *)
(* processes change between two reads (parseargs, db_getdata_range).       *)
THEOREM RangeCorrect == Spec => []RangeShown
<1>1. TInv /\ RInv /\ [Next]_vars => (TInv /\ RInv)'
    BY StepTyped, ParseRange, QuietRange, StuttersRange, InfoRange, FetchRange DEF Next
<1>2. QED
    BY <1>1, InitTyped, InitRange, RangeFollows, PTL DEF Spec
=============================================================================
