----------------------------- MODULE DataProofs -----------------------------
(***************************************************************************)
(* What module Data guarantees for any number of interfaces, any           *)
(* retention of the tables, calendar and amounts of traffic, and for runs  *)
(* of any length.                                                          *)
(***************************************************************************)
EXTENDS Data, FiniteSetTheorems, WellFoundedInduction, TLAPS

(***************************************************************************)
(* Sums.  Induction over finite sets and over numbers is by a smallest     *)
(* exception.                                                              *)
(***************************************************************************)
LEMMA Least ==
    ASSUME NEW T, T \subseteq Nat, T # {}
    PROVE  \E x \in T : \A y \in T : x <= y
<1> DEFINE R == OpToRel(<, Nat)
<1>1. IsWellFoundedOn(R, Nat)
    BY NatLessThanWellFounded
<1>2. \A x, y \in Nat : x < y => <<x, y>> \in R
    BY DEF OpToRel
<1> HIDE DEF R
<1>3. PICK x \in T : \A y \in T : ~ (<<y, x>> \in R)
    BY <1>1, WFMin
<1>4. \A y \in T : x <= y
    <2>1. SUFFICES ASSUME NEW y \in T PROVE x <= y
        OBVIOUS
    <2>2. x \in Nat /\ y \in Nat /\ ~ (y < x)
        BY <1>2, <1>3
    <2>3. QED
        BY <2>2
<1>5. QED
    BY <1>4

(* If every exception has a smaller one in it there is none. *)
LEMMA NoSmallest ==
    ASSUME NEW B, \A S \in B : IsFiniteSet(S),
           \A S \in B : \E T \in B : T \subseteq S /\ T # S
    PROVE  B = {}
<1> DEFINE sizes == {Cardinality(S) : S \in B}
<1>1. SUFFICES ASSUME B # {} PROVE FALSE
    OBVIOUS
<1>2. sizes \subseteq Nat /\ sizes # {}
    BY <1>1, FS_CardinalityType
<1>3. PICK n \in sizes : \A m \in sizes : n <= m
    <2> HIDE DEF sizes
    <2>1. QED
        BY <1>2, Least
<1>4. PICK S \in B : n = Cardinality(S)
    OBVIOUS
<1>5. PICK T \in B : T \subseteq S /\ T # S
    OBVIOUS
<1>6. Cardinality(T) <= Cardinality(S) /\ Cardinality(T) # Cardinality(S)
    BY <1>5, FS_Subset
<1>7. Cardinality(T) \in sizes /\ Cardinality(S) \in Nat /\ Cardinality(T) \in Nat
    BY FS_CardinalityType
<1>8. QED
    BY <1>3, <1>4, <1>6, <1>7

(* The function by which SumOf is defined. *)
Any(S) == CHOOSE x \in S : TRUE
Sums(f, U, sum) ==
    sum = [S \in SUBSET U |-> IF S = {} THEN 0 ELSE f[Any(S)] + sum[S \ {Any(S)}]]

LEMMA SumDefinition ==
    ASSUME NEW f, NEW U
    PROVE  SumOf(f, U) = (CHOOSE sum : Sums(f, U, sum))[U]
BY DEF SumOf, MapThenSumSet, MapThenFoldSet, Sums, Any

LEMMA AnyMember ==
    ASSUME NEW S, S # {}
    PROVE  Any(S) \in S /\ S \ {Any(S)} \subseteq S /\ S \ {Any(S)} # S
BY DEF Any

LEMMA SumsAgree ==
    ASSUME NEW f, NEW U, NEW V, NEW a, NEW b, Sums(f, U, a), Sums(f, V, b),
           IsFiniteSet(U), NEW S, S \subseteq U, S \subseteq V
    PROVE  a[S] = b[S]
<1> DEFINE bad == {R \in SUBSET U : R \subseteq V /\ a[R] # b[R]}
<1>1. \A R \in SUBSET U :
         a[R] = IF R = {} THEN 0 ELSE f[Any(R)] + a[R \ {Any(R)}]
    BY DEF Sums
<1>2. \A R \in SUBSET V :
         b[R] = IF R = {} THEN 0 ELSE f[Any(R)] + b[R \ {Any(R)}]
    BY DEF Sums
<1>3. \A R \in bad : IsFiniteSet(R)
    BY FS_Subset
<1>4. ASSUME NEW R \in bad PROVE \E T \in bad : T \subseteq R /\ T # R
    <2>1. R # {}
        BY <1>1, <1>2
    <2> DEFINE T == R \ {Any(R)}
    <2>2. T \subseteq R /\ T # R
        BY <2>1, AnyMember
    <2>3. a[T] # b[T]
        BY <1>1, <1>2, <2>1
    <2>4. QED
        BY <2>2, <2>3
<1>5. bad = {}
    <2> HIDE DEF bad
    <2>1. QED
        BY <1>3, <1>4, NoSmallest
<1>6. QED
    BY <1>5

(* A set has its function, and so SumOf sums, if all smaller ones have.    *)
Summed(f, S) == \E sum : Sums(f, S, sum)

LEMMA SummedSum ==
    ASSUME NEW f, NEW S, IsFiniteSet(S), Summed(f, S), NEW sum, Sums(f, S, sum)
    PROVE  SumOf(f, S) = sum[S]
<1> DEFINE c == CHOOSE s : Sums(f, S, s)
<1>1. Sums(f, S, c)
    BY DEF Summed
<1>2. SumOf(f, S) = c[S]
    BY SumDefinition
<1> HIDE DEF c
<1>3. QED
    BY <1>1, <1>2, SumsAgree

LEMMA SummedStep ==
    ASSUME NEW f, NEW S, IsFiniteSet(S), S # {}, Summed(f, S), Summed(f, S \ {Any(S)})
    PROVE  SumOf(f, S) = f[Any(S)] + SumOf(f, S \ {Any(S)})
<1> DEFINE T == S \ {Any(S)}
<1>1. PICK a : Sums(f, S, a)
    BY DEF Summed
<1>2. PICK b : Sums(f, T, b)
    BY DEF Summed
<1>3. T \subseteq S /\ IsFiniteSet(T)
    BY FS_Subset
<1>4. SumOf(f, S) = a[S]
    BY <1>1, SummedSum
<1>5. SumOf(f, T) = b[T]
    BY <1>2, <1>3, SummedSum
<1>6. a[T] = b[T]
    BY <1>1, <1>2, <1>3, SumsAgree
<1>7. a[S] = f[Any(S)] + a[T]
    BY <1>1 DEF Sums
<1>8. QED
    BY <1>4, <1>5, <1>6, <1>7

LEMMA EmptySummed ==
    ASSUME NEW f PROVE Summed(f, {}) /\ SumOf(f, {}) = 0
<1> DEFINE sum == [S \in SUBSET {} |-> 0]
<1>1. sum = [S \in SUBSET {} |-> IF S = {} THEN 0 ELSE f[Any(S)] + sum[S \ {Any(S)}]]
    OBVIOUS
<1>2. sum[{}] = 0
    OBVIOUS
<1> HIDE DEF sum
<1>3. Sums(f, {}, sum)
    BY <1>1 DEF Sums
<1>4. Summed(f, {})
    BY <1>3 DEF Summed
<1>5. QED
    BY <1>2, <1>3, <1>4, SummedSum, FS_EmptySet

LEMMA AllSummed ==
    ASSUME NEW f, NEW U, IsFiniteSet(U)
    PROVE  Summed(f, U)
<1> DEFINE bad == {S \in SUBSET U : ~Summed(f, S)}
<1>1. \A S \in bad : IsFiniteSet(S)
    BY FS_Subset
<1>2. ASSUME NEW S \in bad PROVE \E T \in bad : T \subseteq S /\ T # S
    <2>1. SUFFICES ASSUME \A T \in SUBSET S : T # S => Summed(f, T) PROVE FALSE
        OBVIOUS
    <2>2. IsFiniteSet(S)
        BY <1>1
    <2> DEFINE sum == [T \in SUBSET S |-> IF T = {} THEN 0
                                          ELSE f[Any(T)] + SumOf(f, T \ {Any(T)})]
    <2>3. ASSUME NEW T \in SUBSET S, T # S PROVE sum[T] = SumOf(f, T)
        <3>1. CASE T = {}
            BY <3>1, EmptySummed
        <3>2. CASE T # {}
            <4>1. T \ {Any(T)} \subseteq S /\ T \ {Any(T)} # S
                BY <2>3, <3>2, AnyMember
            <4>2. Summed(f, T) /\ Summed(f, T \ {Any(T)}) /\ IsFiniteSet(T)
                BY <2>1, <2>2, <2>3, <4>1, FS_Subset
            <4>3. SumOf(f, T) = f[Any(T)] + SumOf(f, T \ {Any(T)})
                BY <3>2, <4>2, SummedStep
            <4>4. sum[T] = f[Any(T)] + SumOf(f, T \ {Any(T)})
                BY <3>2
            <4>5. QED
                BY <4>3, <4>4
        <3>3. QED
            BY <3>1, <3>2
    <2>4. ASSUME NEW T \in SUBSET S
          PROVE  sum[T] = IF T = {} THEN 0 ELSE f[Any(T)] + sum[T \ {Any(T)}]
        <3>1. CASE T = {}
            BY <3>1
        <3>2. CASE T # {}
            <4>1. T \ {Any(T)} \in SUBSET S /\ T \ {Any(T)} # S
                BY <3>2, AnyMember
            <4>2. sum[T] = f[Any(T)] + SumOf(f, T \ {Any(T)})
                BY <3>2
            <4> HIDE DEF sum
            <4>3. sum[T \ {Any(T)}] = SumOf(f, T \ {Any(T)})
                BY <2>3, <4>1
            <4>4. QED
                BY <3>2, <4>2, <4>3
        <3>3. QED
            BY <3>1, <3>2
    <2>5. sum = [T \in SUBSET S |-> sum[T]]
        OBVIOUS
    <2> HIDE DEF sum
    <2>6. sum = [T \in SUBSET S |->
                   IF T = {} THEN 0 ELSE f[Any(T)] + sum[T \ {Any(T)}]]
        BY <2>4, <2>5
    <2>7. Summed(f, S)
        BY <2>6 DEF Sums, Summed
    <2>8. QED
        BY <2>7
<1>3. bad = {}
    <2> HIDE DEF bad
    <2>1. QED
        BY <1>1, <1>2, NoSmallest
<1>4. QED
    BY <1>3

LEMMA SumStep ==
    ASSUME NEW f, NEW S, IsFiniteSet(S), S # {}
    PROVE  SumOf(f, S) = f[Any(S)] + SumOf(f, S \ {Any(S)})
<1>1. IsFiniteSet(S \ {Any(S)})
    BY FS_Subset
<1>2. QED
    BY <1>1, AllSummed, SummedStep

LEMMA SumTyped ==
    ASSUME NEW f, NEW U, IsFiniteSet(U), \A s \in U : f[s] \in Nat
    PROVE  SumOf(f, U) \in Nat
<1> DEFINE bad == {S \in SUBSET U : SumOf(f, S) \notin Nat}
<1>1. \A S \in bad : IsFiniteSet(S)
    BY FS_Subset
<1>2. ASSUME NEW S \in bad PROVE \E T \in bad : T \subseteq S /\ T # S
    <2>1. S # {}
        BY EmptySummed
    <2> DEFINE T == S \ {Any(S)}
    <2>2. T \subseteq S /\ T # S /\ Any(S) \in S
        BY <2>1, AnyMember
    <2>3. SumOf(f, S) = f[Any(S)] + SumOf(f, T) /\ f[Any(S)] \in Nat
        BY <1>1, <2>1, <2>2, SumStep
    <2>4. SumOf(f, T) \notin Nat
        BY <2>3
    <2>5. QED
        BY <2>2, <2>4
<1>3. bad = {}
    <2> HIDE DEF bad
    <2>1. QED
        BY <1>1, <1>2, NoSmallest
<1>4. QED
    BY <1>3

LEMMA SumEqual ==
    ASSUME NEW f, NEW g, NEW U, IsFiniteSet(U), \A s \in U : f[s] = g[s]
    PROVE  SumOf(f, U) = SumOf(g, U)
<1> DEFINE bad == {S \in SUBSET U : SumOf(f, S) # SumOf(g, S)}
<1>1. \A S \in bad : IsFiniteSet(S)
    BY FS_Subset
<1>2. ASSUME NEW S \in bad PROVE \E T \in bad : T \subseteq S /\ T # S
    <2>1. S # {}
        BY EmptySummed
    <2> DEFINE T == S \ {Any(S)}
    <2>2. T \subseteq S /\ T # S /\ Any(S) \in S
        BY <2>1, AnyMember
    <2>3. /\ SumOf(f, S) = f[Any(S)] + SumOf(f, T)
          /\ SumOf(g, S) = g[Any(S)] + SumOf(g, T)
          /\ f[Any(S)] = g[Any(S)]
        BY <1>1, <2>1, <2>2, SumStep
    <2>4. SumOf(f, T) # SumOf(g, T)
        BY <2>3
    <2>5. QED
        BY <2>2, <2>4
<1>3. bad = {}
    <2> HIDE DEF bad
    <2>1. QED
        BY <1>1, <1>2, NoSmallest
<1>4. QED
    BY <1>3

LEMMA SumAdds ==
    ASSUME NEW f, NEW g, NEW h, NEW U, IsFiniteSet(U),
           \A s \in U : f[s] \in Nat /\ g[s] \in Nat /\ h[s] = f[s] + g[s]
    PROVE  SumOf(h, U) = SumOf(f, U) + SumOf(g, U)
<1> DEFINE bad == {S \in SUBSET U : SumOf(h, S) # SumOf(f, S) + SumOf(g, S)}
<1>1. \A S \in bad : IsFiniteSet(S)
    BY FS_Subset
<1>2. ASSUME NEW S \in bad PROVE \E T \in bad : T \subseteq S /\ T # S
    <2>1. S # {}
        <3>1. SumOf(f, {}) = 0 /\ SumOf(g, {}) = 0 /\ SumOf(h, {}) = 0
            BY EmptySummed
        <3>2. SumOf(h, {}) = SumOf(f, {}) + SumOf(g, {})
            BY <3>1
        <3>3. SumOf(h, S) # SumOf(f, S) + SumOf(g, S)
            OBVIOUS
        <3>4. QED
            BY <3>2, <3>3
    <2> DEFINE T == S \ {Any(S)}
    <2>2. T \subseteq S /\ T # S /\ Any(S) \in S /\ Any(S) \in U
        BY <2>1, AnyMember
    <2>3. /\ SumOf(f, S) = f[Any(S)] + SumOf(f, T)
          /\ SumOf(g, S) = g[Any(S)] + SumOf(g, T)
          /\ SumOf(h, S) = h[Any(S)] + SumOf(h, T)
        BY <1>1, <2>1, SumStep
    <2>4. /\ f[Any(S)] \in Nat /\ g[Any(S)] \in Nat
          /\ h[Any(S)] = f[Any(S)] + g[Any(S)]
        BY <2>2
    <2>5. SumOf(f, T) \in Nat /\ SumOf(g, T) \in Nat
        <3>1. IsFiniteSet(T) /\ T \subseteq U
            BY <2>2, FS_Subset
        <3>2. QED
            BY <3>1, SumTyped
    <2>6. SumOf(h, T) # SumOf(f, T) + SumOf(g, T)
        <3>1. SUFFICES ASSUME SumOf(h, T) = SumOf(f, T) + SumOf(g, T) PROVE FALSE
            OBVIOUS
        <3>2. SumOf(h, S) = (f[Any(S)] + g[Any(S)]) + (SumOf(f, T) + SumOf(g, T))
            BY <2>3, <2>4, <3>1
        <3>3. SumOf(h, S) = SumOf(f, S) + SumOf(g, S)
            BY <2>3, <2>4, <2>5, <3>2
        <3>4. QED
            BY <3>3
    <2>7. QED
        BY <2>2, <2>6
<1>3. bad = {}
    <2> HIDE DEF bad
    <2>1. QED
        BY <1>1, <1>2, NoSmallest
<1>4. QED
    BY <1>3

(* Whichever member is taken out first. *)
LEMMA SumWithout ==
    ASSUME NEW f, NEW U, IsFiniteSet(U), \A s \in U : f[s] \in Nat, NEW x \in U
    PROVE  SumOf(f, U) = f[x] + SumOf(f, U \ {x})
<1> DEFINE bad == {S \in SUBSET U :
                     \E y \in S : SumOf(f, S) # f[y] + SumOf(f, S \ {y})}
<1>1. \A S \in bad : IsFiniteSet(S)
    BY FS_Subset
<1>2. ASSUME NEW S \in bad PROVE \E T \in bad : T \subseteq S /\ T # S
    <2>1. PICK y \in S : SumOf(f, S) # f[y] + SumOf(f, S \ {y})
        OBVIOUS
    <2> DEFINE c == Any(S)
               T == S \ {c}
               V == S \ {y}
    <2>2. S # {} /\ IsFiniteSet(S) /\ S \subseteq U
        BY <1>1
    <2>3. c \in S /\ SumOf(f, S) = f[c] + SumOf(f, T)
        BY <2>2, AnyMember, SumStep
    <2>4. c # y
        BY <2>1, <2>3
    <2> HIDE DEF c
    <2>5. /\ y \in T /\ T \subseteq S /\ T # S
          /\ c \in V /\ V \subseteq S /\ V # S
          /\ T \ {y} = V \ {c}
        BY <2>3, <2>4
    <2>6. T \in bad \/ V \in bad
        <3>1. SUFFICES ASSUME T \notin bad, V \notin bad PROVE FALSE
            OBVIOUS
        <3> DEFINE W == T \ {y}
        <3>2. SumOf(f, T) = f[y] + SumOf(f, W)
            BY <2>2, <2>5, <3>1
        <3>3. SumOf(f, V) = f[c] + SumOf(f, W)
            <4>1. SumOf(f, V) = f[c] + SumOf(f, V \ {c})
                BY <2>2, <2>5, <3>1
            <4>2. QED
                BY <2>5, <4>1
        <3>4. W \subseteq U /\ IsFiniteSet(W)
            BY <2>2, <2>5, FS_Subset
        <3>5. SumOf(f, W) \in Nat /\ f[c] \in Nat /\ f[y] \in Nat
            BY <2>2, <2>3, <3>4, SumTyped
        <3>6. SumOf(f, S) = f[c] + (f[y] + SumOf(f, W))
            BY <2>3, <3>2
        <3>7. SumOf(f, S) # f[y] + (f[c] + SumOf(f, W))
            BY <2>1, <3>3
        <3> HIDE DEF W
        <3>8. QED
            BY <3>5, <3>6, <3>7
    <2>7. QED
        BY <2>5, <2>6
<1>3. bad = {}
    <2> HIDE DEF bad
    <2>1. QED
        BY <1>1, <1>2, NoSmallest
<1>4. U \notin bad
    BY <1>3
<1>5. QED
    BY <1>4

(* Members that add nothing can be left out. *)
LEMMA SumOfSome ==
    ASSUME NEW f, NEW U, IsFiniteSet(U), \A s \in U : f[s] \in Nat,
           NEW V, V \subseteq U, \A s \in U \ V : f[s] = 0
    PROVE  SumOf(f, U) = SumOf(f, V)
<1> DEFINE bad == {S \in SUBSET U : V \subseteq S /\ SumOf(f, S) # SumOf(f, V)}
<1>1. \A S \in bad : IsFiniteSet(S)
    BY FS_Subset
<1>2. ASSUME NEW S \in bad PROVE \E T \in bad : T \subseteq S /\ T # S
    <2>1. PICK x \in S : x \notin V
        OBVIOUS
    <2> DEFINE T == S \ {x}
    <2>2. IsFiniteSet(S) /\ S \subseteq U /\ IsFiniteSet(T) /\ T \subseteq U
        BY <1>1, FS_Subset
    <2>3. f[x] = 0 /\ SumOf(f, T) \in Nat
        BY <2>1, <2>2, SumTyped
    <2>4. SumOf(f, S) = f[x] + SumOf(f, T)
        BY <2>2, SumWithout
    <2>5. SumOf(f, S) = SumOf(f, T)
        BY <2>3, <2>4
    <2>6. V \subseteq T /\ T \subseteq S /\ T # S
        BY <2>1
    <2>7. QED
        BY <2>2, <2>5, <2>6
<1>3. bad = {}
    <2> HIDE DEF bad
    <2>1. QED
        BY <1>1, <1>2, NoSmallest
<1>4. QED
    BY <1>3

LEMMA SumOfNothing ==
    ASSUME NEW f, NEW U, IsFiniteSet(U), \A s \in U : f[s] = 0
    PROVE  SumOf(f, U) = 0
<1>1. SumOf(f, U) = SumOf(f, {})
    BY SumOfSome
<1>2. QED
    BY <1>1, EmptySummed

(***************************************************************************)
(* The calendar.                                                           *)
(***************************************************************************)

(* All settings have one rotation, so rows do not depend on which is used. *)
RowAt(t, s) == db_get_date_generator(CHOOSE c \in Settings : TRUE, t, FALSE, s)

LEMMA Divided ==
    ASSUME NEW a \in Int, NEW k \in Nat \ {0}
    PROVE  a \div k \in Int /\ k * (a \div k) <= a /\ a < k * (a \div k) + k
OBVIOUS

LEMMA DividedOrder ==
    ASSUME NEW a \in Int, NEW b \in Int, a <= b, NEW k \in Nat \ {0}
    PROVE  a \div k <= b \div k
<1> DEFINE p == a \div k
           q == b \div k
<1>1. p \in Int /\ k * p <= a
    BY Divided
<1>2. q \in Int /\ b < k * q + k
    BY Divided
<1> HIDE DEF p, q
<1>3. SUFFICES ASSUME p > q PROVE FALSE
    BY <1>1, <1>2 DEF p, q
<1>4. PICK m \in Nat : p = q + 1 + m
    <2>1. p - q - 1 \in Nat /\ p = q + 1 + (p - q - 1)
        BY <1>1, <1>2, <1>3
    <2>2. QED
        BY <2>1
<1>5. k * p = k * q + k + k * m /\ k * m \in Nat /\ k * q \in Int
    BY <1>2, <1>4
<1>6. QED
    BY <1>1, <1>2, <1>5

LEMMA RowTyped ==
    ASSUME NEW c \in SettingsType, NEW t \in Table, NEW s \in Int
    PROVE  db_get_date_generator(c, t, FALSE, s) \in Int
<1>1. Hour(s) \in Int
    BY Divided, CalendarAssumption DEF Hour
<1>2. Day(s) \in Int
    BY <1>1, Divided, CalendarAssumption DEF Day
<1>3. c.monthrotate \in Nat \ {0}
    BY DEF SettingsType
<1> DEFINE rotation == Rotation(c, FALSE)
<1>4. rotation \in Int
    BY <1>3 DEF Rotation
<1> HIDE DEF rotation
<1>5. \A d \in Int : MonthOfDay(d) \in Int
    BY Divided, CalendarAssumption DEF MonthOfDay
<1>6. \A d \in Int : YearOfDay(d) \in Int
    BY <1>5, Divided, CalendarAssumption DEF YearOfDay
<1> DEFINE r == IF c.monthrotateyears THEN rotation ELSE 0
           m == Day(s) - rotation
           y == Day(s) - r
<1>7. m \in Int /\ y \in Int
    <2>1. r \in Int
        BY <1>4
    <2> HIDE DEF r
    <2>2. QED
        BY <1>2, <1>4, <2>1
<1> HIDE DEF m, y
<1>8. MonthOfDay(m) \in Int /\ YearOfDay(y) \in Int
    BY <1>5, <1>6, <1>7
<1>9. QED
    BY <1>1, <1>2, <1>8 DEF db_get_date_generator, Table, Dated, m, y, rotation

LEMMA RowOrder ==
    ASSUME NEW c \in SettingsType, NEW t \in Table, NEW s \in Int, NEW u \in Int, s <= u
    PROVE  db_get_date_generator(c, t, FALSE, s) <= db_get_date_generator(c, t, FALSE, u)
<1>1. Hour(s) \in Int /\ Hour(u) \in Int /\ Hour(s) <= Hour(u)
    BY Divided, DividedOrder, CalendarAssumption DEF Hour
<1>2. Day(s) \in Int /\ Day(u) \in Int /\ Day(s) <= Day(u)
    BY <1>1, Divided, DividedOrder, CalendarAssumption DEF Day
<1>3. c.monthrotate \in Nat \ {0}
    BY DEF SettingsType
<1> DEFINE rotation == Rotation(c, FALSE)
<1>4. rotation \in Int
    BY <1>3 DEF Rotation
<1> HIDE DEF rotation
<1>5. \A d, e \in Int : d <= e => /\ MonthOfDay(d) \in Int /\ MonthOfDay(e) \in Int
                                  /\ MonthOfDay(d) <= MonthOfDay(e)
    BY Divided, DividedOrder, CalendarAssumption DEF MonthOfDay
<1>6. \A d, e \in Int : d <= e => YearOfDay(d) <= YearOfDay(e)
    BY <1>5, DividedOrder, CalendarAssumption DEF YearOfDay
<1> DEFINE r == IF c.monthrotateyears THEN rotation ELSE 0
           m == Day(s) - rotation
           n == Day(u) - rotation
           y == Day(s) - r
           z == Day(u) - r
<1>7. m \in Int /\ n \in Int /\ y \in Int /\ z \in Int /\ m <= n /\ y <= z
    <2>1. r \in Int
        BY <1>4
    <2> HIDE DEF r
    <2>2. QED
        BY <1>2, <1>4, <2>1
<1> HIDE DEF m, n, y, z
<1>8. MonthOfDay(m) <= MonthOfDay(n) /\ YearOfDay(y) <= YearOfDay(z)
    BY <1>5, <1>6, <1>7
<1>9. QED
    BY <1>1, <1>2, <1>8 DEF db_get_date_generator, Table, Dated, m, n, y, z, rotation

LEMMA SettingsTyped == \A c \in Settings : c \in SettingsType
BY SettingsAssumption

LEMMA RowAtOrder ==
    ASSUME NEW t \in Table, Settings # {}
    PROVE  /\ \A s \in Slots : RowAt(t, s) \in Int
           /\ \A s, u \in Slots : s <= u => RowAt(t, s) <= RowAt(t, u)
<1>1. (CHOOSE c \in Settings : TRUE) \in SettingsType
    BY SettingsTyped
<1>2. \A s \in Slots : s \in Int
    BY DataBoundsAssumption DEF Slots
<1>3. QED
    BY <1>1, <1>2, RowTyped, RowOrder DEF RowAt

LEMMA OneRotation ==
    ASSUME NEW c \in Settings, NEW t, NEW s
    PROVE  db_get_date_generator(c, t, FALSE, s) = RowAt(t, s)
<1> DEFINE d == CHOOSE x \in Settings : TRUE
<1>1. d \in Settings
    OBVIOUS
<1>2. c.monthrotate = d.monthrotate /\ c.monthrotateyears = d.monthrotateyears
    BY <1>1, SettingsAssumption
<1>3. RowAt(t, s) = db_get_date_generator(d, t, FALSE, s)
    BY DEF RowAt
<1> HIDE DEF d
<1>4. Rotation(c, FALSE) = Rotation(d, FALSE)
    BY <1>2 DEF Rotation
<1>5. QED
    BY <1>2, <1>3, <1>4 DEF db_get_date_generator

LEMMA TopRow == \A s : RowAt("top", s) = Day(s)
BY DEF RowAt, db_get_date_generator

LEMMA RetentionIs ==
    ASSUME NEW c \in Settings, NEW t \in Table, c.limit[t] # 0
    PROVE  Retention(t) = entrylimits(c, t)
<1> DEFINE enabled == {x \in Settings : x.limit[t] # 0}
           d == CHOOSE x \in enabled : TRUE
<1>1. d \in enabled /\ enabled # {}
    OBVIOUS
<1>2. d.limit[t] = c.limit[t]
    BY <1>1, SettingsAssumption
<1>3. Retention(t) = entrylimits(d, t)
    BY <1>1 DEF Retention
<1> HIDE DEF d
<1>4. QED
    BY <1>2, <1>3 DEF entrylimits

LEMMA EntryLimit ==
    ASSUME NEW c \in Settings, NEW t \in Table
    PROVE  entrylimits(c, t) \in Int /\ (c.limit[t] = 0 => entrylimits(c, t) = 0)
<1>1. c.limit[t] \in Int
    BY SettingsTyped DEF SettingsType
<1>2. FivesPerHour \in Int /\ HoursPerDay \in Int
    BY CalendarAssumption
<1> DEFINE k == CASE t = "fiveminute" -> FivesPerHour
                  [] t = "hour"       -> HoursPerDay
                  [] OTHER            -> 1
<1>3. k \in Int
    BY <1>2
<1>4. entrylimits(c, t) = c.limit[t] * k
    BY DEF entrylimits
<1> HIDE DEF k
<1>5. QED
    BY <1>1, <1>3, <1>4

(***************************************************************************)
(* The inductive invariant.                                                *)
(***************************************************************************)
SlotsOf(t, date) == {s \in Slots : RowAt(t, s) = date}

(* A table of an interface, and what was stored in it: no row is newer     *)
(* than those that can still be written to, which are of the slots N.      *)
Within(t, table, N) == \A date \in DOMAIN table, n \in N : date <= RowAt(t, n)

(* Traffic without a row: the row was removed, and is out of reach.        *)
Missing(t, table, amounts) ==
    {s \in Slots : amounts[s] > 0 /\ RowAt(t, s) \notin DOMAIN table}

OutOfReach(t, table, amounts, N) ==
    \A s \in Missing(t, table, amounts), n \in N : RowAt(t, s) < RowAt(t, n)

Complete(t, table, amounts) ==
    \A date \in DOMAIN table : table[date] = SumOf(amounts, SlotsOf(t, date))

Newest(t, table, amounts) ==
    \A s \in Missing(t, table, amounts) :
        /\ Retention(t) > 0
        /\ Cardinality({e \in DOMAIN table : e > RowAt(t, s)}) >= Retention(t)

(* What is no longer in top is past; but for days that were written to     *)
(* since then, at least as many others are as large as are kept.           *)
TopComplete(table, amounts, lates) ==
    \A date \in DOMAIN table \ lates : table[date] = SumOf(amounts, SlotsOf("top", date))

TopRemoved(table, amounts, day) == \A s \in Missing("top", table, amounts) : Day(s) < day

TopLargest(table, amounts, lates) ==
    \A s \in Missing("top", table, amounts) : Day(s) \notin lates =>
        /\ Retention("top") > 0
        /\ Cardinality({e \in DOMAIN table :
                           table[e] >= SumOf(amounts, SlotsOf("top", Day(s)))})
              >= Retention("top")

TableRight(t, table, amounts, N) ==
    /\ Within(t, table, N)
    /\ t \in Dated => /\ OutOfReach(t, table, amounts, N)
                      /\ Complete(t, table, amounts)
                      /\ Newest(t, table, amounts)

TopRight(table, amounts, lates, day) ==
    /\ TopComplete(table, amounts, lates)
    /\ TopRemoved(table, amounts, day)
    /\ TopLargest(table, amounts, lates)

(* Slots that can still be written under: logged, or to be logged next.    *)
Pending(i) ==
    DOMAIN log[i] \cup {updated[i]} \cup IF i \in cache THEN {cacheupdated[i]} ELSE {}

Late(i) == {day \in {Day(s) : s \in Slots} : <<i, day>> \in late}

(* The parts of the invariant. *)
DailyTyped(table) ==
    /\ IsFiniteSet(DOMAIN table)
    /\ \A date \in DOMAIN table : date \in Int /\ table[date] \in Nat

MemoryTyped ==
    /\ pc \in {"down", "prune", "wipe", "run", "flush", "cleanup", "rewipe"}
    /\ cfg \in Settings
    /\ cache \in SUBSET Iface
    /\ cacheupdated \in [Iface -> Slots]
    /\ DOMAIN log = Iface
    /\ \A i \in Iface : /\ DOMAIN log[i] \subseteq Slots
                        /\ \A s \in DOMAIN log[i] : log[i][s] \in Nat
                        /\ log[i] # NoRows => i \in cache
    /\ cleanuphour \in 0 .. HoursPerDay - 1

RowsTyped ==
    /\ known \in SUBSET Iface
    /\ updated \in [Iface -> Slots]
    /\ DOMAIN rows = Table
    /\ stored \in [Table -> [Iface -> [Slots -> Nat]]]
    /\ \A t \in Table :
          /\ DOMAIN rows[t] = Iface
          /\ \A i \in Iface : DailyTyped(rows[t][i])

OnlyOfKnown ==
    \A t \in Table, i \in Iface \ known : rows[t][i] = NoRows /\ stored[t][i] = Nothing

Times ==
    /\ now \in Slots
    /\ removedday \in Int /\ removedday <= Day(now)
    /\ \A i \in Iface :
          /\ updated[i] <= now
          /\ cacheupdated[i] <= now
          /\ \A s \in DOMAIN log[i] : s <= cacheupdated[i]

Emptied ==
    pc \in {"run", "flush", "cleanup"} =>
        \A t \in Table, i \in Iface : cfg.limit[t] = 0 => rows[t][i] = NoRows

TablesRight ==
    \A t \in Table, i \in Iface : TableRight(t, rows[t][i], stored[t][i], Pending(i))

TopsRight ==
    \A i \in Iface : TopRight(rows["top"][i], stored["top"][i], Late(i), removedday)

DInv ==
    /\ MemoryTyped /\ RowsTyped /\ OnlyOfKnown /\ Times /\ Emptied
    /\ TablesRight /\ TopsRight

(***************************************************************************)
(* Removing all rows but those with fewer than n before them.              *)
(***************************************************************************)
LEMMA EnoughKept ==
    ASSUME NEW D, IsFiniteSet(D), NEW A,
           \A e \in D : /\ A[e] \subseteq D
                        /\ \A x \in A[e] : x \notin A[x] /\ A[x] \subseteq A[e],
           NEW n \in Nat,
           NEW U, U \subseteq D, \A e \in U : A[e] \subseteq U,
           Cardinality(U) >= n
    PROVE  Cardinality({e \in U : Cardinality(A[e]) < n}) >= n
<1> DEFINE K == {e \in U : Cardinality(A[e]) < n}
<1>1. IsFiniteSet(U) /\ IsFiniteSet(K) /\ \A e \in D : IsFiniteSet(A[e])
    BY FS_Subset
<1>2. CASE K = U
    BY <1>2
<1>3. CASE K # U
    <2> DEFINE B == {Cardinality(A[e]) : e \in U \ K}
    <2>1. B # {} /\ B \subseteq Nat
        BY <1>1, <1>3, FS_CardinalityType
    <2>2. PICK b \in B : \A c \in B : b <= c
        <3> HIDE DEF B
        <3>1. QED
            BY <2>1, Least
    <2>3. PICK e \in U \ K : b = Cardinality(A[e])
        OBVIOUS
    <2>4. ASSUME NEW x \in A[e], x \notin K PROVE FALSE
        <3>1. x \in U \ K /\ x \in D /\ e \in D
            BY <2>4
        <3>2. A[x] \subseteq A[e] /\ A[x] # A[e]
            BY <3>1
        <3>3. Cardinality(A[x]) <= Cardinality(A[e]) /\ Cardinality(A[x]) # Cardinality(A[e])
            BY <1>1, <3>1, <3>2, FS_Subset
        <3>4. Cardinality(A[x]) \in B
            BY <3>1
        <3>5. Cardinality(A[x]) \in Nat /\ Cardinality(A[e]) \in Nat
            BY <1>1, <3>1, FS_CardinalityType
        <3>6. QED
            BY <2>2, <2>3, <3>3, <3>4, <3>5
    <2>5. A[e] \subseteq K
        BY <2>4
    <2>6. Cardinality(A[e]) <= Cardinality(K)
        BY <1>1, <2>5, FS_Subset
    <2>7. Cardinality(A[e]) >= n /\ Cardinality(A[e]) \in Nat /\ Cardinality(K) \in Nat
        <3>1. e \in D /\ ~(Cardinality(A[e]) < n)
            OBVIOUS
        <3>2. Cardinality(A[e]) \in Nat /\ Cardinality(K) \in Nat
            BY <1>1, <3>1, FS_CardinalityType
        <3>3. QED
            BY <3>1, <3>2
    <2>8. QED
        BY <2>6, <2>7
<1>4. QED
    BY <1>2, <1>3

(* The rows that are left: none is removed while fewer than n are newer,   *)
(* and as many as n that were newer than some date still are.              *)
LEMMA NewerAreKept ==
    ASSUME NEW table, DailyTyped(table), NEW n \in Nat \ {0},
           NEW K, K = DOMAIN table \ Older(table, n),
           NEW d \in Int, Cardinality({e \in DOMAIN table : e > d}) >= n
    PROVE  Cardinality({e \in K : e > d}) >= n
<1> DEFINE D == DOMAIN table
           A == [e \in D |-> {x \in D : x > e}]
           U == {e \in D : e > d}
<1>1. IsFiniteSet(D) /\ D \subseteq Int
    BY DEF DailyTyped
<1>2. \A e \in D : A[e] = {x \in D : x > e}
    OBVIOUS
<1> HIDE DEF A
<1>3. \A e \in D : /\ A[e] \subseteq D
                   /\ \A x \in A[e] : x \notin A[x] /\ A[x] \subseteq A[e]
    BY <1>1, <1>2
<1>4. \A e \in U : A[e] \subseteq U
    BY <1>1, <1>2
<1>5. Cardinality({e \in U : Cardinality(A[e]) < n}) >= n
    <2> HIDE DEF D, U
    <2>1. U \subseteq D
        BY DEF U
    <2>2. Cardinality(U) >= n /\ n \in Nat
        BY DEF U, D
    <2>3. IsFiniteSet(D)
        BY <1>1
    <2>4. QED
        BY <1>3, <1>4, <2>1, <2>2, <2>3, EnoughKept
<1>6. {e \in U : Cardinality(A[e]) < n} = {e \in K : e > d}
    <2>1. \A e \in D : IsFiniteSet(A[e])
        BY <1>1, <1>3, FS_Subset
    <2>2. \A e \in D : Cardinality(A[e]) \in Nat
        BY <2>1, FS_CardinalityType
    <2>3. \A e \in D : e \in Older(table, n) <=> Cardinality(A[e]) >= n
        BY <1>2 DEF Older
    <2>4. QED
        BY <2>2, <2>3
<1>7. QED
    BY <1>5, <1>6

(* The same for top, of which the current day is never removed.            *)
AsLarge(table, S, v) == {e \in S : table[e] >= v}

LEMMA LargerAreKept ==
    ASSUME NEW table, DailyTyped(table), NEW n \in Nat \ {0}, NEW today,
           NEW K, K = DOMAIN table \ Smaller(table, n, today),
           NEW v \in Int, Cardinality(AsLarge(table, DOMAIN table, v)) >= n
    PROVE  Cardinality(AsLarge(table, K, v)) >= n
<1> USE DEF AsLarge
<1> DEFINE D == DOMAIN table
           past == D \ {today}
           A == [e \in D |-> IF e = today THEN {}
                             ELSE {x \in past : Ahead(table, x, e)}]
           U == {e \in D : table[e] >= v}
<1>1. IsFiniteSet(D) /\ \A e \in D : e \in Int /\ table[e] \in Int
    BY DEF DailyTyped
<1>2. \A e \in D : A[e] = IF e = today THEN {} ELSE {x \in past : Ahead(table, x, e)}
    OBVIOUS
<1> HIDE DEF A
<1>3. \A e \in D : /\ A[e] \subseteq D
                   /\ \A x \in A[e] : x \notin A[x] /\ A[x] \subseteq A[e]
    <2>1. SUFFICES ASSUME NEW e \in D
                   PROVE  /\ A[e] \subseteq D
                          /\ \A x \in A[e] : x \notin A[x] /\ A[x] \subseteq A[e]
        OBVIOUS
    <2>2. ASSUME NEW x \in A[e] PROVE x \notin A[x] /\ A[x] \subseteq A[e]
        <3>1. e # today /\ x \in past /\ Ahead(table, x, e)
            BY <1>2
        <3>2. A[x] = {z \in past : Ahead(table, z, x)}
            BY <1>2, <3>1
        <3>3. A[e] = {z \in past : Ahead(table, z, e)}
            BY <1>2, <3>1
        <3>4. ~Ahead(table, x, x)
            BY <1>1, <3>1 DEF Ahead
        <3>5. \A z \in past : Ahead(table, z, x) => Ahead(table, z, e)
            BY <1>1, <3>1 DEF Ahead
        <3>6. QED
            BY <3>2, <3>3, <3>4, <3>5
    <2>3. QED
        BY <1>2, <2>2
<1>4. \A e \in U : A[e] \subseteq U
    <2>1. \A e \in U, x \in D : Ahead(table, x, e) => x \in U
        BY <1>1 DEF Ahead
    <2>2. QED
        BY <1>2, <2>1
<1>5. Cardinality({e \in U : Cardinality(A[e]) < n}) >= n
    <2> HIDE DEF D, U
    <2>1. U \subseteq D
        BY DEF U
    <2>2. Cardinality(U) >= n /\ n \in Nat
        BY DEF U, D
    <2>3. IsFiniteSet(D)
        BY <1>1
    <2>4. QED
        BY <1>3, <1>4, <2>1, <2>2, <2>3, EnoughKept
<1>6. {e \in U : Cardinality(A[e]) < n} = {e \in K : table[e] >= v}
    <2>1. \A e \in D : IsFiniteSet(A[e])
        BY <1>1, <1>3, FS_Subset
    <2>2. \A e \in D : Cardinality(A[e]) \in Nat
        BY <2>1, FS_CardinalityType
    <2>3. \A e \in past : e \in Smaller(table, n, today) <=> Cardinality(A[e]) >= n
        BY <1>2 DEF Smaller
    <2>4. today \notin Smaller(table, n, today)
        BY DEF Smaller
    <2>5. today \in D => Cardinality(A[today]) = 0
        BY <1>2, FS_EmptySet
    <2>6. \A e \in D : Cardinality(A[e]) < n <=> e \in K
        <3>1. SUFFICES ASSUME NEW e \in D PROVE Cardinality(A[e]) < n <=> e \in K
            OBVIOUS
        <3>2. CASE e = today
            BY <2>4, <2>5, <3>2
        <3>3. CASE e # today
            BY <2>2, <2>3, <3>3
        <3>4. QED
            BY <3>2, <3>3
    <2>7. QED
        BY <2>6
<1>7. QED
    BY <1>5, <1>6

(* A past day that is removed has n others that are as large. *)
LEMMA LargerThanRemoved ==
    ASSUME NEW table, DailyTyped(table), NEW n \in Nat \ {0}, NEW today,
           NEW d \in Smaller(table, n, today)
    PROVE  Cardinality({e \in DOMAIN table : table[e] >= table[d]}) >= n
<1> DEFINE past == DOMAIN table \ {today}
           A == {e \in past : Ahead(table, e, d)}
           U == {e \in DOMAIN table : table[e] >= table[d]}
<1>1. d \in past /\ Cardinality(A) >= n
    BY DEF Smaller
<1>2. A \subseteq U
    BY <1>1 DEF DailyTyped, Ahead
<1>3. IsFiniteSet(U)
    BY FS_Subset DEF DailyTyped
<1>4. Cardinality(A) <= Cardinality(U) /\ IsFiniteSet(A)
    BY <1>2, <1>3, FS_Subset
<1>5. Cardinality(A) \in Nat /\ Cardinality(U) \in Nat
    BY <1>3, <1>4, FS_CardinalityType
<1>6. QED
    BY <1>1, <1>4, <1>5

(***************************************************************************)
(* What the statements do to a table that is right.                        *)
(***************************************************************************)
Amounts == [Slots -> Nat]

LEMMA SlotsFinite ==
    /\ IsFiniteSet(Slots) /\ Slots \subseteq Nat
    /\ \A t, date : IsFiniteSet(SlotsOf(t, date)) /\ SlotsOf(t, date) \subseteq Slots
<1>1. IsFiniteSet(Slots) /\ Slots \subseteq Nat
    BY FS_Interval, DataBoundsAssumption DEF Slots
<1>2. \A t, date : SlotsOf(t, date) \subseteq Slots
    BY DEF SlotsOf
<1>3. QED
    BY <1>1, <1>2, FS_Subset

LEMMA TotalTyped ==
    ASSUME NEW amounts \in Amounts, NEW t, NEW date
    PROVE  SumOf(amounts, SlotsOf(t, date)) \in Nat
<1>1. \A s \in SlotsOf(t, date) : amounts[s] \in Nat
    BY SlotsFinite DEF Amounts
<1>2. QED
    BY <1>1, SlotsFinite, SumTyped

(* Rows that are removed, and only those, become missing.                  *)
LEMMA RestrictedTyped ==
    ASSUME NEW table, DailyTyped(table), NEW K, K \subseteq DOMAIN table,
           NEW new, new = Restrict(table, K)
    PROVE  DailyTyped(new) /\ DOMAIN new = K /\ \A e \in K : new[e] = table[e]
<1>1. DOMAIN new = K /\ \A e \in K : new[e] = table[e]
    BY DEF Restrict
<1>2. IsFiniteSet(K)
    BY FS_Subset DEF DailyTyped
<1>3. QED
    BY <1>1, <1>2 DEF DailyTyped

LEMMA RemovalKeepsTable ==
    ASSUME Settings # {}, NEW t \in Dated, NEW table, DailyTyped(table),
           NEW amounts \in Amounts, NEW N, N \subseteq Slots,
           TableRight(t, table, amounts, N),
           NEW n \in Nat \ {0}, Retention(t) = n,
           NEW new, new = Restrict(table, DOMAIN table \ Older(table, n))
    PROVE  DailyTyped(new) /\ TableRight(t, new, amounts, N)
<1> DEFINE K == DOMAIN table \ Older(table, n)
<1>1. DailyTyped(new) /\ DOMAIN new = K /\ \A e \in K : new[e] = table[e]
    <2>1. K \subseteq DOMAIN table
        OBVIOUS
    <2> HIDE DEF K
    <2>2. new = Restrict(table, K)
        BY DEF K
    <2>3. QED
        BY <2>1, <2>2, RestrictedTyped
<1>2. Within(t, new, N)
    BY <1>1 DEF TableRight, Within
<1>3. Complete(t, new, amounts)
    BY <1>1 DEF TableRight, Complete
<1>4. \A s \in Slots : RowAt(t, s) \in Int
    BY RowAtOrder DEF Table
<1>5. \A s \in Missing(t, new, amounts) :
          s \in Slots /\ Cardinality({e \in DOMAIN table : e > RowAt(t, s)}) >= n
    <2>1. SUFFICES ASSUME NEW s \in Missing(t, new, amounts)
                   PROVE  Cardinality({e \in DOMAIN table : e > RowAt(t, s)}) >= n
        BY DEF Missing
    <2>2. CASE s \in Missing(t, table, amounts)
        BY <2>2 DEF TableRight, Newest
    <2>3. CASE RowAt(t, s) \in DOMAIN table
        <3>1. RowAt(t, s) \in Older(table, n)
            BY <1>1, <2>3 DEF Missing
        <3>2. QED
            BY <3>1 DEF Older
    <2>4. QED
        BY <2>2, <2>3 DEF Missing
<1>6. Newest(t, new, amounts)
    <2>1. SUFFICES ASSUME NEW s \in Missing(t, new, amounts)
                   PROVE  Cardinality({e \in DOMAIN new : e > RowAt(t, s)}) >= n
        BY DEF Newest
    <2> DEFINE d == RowAt(t, s)
    <2>2. d \in Int /\ Cardinality({e \in DOMAIN table : e > d}) >= n
        BY <1>4, <1>5
    <2> HIDE DEF d, K
    <2>3. K = DOMAIN table \ Older(table, n)
        BY DEF K
    <2>4. Cardinality({e \in K : e > d}) >= n
        BY <2>2, <2>3, NewerAreKept
    <2>5. QED
        BY <1>1, <2>4 DEF d
<1>7. OutOfReach(t, new, amounts, N)
    <2>1. SUFFICES ASSUME NEW s \in Missing(t, new, amounts), NEW m \in N
                   PROVE  RowAt(t, s) < RowAt(t, m)
        BY DEF OutOfReach
    <2> DEFINE later == {e \in DOMAIN table : e > RowAt(t, s)}
    <2>2. later # {}
        <3>1. Cardinality(later) >= n
            BY <1>5
        <3> HIDE DEF later
        <3>2. Cardinality({}) = 0
            BY FS_EmptySet
        <3>3. QED
            BY <3>1, <3>2
    <2>3. PICK e \in DOMAIN table : e > RowAt(t, s)
        BY <2>2
    <2>4. e <= RowAt(t, m)
        BY DEF TableRight, Within
    <2>5. e \in Int /\ RowAt(t, s) \in Int /\ RowAt(t, m) \in Int
        BY <1>4, <1>5 DEF DailyTyped
    <2>6. QED
        BY <2>3, <2>4, <2>5
<1>8. QED
    BY <1>1, <1>2, <1>3, <1>6, <1>7 DEF TableRight

LEMMA RemovalKeepsTop ==
    ASSUME Settings # {}, NEW table, DailyTyped(table),
           NEW amounts \in Amounts, NEW lates, NEW day \in Int, NEW today \in Int,
           day <= today, \A date \in DOMAIN table : date <= today,
           TopRight(table, amounts, lates, day),
           NEW n \in Nat \ {0}, Retention("top") = n,
           NEW new, new = Restrict(table, DOMAIN table \ Smaller(table, n, today))
    PROVE  /\ DailyTyped(new)
           /\ \A N : Within("top", table, N) => Within("top", new, N)
           /\ TopRight(new, amounts, lates, today)
<1> DEFINE K == DOMAIN table \ Smaller(table, n, today)
<1>1. DailyTyped(new) /\ DOMAIN new = K /\ \A e \in K : new[e] = table[e]
    <2>1. K \subseteq DOMAIN table
        OBVIOUS
    <2> HIDE DEF K
    <2>2. new = Restrict(table, K)
        BY DEF K
    <2>3. QED
        BY <2>1, <2>2, RestrictedTyped
<1>2. \A N : Within("top", table, N) => Within("top", new, N)
    BY <1>1 DEF Within
<1>3. TopComplete(new, amounts, lates)
    BY <1>1 DEF TopRight, TopComplete
<1>4. \A s \in Slots : RowAt("top", s) = Day(s) /\ Day(s) \in Int
    <2>1. \A s \in Slots : RowAt("top", s) \in Int
        BY RowAtOrder DEF Table
    <2>2. QED
        BY <2>1, TopRow
<1>5. \A s \in Missing("top", new, amounts) :
          \/ s \in Missing("top", table, amounts)
          \/ Day(s) \in Smaller(table, n, today)
    BY <1>1, <1>4 DEF Missing
<1>6. TopRemoved(new, amounts, today)
    <2>1. SUFFICES ASSUME NEW s \in Missing("top", new, amounts) PROVE Day(s) < today
        BY DEF TopRemoved
    <2>2. Day(s) \in Int
        BY <1>4 DEF Missing
    <2>3. CASE s \in Missing("top", table, amounts)
        <3>1. Day(s) < day
            BY <2>3 DEF TopRight, TopRemoved
        <3>2. QED
            BY <2>2, <3>1
    <2>4. CASE Day(s) \in Smaller(table, n, today)
        <3>1. Day(s) \in DOMAIN table /\ Day(s) # today
            BY <2>4 DEF Smaller
        <3>2. Day(s) <= today
            BY <3>1
        <3>3. QED
            BY <2>2, <3>1, <3>2
    <2>5. QED
        BY <1>5, <2>3, <2>4
<1>7. TopLargest(new, amounts, lates)
    <2>1. SUFFICES ASSUME NEW s \in Missing("top", new, amounts), Day(s) \notin lates
                   PROVE  Cardinality({e \in DOMAIN new :
                              new[e] >= SumOf(amounts, SlotsOf("top", Day(s)))}) >= n
        BY DEF TopLargest
    <2> DEFINE v == SumOf(amounts, SlotsOf("top", Day(s)))
    <2>2. v \in Int
        BY TotalTyped
    <2>3. Cardinality({e \in DOMAIN table : table[e] >= v}) >= n
        <3>1. CASE s \in Missing("top", table, amounts)
            BY <2>1, <3>1 DEF TopRight, TopLargest
        <3>2. CASE Day(s) \in Smaller(table, n, today)
            <4> DEFINE d == Day(s)
            <4>1. d \in DOMAIN table
                BY <3>2 DEF Smaller
            <4>2. table[d] = v
                BY <2>1, <4>1 DEF TopRight, TopComplete
            <4>3. d \in Smaller(table, n, today)
                BY <3>2
            <4> HIDE DEF d, v
            <4>4. Cardinality({e \in DOMAIN table : table[e] >= table[d]}) >= n
                BY <4>3, LargerThanRemoved
            <4>5. QED
                BY <4>2, <4>4
        <3>3. QED
            BY <1>5, <3>1, <3>2
    <2> HIDE DEF v, K
    <2>4. K = DOMAIN table \ Smaller(table, n, today)
        BY DEF K
    <2>5. Cardinality(AsLarge(table, DOMAIN table, v)) >= n
        BY <2>3 DEF AsLarge
    <2>6. Cardinality(AsLarge(table, K, v)) >= n
        BY <2>2, <2>4, <2>5, LargerAreKept
    <2>7. {e \in DOMAIN new : new[e] >= v} = AsLarge(table, K, v)
        BY <1>1 DEF AsLarge
    <2>8. QED
        BY <2>6, <2>7 DEF v
<1>8. QED
    BY <1>1, <1>2, <1>3, <1>6, <1>7 DEF TopRight

(* Nothing was stored in an empty table. *)
LEMMA EmptyIsRight ==
    /\ DailyTyped(NoRows)
    /\ \A t, N : TableRight(t, NoRows, Nothing, N)
    /\ \A lates, day : TopRight(NoRows, Nothing, lates, day)
<1>1. DOMAIN NoRows = {}
    BY DEF NoRows
<1>2. \A t : Missing(t, NoRows, Nothing) = {}
    BY DEF Missing, Nothing
<1> HIDE DEF NoRows, Nothing
<1>3. DailyTyped(NoRows)
    BY <1>1, FS_EmptySet DEF DailyTyped
<1>4. \A t, N : TableRight(t, NoRows, Nothing, N)
    BY <1>1, <1>2 DEF TableRight, Within, OutOfReach, Complete, Newest
<1>5. \A lates, day : TopRight(NoRows, Nothing, lates, day)
    BY <1>1, <1>2 DEF TopRight, TopComplete, TopRemoved, TopLargest
<1>6. QED
    BY <1>3, <1>4, <1>5

(* Slots that come later than others can be written to if those could.     *)
LEMMA LaterIsRight ==
    ASSUME Settings # {}, NEW t \in Table, NEW table, DailyTyped(table), NEW amounts,
           NEW N, N \subseteq Slots, TableRight(t, table, amounts, N),
           NEW M, M \subseteq Slots, \A m \in M : \E n \in N : n <= m
    PROVE  TableRight(t, table, amounts, M)
<1>1. \A m \in M : \E n \in N : /\ RowAt(t, n) \in Int /\ RowAt(t, m) \in Int
                                /\ RowAt(t, n) <= RowAt(t, m)
    BY RowAtOrder
<1>2. Within(t, table, M)
    <2>1. SUFFICES ASSUME NEW date \in DOMAIN table, NEW m \in M
                   PROVE  date <= RowAt(t, m)
        BY DEF Within
    <2>2. PICK n \in N : /\ RowAt(t, n) \in Int /\ RowAt(t, m) \in Int
                         /\ RowAt(t, n) <= RowAt(t, m)
        BY <1>1
    <2>3. date <= RowAt(t, n) /\ date \in Int
        BY DEF TableRight, Within, DailyTyped
    <2>4. QED
        BY <2>2, <2>3
<1>3. ASSUME t \in Dated PROVE OutOfReach(t, table, amounts, M)
    <2>1. SUFFICES ASSUME NEW s \in Missing(t, table, amounts), NEW m \in M
                   PROVE  RowAt(t, s) < RowAt(t, m)
        BY DEF OutOfReach
    <2>2. PICK n \in N : /\ RowAt(t, n) \in Int /\ RowAt(t, m) \in Int
                         /\ RowAt(t, n) <= RowAt(t, m)
        BY <1>1
    <2>3. RowAt(t, s) < RowAt(t, n) /\ RowAt(t, s) \in Int
        BY <1>3, RowAtOrder DEF TableRight, OutOfReach, Missing
    <2>4. QED
        BY <2>2, <2>3
<1>4. QED
    BY <1>2, <1>3 DEF TableRight

(* A table after a log was written to it, and what was stored then.        *)
Logged(entries) == /\ DOMAIN entries \subseteq Slots
                   /\ \A s \in DOMAIN entries : entries[s] \in Nat

Plus(amounts, entries) ==
    [s \in Slots |-> amounts[s] + IF s \in DOMAIN entries THEN entries[s] ELSE 0]

DatesOf(t, entries) == {RowAt(t, s) : s \in DOMAIN entries}

EntriesOf(t, entries, date) == {s \in DOMAIN entries : RowAt(t, s) = date}

WrittenTo(t, table, entries) ==
    [date \in DOMAIN table \cup DatesOf(t, entries) |->
        (IF date \in DOMAIN table THEN table[date] ELSE 0)
        + (IF date \in DatesOf(t, entries)
           THEN SumOf(entries, EntriesOf(t, entries, date)) ELSE 0)]

LEMMA PlusTyped ==
    ASSUME NEW amounts \in Amounts, NEW entries, Logged(entries)
    PROVE  Plus(amounts, entries) \in Amounts
BY DEF Plus, Logged, Amounts

LEMMA EntriesFinite ==
    ASSUME NEW entries, Logged(entries), NEW t, NEW date
    PROVE  /\ EntriesOf(t, entries, date) \subseteq SlotsOf(t, date)
           /\ IsFiniteSet(EntriesOf(t, entries, date))
           /\ SumOf(entries, EntriesOf(t, entries, date)) \in Nat
<1>1. EntriesOf(t, entries, date) \subseteq SlotsOf(t, date)
    BY DEF EntriesOf, SlotsOf, Logged
<1>2. IsFiniteSet(EntriesOf(t, entries, date))
    BY <1>1, SlotsFinite, FS_Subset
<1>3. \A s \in EntriesOf(t, entries, date) : entries[s] \in Nat
    BY DEF EntriesOf, Logged
<1>4. QED
    BY <1>1, <1>2, <1>3, SumTyped

LEMMA TotalPlus ==
    ASSUME NEW amounts \in Amounts, NEW entries, Logged(entries), NEW t, NEW date
    PROVE  SumOf(Plus(amounts, entries), SlotsOf(t, date)) =
           SumOf(amounts, SlotsOf(t, date)) + SumOf(entries, EntriesOf(t, entries, date))
<1> DEFINE added == [s \in Slots |-> IF s \in DOMAIN entries THEN entries[s] ELSE 0]
           all == SlotsOf(t, date)
           some == EntriesOf(t, entries, date)
           plus == Plus(amounts, entries)
<1>1. IsFiniteSet(all) /\ all \subseteq Slots /\ some \subseteq all /\ IsFiniteSet(some)
    BY SlotsFinite, EntriesFinite
<1>2. \A s \in Slots : /\ amounts[s] \in Nat /\ added[s] \in Nat
                       /\ plus[s] = amounts[s] + added[s]
    BY DEF Plus, Amounts, Logged
<1>3. \A s \in some : added[s] = entries[s]
    BY <1>1 DEF EntriesOf
<1>4. \A s \in all \ some : added[s] = 0
    BY DEF EntriesOf, SlotsOf
<1> HIDE DEF added, all, some, plus
<1>5. SumOf(plus, all) = SumOf(amounts, all) + SumOf(added, all)
    BY <1>1, <1>2, SumAdds
<1>6. SumOf(added, all) = SumOf(added, some)
    BY <1>1, <1>2, <1>4, SumOfSome
<1>7. SumOf(added, some) = SumOf(entries, some)
    BY <1>1, <1>3, SumEqual
<1>8. QED
    BY <1>5, <1>6, <1>7 DEF all, some, plus

LEMMA WrittenTyped ==
    ASSUME Settings # {}, NEW t \in Table, NEW table, DailyTyped(table),
           NEW entries, Logged(entries), NEW new, new = WrittenTo(t, table, entries)
    PROVE  /\ DailyTyped(new)
           /\ DOMAIN new = DOMAIN table \cup DatesOf(t, entries)
           /\ \A date \in DOMAIN table : new[date] >= table[date]
<1>1. DOMAIN new = DOMAIN table \cup DatesOf(t, entries)
    BY DEF WrittenTo
<1>2. IsFiniteSet(DatesOf(t, entries))
    <2>1. IsFiniteSet(DOMAIN entries)
        BY SlotsFinite, FS_Subset DEF Logged
    <2> DEFINE f == [s \in DOMAIN entries |-> RowAt(t, s)]
    <2>2. f \in Surjection(DOMAIN entries, DatesOf(t, entries))
        BY DEF Surjection, DatesOf
    <2> HIDE DEF f
    <2>3. QED
        BY <2>1, <2>2, FS_Surjection
<1>3. IsFiniteSet(DOMAIN new)
    BY <1>1, <1>2, FS_Union DEF DailyTyped
<1>4. \A date \in DatesOf(t, entries) : date \in Int
    BY RowAtOrder DEF DatesOf, Logged
<1>5. ASSUME NEW date \in DOMAIN new
      PROVE  new[date] \in Nat /\ (date \in DOMAIN table => new[date] >= table[date])
    <2> DEFINE a == IF date \in DOMAIN table THEN table[date] ELSE 0
               b == IF date \in DatesOf(t, entries)
                    THEN SumOf(entries, EntriesOf(t, entries, date)) ELSE 0
    <2>1. new[date] = a + b
        BY <1>1 DEF WrittenTo
    <2>2. a \in Nat /\ (date \in DOMAIN table => a = table[date])
        BY DEF DailyTyped
    <2>3. b \in Nat
        BY EntriesFinite
    <2> HIDE DEF a, b
    <2>4. QED
        BY <2>1, <2>2, <2>3
<1>6. QED
    BY <1>1, <1>3, <1>4, <1>5 DEF DailyTyped

(* A row that had all its traffic, or did not exist and has none, has all. *)
LEMMA WrittenTotal ==
    ASSUME NEW t \in Table, NEW table, DailyTyped(table),
           NEW amounts \in Amounts, NEW entries, Logged(entries),
           NEW new, new = WrittenTo(t, table, entries), NEW date \in DOMAIN new,
           IF date \in DOMAIN table THEN table[date] = SumOf(amounts, SlotsOf(t, date))
           ELSE SumOf(amounts, SlotsOf(t, date)) = 0
    PROVE  new[date] = SumOf(Plus(amounts, entries), SlotsOf(t, date))
<1> DEFINE a == IF date \in DOMAIN table THEN table[date] ELSE 0
           b == IF date \in DatesOf(t, entries)
                THEN SumOf(entries, EntriesOf(t, entries, date)) ELSE 0
           total == SumOf(entries, EntriesOf(t, entries, date))
<1>1. new[date] = a + b
    BY DEF WrittenTo
<1>2. a = SumOf(amounts, SlotsOf(t, date))
    OBVIOUS
<1>3. b = total
    <2>1. CASE date \in DatesOf(t, entries)
        BY <2>1
    <2>2. CASE date \notin DatesOf(t, entries)
        <3>1. EntriesOf(t, entries, date) = {}
            BY <2>2 DEF EntriesOf, DatesOf
        <3>2. total = 0
            BY <3>1, EmptySummed
        <3>3. QED
            BY <2>2, <3>2
    <2>3. QED
        BY <2>1, <2>2
<1> HIDE DEF a, b
<1>4. new[date] = SumOf(amounts, SlotsOf(t, date)) + total
    BY <1>1, <1>2, <1>3
<1>5. QED
    BY <1>4, TotalPlus

(* What has no row after the write has no entry in the log.                *)
LEMMA WrittenMissing ==
    ASSUME NEW t \in Table, NEW table,
           NEW amounts \in Amounts, NEW entries, Logged(entries),
           NEW new, DOMAIN new = DOMAIN table \cup DatesOf(t, entries),
           NEW s \in Missing(t, new, Plus(amounts, entries))
    PROVE  /\ s \in Missing(t, table, amounts)
           /\ SumOf(Plus(amounts, entries), SlotsOf(t, RowAt(t, s))) =
              SumOf(amounts, SlotsOf(t, RowAt(t, s)))
<1> DEFINE date == RowAt(t, s)
<1>1. s \in Slots /\ Plus(amounts, entries)[s] > 0 /\ date \notin DOMAIN new
    BY DEF Missing
<1>2. s \notin DOMAIN entries
    BY <1>1 DEF DatesOf
<1>3. amounts[s] > 0
    BY <1>1, <1>2 DEF Plus, Amounts
<1>4. s \in Missing(t, table, amounts)
    BY <1>1, <1>3 DEF Missing
<1>5. EntriesOf(t, entries, date) = {}
    BY <1>1 DEF DatesOf, EntriesOf
<1> HIDE DEF date
<1>6. SumOf(entries, EntriesOf(t, entries, date)) = 0
    BY <1>5, EmptySummed
<1>7. SumOf(Plus(amounts, entries), SlotsOf(t, date)) = SumOf(amounts, SlotsOf(t, date))
    BY <1>6, TotalPlus, TotalTyped
<1>8. QED
    BY <1>4, <1>7 DEF date

LEMMA RetentionTyped ==
    ASSUME NEW t \in Table
    PROVE  Retention(t) \in Int
<1>1. CASE \E c \in Settings : c.limit[t] # 0
    BY <1>1, RetentionIs, EntryLimit
<1>2. CASE \A c \in Settings : c.limit[t] = 0
    <2>1. {c \in Settings : c.limit[t] # 0} = {}
        BY <1>2
    <2>2. QED
        BY <2>1 DEF Retention
<1>3. QED
    BY <1>1, <1>2

LEMMA WriteKeepsTable ==
    ASSUME Settings # {}, NEW t \in Table, NEW table, DailyTyped(table),
           NEW amounts \in Amounts, NEW entries, Logged(entries),
           NEW N, N \subseteq Slots, DOMAIN entries \subseteq N,
           TableRight(t, table, amounts, N),
           NEW m \in N, \A s \in DOMAIN entries : s <= m,
           NEW new, new = WrittenTo(t, table, entries)
    PROVE  /\ DailyTyped(new)
           /\ TableRight(t, new, Plus(amounts, entries), {m})
<1>1. /\ DailyTyped(new)
      /\ DOMAIN new = DOMAIN table \cup DatesOf(t, entries)
      /\ \A date \in DOMAIN table : new[date] >= table[date]
    BY WrittenTyped
<1>2. Within(t, new, {m})
    <2>1. \A date \in DOMAIN table : date <= RowAt(t, m)
        BY DEF TableRight, Within
    <2>2. \A date \in DatesOf(t, entries) : date <= RowAt(t, m)
        BY RowAtOrder DEF DatesOf, Logged
    <2>3. QED
        BY <1>1, <2>1, <2>2 DEF Within
<1>3. \A s \in Missing(t, new, Plus(amounts, entries)) : s \in Missing(t, table, amounts)
    BY <1>1, WrittenMissing
<1>4. ASSUME t \in Dated PROVE OutOfReach(t, new, Plus(amounts, entries), {m})
    BY <1>3, <1>4 DEF TableRight, OutOfReach
<1>5. ASSUME t \in Dated PROVE Complete(t, new, Plus(amounts, entries))
    <2>1. SUFFICES ASSUME NEW date \in DOMAIN new
                   PROVE  new[date] = SumOf(Plus(amounts, entries), SlotsOf(t, date))
        BY DEF Complete
    <2>2. CASE date \in DOMAIN table
        <3>1. table[date] = SumOf(amounts, SlotsOf(t, date))
            BY <1>5, <2>2 DEF TableRight, Complete
        <3>2. QED
            BY <2>2, <3>1, WrittenTotal
    <2>3. CASE date \notin DOMAIN table
        <3>1. PICK s \in DOMAIN entries : date = RowAt(t, s)
            BY <1>1, <2>3 DEF DatesOf
        <3>2. s \in N /\ s \in Slots /\ date \in Int
            BY <3>1, RowAtOrder
        <3>3. ASSUME NEW x \in SlotsOf(t, date), amounts[x] # 0 PROVE FALSE
            <4>1. x \in Missing(t, table, amounts)
                BY <2>3, <3>3 DEF SlotsOf, Missing, Amounts
            <4>2. RowAt(t, x) < RowAt(t, s)
                BY <1>5, <3>2, <4>1 DEF TableRight, OutOfReach
            <4>3. RowAt(t, x) = date
                BY DEF SlotsOf
            <4>4. QED
                BY <3>1, <3>2, <4>2, <4>3
        <3>4. SumOf(amounts, SlotsOf(t, date)) = 0
            BY <3>3, SlotsFinite, SumOfNothing
        <3>5. QED
            BY <2>3, <3>4, WrittenTotal
    <2>4. QED
        BY <2>2, <2>3
<1>6. ASSUME t \in Dated PROVE Newest(t, new, Plus(amounts, entries))
    <2>1. SUFFICES ASSUME NEW s \in Missing(t, new, Plus(amounts, entries))
                   PROVE  /\ Retention(t) > 0
                          /\ Cardinality({e \in DOMAIN new : e > RowAt(t, s)})
                                >= Retention(t)
        BY DEF Newest
    <2> DEFINE old == {e \in DOMAIN table : e > RowAt(t, s)}
               grown == {e \in DOMAIN new : e > RowAt(t, s)}
    <2>2. Retention(t) > 0 /\ Cardinality(old) >= Retention(t)
        BY <1>3, <1>6 DEF TableRight, Newest
    <2>3. old \subseteq grown /\ IsFiniteSet(grown)
        BY <1>1, FS_Subset DEF DailyTyped
    <2> HIDE DEF old, grown
    <2>4. Cardinality(old) <= Cardinality(grown)
        BY <2>3, FS_Subset
    <2>5. Cardinality(old) \in Nat /\ Cardinality(grown) \in Nat /\ Retention(t) \in Int
        BY <2>3, FS_Subset, FS_CardinalityType, RetentionTyped DEF Table
    <2>6. QED
        BY <2>2, <2>4, <2>5 DEF grown
<1>7. QED
    BY <1>1, <1>2, <1>4, <1>5, <1>6 DEF TableRight

LEMMA WriteKeepsTop ==
    ASSUME Settings # {}, NEW table, DailyTyped(table),
           NEW amounts \in Amounts, NEW entries, Logged(entries),
           NEW lates, NEW day \in Int, TopRight(table, amounts, lates, day),
           NEW more, \A s \in DOMAIN entries : Day(s) < day => Day(s) \in more,
           NEW new, new = WrittenTo("top", table, entries)
    PROVE  TopRight(new, Plus(amounts, entries), lates \cup more, day)
<1> DEFINE t == "top"
<1>1. /\ DailyTyped(new)
      /\ DOMAIN new = DOMAIN table \cup DatesOf(t, entries)
      /\ \A date \in DOMAIN table : new[date] >= table[date]
    BY WrittenTyped DEF Table
<1>2. \A s \in Missing(t, new, Plus(amounts, entries)) :
         /\ s \in Missing(t, table, amounts)
         /\ SumOf(Plus(amounts, entries), SlotsOf(t, RowAt(t, s))) =
            SumOf(amounts, SlotsOf(t, RowAt(t, s)))
    BY <1>1, WrittenMissing DEF Table
<1>3. \A s \in Slots : RowAt(t, s) = Day(s) /\ Day(s) \in Int
    <2>1. \A s \in Slots : RowAt(t, s) \in Int
        BY RowAtOrder DEF Table
    <2>2. QED
        BY <2>1, TopRow
<1>4. TopRemoved(new, Plus(amounts, entries), day)
    BY <1>2 DEF TopRight, TopRemoved
<1>5. TopComplete(new, Plus(amounts, entries), lates \cup more)
    <2>1. SUFFICES ASSUME NEW date \in DOMAIN new, date \notin lates, date \notin more
                   PROVE  new[date] = SumOf(Plus(amounts, entries), SlotsOf(t, date))
        BY DEF TopComplete
    <2>2. CASE date \in DOMAIN table
        <3>1. table[date] = SumOf(amounts, SlotsOf(t, date))
            BY <2>1, <2>2 DEF TopRight, TopComplete
        <3>2. QED
            BY <2>2, <3>1, WrittenTotal DEF Table
    <2>3. CASE date \notin DOMAIN table
        <3>1. PICK s \in DOMAIN entries : date = RowAt(t, s)
            BY <1>1, <2>3 DEF DatesOf
        <3>2. date = Day(s) /\ date \in Int /\ ~(date < day)
            BY <1>3, <2>1, <3>1 DEF Logged
        <3>3. ASSUME NEW x \in SlotsOf(t, date), amounts[x] # 0 PROVE FALSE
            <4>1. x \in Missing(t, table, amounts)
                BY <2>3, <3>3 DEF SlotsOf, Missing, Amounts
            <4>2. Day(x) < day
                BY <4>1 DEF TopRight, TopRemoved
            <4>3. Day(x) = date
                BY <1>3 DEF SlotsOf
            <4>4. QED
                BY <3>2, <4>2, <4>3
        <3>4. SumOf(amounts, SlotsOf(t, date)) = 0
            BY <3>3, SlotsFinite, SumOfNothing
        <3>5. QED
            BY <2>3, <3>4, WrittenTotal DEF Table
    <2>4. QED
        BY <2>2, <2>3
<1>6. TopLargest(new, Plus(amounts, entries), lates \cup more)
    <2>1. SUFFICES ASSUME NEW s \in Missing(t, new, Plus(amounts, entries)),
                          Day(s) \notin lates
                   PROVE  /\ Retention(t) > 0
                          /\ Cardinality({e \in DOMAIN new : new[e] >=
                                SumOf(Plus(amounts, entries), SlotsOf(t, Day(s)))})
                                >= Retention(t)
        BY DEF TopLargest
    <2> DEFINE v == SumOf(amounts, SlotsOf(t, Day(s)))
    <2>2. s \in Missing(t, table, amounts) /\ Day(s) = RowAt(t, s)
        BY <1>2, <1>3 DEF Missing
    <2>3. SumOf(Plus(amounts, entries), SlotsOf(t, Day(s))) = v
        BY <1>2, <2>2
    <2>4. Retention(t) > 0 /\ Cardinality(AsLarge(table, DOMAIN table, v)) >= Retention(t)
        BY <2>1, <2>2 DEF TopRight, TopLargest, AsLarge
    <2>5. v \in Nat
        BY TotalTyped
    <2> HIDE DEF v
    <2>6. AsLarge(table, DOMAIN table, v) \subseteq AsLarge(new, DOMAIN new, v)
        BY <1>1, <2>5 DEF AsLarge, DailyTyped
    <2>7. IsFiniteSet(AsLarge(new, DOMAIN new, v))
        BY <1>1, FS_Subset DEF AsLarge, DailyTyped
    <2> DEFINE a == Cardinality(AsLarge(table, DOMAIN table, v))
               b == Cardinality(AsLarge(new, DOMAIN new, v))
    <2>8. a <= b /\ a \in Nat /\ b \in Nat /\ Retention(t) \in Int
        BY <2>6, <2>7, FS_Subset, FS_CardinalityType, RetentionTyped DEF Table
    <2>9. Retention(t) > 0 /\ b >= Retention(t)
        <3>1. a >= Retention(t)
            BY <2>4
        <3> HIDE DEF a, b
        <3>2. QED
            BY <2>4, <2>8, <3>1
    <2>10. QED
        BY <2>3, <2>9 DEF AsLarge
<1>7. QED
    BY <1>4, <1>5, <1>6 DEF TopRight

(***************************************************************************)
(* What the statements do to the database.                                 *)
(***************************************************************************)
LEMMA PendingTyped ==
    ASSUME DInv, NEW i \in Iface
    PROVE  /\ Pending(i) \subseteq Slots /\ updated[i] \in Pending(i)
           /\ \A s \in Pending(i) : s <= now
<1>1. DOMAIN log[i] \subseteq Slots /\ updated[i] \in Slots /\ cacheupdated[i] \in Slots
    BY DEF DInv, MemoryTyped, RowsTyped
<1>2. /\ updated[i] <= now /\ cacheupdated[i] <= now /\ now \in Slots
      /\ \A s \in DOMAIN log[i] : s <= cacheupdated[i]
    BY DEF DInv, Times
<1>3. ASSUME NEW s \in DOMAIN log[i] PROVE s <= now
    <2>1. Slots \subseteq Nat
        BY SlotsFinite
    <2>2. s \in Nat /\ cacheupdated[i] \in Nat /\ now \in Nat
        BY <1>1, <1>2, <2>1
    <2>3. s <= cacheupdated[i] /\ cacheupdated[i] <= now
        BY <1>2
    <2>4. QED
        BY <2>2, <2>3
<1>4. QED
    BY <1>1, <1>2, <1>3 DEF Pending

LEMMA TopOnlyWithin ==
    ASSUME NEW table, NEW amounts, NEW N
    PROVE  TableRight("top", table, amounts, N) <=> Within("top", table, N)
BY DEF TableRight, Dated

LEMMA TopLater ==
    ASSUME NEW table, NEW amounts, NEW lates, NEW day \in Int, NEW today \in Int,
           day <= today, Settings # {}, TopRight(table, amounts, lates, day)
    PROVE  TopRight(table, amounts, lates, today)
<1>1. \A s \in Slots : Day(s) \in Int
    <2>1. \A s \in Slots : RowAt("top", s) \in Int
        BY RowAtOrder DEF Table
    <2>2. QED
        BY <2>1, TopRow
<1>2. TopRemoved(table, amounts, today)
    <2>1. SUFFICES ASSUME NEW s \in Missing("top", table, amounts) PROVE Day(s) < today
        BY DEF TopRemoved
    <2>2. Day(s) < day /\ Day(s) \in Int
        BY <1>1 DEF TopRight, TopRemoved, Missing
    <2>3. QED
        BY <2>2
<1>3. QED
    BY <1>2 DEF TopRight

LEMMA DayNow ==
    ASSUME DInv
    PROVE  /\ Settings # {} /\ Day(now) \in Int
           /\ \A i \in Iface : \A date \in DOMAIN rows["top"][i] : date <= Day(now)
<1>1. Settings # {} /\ now \in Slots
    BY DEF DInv, MemoryTyped, Times
<1>2. \A s \in Slots : Day(s) = RowAt("top", s)
    BY TopRow
<1>3. Day(now) \in Int /\ \A s \in Slots : s <= now => Day(s) <= Day(now) /\ Day(s) \in Int
    BY <1>1, <1>2, RowAtOrder DEF Table
<1>4. ASSUME NEW i \in Iface, NEW date \in DOMAIN rows["top"][i] PROVE date <= Day(now)
    <2>1. updated[i] \in Pending(i) /\ updated[i] \in Slots /\ updated[i] <= now
        BY PendingTyped
    <2>2. Within("top", rows["top"][i], Pending(i)) /\ date \in Int
        BY DEF DInv, TablesRight, TableRight, RowsTyped, DailyTyped, Table
    <2>3. date <= Day(updated[i])
        BY <1>2, <2>1, <2>2 DEF Within
    <2>4. QED
        BY <1>3, <2>1, <2>2, <2>3
<1>5. QED
    BY <1>1, <1>3, <1>4

LEMMA PrunedRight ==
    ASSUME DInv, NEW t \in Table, NEW i \in Iface,
           NEW new, new = Pruned(t, rows[t][i])
    PROVE  /\ DailyTyped(new)
           /\ TableRight(t, new, stored[t][i], Pending(i))
           /\ t = "top" => TopRight(new, stored[t][i], Late(i), Day(now))
           /\ cfg.limit[t] = 0 => new = rows[t][i]
<1> DEFINE table == rows[t][i]
           amounts == stored[t][i]
           N == Pending(i)
           n == entrylimits(cfg, t)
           today == Day(now)
<1>1. /\ DailyTyped(table) /\ amounts \in Amounts /\ N \subseteq Slots
      /\ TableRight(t, table, amounts, N)
    BY PendingTyped DEF DInv, RowsTyped, TablesRight, Amounts
<1>2. t = "top" => TopRight(table, amounts, Late(i), removedday)
    BY DEF DInv, TopsRight
<1>3. /\ Settings # {} /\ cfg \in Settings /\ today \in Int
      /\ removedday \in Int /\ removedday <= today
    BY DayNow DEF DInv, MemoryTyped, Times
<1>4. n \in Int /\ (cfg.limit[t] = 0 => n = 0)
    BY <1>3, EntryLimit
<1>5. t = "top" => \A date \in DOMAIN table : date <= today
    BY DayNow
<1>6. CASE n <= 0
    <2>1. new = table
        BY <1>6 DEF Pruned
    <2>2. t = "top" => TopRight(table, amounts, Late(i), today)
        <3> HIDE DEF table, amounts, today, n
        <3>1. QED
            BY <1>2, <1>3, TopLater
    <2>3. QED
        BY <1>1, <2>1, <2>2
<1>7. CASE n > 0
    <2>1. n \in Nat \ {0} /\ cfg.limit[t] # 0
        BY <1>4, <1>7
    <2>2. Retention(t) = n
        BY <1>3, <2>1, RetentionIs
    <2>3. new = Restrict(table, DOMAIN table \ IF t = "top" THEN Smaller(table, n, today)
                                               ELSE Older(table, n))
        BY <1>4, <1>7 DEF Pruned
    <2> HIDE DEF table, amounts, N, n, today
    <2>4. CASE t = "top"
        <3>1. new = Restrict(table, DOMAIN table \ Smaller(table, n, today))
            BY <2>3, <2>4
        <3>2. Within("top", table, N) /\ TopRight(table, amounts, Late(i), removedday)
            BY <1>1, <1>2, <2>4, TopOnlyWithin
        <3>3. /\ DailyTyped(new) /\ Within("top", new, N)
              /\ TopRight(new, amounts, Late(i), today)
            BY <1>1, <1>3, <1>5, <2>1, <2>2, <2>4, <3>1, <3>2, RemovalKeepsTop
        <3>4. QED
            BY <2>1, <2>4, <3>3, TopOnlyWithin DEF table, amounts, N, n, today
    <2>5. CASE t # "top"
        <3>1. t \in Dated
            BY <2>5 DEF Table
        <3>2. new = Restrict(table, DOMAIN table \ Older(table, n))
            BY <2>3, <2>5
        <3>3. DailyTyped(new) /\ TableRight(t, new, amounts, N)
            BY <1>1, <1>3, <2>1, <2>2, <3>1, <3>2, RemovalKeepsTable
        <3>4. QED
            BY <2>1, <2>5, <3>3 DEF table, amounts, N, n, today
    <2>6. QED
        BY <2>4, <2>5
<1>8. QED
    BY <1>4, <1>6, <1>7

(* A statement keeps the database right, for the slots that could be       *)
(* written to before it.                                                   *)
DatabaseRight ==
    /\ RowsTyped' /\ OnlyOfKnown'
    /\ \A t \in Table, i \in Iface :
          TableRight(t, rows'[t][i], stored'[t][i], Pending(i))
    /\ \A i \in Iface :
          TopRight(rows'["top"][i], stored'["top"][i], Late(i)', removedday')

LEMMA RemovalRight ==
    ASSUME DInv, db_removeoldentries
    PROVE  /\ DatabaseRight
           /\ \A t \in Table, i \in Iface :
                 cfg.limit[t] = 0 => rows'[t][i] = rows[t][i]
<1> DEFINE new(t, i) == IF i \in known THEN Pruned(t, rows[t][i]) ELSE rows[t][i]
<1>1. /\ rows' = [t \in Table |-> [i \in Iface |-> new(t, i)]]
      /\ removedday' = Day(now) /\ UNCHANGED <<known, updated, stored, late>>
    BY DEF db_removeoldentries
<1>2. ASSUME NEW t \in Table, NEW i \in Iface
      PROVE  /\ DailyTyped(rows'[t][i])
             /\ TableRight(t, rows'[t][i], stored[t][i], Pending(i))
             /\ t = "top" => TopRight(rows'[t][i], stored[t][i], Late(i), Day(now))
             /\ cfg.limit[t] = 0 => rows'[t][i] = rows[t][i]
             /\ i \notin known => rows'[t][i] = NoRows
    <2>1. CASE i \in known
        <3>1. rows'[t][i] = Pruned(t, rows[t][i])
            BY <1>1, <2>1
        <3>2. QED
            BY <2>1, <3>1, PrunedRight
    <2>2. CASE i \notin known
        <3>1. rows'[t][i] = NoRows /\ rows[t][i] = NoRows /\ stored[t][i] = Nothing
            BY <1>1, <2>2 DEF DInv, OnlyOfKnown
        <3>2. QED
            BY <3>1, EmptyIsRight
    <2>3. QED
        BY <2>1, <2>2
<1>3. DOMAIN rows' = Table /\ \A t \in Table : DOMAIN rows'[t] = Iface
    BY <1>1
<1> HIDE DEF new
<1>4. RowsTyped'
    BY <1>1, <1>2, <1>3 DEF DInv, RowsTyped
<1>5. OnlyOfKnown'
    BY <1>1, <1>2 DEF DInv, OnlyOfKnown
<1>6. \A i \in Iface : Late(i)' = Late(i)
    BY <1>1 DEF Late
<1>7. \A i \in Iface : TopRight(rows'["top"][i], stored'["top"][i], Late(i)', removedday')
    BY <1>1, <1>2, <1>6 DEF Table
<1>8. QED
    BY <1>1, <1>2, <1>4, <1>5, <1>7 DEF DatabaseRight

LEMMA WipeRight ==
    ASSUME DInv, NEW c, db_removedisabledresolutionentries(c)
    PROVE  /\ DatabaseRight
           /\ \A t \in Table, i \in Iface : c.limit[t] = 0 => rows'[t][i] = NoRows
<1>1. UNCHANGED <<known, updated, removedday, late>>
    BY DEF db_removedisabledresolutionentries
<1>2. /\ rows' = [t \in Table |-> IF Wiped(c, t) THEN [i \in Iface |-> NoRows] ELSE rows[t]]
      /\ stored' = [t \in Table |-> IF Wiped(c, t) THEN [i \in Iface |-> Nothing]
                                    ELSE stored[t]]
    BY DEF db_removedisabledresolutionentries
<1>3. ASSUME NEW t \in Table, NEW i \in Iface
      PROVE  /\ DailyTyped(rows'[t][i])
             /\ TableRight(t, rows'[t][i], stored'[t][i], Pending(i))
             /\ t = "top" => TopRight(rows'[t][i], stored'[t][i], Late(i), removedday)
             /\ c.limit[t] = 0 => rows'[t][i] = NoRows
             /\ i \notin known => rows'[t][i] = NoRows /\ stored'[t][i] = Nothing
    <2>1. CASE Wiped(c, t)
        <3>1. rows'[t][i] = NoRows /\ stored'[t][i] = Nothing
            BY <1>2, <2>1
        <3>2. QED
            BY <3>1, EmptyIsRight
    <2>2. CASE ~Wiped(c, t)
        <3>1. rows'[t][i] = rows[t][i] /\ stored'[t][i] = stored[t][i] /\ c.limit[t] # 0
            BY <1>2, <2>2 DEF Wiped
        <3>2. QED
            BY <3>1 DEF DInv, RowsTyped, TablesRight, TopsRight, OnlyOfKnown
    <2>3. QED
        BY <2>1, <2>2
<1>4. /\ DOMAIN rows' = Table /\ \A t \in Table : DOMAIN rows'[t] = Iface
      /\ stored' \in [Table -> [Iface -> Amounts]]
    <2>1. Nothing \in Amounts
        BY DEF Nothing, Amounts
    <2>2. \A t \in Table : DOMAIN rows[t] = Iface /\ stored[t] \in [Iface -> Amounts]
        BY DEF DInv, RowsTyped, Amounts
    <2> HIDE DEF Nothing, NoRows, Amounts
    <2>3. QED
        BY <1>2, <2>1, <2>2
<1>5. RowsTyped'
    BY <1>1, <1>3, <1>4 DEF DInv, RowsTyped, Amounts
<1>6. OnlyOfKnown'
    BY <1>1, <1>3 DEF DInv, OnlyOfKnown
<1>7. \A i \in Iface : TopRight(rows'["top"][i], stored'["top"][i], Late(i)', removedday')
    BY <1>1, <1>3 DEF Table, Late
<1>8. QED
    BY <1>3, <1>5, <1>6, <1>7 DEF DatabaseRight

(* What remains to be written after a flush is what is logged next.        *)
LEMMA WrittenIs ==
    ASSUME cfg \in Settings, NEW t, NEW table, NEW entries
    PROVE  db_addtraffic_dated(t, table, entries) = WrittenTo(t, table, entries)
<1>1. \A s : RowOf(t, s) = RowAt(t, s)
    BY OneRotation DEF RowOf
<1>2. {RowOf(t, s) : s \in DOMAIN entries} = DatesOf(t, entries)
    BY <1>1 DEF DatesOf
<1>3. \A date : {s \in DOMAIN entries : RowOf(t, s) = date} = EntriesOf(t, entries, date)
    BY <1>1 DEF EntriesOf
<1>4. QED
    BY <1>2, <1>3 DEF db_addtraffic_dated, WrittenTo

LEMMA FlushRight ==
    ASSUME DInv, flushcachetodisk, UNCHANGED <<now, cache, cacheupdated>>
    PROVE  /\ RowsTyped' /\ OnlyOfKnown'
           /\ \A t \in Table, i \in Iface :
                 TableRight(t, rows'[t][i], stored'[t][i], Pending(i)')
           /\ \A i \in Iface :
                 TopRight(rows'["top"][i], stored'["top"][i], Late(i)', removedday')
           /\ \A t \in Table, i \in Iface :
                 cfg.limit[t] = 0 => rows'[t][i] = rows[t][i]
           /\ known' = known /\ removedday' = removedday
           /\ \A i \in Iface : updated'[i] \in {updated[i], cacheupdated[i]}
           /\ DOMAIN log' = Iface
           /\ \A i \in Iface : log'[i] = log[i] \/ log'[i] = NoRows
<1>1. CASE UNCHANGED <<dbvars, log, history>>
    <2>1. UNCHANGED <<known, rows, updated, log, stored, removedday, late>>
        BY <1>1 DEF dbvars, history
    <2>2. RowsTyped' /\ OnlyOfKnown'
        BY <2>1 DEF DInv, RowsTyped, OnlyOfKnown
    <2>3. \A i \in Iface : Pending(i)' = Pending(i) /\ Late(i)' = Late(i)
        BY <2>1 DEF Pending, Late
    <2>4. DOMAIN log' = Iface
        BY <2>1 DEF DInv, MemoryTyped
    <2>5. QED
        BY <2>1, <2>2, <2>3, <2>4 DEF DInv, TablesRight, TopsRight
<1>2. CASE SaveWorks
    <2>1. /\ rows' = [t \in Table |-> [i \in Iface |->
                  IF i \in Written /\ Enabled(t)
                  THEN db_addtraffic_dated(t, rows[t][i], log[i]) ELSE rows[t][i]]]
          /\ stored' = [t \in Table |-> [i \in Iface |-> [s \in Slots |->
                  stored[t][i][s] + StoredIn(t, i, s)]]]
          /\ late' = late \cup {<<x[1], Day(x[2])>> : x \in
                  {x \in Iface \X Slots : /\ x[1] \in Written /\ Enabled("top")
                                          /\ x[2] \in DOMAIN log[x[1]]
                                          /\ Day(x[2]) < removedday}}
          /\ updated' = [i \in Iface |-> IF i \in Written THEN cacheupdated[i]
                                      ELSE updated[i]]
          /\ log' = [i \in Iface |-> NoRows]
          /\ UNCHANGED <<known, removedday>>
        BY <1>2 DEF SaveWorks
    <2> DEFINE upd(i) == IF i \in Written THEN cacheupdated[i] ELSE updated[i]
    <2>2. ASSUME NEW i \in Iface
          PROVE  /\ Pending(i)' = {upd(i)} \cup (IF i \in cache THEN {cacheupdated[i]} ELSE {})
                 /\ Pending(i)' \subseteq Pending(i)
                 /\ i \in Written => Pending(i)' = {cacheupdated[i]}
        <3>1. log'[i] = NoRows /\ DOMAIN log'[i] = {} /\ updated'[i] = upd(i)
            BY <2>1 DEF NoRows
        <3>2. QED
            BY <3>1 DEF Pending, Written
    <2>3. Settings # {} /\ cfg \in Settings
        BY DEF DInv, MemoryTyped
    <2>4. ASSUME NEW t \in Table, NEW i \in Iface
          PROVE  /\ DailyTyped(rows[t][i]) /\ stored[t][i] \in Amounts
                 /\ Pending(i) \subseteq Slots /\ DOMAIN log[i] \subseteq Pending(i)
                 /\ TableRight(t, rows[t][i], stored[t][i], Pending(i))
                 /\ t = "top" => TopRight(rows[t][i], stored[t][i], Late(i), removedday)
                 /\ Logged(log[i]) /\ \A s \in DOMAIN log[i] : s <= cacheupdated[i]
        <3>1. DOMAIN log[i] \subseteq Pending(i) /\ Pending(i) \subseteq Slots
            BY PendingTyped DEF Pending
        <3>2. Logged(log[i]) /\ \A s \in DOMAIN log[i] : s <= cacheupdated[i]
            BY DEF DInv, MemoryTyped, Logged, Times
        <3>3. QED
            BY <3>1, <3>2 DEF DInv, RowsTyped, Amounts, TablesRight, TopsRight
    <2>5. ASSUME NEW t \in Table, NEW i \in Iface, i \in Written, Enabled(t)
          PROVE  /\ rows'[t][i] = WrittenTo(t, rows[t][i], log[i])
                 /\ stored'[t][i] = Plus(stored[t][i], log[i])
        <3>1. rows'[t][i] = db_addtraffic_dated(t, rows[t][i], log[i])
            BY <2>1, <2>5
        <3>2. stored'[t][i] = [s \in Slots |-> stored[t][i][s] + StoredIn(t, i, s)]
            BY <2>1
        <3>3. \A s \in Slots : StoredIn(t, i, s) = IF s \in DOMAIN log[i] THEN log[i][s] ELSE 0
            BY <2>5 DEF StoredIn
        <3>4. QED
            BY <2>3, <3>1, <3>2, <3>3, WrittenIs DEF Plus
    <2>6. ASSUME NEW t \in Table, NEW i \in Iface, ~(i \in Written /\ Enabled(t))
          PROVE  rows'[t][i] = rows[t][i] /\ stored'[t][i] = stored[t][i]
        <3>1. rows'[t][i] = rows[t][i]
            BY <2>1, <2>6
        <3>2. stored'[t][i] = [s \in Slots |-> stored[t][i][s] + StoredIn(t, i, s)]
            BY <2>1
        <3>3. \A s \in Slots : StoredIn(t, i, s) = 0
            BY <2>6 DEF StoredIn
        <3>4. stored[t][i] = [s \in Slots |-> stored[t][i][s]]
              /\ \A s \in Slots : stored[t][i][s] \in Nat
            BY <2>4 DEF Amounts
        <3>5. stored'[t][i] = [s \in Slots |-> stored[t][i][s]]
            BY <3>2, <3>3, <3>4
        <3>6. QED
            BY <3>1, <3>4, <3>5
    <2>7. ASSUME NEW t \in Table, NEW i \in Iface
          PROVE  /\ DailyTyped(rows'[t][i]) /\ stored'[t][i] \in Amounts
                 /\ TableRight(t, rows'[t][i], stored'[t][i], Pending(i)')
        <3> DEFINE M == Pending(i)'
        <3>1. M \subseteq Pending(i)
            BY <2>2
        <3>2. CASE i \in Written /\ Enabled(t)
            <4>1. M = {cacheupdated[i]} /\ cacheupdated[i] \in Pending(i)
                BY <2>2, <3>2 DEF Pending, Written
            <4> DEFINE table == rows[t][i]
                       amounts == stored[t][i]
                       entries == log[i]
                       new == rows'[t][i]
                       N == Pending(i)
                       m == cacheupdated[i]
            <4>2. /\ DailyTyped(table) /\ amounts \in Amounts /\ Logged(entries)
                  /\ N \subseteq Slots /\ DOMAIN entries \subseteq N
                  /\ TableRight(t, table, amounts, N)
                  /\ m \in N /\ \A s \in DOMAIN entries : s <= m
                  /\ new = WrittenTo(t, table, entries)
                BY <2>4, <2>5, <3>2, <4>1
            <4> HIDE DEF M, table, amounts, entries, new, N, m
            <4>3. DailyTyped(new) /\ TableRight(t, new, Plus(amounts, entries), {m})
                BY <2>3, <4>2, WriteKeepsTable
            <4>4. Plus(amounts, entries) \in Amounts
                BY <4>2, PlusTyped
            <4>5. QED
                BY <2>5, <3>2, <4>1, <4>3, <4>4 DEF M, amounts, entries, new, m
        <3>3. CASE ~(i \in Written /\ Enabled(t))
            <4>1. M \subseteq Slots /\ \A m \in M : \E n \in Pending(i) : n <= m
                <5>1. Pending(i) \subseteq Slots /\ Slots \subseteq Nat
                    BY <2>4, SlotsFinite
                <5> HIDE DEF M
                <5>2. M \subseteq Slots
                    BY <3>1, <5>1
                <5>3. ASSUME NEW m \in M PROVE \E n \in Pending(i) : n <= m
                    <6>1. m \in Nat /\ m \in Pending(i)
                        BY <3>1, <5>1
                    <6>2. m <= m
                        BY <6>1
                    <6>3. QED
                        BY <6>1, <6>2
                <5>4. QED
                    BY <5>2, <5>3
            <4> DEFINE table == rows[t][i]
                       amounts == stored[t][i]
                       N == Pending(i)
            <4>2. DailyTyped(table) /\ N \subseteq Slots /\ TableRight(t, table, amounts, N)
                BY <2>4
            <4>3. M \subseteq Slots /\ \A m \in M : \E n \in N : n <= m
                BY <4>1
            <4> HIDE DEF M, table, amounts, N
            <4>4. TableRight(t, table, amounts, M)
                BY <2>3, <4>2, <4>3, LaterIsRight
            <4>5. QED
                BY <2>4, <2>6, <3>3, <4>4 DEF M, table, amounts
        <3>4. QED
            BY <3>2, <3>3
    <2>8. ASSUME NEW i \in Iface
          PROVE  TopRight(rows'["top"][i], stored'["top"][i], Late(i)', removedday')
        <3>1. removedday' = removedday /\ removedday \in Int /\ "top" \in Table
            BY <2>1 DEF DInv, Times, Table
        <3>2. CASE i \in Written /\ Enabled("top")
            <4> DEFINE more == {Day(s) : s \in {s \in DOMAIN log[i] : Day(s) < removedday}}
            <4>1. Late(i)' = Late(i) \cup more
                <5>1. DOMAIN log[i] \subseteq Slots
                    BY <2>4, <3>1 DEF Logged
                <5>2. \A day : <<i, day>> \in late' <=> <<i, day>> \in late \/ day \in more
                    <6>1. ASSUME NEW day, <<i, day>> \in late', <<i, day>> \notin late
                          PROVE  day \in more
                        <7>1. PICK x \in Iface \X Slots :
                                   /\ x[2] \in DOMAIN log[x[1]] /\ Day(x[2]) < removedday
                                   /\ <<i, day>> = <<x[1], Day(x[2])>>
                            BY <2>1, <6>1
                        <7>2. QED
                            BY <7>1
                    <6>2. ASSUME NEW s \in DOMAIN log[i], Day(s) < removedday
                          PROVE  <<i, Day(s)>> \in late'
                        <7> DEFINE x == <<i, s>>
                        <7>1. x \in Iface \X Slots /\ x[1] = i /\ x[2] = s
                            BY <5>1
                        <7>2. QED
                            BY <2>1, <3>2, <6>2, <7>1
                    <6>3. late \subseteq late'
                        BY <2>1
                    <6>4. QED
                        BY <6>1, <6>2, <6>3
                <5>3. more \subseteq {Day(s) : s \in Slots}
                    BY <5>1
                <5> HIDE DEF more
                <5>4. QED
                    BY <5>2, <5>3 DEF Late
            <4>2. \A s \in DOMAIN log[i] : Day(s) < removedday => Day(s) \in more
                OBVIOUS
            <4> HIDE DEF more
            <4>3. TopRight(rows'["top"][i], Plus(stored["top"][i], log[i]),
                           Late(i) \cup more, removedday)
                BY <2>3, <2>4, <2>5, <3>1, <3>2, <4>2, WriteKeepsTop
            <4>4. QED
                BY <2>5, <3>1, <3>2, <4>1, <4>3
        <3>3. CASE ~(i \in Written /\ Enabled("top"))
            <4>1. \A day : <<i, day>> \in late' <=> <<i, day>> \in late
                BY <2>1, <3>3
            <4>2. Late(i)' = Late(i)
                BY <4>1 DEF Late
            <4>3. QED
                BY <2>4, <2>6, <3>1, <3>3, <4>2
        <3>4. QED
            BY <3>2, <3>3
    <2>9. RowsTyped'
        <3>1. DOMAIN rows' = Table /\ \A t \in Table : DOMAIN rows'[t] = Iface
            BY <2>1
        <3>2. stored' \in [Table -> [Iface -> Amounts]]
            <4>1. \A t \in Table, i \in Iface : stored'[t][i] \in Amounts
                BY <2>7
            <4>2. DOMAIN stored' = Table /\ stored' = [t \in Table |-> stored'[t]]
                  /\ \A t \in Table : stored'[t] = [i \in Iface |-> stored'[t][i]]
                BY <2>1
            <4>3. \A t \in Table : stored'[t] \in [Iface -> Amounts]
                BY <4>1, <4>2
            <4>4. QED
                BY <4>2, <4>3
        <3>3. updated' \in [Iface -> Slots] /\ known' \in SUBSET Iface
            BY <2>1 DEF DInv, RowsTyped, MemoryTyped
        <3>4. QED
            BY <2>7, <3>1, <3>2, <3>3 DEF RowsTyped, Amounts
    <2>10. OnlyOfKnown'
        <3>1. \A t \in Table, i \in Iface \ known' : i \notin Written
            BY <2>1 DEF Written
        <3>2. known' = known
            BY <2>1
        <3>3. QED
            BY <2>6, <3>1, <3>2 DEF DInv, OnlyOfKnown
    <2>11. ASSUME NEW t \in Table, NEW i \in Iface, cfg.limit[t] = 0
           PROVE  rows'[t][i] = rows[t][i]
        BY <2>6, <2>11 DEF Enabled
    <2>12. /\ known' = known /\ removedday' = removedday /\ DOMAIN log' = Iface
           /\ \A i \in Iface : updated'[i] \in {updated[i], cacheupdated[i]}
           /\ \A i \in Iface : log'[i] = NoRows
        BY <2>1
    <2>13. QED
        BY <2>7, <2>8, <2>9, <2>10, <2>11, <2>12
<1>3. QED
    BY <1>1, <1>2 DEF flushcachetodisk

(***************************************************************************)
(* Every step keeps the invariant.                                         *)
(***************************************************************************)

(* What can be written to after a step comes no earlier than what could be *)
(* written to before it.                                                   *)
StillLater ==
    \A i \in Iface : /\ Pending(i)' \subseteq Slots
                     /\ \A m \in Pending(i)' : \E n \in Pending(i) : n <= m

LEMMA CarriedOver ==
    ASSUME DInv, DatabaseRight, StillLater
    PROVE  RowsTyped' /\ OnlyOfKnown' /\ TablesRight' /\ TopsRight'
<1>1. ASSUME NEW t \in Table, NEW i \in Iface
      PROVE  TableRight(t, rows'[t][i], stored'[t][i], Pending(i)')
    <2> DEFINE table == rows'[t][i]
               amounts == stored'[t][i]
               N == Pending(i)
               M == Pending(i)'
    <2>1. DailyTyped(table) /\ TableRight(t, table, amounts, N)
        BY DEF DatabaseRight, RowsTyped
    <2>2. Settings # {} /\ N \subseteq Slots
        BY PendingTyped DEF DInv, MemoryTyped
    <2>3. M \subseteq Slots /\ \A m \in M : \E n \in N : n <= m
        BY DEF StillLater
    <2> HIDE DEF table, amounts, N, M
    <2>4. TableRight(t, table, amounts, M)
        BY <2>1, <2>2, <2>3, LaterIsRight
    <2>5. QED
        BY <2>4 DEF table, amounts, M
<1>2. QED
    BY <1>1 DEF DatabaseRight, TablesRight, TopsRight

LEMMA UnchangedRight ==
    ASSUME DInv, UNCHANGED <<dbvars, history>>
    PROVE  DatabaseRight
<1>1. UNCHANGED <<known, rows, updated, stored, removedday, late>>
    BY DEF dbvars, history
<1>2. RowsTyped' /\ OnlyOfKnown' /\ \A i \in Iface : Late(i)' = Late(i)
    BY <1>1 DEF DInv, RowsTyped, OnlyOfKnown, Late
<1>3. QED
    BY <1>1, <1>2 DEF DatabaseRight, DInv, TablesRight, TopsRight

LEMMA SameOrMember ==
    ASSUME DInv, \A i \in Iface : Pending(i)' \subseteq Pending(i)
    PROVE  StillLater
<1>1. SUFFICES ASSUME NEW i \in Iface
               PROVE  /\ Pending(i)' \subseteq Slots
                      /\ \A m \in Pending(i)' : \E n \in Pending(i) : n <= m
    BY DEF StillLater
<1> DEFINE N == Pending(i)
           M == Pending(i)'
<1>2. M \subseteq N /\ N \subseteq Slots /\ Slots \subseteq Nat
    BY PendingTyped, SlotsFinite
<1> HIDE DEF N, M
<1>3. ASSUME NEW m \in M PROVE \E n \in N : n <= m
    <2>1. m \in Nat /\ m \in N
        BY <1>2
    <2>2. m <= m
        BY <2>1
    <2>3. QED
        BY <2>1, <2>2
<1>4. M \subseteq Slots
    BY <1>2
<1>5. QED
    BY <1>3, <1>4 DEF N, M

LEMMA HourTyped ==
    ASSUME NEW s \in Slots
    PROVE  getcurrenthour(s) \in 0 .. HoursPerDay - 1 /\ 0 \in 0 .. HoursPerDay - 1
<1>1. s \in Int
    BY SlotsFinite
<1>2. Hour(s) \in Int
    BY <1>1, Divided, CalendarAssumption DEF Hour
<1>3. QED
    BY <1>2, CalendarAssumption DEF getcurrenthour

LEMMA EmptyCacheRight ==
    ASSUME DInv, EmptyCache
    PROVE  /\ cache' \in SUBSET Iface
           /\ cacheupdated' \in [Iface -> Slots]
           /\ DOMAIN log' = Iface
           /\ \A i \in Iface : /\ log'[i] = NoRows /\ DOMAIN log'[i] = {}
                               /\ cacheupdated'[i] = 0
                               /\ Pending(i)' = {updated'[i]}
<1>1. 0 \in Slots
    BY DataBoundsAssumption DEF Slots
<1>2. /\ cache' = {} /\ cacheupdated' = [i \in Iface |-> 0]
      /\ log' = [i \in Iface |-> NoRows]
    BY DEF EmptyCache
<1>3. \A i \in Iface : log'[i] = NoRows /\ DOMAIN log'[i] = {} /\ cacheupdated'[i] = 0
    BY <1>2 DEF NoRows
<1>4. \A i \in Iface : Pending(i)' = {updated'[i]}
    BY <1>2, <1>3 DEF Pending
<1>5. QED
    BY <1>1, <1>2, <1>3, <1>4

(* Times of a daemon without a cache. *)
LEMMA EmptyCacheTimes ==
    ASSUME DInv, EmptyCache, DatabaseRight, UNCHANGED now, updated' = updated,
           removedday' \in {removedday, Day(now)}
    PROVE  Times' /\ StillLater
<1>1. \A i \in Iface : /\ cacheupdated'[i] = 0 /\ DOMAIN log'[i] = {}
                       /\ Pending(i)' = {updated'[i]}
    BY EmptyCacheRight
<1>2. now \in Slots /\ \A i \in Iface : updated[i] <= now
    BY DEF DInv, Times
<1>3. 0 <= now
    BY <1>2 DEF Slots
<1>4. removedday' \in Int /\ removedday' <= Day(now)
    BY DayNow DEF DInv, Times
<1>5. Times'
    BY <1>1, <1>2, <1>3, <1>4 DEF Times
<1>6. \A i \in Iface : Pending(i)' \subseteq Pending(i)
    BY <1>1, PendingTyped
<1>7. QED
    BY <1>5, <1>6, SameOrMember

LEMMA DownKeepsInv ==
    ASSUME DInv, Down, UNCHANGED <<now, dbvars, history>>
    PROVE  DInv'
<1>1. DatabaseRight
    BY UnchangedRight
<1>2. EmptyCache /\ pc' = "down" /\ cleanuphour' = 0 /\ cfg' = cfg
    BY DEF Down
<1>3. updated' = updated /\ removedday' = removedday /\ now' = now
    BY DEF dbvars, history
<1>4. Times' /\ StillLater
    BY <1>1, <1>2, <1>3, EmptyCacheTimes
<1>5. MemoryTyped'
    <2>1. now \in Slots
        BY DEF DInv, Times
    <2>2. 0 \in 0 .. HoursPerDay - 1
        BY <2>1, HourTyped
    <2>3. \A i \in Iface : /\ DOMAIN log'[i] \subseteq Slots
                           /\ \A s \in DOMAIN log'[i] : log'[i][s] \in Nat
                           /\ log'[i] # NoRows => i \in cache'
        BY <1>2, EmptyCacheRight
    <2>4. QED
        BY <1>2, <2>2, <2>3, EmptyCacheRight DEF DInv, MemoryTyped
<1>6. Emptied'
    BY <1>2 DEF Emptied
<1>7. QED
    BY <1>1, <1>4, <1>5, <1>6, CarriedOver DEF DInv

LEMMA StartKeepsInv ==
    ASSUME DInv, Start
    PROVE  DInv'
<1>1. /\ UNCHANGED <<dbvars, history>>
      /\ UNCHANGED <<now, cache, cacheupdated, log, updated, removedday, rows, known>>
    BY DEF Start, dbvars, history
<1>2. DatabaseRight
    BY <1>1, UnchangedRight
<1>3. \A i \in Iface : Pending(i)' = Pending(i)
    BY <1>1 DEF Pending
<1>4. StillLater
    BY <1>3, SameOrMember
<1>5. MemoryTyped'
    <2>1. now \in Slots
        BY DEF DInv, Times
    <2>2. cleanuphour' \in 0 .. HoursPerDay - 1
        BY <2>1, HourTyped DEF Start
    <2>3. cfg' \in Settings /\ pc' \in {"run", "prune"}
        BY DEF Start
    <2>4. QED
        BY <1>1, <2>2, <2>3 DEF DInv, MemoryTyped
<1>6. Times'
    BY <1>1 DEF DInv, Times
<1>7. Emptied'
    <2>1. SUFFICES ASSUME NEW t \in Table, NEW i \in Iface, pc' = "run"
                   PROVE  rows'[t][i] = NoRows
        BY DEF Emptied, Start
    <2>2. i \in Iface \ known
        BY <2>1 DEF Start
    <2>3. QED
        BY <1>1, <2>2 DEF DInv, OnlyOfKnown
<1>8. QED
    BY <1>2, <1>4, <1>5, <1>6, <1>7, CarriedOver DEF DInv

LEMMA PruneAtStartKeepsInv ==
    ASSUME DInv, PruneAtStart
    PROVE  DInv'
<1>1. CASE Down /\ UNCHANGED <<dbvars, history>>
    BY <1>1, DownKeepsInv DEF PruneAtStart
<1>2. CASE /\ db_removeoldentries
           /\ pc' = "wipe"
           /\ UNCHANGED <<cfg, cache, cacheupdated, log, cleanuphour>>
    <2>1. DatabaseRight
        BY <1>2, RemovalRight
    <2>2. /\ UNCHANGED <<now, cfg, cache, cacheupdated, log, cleanuphour, updated>>
          /\ pc' = "wipe" /\ removedday' = Day(now)
        BY <1>2 DEF PruneAtStart, db_removeoldentries
    <2>3. \A i \in Iface : Pending(i)' = Pending(i)
        BY <2>2 DEF Pending
    <2>4. StillLater
        BY <2>3, SameOrMember
    <2>5. MemoryTyped' /\ Emptied'
        BY <2>2 DEF DInv, MemoryTyped, Emptied
    <2>6. Times'
        <3>1. removedday' \in Int /\ removedday' <= Day(now)
            BY <2>2, DayNow
        <3>2. QED
            BY <2>2, <3>1 DEF DInv, Times
    <2>7. QED
        BY <2>1, <2>4, <2>5, <2>6, CarriedOver DEF DInv
<1>3. QED
    BY <1>1, <1>2 DEF PruneAtStart

LEMMA WipeAtStartKeepsInv ==
    ASSUME DInv, WipeAtStart
    PROVE  DInv'
<1>1. CASE Down /\ UNCHANGED <<dbvars, history>>
    BY <1>1, DownKeepsInv DEF WipeAtStart
<1>2. CASE /\ db_removedisabledresolutionentries(cfg)
           /\ pc' = "run"
           /\ UNCHANGED <<cfg, cache, cacheupdated, log, cleanuphour>>
    <2>1. /\ DatabaseRight
          /\ \A t \in Table, i \in Iface : cfg.limit[t] = 0 => rows'[t][i] = NoRows
        BY <1>2, WipeRight
    <2>2. /\ UNCHANGED <<now, cfg, cache, cacheupdated, log, cleanuphour, updated>>
          /\ pc' = "run" /\ removedday' = removedday
        BY <1>2 DEF WipeAtStart, db_removedisabledresolutionentries
    <2>3. \A i \in Iface : Pending(i)' = Pending(i)
        BY <2>2 DEF Pending
    <2>4. StillLater
        BY <2>3, SameOrMember
    <2>5. MemoryTyped' /\ Emptied'
        BY <2>1, <2>2 DEF DInv, MemoryTyped, Emptied
    <2>6. Times'
        BY <2>2 DEF DInv, Times
    <2>7. QED
        BY <2>1, <2>4, <2>5, <2>6, CarriedOver DEF DInv
<1>3. QED
    BY <1>1, <1>2 DEF WipeAtStart

LEMMA FillCacheKeepsInv ==
    ASSUME DInv, FillCache
    PROVE  DInv'
<1>1. /\ UNCHANGED <<dbvars, history>>
      /\ UNCHANGED <<now, pc, cfg, log, cleanuphour, updated, removedday, rows, known>>
      /\ cache' = cache \cup known
      /\ cacheupdated' = [i \in Iface |-> IF i \in known \ cache THEN updated[i]
                                          ELSE cacheupdated[i]]
    BY DEF FillCache, dbvars, history
<1>2. /\ \A i \in Iface : cacheupdated'[i] = IF i \in known \ cache THEN updated[i]
                                            ELSE cacheupdated[i]
      /\ cache \subseteq Iface /\ known \subseteq Iface
      /\ updated \in [Iface -> Slots] /\ cacheupdated \in [Iface -> Slots]
    BY <1>1 DEF DInv, MemoryTyped, RowsTyped
<1>3. DatabaseRight
    BY <1>1, UnchangedRight
<1>4. ASSUME NEW i \in Iface PROVE Pending(i)' \subseteq Pending(i)
    BY <1>1, <1>2 DEF Pending
<1>5. StillLater
    BY <1>4, SameOrMember
<1>6. \A i \in Iface \ cache : log[i] = NoRows /\ DOMAIN log[i] = {}
    BY DEF DInv, MemoryTyped, NoRows
<1>7. MemoryTyped'
    <2>1. cacheupdated' \in [Iface -> Slots]
        BY <1>1, <1>2
    <2>2. cache' \in SUBSET Iface
        BY <1>1, <1>2
    <2>3. \A i \in Iface : /\ DOMAIN log'[i] \subseteq Slots
                           /\ \A s \in DOMAIN log'[i] : log'[i][s] \in Nat
                           /\ log'[i] # NoRows => i \in cache'
        BY <1>1 DEF DInv, MemoryTyped
    <2>4. QED
        BY <1>1, <2>1, <2>2, <2>3 DEF DInv, MemoryTyped
<1>8. Times'
    <2>1. ASSUME NEW i \in Iface
          PROVE  /\ updated'[i] <= now' /\ cacheupdated'[i] <= now'
                 /\ \A s \in DOMAIN log'[i] : s <= cacheupdated'[i]
        BY <1>1, <1>2, <1>6 DEF DInv, Times
    <2>2. QED
        BY <1>1, <2>1 DEF DInv, Times
<1>9. Emptied'
    BY <1>1 DEF DInv, Emptied
<1>10. QED
    BY <1>3, <1>5, <1>7, <1>8, <1>9, CarriedOver DEF DInv

LEMMA LoggedUpdate ==
    ASSUME DInv, NEW i \in Iface, i \in cache, NEW amount \in Nat, NEW counts,
           NEW new, new = processifinfo(i, amount, counts)
    PROVE  /\ DOMAIN new \subseteq DOMAIN log[i] \cup {cacheupdated[i]}
           /\ DOMAIN new \subseteq Slots
           /\ \A s \in DOMAIN new : new[s] \in Nat
<1>1. /\ cacheupdated[i] \in Slots /\ DOMAIN log[i] \subseteq Slots
      /\ \A s \in DOMAIN log[i] : log[i][s] \in Nat
    BY DEF DInv, MemoryTyped
<1>2. CASE new = log[i]
    BY <1>1, <1>2
<1>3. CASE new = xferlog_add(i, amount)
    <2> DEFINE slot == cacheupdated[i]
               old == log[i]
    <2>1. new = [s \in DOMAIN old \cup {slot} |->
                   (IF s \in DOMAIN old THEN old[s] ELSE 0)
                   + IF s = slot THEN amount ELSE 0]
        BY <1>3 DEF xferlog_add
    <2>2. slot \in Slots /\ DOMAIN old \subseteq Slots /\ \A s \in DOMAIN old : old[s] \in Nat
        BY <1>1
    <2> HIDE DEF slot, old
    <2>3. ASSUME NEW s \in DOMAIN new PROVE new[s] \in Nat
        <3>1. new[s] = (IF s \in DOMAIN old THEN old[s] ELSE 0)
                       + IF s = slot THEN amount ELSE 0
            BY <2>1
        <3>2. QED
            BY <2>2, <3>1
    <2>4. DOMAIN new = DOMAIN old \cup {slot}
        BY <2>1
    <2>5. QED
        BY <2>2, <2>3, <2>4 DEF slot, old
<1>4. QED
    BY <1>2, <1>3 DEF processifinfo

LEMMA UpdateKeepsInv ==
    ASSUME DInv, processdatacache
    PROVE  DInv'
<1>1. /\ UNCHANGED <<dbvars, history>>
      /\ UNCHANGED <<now, cfg, cache, cleanuphour, updated, removedday, rows, known>>
      /\ pc = "run"
    BY DEF processdatacache, dbvars, history
<1>2. PICK available \in SUBSET cache, amount \in [Iface -> Amount],
           counts \in [Iface -> BOOLEAN] :
            /\ \A i \in available : now > cacheupdated[i]
            /\ log' = [i \in Iface |-> IF i \in available
                                       THEN processifinfo(i, amount[i], counts[i])
                                       ELSE log[i]]
            /\ cacheupdated' = [i \in Iface |-> IF i \in available THEN now
                                                ELSE cacheupdated[i]]
            /\ pc' \in {"flush", "run"}
    BY DEF processdatacache
<1>3. /\ now \in Slots /\ Slots \subseteq Nat /\ cache \subseteq Iface
      /\ \A i \in Iface : /\ amount[i] \in Nat /\ cacheupdated[i] \in Slots
                          /\ updated[i] <= now /\ cacheupdated[i] <= now
                          /\ DOMAIN log[i] \subseteq Slots
                          /\ \A s \in DOMAIN log[i] : s <= cacheupdated[i]
    BY SlotsFinite, DataBoundsAssumption DEF DInv, MemoryTyped, Times
<1>4. ASSUME NEW i \in Iface
      PROVE  /\ log'[i] = IF i \in available THEN processifinfo(i, amount[i], counts[i])
                          ELSE log[i]
             /\ cacheupdated'[i] = IF i \in available THEN now ELSE cacheupdated[i]
             /\ i \in available => i \in cache
    BY <1>2
<1>5. ASSUME NEW i \in Iface
      PROVE  /\ DOMAIN log'[i] \subseteq DOMAIN log[i]
                    \cup IF i \in available THEN {cacheupdated[i]} ELSE {}
             /\ DOMAIN log'[i] \subseteq Slots
             /\ \A s \in DOMAIN log'[i] : log'[i][s] \in Nat
             /\ log'[i] # NoRows => i \in cache'
    <2>1. CASE i \in available
        <3>1. log'[i] = processifinfo(i, amount[i], counts[i]) /\ i \in cache
            BY <1>4, <2>1
        <3>2. /\ DOMAIN log'[i] \subseteq DOMAIN log[i] \cup {cacheupdated[i]}
              /\ DOMAIN log'[i] \subseteq Slots
              /\ \A s \in DOMAIN log'[i] : log'[i][s] \in Nat
            BY <1>3, <3>1, LoggedUpdate
        <3>3. QED
            BY <1>1, <2>1, <3>1, <3>2
    <2>2. CASE i \notin available
        <3>1. log'[i] = log[i]
            BY <1>4, <2>2
        <3>2. QED
            BY <1>1, <2>2, <3>1 DEF DInv, MemoryTyped
    <2>3. QED
        BY <2>1, <2>2
<1>6. DatabaseRight
    BY <1>1, UnchangedRight
<1>7. StillLater
    <2>1. SUFFICES ASSUME NEW i \in Iface
                   PROVE  /\ Pending(i)' \subseteq Slots
                          /\ \A m \in Pending(i)' : \E n \in Pending(i) : n <= m
        BY DEF StillLater
    <2> DEFINE N == Pending(i)
               M == Pending(i)'
    <2>2. /\ N \subseteq Slots
          /\ i \in cache => cacheupdated[i] \in N
        BY PendingTyped DEF Pending
    <2>3. \A m \in M : m \in N \/ (i \in available /\ m = now)
        BY <1>1, <1>4, <1>5 DEF Pending
    <2> HIDE DEF N, M
    <2>4. M \subseteq Slots
        BY <1>3, <2>2, <2>3
    <2>5. ASSUME NEW m \in M PROVE \E n \in N : n <= m
        <3>1. CASE m \in N
            <4>1. m \in Nat
                BY <1>3, <2>2, <3>1
            <4>2. m <= m
                BY <4>1
            <4>3. QED
                BY <3>1, <4>2
        <3>2. CASE i \in available /\ m = now
            BY <1>3, <1>4, <2>2, <3>2
        <3>3. QED
            BY <2>3, <3>1, <3>2
    <2>6. QED
        BY <2>4, <2>5 DEF N, M
<1>8. MemoryTyped'
    <2>1. cacheupdated' \in [Iface -> Slots]
        BY <1>2, <1>3
    <2>2. DOMAIN log' = Iface
        BY <1>2
    <2>3. QED
        BY <1>1, <1>2, <1>5, <2>1, <2>2 DEF DInv, MemoryTyped
<1>9. Times'
    <2>1. ASSUME NEW i \in Iface
          PROVE  /\ updated'[i] <= now' /\ cacheupdated'[i] <= now'
                 /\ \A s \in DOMAIN log'[i] : s <= cacheupdated'[i]
        <3>1. CASE i \in available
            <4>1. cacheupdated'[i] = now /\ now \in Nat /\ cacheupdated[i] \in Nat
                BY <1>3, <1>4, <3>1
            <4>2. ASSUME NEW s \in DOMAIN log'[i]
                  PROVE  s \in Nat /\ s <= cacheupdated[i]
                <5>1. s \in Slots /\ s \in DOMAIN log[i] \cup {cacheupdated[i]}
                    BY <1>5, <3>1
                <5>2. CASE s \in DOMAIN log[i]
                    BY <1>3, <5>1, <5>2
                <5>3. CASE s = cacheupdated[i]
                    BY <4>1, <5>3
                <5>4. QED
                    BY <5>1, <5>2, <5>3
            <4>3. \A s \in DOMAIN log'[i] : s <= now
                BY <1>3, <4>1, <4>2
            <4>4. QED
                BY <1>1, <1>3, <4>1, <4>3
        <3>2. CASE i \notin available
            BY <1>1, <1>3, <1>4, <3>2
        <3>3. QED
            BY <3>1, <3>2
    <2>2. QED
        BY <1>1, <2>1 DEF DInv, Times
<1>10. Emptied'
    BY <1>1 DEF DInv, Emptied
<1>11. QED
    BY <1>6, <1>7, <1>8, <1>9, <1>10, CarriedOver DEF DInv

LEMMA FlushKeepsInv ==
    ASSUME DInv, flushcachetodisk, UNCHANGED <<now, cfg, cache, cacheupdated, cleanuphour>>,
           pc \in {"run", "flush"}, pc' \in {"cleanup", "rewipe"}
    PROVE  DInv'
<1>1. /\ RowsTyped' /\ OnlyOfKnown' /\ TablesRight' /\ TopsRight'
      /\ \A t \in Table, i \in Iface : cfg.limit[t] = 0 => rows'[t][i] = rows[t][i]
      /\ known' = known /\ removedday' = removedday
      /\ \A i \in Iface : updated'[i] \in {updated[i], cacheupdated[i]}
      /\ DOMAIN log' = Iface
      /\ \A i \in Iface : log'[i] = log[i] \/ log'[i] = NoRows
    BY FlushRight DEF TablesRight, TopsRight
<1>2. DOMAIN NoRows = {}
    BY DEF NoRows
<1>3. MemoryTyped'
    <2>1. \A i \in Iface : /\ DOMAIN log'[i] \subseteq Slots
                           /\ \A s \in DOMAIN log'[i] : log'[i][s] \in Nat
                           /\ log'[i] # NoRows => i \in cache'
        BY <1>1, <1>2 DEF DInv, MemoryTyped
    <2>2. QED
        BY <1>1, <2>1 DEF DInv, MemoryTyped
<1>4. Times'
    BY <1>1, <1>2 DEF DInv, Times
<1>5. Emptied'
    BY <1>1 DEF DInv, Emptied
<1>6. QED
    BY <1>1, <1>3, <1>4, <1>5 DEF DInv

LEMMA CleanupKeepsInv ==
    ASSUME DInv, Cleanup
    PROVE  DInv'
<1>1. /\ pc = "cleanup" /\ pc' = "run" /\ cache' = cache \cap known
      /\ log' = [i \in Iface |-> IF i \in known THEN log[i] ELSE NoRows]
      /\ cacheupdated' = [i \in Iface |-> IF i \in known THEN cacheupdated[i] ELSE 0]
      /\ cleanuphour' = getcurrenthour(now)
      /\ now' = now /\ cfg' = cfg
    BY DEF Cleanup
<1>2. /\ DatabaseRight
      /\ \A t \in Table, i \in Iface : cfg.limit[t] = 0 => rows'[t][i] = rows[t][i]
      /\ updated' = updated /\ removedday' \in {removedday, Day(now)}
    <2>1. CASE db_removeoldentries
        BY <2>1, RemovalRight DEF db_removeoldentries
    <2>2. CASE UNCHANGED <<dbvars, history>>
        BY <2>2, UnchangedRight DEF dbvars, history
    <2>3. QED
        BY <2>1, <2>2 DEF Cleanup
<1>3. \A i \in Iface : /\ log'[i] = IF i \in known THEN log[i] ELSE NoRows
                       /\ cacheupdated'[i] = IF i \in known THEN cacheupdated[i] ELSE 0
    BY <1>1
<1>4. DOMAIN NoRows = {}
    BY DEF NoRows
<1>5. \A i \in Iface : Pending(i)' \subseteq Pending(i)
    BY <1>1, <1>2, <1>3, <1>4 DEF Pending
<1>6. StillLater
    BY <1>5, SameOrMember
<1>7. MemoryTyped'
    <2>1. now \in Slots /\ 0 \in Slots
        BY DataBoundsAssumption DEF DInv, Times, Slots
    <2>2. cleanuphour' \in 0 .. HoursPerDay - 1
        BY <1>1, <2>1, HourTyped
    <2>3. cacheupdated' \in [Iface -> Slots] /\ cache' \in SUBSET Iface /\ DOMAIN log' = Iface
        BY <1>1, <2>1 DEF DInv, MemoryTyped
    <2>4. \A i \in Iface : /\ DOMAIN log'[i] \subseteq Slots
                           /\ \A s \in DOMAIN log'[i] : log'[i][s] \in Nat
                           /\ log'[i] # NoRows => i \in cache'
        BY <1>1, <1>3, <1>4 DEF DInv, MemoryTyped
    <2>5. QED
        BY <1>1, <2>2, <2>3, <2>4 DEF DInv, MemoryTyped
<1>8. Times'
    <2>1. removedday' \in Int /\ removedday' <= Day(now)
        BY <1>2, DayNow DEF DInv, Times
    <2>2. now \in Slots /\ 0 <= now
        BY SlotsFinite DEF DInv, Times
    <2>3. ASSUME NEW i \in Iface
          PROVE  /\ updated'[i] <= now' /\ cacheupdated'[i] <= now'
                 /\ \A s \in DOMAIN log'[i] : s <= cacheupdated'[i]
        BY <1>1, <1>2, <1>3, <1>4, <2>2 DEF DInv, Times
    <2>4. QED
        BY <1>1, <2>1, <2>2, <2>3 DEF Times
<1>9. Emptied'
    BY <1>1, <1>2 DEF DInv, Emptied
<1>10. QED
    BY <1>2, <1>6, <1>7, <1>8, <1>9, CarriedOver DEF DInv

LEMMA ReloadSettingsKeepsInv ==
    ASSUME DInv, ReloadSettings
    PROVE  DInv'
<1>1. EmptyCache /\ now' = now
    BY DEF ReloadSettings
<1>2. ASSUME NEW c \in Settings, cfg' = c, db_removedisabledresolutionentries(c),
             pc' = "run", UNCHANGED cleanuphour
      PROVE  DatabaseRight /\ Emptied' /\ updated' = updated /\ removedday' = removedday
    <2>1. /\ DatabaseRight
          /\ \A t \in Table, i \in Iface : c.limit[t] = 0 => rows'[t][i] = NoRows
        BY <1>2, WipeRight
    <2>2. QED
        BY <1>2, <2>1 DEF Emptied, db_removedisabledresolutionentries
<1>3. ASSUME pc' = "down", UNCHANGED <<dbvars, cfg, history>>
      PROVE  DatabaseRight /\ Emptied' /\ updated' = updated /\ removedday' = removedday
    BY <1>3, UnchangedRight DEF Emptied, dbvars, history
<1>4. DatabaseRight /\ Emptied' /\ updated' = updated /\ removedday' = removedday
    BY <1>2, <1>3 DEF ReloadSettings
<1>5. Times' /\ StillLater
    BY <1>1, <1>4, EmptyCacheTimes
<1>6. MemoryTyped'
    <2>1. now \in Slots
        BY DEF DInv, Times
    <2>2. /\ pc' \in {"run", "down"} /\ cfg' \in Settings
          /\ cleanuphour' \in 0 .. HoursPerDay - 1
        BY <2>1, HourTyped DEF ReloadSettings, DInv, MemoryTyped
    <2>3. \A i \in Iface : /\ DOMAIN log'[i] \subseteq Slots
                           /\ \A s \in DOMAIN log'[i] : log'[i][s] \in Nat
                           /\ log'[i] # NoRows => i \in cache'
        BY <1>1, EmptyCacheRight
    <2>4. QED
        BY <1>1, <2>2, <2>3, EmptyCacheRight DEF MemoryTyped
<1>7. QED
    BY <1>4, <1>5, <1>6, CarriedOver DEF DInv

LEMMA AddInterfaceKeepsInv ==
    ASSUME DInv, NEW i \in Iface, AddInterface(i)
    PROVE  DInv'
<1>1. /\ known' = known \cup {i} /\ updated' = [updated EXCEPT ![i] = now]
      /\ UNCHANGED <<now, rows, pc, cfg, cache, cacheupdated, log, cleanuphour>>
      /\ UNCHANGED <<stored, removedday, late>>
      /\ i \notin known
    BY DEF AddInterface, daemonvars, history
<1>2. updated \in [Iface -> Slots] /\ known \subseteq Iface /\ now \in Slots
    BY DEF DInv, RowsTyped, Times
<1>3. /\ updated' \in [Iface -> Slots] /\ updated'[i] = now
      /\ \A j \in Iface \ {i} : updated'[j] = updated[j]
    BY <1>1, <1>2
<1>4. MemoryTyped' /\ Emptied'
    BY <1>1 DEF DInv, MemoryTyped, Emptied
<1>5. RowsTyped' /\ OnlyOfKnown'
    BY <1>1, <1>2, <1>3 DEF DInv, RowsTyped, OnlyOfKnown
<1>6. Times'
    <2>1. now <= now
        BY <1>2, SlotsFinite
    <2>2. \A j \in Iface : updated'[j] <= now
        BY <1>3, <2>1 DEF DInv, Times
    <2>3. QED
        BY <1>1, <2>2 DEF DInv, Times
<1>7. TablesRight'
    <2>1. ASSUME NEW t \in Table, NEW j \in Iface
          PROVE  TableRight(t, rows[t][j], stored[t][j], Pending(j)')
        <3>1. CASE j = i
            <4>1. rows[t][j] = NoRows /\ stored[t][j] = Nothing
                BY <1>1, <3>1 DEF DInv, OnlyOfKnown
            <4>2. QED
                BY <4>1, EmptyIsRight
        <3>2. CASE j # i
            <4>1. Pending(j)' = Pending(j)
                BY <1>1, <1>3, <3>2 DEF Pending
            <4>2. QED
                BY <4>1 DEF DInv, TablesRight
        <3>3. QED
            BY <3>1, <3>2
    <2>2. QED
        BY <1>1, <2>1 DEF TablesRight
<1>8. TopsRight'
    <2>1. \A j \in Iface : Late(j)' = Late(j)
        BY <1>1 DEF Late
    <2>2. QED
        BY <1>1, <2>1 DEF DInv, TopsRight
<1>9. QED
    BY <1>4, <1>5, <1>6, <1>7, <1>8 DEF DInv

LEMMA RemoveInterfaceKeepsInv ==
    ASSUME DInv, NEW i \in Iface, RemoveInterface(i)
    PROVE  DInv'
<1>1. /\ known' = known \ {i} /\ updated' = [updated EXCEPT ![i] = 0]
      /\ rows' = [t \in Table |-> [rows[t] EXCEPT ![i] = NoRows]]
      /\ stored' = [t \in Table |-> [stored[t] EXCEPT ![i] = Nothing]]
      /\ late' = {x \in late : x[1] # i}
      /\ UNCHANGED <<now, pc, cfg, cache, cacheupdated, log, cleanuphour, removedday>>
    BY DEF RemoveInterface, daemonvars
<1>2. /\ updated \in [Iface -> Slots] /\ known \subseteq Iface /\ now \in Slots
      /\ 0 \in Slots /\ 0 <= now
    BY SlotsFinite, DataBoundsAssumption DEF DInv, RowsTyped, Times, Slots
<1>3. /\ updated' \in [Iface -> Slots] /\ updated'[i] = 0
      /\ \A j \in Iface \ {i} : updated'[j] = updated[j]
    BY <1>1, <1>2
<1> HIDE DEF NoRows, Nothing
<1>4. ASSUME NEW t \in Table
      PROVE  /\ DOMAIN rows'[t] = Iface
             /\ stored'[t] \in [Iface -> Amounts]
             /\ rows'[t][i] = NoRows /\ stored'[t][i] = Nothing
             /\ \A j \in Iface \ {i} : /\ rows'[t][j] = rows[t][j]
                                       /\ stored'[t][j] = stored[t][j]
    <2>1. DOMAIN rows[t] = Iface /\ stored[t] \in [Iface -> Amounts]
        BY DEF DInv, RowsTyped, Amounts
    <2>2. Nothing \in Amounts
        BY DEF Nothing, Amounts
    <2>3. /\ rows'[t] = [rows[t] EXCEPT ![i] = NoRows]
          /\ stored'[t] = [stored[t] EXCEPT ![i] = Nothing]
        BY <1>1
    <2>4. QED
        BY <2>1, <2>2, <2>3
<1>5. ASSUME NEW t \in Table, NEW j \in Iface
      PROVE  /\ DailyTyped(rows'[t][j])
             /\ TableRight(t, rows'[t][j], stored'[t][j], Pending(j)')
             /\ t = "top" => TopRight(rows'[t][j], stored'[t][j], Late(j)', removedday)
             /\ rows[t][j] = NoRows => rows'[t][j] = NoRows
             /\ j \notin known' => rows'[t][j] = NoRows /\ stored'[t][j] = Nothing
    <2>1. CASE j = i
        BY <1>4, <2>1, EmptyIsRight
    <2>2. CASE j # i
        <3>1. rows'[t][j] = rows[t][j] /\ stored'[t][j] = stored[t][j]
            BY <1>4, <2>2
        <3>2. Pending(j)' = Pending(j)
            BY <1>1, <1>3, <2>2 DEF Pending
        <3>3. Late(j)' = Late(j)
            <4>1. \A day : <<j, day>> \in late' <=> <<j, day>> \in late
                BY <1>1, <2>2
            <4>2. QED
                BY <4>1 DEF Late
        <3>4. DailyTyped(rows[t][j]) /\ TableRight(t, rows[t][j], stored[t][j], Pending(j))
            BY DEF DInv, RowsTyped, TablesRight
        <3>5. t = "top" => TopRight(rows[t][j], stored[t][j], Late(j), removedday)
            BY DEF DInv, TopsRight
        <3>6. j \notin known' => rows[t][j] = NoRows /\ stored[t][j] = Nothing
            BY <1>1, <2>2 DEF DInv, OnlyOfKnown
        <3>7. QED
            BY <3>1, <3>2, <3>3, <3>4, <3>5, <3>6
    <2>3. QED
        BY <2>1, <2>2
<1>6. MemoryTyped'
    BY <1>1 DEF DInv, MemoryTyped
<1>7. Emptied'
    BY <1>1, <1>5 DEF DInv, Emptied
<1>8. RowsTyped'
    <2>1. DOMAIN rows' = Table /\ stored' = [t \in Table |-> stored'[t]]
        BY <1>1
    <2>2. stored' \in [Table -> [Iface -> Amounts]]
        BY <1>4, <2>1
    <2>3. known' \in SUBSET Iface
        BY <1>1, <1>2
    <2>4. QED
        BY <1>3, <1>4, <1>5, <2>1, <2>2, <2>3 DEF RowsTyped, Amounts
<1>9. OnlyOfKnown'
    BY <1>5 DEF OnlyOfKnown
<1>10. Times'
    <2>1. \A j \in Iface : updated'[j] <= now
        BY <1>2, <1>3 DEF DInv, Times
    <2>2. QED
        BY <1>1, <2>1 DEF DInv, Times
<1>11. TablesRight'
    BY <1>5 DEF TablesRight
<1>12. TopsRight'
    BY <1>1, <1>5 DEF TopsRight, Table
<1>13. QED
    BY <1>6, <1>7, <1>8, <1>9, <1>10, <1>11, <1>12 DEF DInv

LEMMA TickKeepsInv ==
    ASSUME DInv, Tick
    PROVE  DInv'
<1>1. /\ now < MaxTime /\ now' = now + 1
      /\ UNCHANGED <<known, rows, updated, stored, removedday, late>>
      /\ UNCHANGED <<pc, cfg, cache, cacheupdated, log, cleanuphour>>
    BY DEF Tick, dbvars, daemonvars, history
<1>2. now \in Slots /\ now' \in Slots /\ now \in Int /\ now <= now'
    BY <1>1, DataBoundsAssumption DEF DInv, Times, Slots
<1>3. MemoryTyped' /\ RowsTyped' /\ OnlyOfKnown' /\ Emptied'
    BY <1>1 DEF DInv, MemoryTyped, RowsTyped, OnlyOfKnown, Emptied
<1>4. \A i \in Iface : Pending(i)' = Pending(i) /\ Late(i)' = Late(i)
    BY <1>1 DEF Pending, Late
<1>5. TablesRight' /\ TopsRight'
    BY <1>1, <1>4 DEF DInv, TablesRight, TopsRight
<1>6. removedday <= Day(now')
    <2>1. Settings # {}
        BY DEF DInv, MemoryTyped
    <2>2. \A s \in Slots : RowAt("top", s) \in Int
        BY <2>1, RowAtOrder DEF Table
    <2>3. RowAt("top", now) <= RowAt("top", now')
        BY <1>2, <2>1, RowAtOrder DEF Table
    <2>4. RowAt("top", now) = Day(now) /\ RowAt("top", now') = Day(now')
        BY TopRow
    <2>5. Day(now) \in Int /\ Day(now') \in Int /\ Day(now) <= Day(now')
        BY <1>2, <2>2, <2>3, <2>4
    <2>6. removedday \in Int /\ removedday <= Day(now)
        BY DEF DInv, Times
    <2>7. QED
        BY <2>5, <2>6
<1>7. Times'
    <2>1. ASSUME NEW i \in Iface PROVE updated[i] <= now' /\ cacheupdated[i] <= now'
        <3>1. updated[i] \in Slots /\ cacheupdated[i] \in Slots /\ Slots \subseteq Nat
            BY SlotsFinite DEF DInv, MemoryTyped, RowsTyped
        <3>2. updated[i] <= now /\ cacheupdated[i] <= now
            BY DEF DInv, Times
        <3>3. updated[i] \in Nat /\ cacheupdated[i] \in Nat /\ now \in Nat
            BY <1>2, <3>1
        <3>4. QED
            BY <1>1, <3>2, <3>3
    <2>2. QED
        BY <1>1, <1>2, <1>6, <2>1 DEF DInv, Times
<1>8. QED
    BY <1>3, <1>5, <1>7 DEF DInv

LEMMA NextKeepsInv ==
    ASSUME DInv, [Next]_vars
    PROVE  DInv'
<1>1. CASE Start
    BY <1>1, StartKeepsInv
<1>2. CASE PruneAtStart
    BY <1>2, PruneAtStartKeepsInv
<1>3. CASE WipeAtStart
    BY <1>3, WipeAtStartKeepsInv
<1>4. CASE Killed
    BY <1>4, DownKeepsInv DEF Killed
<1>5. CASE FillCache
    BY <1>5, FillCacheKeepsInv
<1>6. CASE processdatacache
    BY <1>6, UpdateKeepsInv
<1>7. CASE Flush
    BY <1>7, FlushKeepsInv DEF Flush
<1>8. CASE Cleanup
    BY <1>8, CleanupKeepsInv
<1>9. CASE Reload
    BY <1>9, FlushKeepsInv DEF Reload
<1>10. CASE ReloadSettings
    BY <1>10, ReloadSettingsKeepsInv
<1>11. CASE \E i \in Iface : AddInterface(i) \/ RemoveInterface(i)
    BY <1>11, AddInterfaceKeepsInv, RemoveInterfaceKeepsInv
<1>12. CASE Tick
    BY <1>12, TickKeepsInv
<1>13. CASE UNCHANGED vars
    <2>1. /\ UNCHANGED <<now, known, rows, updated, stored, removedday, late>>
          /\ UNCHANGED <<pc, cfg, cache, cacheupdated, log, cleanuphour>>
        BY <1>13 DEF vars, dbvars, daemonvars, history
    <2>2. MemoryTyped' /\ RowsTyped' /\ OnlyOfKnown' /\ Emptied' /\ Times'
        BY <2>1 DEF DInv, MemoryTyped, RowsTyped, OnlyOfKnown, Emptied, Times
    <2>3. \A i \in Iface : Pending(i)' = Pending(i) /\ Late(i)' = Late(i)
        BY <2>1 DEF Pending, Late
    <2>4. TablesRight' /\ TopsRight'
        BY <2>1, <2>3 DEF DInv, TablesRight, TopsRight
    <2>5. QED
        BY <2>2, <2>4 DEF DInv
<1>14. QED
    BY <1>1, <1>2, <1>3, <1>4, <1>5, <1>6, <1>7, <1>8, <1>9, <1>10, <1>11, <1>12, <1>13
    DEF Next

LEMMA InitHasInv ==
    ASSUME Init
    PROVE  DInv
<1>1. 0 \in Slots /\ 0 \in 0 .. HoursPerDay - 1
    <2>1. 0 \in Slots
        BY DataBoundsAssumption DEF Slots
    <2>2. QED
        BY <2>1, HourTyped
<1>2. /\ rows = [t \in Table |-> [i \in Iface |-> NoRows]]
      /\ stored = [t \in Table |-> [i \in Iface |-> Nothing]]
      /\ known = {} /\ now = 0 /\ removedday = 0 /\ late = {}
      /\ updated = [i \in Iface |-> 0] /\ pc = "down" /\ cfg \in Settings
      /\ cache = {} /\ cacheupdated = [i \in Iface |-> 0]
      /\ log = [i \in Iface |-> NoRows] /\ cleanuphour = 0
    BY DEF Init
<1>3. Nothing \in Amounts /\ DOMAIN NoRows = {}
    BY DEF Nothing, NoRows, Amounts
<1> HIDE DEF NoRows, Nothing, Amounts, Slots
<1>4. \A t \in Table, i \in Iface : rows[t][i] = NoRows /\ stored[t][i] = Nothing
    BY <1>2
<1>5. MemoryTyped
    BY <1>1, <1>2, <1>3 DEF MemoryTyped
<1>6. RowsTyped
    <2>1. stored \in [Table -> [Iface -> Amounts]] /\ updated \in [Iface -> Slots]
        BY <1>1, <1>2, <1>3
    <2>2. QED
        BY <1>2, <1>4, <2>1, EmptyIsRight DEF RowsTyped, Amounts
<1>7. OnlyOfKnown /\ Emptied
    BY <1>2, <1>4 DEF OnlyOfKnown, Emptied
<1>8. Times
    <2>1. Day(0) \in Int /\ 0 <= Day(0)
        <3>1. Hour(0) = 0
            BY CalendarAssumption DEF Hour
        <3>2. Day(0) = 0
            BY <3>1, CalendarAssumption DEF Day
        <3>3. QED
            BY <3>2
    <2>2. \A i \in Iface : updated[i] = 0 /\ cacheupdated[i] = 0 /\ log[i] = NoRows
        BY <1>2
    <2>3. QED
        BY <1>1, <1>2, <1>3, <2>1, <2>2 DEF Times
<1>9. TablesRight /\ TopsRight
    BY <1>4, EmptyIsRight DEF TablesRight, TopsRight, Table
<1>10. QED
    BY <1>5, <1>6, <1>7, <1>8, <1>9 DEF DInv

LEMMA InvAlways == Spec => []DInv
<1>1. Init => DInv
    BY InitHasInv
<1>2. DInv /\ [Next]_vars => DInv'
    BY NextKeepsInv
<1>3. QED
    BY <1>1, <1>2, PTL DEF Spec

(***************************************************************************)
(* What follows from the invariant.                                        *)
(***************************************************************************)
LEMMA SlotsOfRow ==
    ASSUME DInv, NEW t, NEW date
    PROVE  /\ {s \in Slots : RowOf(t, s) = date} = SlotsOf(t, date)
           /\ \A s : RowOf(t, s) = RowAt(t, s)
<1>1. \A s : RowOf(t, s) = RowAt(t, s)
    BY OneRotation DEF RowOf, DInv, MemoryTyped
<1>2. QED
    BY <1>1 DEF SlotsOf

(* The database has rows with dates and traffic for its interfaces only,   *)
(* and what the daemon logged is of times that were, of interfaces in its  *)
(* cache.                                                                  *)
THEOREM TypeCorrect == Spec => []TypeOK
<1>1. DInv => TypeOK
    <2>1. SUFFICES ASSUME DInv PROVE TypeOK
        OBVIOUS
    <2>2. \A t \in Table, i \in Iface :
             /\ IsFiniteSet(DOMAIN rows[t][i])
             /\ \A date \in DOMAIN rows[t][i] : date \in Int /\ rows[t][i][date] \in Nat
             /\ rows[t][i] # NoRows => i \in known
        BY <2>1 DEF DInv, RowsTyped, DailyTyped, OnlyOfKnown
    <2>3. QED
        BY <2>1, <2>2 DEF DInv, MemoryTyped, RowsTyped, Times, TypeOK
<1>2. QED
    BY <1>1, InvAlways, PTL

(* A row that is there has all traffic that was stored for its hour, day,  *)
(* month or year: none comes back in part after its removal.               *)
THEOREM RowsAlwaysComplete == Spec => []RowsAreComplete
<1>1. DInv => RowsAreComplete
    <2>1. SUFFICES ASSUME DInv, NEW t \in Dated, NEW i \in Iface,
                          NEW date \in DOMAIN rows[t][i]
                   PROVE  rows[t][i][date] = Total(t, i, date)
        BY DEF RowsAreComplete
    <2>2. Complete(t, rows[t][i], stored[t][i])
        BY <2>1 DEF DInv, TablesRight, TableRight, Table
    <2>3. QED
        BY <2>1, <2>2, SlotsOfRow DEF Complete, Total
<1>2. QED
    BY <1>1, InvAlways, PTL

(* Only rows with as many newer ones as are to be kept are removed.        *)
THEOREM NewestAlwaysKept == Spec => []NewestAreKept
<1>1. DInv => NewestAreKept
    <2>1. SUFFICES ASSUME DInv, NEW t \in Dated, NEW i \in Iface,
                          NEW date \in Dates(t, i) \ DOMAIN rows[t][i]
                   PROVE  /\ Retention(t) > 0
                          /\ Cardinality({e \in DOMAIN rows[t][i] : e > date})
                                >= Retention(t)
        BY DEF NewestAreKept
    <2>2. PICK s \in Slots : stored[t][i][s] > 0 /\ date = RowAt(t, s)
        BY <2>1, SlotsOfRow DEF Dates
    <2>3. s \in Missing(t, rows[t][i], stored[t][i])
        BY <2>2 DEF Missing
    <2>4. Newest(t, rows[t][i], stored[t][i])
        BY <2>1 DEF DInv, TablesRight, TableRight, Table
    <2>5. QED
        BY <2>2, <2>3, <2>4 DEF Newest
<1>2. QED
    BY <1>1, InvAlways, PTL

(* Of the days that no late entry was written to, the largest are in top.  *)
THEOREM TopAlwaysKeepsLargest == Spec => []TopKeepsLargest
<1>1. DInv => TopKeepsLargest
    <2>1. SUFFICES ASSUME DInv, NEW i \in Iface, NEW d \in Dates("top", i),
                          <<i, d>> \notin late
                   PROVE  LET top == rows["top"][i]
                              total == Total("top", i, d)
                          IN IF d \in DOMAIN top
                             THEN top[d] = total
                             ELSE /\ Retention("top") > 0
                                  /\ Cardinality({e \in DOMAIN top : top[e] >= total})
                                        >= Retention("top")
        BY DEF TopKeepsLargest
    <2> DEFINE top == rows["top"][i]
               amounts == stored["top"][i]
               total == SumOf(amounts, SlotsOf("top", d))
    <2>2. PICK s \in Slots : amounts[s] > 0 /\ d = RowAt("top", s) /\ d = Day(s)
        BY <2>1, SlotsOfRow, TopRow DEF Dates
    <2>3. TopRight(top, amounts, Late(i), removedday) /\ d \notin Late(i)
        BY <2>1 DEF DInv, TopsRight, Late
    <2>4. Total("top", i, d) = total
        BY <2>1, SlotsOfRow DEF Total
    <2> HIDE DEF top, amounts
    <2>5. d \in DOMAIN top => top[d] = total
        BY <2>3 DEF TopRight, TopComplete
    <2>6. d \notin DOMAIN top =>
             /\ Retention("top") > 0
             /\ Cardinality({e \in DOMAIN top : top[e] >= total}) >= Retention("top")
        BY <2>2, <2>3 DEF TopRight, TopLargest, Missing
    <2>7. QED
        BY <2>4, <2>5, <2>6 DEF top
<1>2. QED
    BY <1>1, InvAlways, PTL

(* While the daemon runs, what its configuration disables has no rows.     *)
THEOREM DisabledAlwaysEmpty == Spec => []DisabledIsEmpty
<1>1. DInv => DisabledIsEmpty
    BY DEF DInv, Emptied, DisabledIsEmpty
<1>2. QED
    BY <1>1, InvAlways, PTL
=============================================================================
