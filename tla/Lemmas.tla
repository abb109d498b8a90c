------------------------------- MODULE Lemmas -------------------------------
(* Facts that several proofs need: remainders, as wrapping indices and      *)
(* slots use them; runs of a sequence, as the queues use them; sums over    *)
(* finite sets, as counters and balances use them; and functions defined by *)
(* recursion on a number.                                                   *)
EXTENDS Integers, Sequences, FiniteSets, Functions, FiniteSetTheorems, SequenceTheorems,
        NaturalsInduction, WellFoundedInduction, TLAPS

-----------------------------------------------------------------------------
(* Remainders.                                                              *)

(* What division and remainder are, for every integer.                      *)
LEMMA DivMod ==
  ASSUME NEW a \in Int, NEW n \in Nat \ {0}
  PROVE  a \div n \in Int /\ a % n \in 0..(n-1) /\ a = n * (a \div n) + (a % n)
  BY Z3

(* A remainder is known from any way to write the number.                   *)
LEMMA ModIs ==
  ASSUME NEW n \in Nat \ {0}, NEW x \in Int, NEW p \in Int, NEW s \in 0..(n-1), x = n * p + s
  PROVE  x % n = s
<1> DEFINE q == x \div n  r == x % n
<1>1. q \in Int /\ r \in 0..(n-1) /\ x = n * q + r
  BY DivMod
<1> HIDE DEF q, r
<1>2. CASE p >= q + 1
  <2>1. n * p >= n * (q + 1)
   BY <1>1, <1>2
  <2> QED BY <2>1, <1>1
<1>3. CASE q >= p + 1
  <2>1. n * q >= n * (p + 1)
   BY <1>1, <1>3
  <2> QED BY <2>1, <1>1
<1>4. r = s
  BY <1>1, <1>2, <1>3
<1> QED BY <1>4 DEF r

(* An index that has wrapped may be counted on.                             *)
LEMMA ModPlus ==
  ASSUME NEW n \in Nat \ {0}, NEW a \in Int, NEW b \in Int
  PROVE  ((a % n) + b) % n = (a + b) % n
<1> DEFINE q == a \div n  r == a % n  p == (r + b) \div n  s == (r + b) % n
<1>1. q \in Int /\ r \in 0..(n-1) /\ a = n * q + r
  BY DivMod
<1>2. p \in Int /\ s \in 0..(n-1) /\ r + b = n * p + s
  BY DivMod, <1>1
<1> HIDE DEF q, r, p, s
<1> DEFINE x == a + b  z == q + p
<1>3. x \in Int /\ z \in Int /\ x = n * z + s
  BY <1>1, <1>2
<1> HIDE DEF x, z
<1>4. x % n = s
  BY <1>3, <1>2, ModIs
<1> QED BY <1>4 DEF x, s, r

(* Numbers less than a lap apart have different remainders.                 *)
LEMMA ModDistinct ==
  ASSUME NEW n \in Nat \ {0}, NEW a \in Int, NEW b \in Int, a < b, b - a < n
  PROVE  a % n # b % n
<1> DEFINE q == a \div n  r == a % n p == b \div n  s == b % n
<1>1. q \in Int /\ r \in 0..(n-1) /\ a = n * q + r
  BY DivMod
<1>2. p \in Int /\ s \in 0..(n-1) /\ b = n * p + s
  BY DivMod
<1> HIDE DEF q, r, p, s
<1>3. SUFFICES ASSUME r = s PROVE FALSE
  BY DEF r, s
<1>4. CASE p >= q + 1
  <2>1. n * p >= n * (q + 1)
   BY <1>4, <1>1, <1>2
  <2> QED BY <2>1, <1>1, <1>2, <1>3
<1>5. CASE p <= q
  <2>1. n * p <= n * q
   BY <1>5, <1>1, <1>2
  <2> QED BY <2>1, <1>1, <1>2, <1>3
<1> QED BY <1>4, <1>5, <1>1, <1>2

(* A small number is its own remainder.                                     *)
LEMMA ModSmall ==
  ASSUME NEW n \in Nat \ {0}, NEW a \in 0..(n - 1)
  PROVE  a % n = a
<1> DEFINE p == 0
<1>1. p \in Int /\ a = n * p + a /\ a \in Int
  OBVIOUS
<1> HIDE DEF p
<1> QED BY <1>1, ModIs

(* The difference of two wrapped indices, wrapped, is that of the counts.   *)
LEMMA ModMinus ==
  ASSUME NEW n \in Nat \ {0}, NEW a \in Int, NEW b \in Int
  PROVE  ((a % n) - (b % n)) % n = (a - b) % n
<1> DEFINE q == b \div n  r == b % n  s == a % n  x == s - r  y == s - b
<1>1. q \in Int /\ r \in 0..(n - 1) /\ b = n * q + r /\ s \in Int
  BY DivMod
<1> DEFINE e == -b
<1>5. e \in Int /\ \A u \in Int : u + e = u - b
  OBVIOUS
<1> HIDE DEF e
<1>2. (s + e) % n = (a + e) % n
  BY <1>5, ModPlus
<1> HIDE DEF q, r, s
<1>3. s + e = y /\ a + e = a - b /\ x \in Int /\ y \in Int
  BY <1>1, <1>5
<1>4. x % n = y % n
  <2> DEFINE p == y \div n  t == y % n  z == q + p
  <2>1. p \in Int /\ t \in 0..(n - 1) /\ y = n * p + t
    BY <1>3, DivMod
  <2> HIDE DEF p, t
  <2>2. z \in Int /\ x = n * z + t
    BY <2>1, <1>1
  <2> HIDE DEF z, x
  <2>3. x % n = t
    BY <2>1, <2>2, <1>3, ModIs
  <2> QED BY <2>3 DEF t
<1> QED BY <1>2, <1>3, <1>4 DEF s, r

(* Wrapping at a multiple of the capacity does not change the slot.         *)
LEMMA ModMod ==
  ASSUME NEW n \in Nat \ {0}, NEW m \in Nat \ {0}, n % m = 0, NEW a \in Int
  PROVE  (a % n) % m = a % m
<1> DEFINE d == n \div m  q == a \div n  r == a % n  p == r \div m  s == r % m  z == d * q + p
<1>1. d \in Int /\ n = m * d
  BY DivMod
<1>2. q \in Int /\ r \in 0..(n - 1) /\ a = n * q + r
  BY DivMod
<1>3. p \in Int /\ s \in 0..(m - 1) /\ r = m * p + s
  BY <1>2, DivMod
<1> HIDE DEF d, q, r, p, s
<1>4. z \in Int /\ a = m * z + s
  <2>1. n * q = m * (d * q)
    BY <1>1, <1>2
  <2>2. m * (d * q + p) = m * (d * q) + m * p
    BY <1>1, <1>2, <1>3
  <2> QED BY <2>1, <2>2, <1>1, <1>2, <1>3
<1> HIDE DEF z
<1>5. a % m = s
  BY <1>3, <1>4, ModIs
<1> QED BY <1>5 DEF s, r

(* A multiple of the modulus does not matter, multiplied or not.            *)
LEMMA ModTimes ==
  ASSUME NEW n \in Nat \ {0}, NEW a \in Int, NEW b \in Int, NEW c \in Int
  PROVE  ((a % n) * c + b) % n = (a * c + b) % n
<1> DEFINE q == a \div n  r == a % n  z == (r * c + b) \div n  s == (r * c + b) % n
<1>1. q \in Int /\ r \in Int /\ a = n * q + r
  BY DivMod
<1> HIDE DEF q, r
<1> DEFINE y == r * c + b
<1>2. y \in Int
  BY <1>1
<1>3. z \in Int /\ s \in 0..(n - 1) /\ y = n * z + s
  BY <1>2, DivMod DEF z, s
<1> HIDE DEF z, s
<1> DEFINE x == a * c + b  p == q * c + z
<1>4. p \in Int /\ x \in Int
  BY <1>1, <1>3
<1>5. x = n * p + s
  <2>1. a * c = (n * q + r) * c
    BY <1>1
  <2>2. (n * q + r) * c = n * (q * c) + r * c
    BY <1>1
  <2>3. n * (q * c + z) = n * (q * c) + n * z
    BY <1>1, <1>3
  <2>4. a * c \in Int /\ r * c \in Int /\ n * (q * c) \in Int /\ n * z \in Int
    BY <1>1, <1>3
  <2> QED BY <1>3, <2>1, <2>2, <2>3, <2>4
<1> HIDE DEF x, p, y
<1>6. x % n = s
  BY <1>3, <1>4, <1>5, ModIs
<1> QED BY <1>6 DEF x, s, r

(* Two indices that have wrapped tell how far apart the counts behind them  *)
(* are, if that is less than the modulus.                                   *)
LEMMA WrappedDistance ==
  ASSUME NEW n \in Nat \ {0}, NEW a \in Int, NEW b \in Int, a <= b, b - a < n
  PROVE  ((b % n) - (a % n)) % n = b - a
<1> DEFINE x == b - a
<1>1. x \in 0..(n - 1)
  OBVIOUS
<1>2. ((b % n) - (a % n)) % n = x % n
  BY ModMinus
<1> HIDE DEF x
<1>3. x % n = x
  BY <1>1, ModSmall
<1> QED BY <1>2, <1>3 DEF x

-----------------------------------------------------------------------------
(* Sequences.                                                               *)

(* The head and the tail of a run of numbers.                               *)
LEMMA RunTail ==
  ASSUME NEW a \in Int, NEW m \in Nat \ {0}
  PROVE  /\ Head([n \in 1..m |-> a + n]) = a + 1
         /\ Tail([n \in 1..m |-> a + n]) = [n \in 1..(m - 1) |-> (a + 1) + n]
<1> DEFINE q == [n \in 1..m |-> a + n]
<1>1. q \in Seq(Int) /\ Len(q) = m /\ q # << >>
  OBVIOUS
<1>2. Tail(q) \in Seq(Int) /\ Len(Tail(q)) = m - 1
  BY <1>1
<1>3. \A n \in 1..(m - 1) : Tail(q)[n] = q[n + 1]
  BY <1>1
<1>4. \A n \in 1..(m - 1) : Tail(q)[n] = (a + 1) + n
  BY <1>1, <1>3
<1> DEFINE t == [n \in 1..(m - 1) |-> (a + 1) + n]
<1>6. t \in Seq(Int) /\ Len(t) = m - 1 /\ \A n \in 1..(m - 1) : t[n] = (a + 1) + n
  OBVIOUS
<1> HIDE DEF q, t
<1>5. Tail(q) = t
  BY <1>2, <1>4, <1>6, SeqEqual
<1> QED BY <1>1, <1>5, SMTT(60) DEF q, t

(* The head and the tail of a window of a sequence.                         *)
LEMMA WindowTail ==
  ASSUME NEW p \in Seq(Int), NEW r \in Nat, NEW m \in Nat \ {0}, r + m <= Len(p)
  PROVE  /\ Head([n \in 1..m |-> p[r + n]]) = p[r + 1]
         /\ Tail([n \in 1..m |-> p[r + n]]) = [n \in 1..(m - 1) |-> p[(r + 1) + n]]
<1> DEFINE q == [n \in 1..m |-> p[r + n]]  t == [n \in 1..(m - 1) |-> p[(r + 1) + n]]
<1>1. \A n \in 1..m : r + n \in 1..Len(p) /\ p[r + n] \in Int
  OBVIOUS
<1>2. q \in Seq(Int) /\ Len(q) = m /\ q # << >>
  BY <1>1, SMTT(60)
<1>3. \A n \in 1..(m - 1) : n + 1 \in 1..m /\ r + (n + 1) = (r + 1) + n
  OBVIOUS
<1>4. t \in Seq(Int) /\ Len(t) = m - 1
  <2>1. \A n \in 1..(m - 1) : p[(r + 1) + n] \in Int
    BY <1>1, <1>3
  <2> QED BY <2>1
<1>5. \A n \in 1..(m - 1) : Tail(q)[n] = q[n + 1]
  BY <1>2
<1>6. \A n \in 1..(m - 1) : q[n + 1] = p[r + (n + 1)]
  BY <1>3
<1>7. \A n \in 1..(m - 1) : Tail(q)[n] = t[n]
  BY <1>3, <1>5, <1>6
<1>8. Tail(q) \in Seq(Int) /\ Len(Tail(q)) = m - 1
  <2> HIDE DEF q
  <2> QED BY <1>2
<1>9. Head(q) = p[r + 1]
  BY <1>2
<1> HIDE DEF q, t
<1>10. Tail(q) = t
  BY <1>4, <1>7, <1>8, SeqEqual
<1> QED BY <1>9, <1>10 DEF q, t

-----------------------------------------------------------------------------
(* Sums over finite sets.                                                   *)

(* A set of natural numbers has a least one.  This is what takes the place  *)
(* of induction: what fails, fails first somewhere.                         *)
LEMMA LeastNumber ==
  ASSUME NEW T, T \subseteq Nat, T # {}
  PROVE  \E n \in T : \A m \in T : n <= m
<1> DEFINE R == {ss \in Nat \X Nat : ss[1] < ss[2]}
<1>1. IsWellFoundedOn(R, Nat)
  BY NatLessThanWellFounded DEF OpToRel
<1>2. PICK n \in T : \A m \in T : ~(<<m, n>> \in R)
  BY <1>1, WFMin
<1>3. \A m \in T : ~(m < n)
  BY <1>2
<1> QED BY <1>3

(* Of some subsets of a finite set one is smallest.                         *)
LEMMA SmallestSet ==
  ASSUME NEW S, IsFiniteSet(S), NEW C, C \subseteq SUBSET S, C # {}
  PROVE  \E s \in C : \A t \in C : Cardinality(t) \in Nat /\ Cardinality(s) <= Cardinality(t)
<1> DEFINE T == {Cardinality(s) : s \in C}
<1>1. T \subseteq Nat /\ T # {}
  BY FS_Subset, FS_CardinalityType
<1> HIDE DEF T
<1>2. PICK n \in T : \A m \in T : n <= m
  BY <1>1, LeastNumber
<1> QED BY <1>1, <1>2 DEF T

(* The element that a fold over a set takes first.                          *)
Least(s) == CHOOSE x \in s : TRUE

(* A set that is not empty has such an element.                             *)
LEMMA LeastIn == ASSUME NEW s, s # {} PROVE Least(s) \in s
  BY DEF Least

(* The sum over s, from a table of the sums over its subsets.               *)
Unfolded(f, g, s) == IF s = {} THEN 0 ELSE f[Least(s)] + g[s \ {Least(s)}]

(* g is the table of the sums of f over the subsets of S.                   *)
IsTable(f, S, g) == g = [s \in SUBSET S |-> Unfolded(f, g, s)]
Table(f, S) == CHOOSE g : IsTable(f, S, g)

(* SumFunctionOnSet looks its result up in that table.                      *)
LEMMA SumIs ==
  ASSUME NEW f, NEW S
  PROVE  SumFunctionOnSet(f, S) = Table(f, S)[S]
  BY DEF SumFunctionOnSet, FoldFunctionOnSet, MapThenFoldSet, Table, IsTable, Unfolded, Least

(* The table exists: it is built for sets of growing size.                  *)
LEMMA TableExists ==
  ASSUME NEW S, IsFiniteSet(S), NEW f, \A x \in S : f[x] \in Int
  PROVE  \E g \in [SUBSET S -> Int] : IsTable(f, S, g)
<1> DEFINE Small(n) == {s \in SUBSET S : Cardinality(s) <= n}
           Good(n) == \E g \in [Small(n) -> Int] : \A s \in Small(n) : g[s] = Unfolded(f, g, s)
           Bad == {n \in Nat : ~Good(n)}
<1>0. \A s \in SUBSET S : IsFiniteSet(s) /\ Cardinality(s) \in Nat
  BY FS_Subset, FS_CardinalityType
<1>01. \A s \in SUBSET S : s # {} => /\ Least(s) \in s /\ s \ {Least(s)} \in SUBSET S
                                     /\ Cardinality(s \ {Least(s)}) = Cardinality(s) - 1
  BY <1>0, FS_RemoveElement, LeastIn
<1>1. Good(0)
  <2> DEFINE g == [s \in Small(0) |-> 0]
  <2>1. \A s \in Small(0) : s = {}
    <3> TAKE s \in Small(0)
    <3>1. s \in SUBSET S /\ Cardinality(s) <= 0
      OBVIOUS
    <3>2. IsFiniteSet(s) /\ Cardinality(s) = 0
      BY <1>0, <3>1
    <3> QED BY <3>2, FS_EmptySet
  <2>2. g \in [Small(0) -> Int] /\ \A s \in Small(0) : g[s] = Unfolded(f, g, s)
    BY <2>1 DEF Unfolded
  <2> QED BY <2>2
<1>2. ASSUME NEW n \in Nat, Good(n) PROVE Good(n + 1)
  <2>1. PICK g \in [Small(n) -> Int] : \A s \in Small(n) : g[s] = Unfolded(f, g, s)
    BY <1>2
  <2> DEFINE h == [s \in Small(n + 1) |-> Unfolded(f, g, s)]
  <2>2. \A s \in Small(n + 1) : s # {} => s \ {Least(s)} \in Small(n) /\ f[Least(s)] \in Int
    <3> SUFFICES ASSUME NEW s \in Small(n + 1), s # {}
                 PROVE  s \ {Least(s)} \in Small(n) /\ f[Least(s)] \in Int
      OBVIOUS
    <3>0. s \in SUBSET S /\ Cardinality(s) <= n + 1
      OBVIOUS
    <3>1. s \in SUBSET S /\ Cardinality(s) <= n + 1 /\ Cardinality(s) \in Nat
      BY <1>0, <3>0
    <3>2. Least(s) \in S
      BY <1>01, <3>1
    <3>3. Cardinality(s \ {Least(s)}) <= n
      BY <1>01, <3>1
    <3> QED BY <1>01, <3>1, <3>2, <3>3
  <2>3. \A s \in Small(n) : s \in Small(n + 1) /\ h[s] = g[s]
    <3> TAKE s \in Small(n)
    <3>0. s \in SUBSET S /\ Cardinality(s) <= n
      OBVIOUS
    <3>1. s \in Small(n + 1)
      BY <1>0, <3>0
    <3> QED BY <2>1, <3>1
  <2>4. h \in [Small(n + 1) -> Int]
    BY <2>2 DEF Unfolded
  <2>5. \A s \in Small(n + 1) : h[s] = Unfolded(f, h, s)
    <3> SUFFICES ASSUME NEW s \in Small(n + 1) PROVE Unfolded(f, g, s) = Unfolded(f, h, s)
      OBVIOUS
    <3>1. CASE s = {}
      BY <3>1 DEF Unfolded
    <3>2. CASE s # {}
      <4>1. h[s \ {Least(s)}] = g[s \ {Least(s)}]
        BY <2>2, <2>3, <3>2
      <4> HIDE DEF h
      <4> QED BY <3>2, <4>1 DEF Unfolded
    <3> QED BY <3>1, <3>2
  <2> HIDE DEF h
  <2> QED BY <2>4, <2>5
<1> HIDE DEF Good
<1>3. Bad = {}
  <2> SUFFICES ASSUME Bad # {} PROVE FALSE
    OBVIOUS
  <2>1. PICK n \in Bad : \A m \in Bad : n <= m
    BY LeastNumber
  <2>2. n # 0 /\ n \in Nat
    BY <1>1
  <2>3. n - 1 \in Nat /\ n - 1 \notin Bad
    BY <2>1, <2>2
  <2>4. Good(n - 1 + 1)
    BY <1>2, <2>3
  <2> QED BY <2>2, <2>4
<1>4. Cardinality(S) \in Nat /\ Good(Cardinality(S))
  BY <1>0, <1>3
<1>5. Small(Cardinality(S)) = SUBSET S
  BY <1>0, FS_Subset
<1>6. PICK g \in [SUBSET S -> Int] : \A s \in SUBSET S : g[s] = Unfolded(f, g, s)
  BY <1>4, <1>5 DEF Good
<1>7. IsTable(f, S, g)
  BY <1>6 DEF IsTable
<1> QED BY <1>7

(* So what the library chooses is such a table.                             *)
LEMMA TableIs ==
  ASSUME NEW S, IsFiniteSet(S), NEW f, \A x \in S : f[x] \in Int
  PROVE  IsTable(f, S, Table(f, S))
  BY TableExists DEF Table

(* The sums do not depend on the order in which elements are taken.         *)
LEMMA TableAnyOrder ==
  ASSUME NEW S, IsFiniteSet(S), NEW f, \A x \in S : f[x] \in Int, NEW g, IsTable(f, S, g),
         NEW s \in SUBSET S
  PROVE  g[s] \in Int /\ \A x \in s : g[s] = f[x] + g[s \ {x}]
<1> DEFINE Holds(t) == g[t] \in Int /\ \A x \in t : g[t] = f[x] + g[t \ {x}]
           C == {t \in SUBSET S : ~Holds(t)}
<1>0. \A t \in SUBSET S : g[t] = Unfolded(f, g, t)
  BY DEF IsTable
<1> SUFFICES ASSUME C # {} PROVE FALSE
  OBVIOUS
<1>1. PICK t \in C : \A u \in C : Cardinality(u) \in Nat /\ Cardinality(t) <= Cardinality(u)
  BY SmallestSet
<1>2. t \in SUBSET S /\ IsFiniteSet(t) /\ Cardinality(t) \in Nat
  BY FS_Subset, <1>1
<1>3. \A x \in t : x \in S /\ f[x] \in Int /\ t \ {x} \in SUBSET S /\ Cardinality(t \ {x}) = Cardinality(t) - 1
  BY <1>2, FS_RemoveElement
<1>4. \A x \in t : Holds(t \ {x})
  <2> TAKE x \in t
  <2>1. t \ {x} \notin C
    BY <1>1, <1>2, <1>3, SMTT(60)
  <2> QED BY <1>3, <2>1
<1>41. \A x \in t : g[t \ {x}] \in Int /\ \A y \in t \ {x} : g[t \ {x}] = f[y] + g[(t \ {x}) \ {y}]
  BY <1>4
<1> SUFFICES Holds(t)
  BY <1>1
<1>5. CASE t = {}
  <2>1. g[t] = 0
    BY <1>0, <1>2, <1>5 DEF Unfolded
  <2> QED BY <1>5, <2>1
<1>6. CASE t # {}
  <2> DEFINE c == Least(t)
  <2>1. c \in t /\ g[t] = f[c] + g[t \ {c}]
    BY <1>0, <1>2, <1>6, LeastIn DEF Unfolded
  <2> HIDE DEF c
  <2>2. g[t] \in Int
    <3>1. f[c] \in Int /\ g[t \ {c}] \in Int
      BY <1>3, <1>41, <2>1, Zenon
    <3> QED BY <2>1, <3>1
  <2>3. ASSUME NEW x \in t PROVE g[t] = f[x] + g[t \ {x}]
    <3>1. CASE x = c
      BY <2>1, <3>1
    <3>2. CASE x # c
      <4>1. x \in t \ {c} /\ c \in t \ {x} /\ (t \ {c}) \ {x} = (t \ {x}) \ {c}
        BY <2>1, <3>2
      <4>2. g[t \ {c}] = f[x] + g[(t \ {c}) \ {x}]
        BY <1>41, <2>1, <4>1, Zenon
      <4>3. g[t \ {x}] = f[c] + g[(t \ {c}) \ {x}]
        <5>1. g[t \ {x}] = f[c] + g[(t \ {x}) \ {c}]
          BY <1>41, <4>1, Zenon
        <5> QED BY <4>1, <5>1, Zenon
      <4>4. g[(t \ {c}) \ {x}] \in Int
        <5>1. (t \ {c}) \ {x} \notin C
          <6> DEFINE u == t \ {c}
          <6>1. u \in SUBSET S /\ IsFiniteSet(u) /\ x \in u /\ Cardinality(u) = Cardinality(t) - 1
            BY <1>2, <1>3, <2>1, <4>1, FS_RemoveElement
          <6> HIDE DEF u
          <6>20. Cardinality(u \ {x}) = Cardinality(u) - 1
            BY <6>1, FS_RemoveElement
          <6>2. u \ {x} \in SUBSET S /\ Cardinality(u \ {x}) = Cardinality(t) - 1 - 1
            BY <6>1, <6>20
          <6>3. u \ {x} \notin C
            <7>1. ~(Cardinality(t) <= Cardinality(u \ {x}))
              BY <1>2, <6>2
            <7> QED BY <1>1, <7>1
          <6> QED BY <6>3 DEF u
        <5> QED BY <1>2, <5>1
      <4> QED BY <1>3, <2>1, <4>2, <4>3, <4>4
    <3> QED BY <3>1, <3>2
  <2> QED BY <2>2, <2>3
<1> QED BY <1>5, <1>6

(* Sums of the same numbers are equal, in whichever tables they are.        *)
LEMMA TableSame ==
  ASSUME NEW S, NEW T, IsFiniteSet(S), IsFiniteSet(T), NEW f, NEW h,
         NEW g, IsTable(f, S, g), NEW k, IsTable(h, T, k),
         NEW s \in SUBSET S, s \in SUBSET T, \A x \in s : f[x] = h[x]
  PROVE  g[s] = k[s]
<1> DEFINE C == {t \in SUBSET s : g[t] # k[t]}
<1>0. /\ \A t \in SUBSET s : g[t] = Unfolded(f, g, t)
      /\ \A t \in SUBSET s : k[t] = Unfolded(h, k, t)
  BY DEF IsTable
<1> SUFFICES ASSUME C # {} PROVE FALSE
  OBVIOUS
<1>1. IsFiniteSet(s)
  BY FS_Subset
<1>2. PICK t \in C : \A u \in C : Cardinality(u) \in Nat /\ Cardinality(t) <= Cardinality(u)
  BY <1>1, SmallestSet
<1>3. CASE t = {}
  BY <1>0, <1>3 DEF Unfolded
<1>4. CASE t # {}
  <2>1. Least(t) \in t
    BY <1>4, LeastIn
  <2>2. Cardinality(t \ {Least(t)}) = Cardinality(t) - 1 /\ Cardinality(t) \in Nat
    <3>1. IsFiniteSet(t)
      BY <1>1, FS_Subset
    <3> QED BY <2>1, <3>1, FS_RemoveElement, FS_CardinalityType
  <2>3. t \ {Least(t)} \notin C
    BY <1>2, <2>2
  <2> QED BY <1>0, <1>4, <2>1, <2>3 DEF Unfolded
<1> QED BY <1>3, <1>4

-----------------------------------------------------------------------------

(* The empty sum is zero.                                                   *)
LEMMA SumEmpty == ASSUME NEW f PROVE SumFunctionOnSet(f, {}) = 0
<1> DEFINE g == [s \in SUBSET {} |-> 0]
<1>1. \A k : IsTable(f, {}, k) <=> k = g
  BY DEF IsTable, Unfolded
<1>2. Table(f, {}) = g
  BY <1>1 DEF Table
<1> QED BY <1>2, SumIs

(* A sum of integers is an integer.                                         *)
LEMMA SumInt ==
  ASSUME NEW S, IsFiniteSet(S), NEW f, \A x \in S : f[x] \in Int
  PROVE  SumFunctionOnSet(f, S) \in Int
  BY SumIs, TableIs, TableAnyOrder

(* Sums of the same numbers are equal.                                      *)
LEMMA SumSame ==
  ASSUME NEW S, IsFiniteSet(S), NEW f, NEW h,
         \A x \in S : f[x] \in Int, \A x \in S : f[x] = h[x]
  PROVE  SumFunctionOnSet(f, S) = SumFunctionOnSet(h, S)
<1>1. \A x \in S : h[x] \in Int
  OBVIOUS
<1>2. IsTable(f, S, Table(f, S)) /\ IsTable(h, S, Table(h, S))
  BY <1>1, TableIs
<1>3. Table(f, S)[S] = Table(h, S)[S]
  BY <1>2, TableSame
<1> QED BY <1>3, SumIs

(* Any element may be taken out of a sum.                                   *)
LEMMA SumSplit ==
  ASSUME NEW S, IsFiniteSet(S), NEW f, \A x \in S : f[x] \in Int, NEW x \in S
  PROVE  SumFunctionOnSet(f, S) = f[x] + SumFunctionOnSet(f, S \ {x})
<1> DEFINE T == S \ {x}
<1>1. IsFiniteSet(T) /\ T \subseteq S /\ \A y \in T : f[y] \in Int
  BY FS_RemoveElement
<1> HIDE DEF T
<1>2. IsTable(f, S, Table(f, S)) /\ IsTable(f, T, Table(f, T))
  BY <1>1, TableIs
<1>3. Table(f, S)[S] = f[x] + Table(f, S)[S \ {x}]
  BY <1>2, TableAnyOrder
<1>4. Table(f, S)[T] = Table(f, T)[T]
  <2>1. T \in SUBSET S /\ T \in SUBSET T /\ \A y \in T : f[y] = f[y]
    BY <1>1
  <2> QED BY <1>1, <1>2, <2>1, TableSame
<1> QED BY <1>3, <1>4, SumIs DEF T

(* A number that changes changes the sum by as much.                        *)
LEMMA SumChange ==
  ASSUME NEW S, IsFiniteSet(S), NEW f, NEW h, \A x \in S : f[x] \in Int,
         NEW x \in S, h[x] \in Int, \A y \in S \ {x} : h[y] = f[y]
  PROVE  SumFunctionOnSet(h, S) = SumFunctionOnSet(f, S) - f[x] + h[x]
<1> DEFINE T == S \ {x}  A == SumFunctionOnSet(f, T)
<1>1. IsFiniteSet(T) /\ (\A y \in T : f[y] \in Int) /\ (\A y \in T : f[y] = h[y])
  BY FS_RemoveElement
<1>2. \A y \in S : h[y] \in Int
  OBVIOUS
<1>3. SumFunctionOnSet(f, S) = f[x] + SumFunctionOnSet(f, T)
  BY SumSplit
<1>4. SumFunctionOnSet(h, S) = h[x] + SumFunctionOnSet(h, T)
  BY <1>2, SumSplit
<1> HIDE DEF T
<1>5. SumFunctionOnSet(f, T) = SumFunctionOnSet(h, T) /\ SumFunctionOnSet(f, T) \in Int
  BY <1>1, SumSame, SumInt
<1> QED BY <1>3, <1>4, <1>5

(* A sum of multiples is a multiple of the sum.                             *)
LEMMA SumScale ==
  ASSUME NEW S, IsFiniteSet(S), NEW c \in Int, NEW f, NEW h, \A x \in S : f[x] \in Int /\ h[x] = c * f[x]
  PROVE  SumFunctionOnSet(h, S) = c * SumFunctionOnSet(f, S)
<1> DEFINE C == {s \in SUBSET S : SumFunctionOnSet(h, s) # c * SumFunctionOnSet(f, s)}
<1> SUFFICES ASSUME C # {} PROVE FALSE
  OBVIOUS
<1>1. PICK t \in C : \A u \in C : Cardinality(u) \in Nat /\ Cardinality(t) <= Cardinality(u)
  BY SmallestSet
<1>2. t \subseteq S /\ IsFiniteSet(t) /\ Cardinality(t) \in Nat
  BY <1>1, FS_Subset
<1>3. CASE t = {}
  <2>1. SumFunctionOnSet(h, t) = 0 /\ SumFunctionOnSet(f, t) = 0
    BY <1>3, SumEmpty
  <2> QED BY <1>1, <2>1
<1>4. CASE t # {}
  <2>1. PICK x \in t : TRUE
    BY <1>4
  <2> DEFINE u == t \ {x}  a == SumFunctionOnSet(f, u)
  <2>2. Cardinality(u) = Cardinality(t) - 1 /\ u \subseteq S /\ IsFiniteSet(u)
    BY <1>2, <2>1, FS_RemoveElement
  <2>3. \A y \in t : f[y] \in Int /\ h[y] \in Int /\ h[y] = c * f[y]
    BY <1>2
  <2>4. SumFunctionOnSet(h, t) = h[x] + SumFunctionOnSet(h, u)
    BY <1>2, <2>1, <2>3, SumSplit
  <2>5. SumFunctionOnSet(f, t) = f[x] + a
    BY <1>2, <2>1, <2>3, SumSplit
  <2>6. a \in Int /\ f[x] \in Int /\ h[x] = c * f[x]
    <3>1. \A y \in u : f[y] \in Int
      BY <2>3
    <3>2. SumFunctionOnSet(f, u) \in Int
      BY <2>2, <3>1, SumInt
    <3> QED BY <2>1, <2>3, <3>2
  <2>7. u \notin C
    BY <1>1, <1>2, <2>2
  <2>8. SumFunctionOnSet(h, u) = c * a
    BY <2>2, <2>7
  <2> HIDE DEF u, a
  <2> DEFINE b == f[x]
  <2>9. c * b + c * a = c * (b + a)
    <3>1. b \in Int
      BY <2>6
    <3> HIDE DEF b
    <3> QED BY ONLY <3>1, <2>6, c \in Int
  <2>10. SumFunctionOnSet(h, t) = c * SumFunctionOnSet(f, t)
    BY <2>4, <2>5, <2>6, <2>8, <2>9
  <2> QED BY <1>1, <2>10
<1> QED BY <1>3, <1>4

(* A sum of equal numbers counts them.                                      *)
LEMMA SumConstant ==
  ASSUME NEW S, IsFiniteSet(S), NEW f, NEW n \in Int, \A x \in S : f[x] = n
  PROVE  SumFunctionOnSet(f, S) = Cardinality(S) * n
<1> DEFINE C == {s \in SUBSET S : SumFunctionOnSet(f, s) # Cardinality(s) * n}
<1> SUFFICES ASSUME C # {} PROVE FALSE
  OBVIOUS
<1>1. PICK t \in C : \A u \in C : Cardinality(u) \in Nat /\ Cardinality(t) <= Cardinality(u)
  BY SmallestSet
<1>2. t \subseteq S /\ IsFiniteSet(t) /\ Cardinality(t) \in Nat
  BY <1>1, FS_Subset
<1>3. CASE t = {}
  <2>1. SumFunctionOnSet(f, t) = 0 /\ Cardinality(t) = 0
    BY <1>3, SumEmpty, FS_EmptySet
  <2> QED BY <1>1, <2>1
<1>4. CASE t # {}
  <2>1. PICK x \in t : TRUE
    BY <1>4
  <2> DEFINE u == t \ {x}
  <2>2. Cardinality(u) = Cardinality(t) - 1 /\ u \subseteq S
    BY <1>2, <2>1, FS_RemoveElement
  <2>3. SumFunctionOnSet(f, t) = f[x] + SumFunctionOnSet(f, u) /\ f[x] = n
    BY <1>2, <2>1, SumSplit
  <2> HIDE DEF u
  <2>4. u \notin C
    BY <1>1, <1>2, <2>2
  <2>5. SumFunctionOnSet(f, u) = (Cardinality(t) - 1) * n
    BY <2>2, <2>4
  <2>6. n + (Cardinality(t) - 1) * n = Cardinality(t) * n
    BY <1>2
  <2> QED BY <1>1, <2>3, <2>5, <2>6
<1> QED BY <1>3, <1>4

-----------------------------------------------------------------------------
(* Recursion.                                                               *)

(* g lists the first n values, after b, of the recursion with step G.       *)
Steps(g, n, V, b, G) ==
  g \in [0..n -> V] /\ g[0] = b /\ \A k \in Nat : k < n => g[k + 1] = G[<<k, g[k]>>]

(* Such lists exist: the least length without one would have one.           *)
LEMMA StepsExist ==
  ASSUME NEW V, NEW b \in V, NEW G \in [Nat \X V -> V]
  PROVE  \A n \in Nat : \E g : Steps(g, n, V, b, G)
<1> DEFINE bad == {n \in Nat : ~ \E g : Steps(g, n, V, b, G)}
<1> SUFFICES ASSUME bad # {} PROVE FALSE
  OBVIOUS
<1>1. PICK n \in bad : \A m \in bad : n <= m
  BY LeastNumber, bad \subseteq Nat
<1>2. CASE n = 0
  <2>1. Steps([k \in 0..0 |-> b], 0, V, b, G)
    BY DEF Steps
  <2> QED BY <1>1, <1>2, <2>1
<1>3. CASE n # 0
  <2>1. n \in Nat /\ n - 1 \in Nat /\ n - 1 \notin bad
    BY <1>1, <1>3
  <2>2. PICK g : Steps(g, n - 1, V, b, G)
    BY <2>1
  <2> DEFINE f == [k \in 0..n |-> IF k = n THEN G[<<n - 1, g[n - 1]>>] ELSE g[k]]
  <2>3. n - 1 \in 0..(n - 1) /\ \A k \in 0..(n - 1) : g[k] \in V
    BY <2>1, <2>2 DEF Steps
  <2>4. G[<<n - 1, g[n - 1]>>] \in V
    BY <2>1, <2>3
  <2>5. \A k \in 0..n : k # n => k \in 0..(n - 1)
    BY <2>1
  <2>6. f \in [0..n -> V]
    BY <2>3, <2>4, <2>5
  <2>7. f[0] = b
    BY <1>3, <2>1, <2>2 DEF Steps
  <2>8. ASSUME NEW k \in Nat, k < n PROVE f[k + 1] = G[<<k, f[k]>>]
    <3>1. k \in 0..n /\ k + 1 \in 0..n /\ k # n
      BY <2>1, <2>8
    <3>2. f[k] = g[k]
      BY <3>1
    <3>3. CASE k + 1 = n
      <4>1. k = n - 1
        BY <2>1, <3>3
      <4> QED BY <3>1, <3>2, <3>3, <4>1
    <3>4. CASE k + 1 # n
      <4>1. k < n - 1
        BY <2>1, <2>8, <3>4
      <4> QED BY <2>2, <3>1, <3>2, <3>4, <4>1 DEF Steps
    <3> QED BY <3>3, <3>4
  <2> HIDE DEF f
  <2>9. Steps(f, n, V, b, G)
    BY <2>6, <2>7, <2>8 DEF Steps
  <2> QED BY <1>1, <2>9
<1> QED BY <1>2, <1>3

(* Two such lists agree as far as both go.                                  *)
LEMMA StepsAgree ==
  ASSUME NEW V, NEW b, NEW G, NEW n \in Nat, NEW m \in Nat, NEW f, NEW g,
         Steps(f, n, V, b, G), Steps(g, m, V, b, G)
  PROVE  \A k \in Nat : k <= n /\ k <= m => f[k] = g[k]
<1> DEFINE bad == {k \in Nat : k <= n /\ k <= m /\ f[k] # g[k]}
<1> SUFFICES ASSUME bad # {} PROVE FALSE
  OBVIOUS
<1>1. PICK k \in bad : \A j \in bad : k <= j
  BY LeastNumber, bad \subseteq Nat
<1>2. k # 0
  BY <1>1 DEF Steps
<1>3. k - 1 \in Nat /\ k - 1 <= n /\ k - 1 <= m /\ k - 1 < n /\ k - 1 < m /\ k - 1 + 1 = k /\ ~(k <= k - 1)
  BY <1>1, <1>2
<1>4. f[k - 1] = g[k - 1]
  BY <1>1, <1>3
<1>5. f[k] = G[<<k - 1, f[k - 1]>>] /\ g[k] = G[<<k - 1, g[k - 1]>>]
  BY <1>3 DEF Steps
<1> QED BY <1>1, <1>4, <1>5

(* f is the recursion that starts with b and goes on with G.                *)
Recurs(f, b, G) == f[0] = b /\ \A n \in Nat : f[n + 1] = G[<<n, f[n]>>]

(* A recursion whose step keeps its values in a set has a result.           *)
LEMMA Recursion ==
  ASSUME NEW V, NEW b \in V, NEW G \in [Nat \X V -> V]
  PROVE  \E f \in [Nat -> V] : Recurs(f, b, G)
<1> DEFINE t(n) == CHOOSE g : Steps(g, n, V, b, G)
           f == [n \in Nat |-> t(n)[n]]
<1>1. ASSUME NEW n \in Nat PROVE Steps(t(n), n, V, b, G)
  BY StepsExist
<1> HIDE DEF t
<1>2. ASSUME NEW n \in Nat PROVE t(n)[n] \in V
  BY <1>1 DEF Steps
<1>3. t(0)[0] = b
  BY <1>1 DEF Steps
<1>4. ASSUME NEW n \in Nat PROVE f[n + 1] = G[<<n, f[n]>>]
  <2>1. n + 1 \in Nat /\ n < n + 1 /\ n <= n /\ n <= n + 1
    OBVIOUS
  <2>2. Steps(t(n), n, V, b, G) /\ Steps(t(n + 1), n + 1, V, b, G)
    BY <1>1, <2>1
  <2>3. t(n + 1)[n + 1] = G[<<n, t(n + 1)[n]>>]
    BY <2>1, <2>2 DEF Steps
  <2>4. t(n + 1)[n] = t(n)[n]
    BY <2>1, <2>2, StepsAgree
  <2> QED BY <2>1, <2>3, <2>4
<1>5. Recurs(f, b, G)
  BY <1>3, <1>4 DEF Recurs
<1> QED BY <1>2, <1>5

-----------------------------------------------------------------------------
(* Short sequences, and functions that are sequences.                       *)

(* A function on 1..m is a sequence.                                        *)
LEMMA IsSeq ==
  ASSUME NEW S, NEW m \in Nat, NEW g, g = [n \in 1..m |-> g[n]], \A n \in 1..m : g[n] \in S
  PROVE  g \in Seq(S) /\ Len(g) = m
<1>1. g \in [1..m -> S]
  OBVIOUS
<1> QED BY ONLY <1>1, m \in Nat

(* An element more behind one, and behind two.                              *)
LEMMA AppendToOne == ASSUME NEW x, NEW y PROVE Append(<<x>>, y) = <<x, y>>
<1> DEFINE s == Append(<<x>>, y)  u == <<x, y>>
<1>1. <<x>> \in Seq({x, y}) /\ u \in Seq({x, y}) /\ Len(u) = 2 /\ u[1] = x /\ u[2] = y
  OBVIOUS
<1>2. s \in Seq({x, y}) /\ Len(s) = 2 /\ s[1] = x /\ s[2] = y
  BY <1>1, AppendProperties
<1> HIDE DEF s, u
<1>3. \A n \in 1..Len(s) : s[n] = u[n]
  BY <1>1, <1>2
<1>4. s = u
  BY ONLY <1>1, <1>2, <1>3, SeqEqual
<1> QED BY <1>4 DEF s, u

(* The same, behind two.                                                    *)
LEMMA AppendToTwo == ASSUME NEW x, NEW y, NEW z PROVE Append(<<x, y>>, z) = <<x, y, z>>
<1> DEFINE s == Append(<<x, y>>, z)  u == <<x, y, z>>
<1>1. <<x, y>> \in Seq({x, y, z}) /\ u \in Seq({x, y, z}) /\ Len(u) = 3 /\ u[1] = x /\ u[2] = y /\ u[3] = z
  OBVIOUS
<1>2. s \in Seq({x, y, z}) /\ Len(s) = 3 /\ s[1] = x /\ s[2] = y /\ s[3] = z
  BY <1>1, AppendProperties
<1> HIDE DEF s, u
<1>3. \A n \in 1..Len(s) : s[n] = u[n]
  BY <1>1, <1>2
<1>4. s = u
  BY ONLY <1>1, <1>2, <1>3, SeqEqual
<1> QED BY <1>4 DEF s, u

(* The rest of a queue of two, and of three.                                *)
LEMMA TailOfTwo == ASSUME NEW x, NEW y PROVE Tail(<<x, y>>) = <<y>>
  OBVIOUS

(* The same, of three.                                                      *)
LEMMA TailOfThree == ASSUME NEW x, NEW y, NEW z PROVE Tail(<<x, y, z>>) = <<y, z>>
  OBVIOUS

-----------------------------------------------------------------------------
(* Tiles, and arrays of rows.                                               *)

(* A tile after a multiple of its size there is another.                    *)
LEMMA MultipleNext ==
  ASSUME NEW t \in Nat \ {0}, NEW a \in Int, a % t = 0
  PROVE  (a + t) % t = 0
<1> DEFINE p == a \div t
<1>1. p \in Int /\ a = t * p
  BY DivMod
<1> HIDE DEF p
<1> DEFINE q == p + 1  b == a + t
<1>2. q \in Int /\ b \in Int /\ b = t * q + 0 /\ 0 \in 0..(t - 1)
  BY <1>1
<1> HIDE DEF q, b
<1>3. b % t = 0
  BY ONLY <1>2, t \in Nat \ {0}, ModIs
<1> QED BY <1>3 DEF b

(* The next multiple of t is at most as large as any that is larger.        *)
LEMMA NextMultiple ==
  ASSUME NEW t \in Nat \ {0}, NEW a \in Int, NEW b \in Int, a % t = 0, b % t = 0, a < b
  PROVE  a + t <= b
<1> DEFINE p == a \div t  q == b \div t
<1>1. p \in Int /\ a = t * p
  BY DivMod
<1>2. q \in Int /\ b = t * q
  BY DivMod
<1> HIDE DEF p, q
<1>3. p + 1 <= q
  BY <1>1, <1>2
<1>4. q - (p + 1) \in Nat
  BY <1>1, <1>2, <1>3
<1>5. t * (q - (p + 1)) >= 0
  BY <1>4
<1>6. t * (q - (p + 1)) = t * q - t * p - t
  BY <1>1, <1>2
<1> QED BY <1>1, <1>2, <1>5, <1>6

(* Where a tile begins, and where in it an index lies.                      *)
LEMMA InTile ==
  ASSUME NEW t \in Nat \ {0}, NEW a \in Int, a % t = 0, NEW r \in 0..(t - 1)
  PROVE  (a + r) % t = r /\ (a + r) - ((a + r) % t) = a
<1> DEFINE p == a \div t
<1>1. p \in Int /\ a = t * p
  BY DivMod
<1> HIDE DEF p
<1>2. a + r \in Int /\ a + r = t * p + r
  BY <1>1
<1>3. (a + r) % t = r
  BY <1>1, <1>2, ModIs
<1> QED BY <1>3

(* A multiple of a size is a whole number of tiles.                         *)
LEMMA Multiple ==
  ASSUME NEW t \in Nat \ {0}, NEW p \in Int
  PROVE  (p * t) % t = 0 /\ p * t \in Int
<1>1. p * t \in Int /\ p * t = t * p + 0 /\ 0 \in 0..(t - 1)
  OBVIOUS
<1> QED BY <1>1, ModIs

(* A size that is rounded up to whole tiles.                                *)
LEMMA RoundedUp ==
  ASSUME NEW t \in Nat \ {0}, NEW n \in Nat
  PROVE  /\ (-n) % t \in 0..(t - 1) /\ (n + ((-n) % t)) % t = 0
         /\ n % t = 0 => (-n) % t = 0
<1> DEFINE q == (-n) \div t  r == (-n) % t
<1>1. q \in Int /\ r \in 0..(t - 1) /\ -n = t * q + r
  BY DivMod
<1> HIDE DEF q, r
<1>2. n + r \in Int /\ -q \in Int /\ n + r = t * (-q) + 0 /\ 0 \in 0..(t - 1)
  BY <1>1
<1>3. (n + r) % t = 0
  BY ONLY <1>2, t \in Nat \ {0}, ModIs
<1>4. ASSUME n % t = 0 PROVE r = 0
  <2> DEFINE p == n \div t
  <2>1. p \in Int /\ n = t * p
    BY <1>4, DivMod
  <2> HIDE DEF p
  <2>2. -n \in Int /\ -p \in Int /\ -n = t * (-p) + 0 /\ 0 \in 0..(t - 1)
    BY <2>1
  <2>3. (-n) % t = 0
    BY ONLY <2>2, t \in Nat \ {0}, ModIs
  <2> QED BY <2>3 DEF r
<1> QED BY <1>1, <1>3, <1>4 DEF r

(* An array of m rows of n numbers has m * n places.                        *)
LEMMA InRows ==
  ASSUME NEW m \in Nat, NEW n \in Nat, NEW r \in 0..(m - 1), NEW s \in 0..(n - 1)
  PROVE  r * n + s \in 0..(m * n - 1)
<1>1. r * n \in Nat /\ m * n \in Nat /\ s \in Nat /\ s <= n - 1
  OBVIOUS
<1>2. (m - 1) - r \in Nat
  OBVIOUS
<1>3. ((m - 1) - r) * n >= 0
  BY <1>2
<1>4. ((m - 1) - r) * n = m * n - n - r * n
  OBVIOUS
<1> QED BY <1>1, <1>3, <1>4

(* A place in an array of rows of n numbers has one row and one column.     *)
LEMMA OnePlace ==
  ASSUME NEW n \in Nat \ {0}, NEW a \in Int, NEW b \in 0..(n - 1), NEW p \in Int, NEW q \in 0..(n - 1),
         a * n + b = p * n + q
  PROVE  a = p /\ b = q
<1> DEFINE x == a * n + b
<1>1. x \in Int /\ x = n * a + b /\ x = n * p + q
  OBVIOUS
<1> HIDE DEF x
<1>2. x % n = b /\ x % n = q
  BY <1>1, ModIs
<1>3. b = q
  BY <1>2
<1>4. n * a = n * p
  BY <1>1, <1>3
<1>5. ~(a < p) /\ ~(p < a)
  <2>1. a < p => n * (p - a) > 0
    <3> SUFFICES ASSUME a < p PROVE n * (p - a) > 0
      OBVIOUS
    <3>1. p - a \in Nat \ {0}
      OBVIOUS
    <3> QED BY <3>1
  <2>2. p < a => n * (a - p) > 0
    <3> SUFFICES ASSUME p < a PROVE n * (a - p) > 0
      OBVIOUS
    <3>1. a - p \in Nat \ {0}
      OBVIOUS
    <3> QED BY <3>1
  <2> QED BY <1>4, <2>1, <2>2
<1> QED BY <1>3, <1>5

-----------------------------------------------------------------------------
(* Sums over two sets.                                                      *)

(* The sum over two sets without a common element.                          *)
LEMMA SumUnion ==
  ASSUME NEW A, IsFiniteSet(A), NEW B, IsFiniteSet(B), A \intersect B = {},
         NEW f, \A x \in A \union B : f[x] \in Int
  PROVE  SumFunctionOnSet(f, A \union B) = SumFunctionOnSet(f, A) + SumFunctionOnSet(f, B)
<1> DEFINE C == {s \in SUBSET B : SumFunctionOnSet(f, A \union s) # SumFunctionOnSet(f, A) + SumFunctionOnSet(f, s)}
<1> SUFFICES ASSUME C # {} PROVE FALSE
  OBVIOUS
<1>0. IsFiniteSet(B) /\ C \subseteq SUBSET B
  OBVIOUS
<1>1. PICK t \in C : \A u \in C : Cardinality(u) \in Nat /\ Cardinality(t) <= Cardinality(u)
  BY <1>0, SmallestSet
<1>2. t \subseteq B /\ IsFiniteSet(t) /\ Cardinality(t) \in Nat
  BY <1>1, FS_Subset
<1>3. SumFunctionOnSet(f, A) \in Int
  BY SumInt
<1>4. CASE t = {}
  <2>1. SumFunctionOnSet(f, t) = 0 /\ A \union t = A
    BY <1>4, SumEmpty
  <2> QED BY <1>1, <1>3, <2>1
<1>5. CASE t # {}
  <2>1. PICK x \in t : TRUE
    BY <1>5
  <2> DEFINE u == t \ {x}
  <2>2. Cardinality(u) = Cardinality(t) - 1 /\ u \subseteq B /\ IsFiniteSet(u)
    BY <1>2, <2>1, FS_RemoveElement
  <2>3. x \in A \union t /\ (A \union t) \ {x} = A \union u
    BY <1>2, <2>1
  <2>4. IsFiniteSet(A \union t)
    BY <1>2, FS_Union
  <2>5. \A y \in A \union t : f[y] \in Int
    BY <1>2
  <2> HIDE DEF u
  <2>6. SumFunctionOnSet(f, A \union t) = f[x] + SumFunctionOnSet(f, A \union u)
    BY <2>3, <2>4, <2>5, SumSplit
  <2>7. SumFunctionOnSet(f, t) = f[x] + SumFunctionOnSet(f, u)
    BY <1>2, <2>1, <2>5, SumSplit DEF u
  <2>8. u \notin C
    BY <1>1, <1>2, <2>2
  <2>9. SumFunctionOnSet(f, A \union u) = SumFunctionOnSet(f, A) + SumFunctionOnSet(f, u)
    BY <2>2, <2>8
  <2>10. SumFunctionOnSet(f, u) \in Int /\ f[x] \in Int
    <3>1. \A y \in u : f[y] \in Int
      BY <2>2
    <3> QED BY <2>1, <2>2, <2>5, <3>1, SumInt
  <2>11. SumFunctionOnSet(f, A \union t) = SumFunctionOnSet(f, A) + SumFunctionOnSet(f, t)
    BY ONLY <1>3, <2>6, <2>7, <2>9, <2>10
  <2> QED BY <1>1, <2>11
<1> QED BY <1>4, <1>5

(* The sum of the numbers a + 1 to b of f, and those up to n.               *)
LEMMA SumPadded ==
  ASSUME NEW n \in Nat, NEW m \in Nat, n <= m, NEW f, NEW h,
         \A x \in 0..(n - 1) : f[x] \in Int /\ h[x] = f[x], \A x \in n..(m - 1) : h[x] = 0
  PROVE  SumFunctionOnSet(h, 0..(m - 1)) = SumFunctionOnSet(f, 0..(n - 1))
<1> DEFINE A == 0..(n - 1)  B == n..(m - 1)
<1>1. 0..(m - 1) = A \union B /\ A \intersect B = {}
  OBVIOUS
<1>2. IsFiniteSet(A) /\ IsFiniteSet(B)
  BY FS_Interval
<1>3. (\A x \in A : f[x] \in Int /\ h[x] \in Int /\ f[x] = h[x]) /\ \A x \in B : h[x] = 0
  OBVIOUS
<1> HIDE DEF A, B
<1>4. SumFunctionOnSet(h, A \union B) = SumFunctionOnSet(h, A) + SumFunctionOnSet(h, B)
  BY <1>1, <1>2, <1>3, SumUnion
<1>5. SumFunctionOnSet(h, B) = 0
  <2>1. SumFunctionOnSet(h, B) = Cardinality(B) * 0
    BY <1>2, <1>3, SumConstant
  <2>2. Cardinality(B) \in Nat
    BY <1>2, FS_CardinalityType
  <2> QED BY <2>1, <2>2
<1>6. SumFunctionOnSet(h, A) = SumFunctionOnSet(f, A) /\ SumFunctionOnSet(h, A) \in Int
  BY <1>2, <1>3, SumSame, SumInt
<1>7. SumFunctionOnSet(h, A \union B) = SumFunctionOnSet(f, A)
  BY ONLY <1>4, <1>5, <1>6
<1> QED BY <1>1, <1>7 DEF A
=============================================================================
