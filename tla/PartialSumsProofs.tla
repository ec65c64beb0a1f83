------------------------- MODULE PartialSumsProofs -------------------------
(***************************************************************************)
(* The facts about finite sums that the portfolio proofs rest on: a sum of *)
(* integers is an integer, a sum of zeros is zero, and changing one entry  *)
(* changes the sum by exactly that entry's change.  Induction enters       *)
(* through NatMin, the well-ordering of the natural numbers.               *)
(***************************************************************************)
EXTENDS PartialSums, WellFoundedInduction, TLAPS

IsRunning(s, f, n) == s = [i \in 0 .. n |-> IF i = 0 THEN 0 ELSE s[i - 1] + f[i]]
-----------------------------------------------------------------------------
\* Every nonempty set of natural numbers has a least element: the form in which
\* induction is used below.
LEMMA NatMin ==
  ASSUME NEW T, T \subseteq Nat, T # {}
  PROVE  \E x \in T : \A y \in T : x <= y
<1>1. IsWellFoundedOn(OpToRel(<, Nat), Nat)
  BY NatLessThanWellFounded
<1>2. PICK x \in T : \A y \in T : ~ (<<y, x>> \in OpToRel(<, Nat))
  BY <1>1, WFMin
<1>3. \A y \in T : ~ (y < x)
  BY <1>2 DEF OpToRel
<1>4. QED
  BY <1>3

\* The running sums of f exist for every length.
LEMMA RunningExists ==
  ASSUME NEW n \in Nat, NEW f \in [1 .. n -> Int]
  PROVE  \E s \in [0 .. n -> Int] : IsRunning(s, f, n)
<1> DEFINE bad == {m \in 0 .. n : ~ \E s \in [0 .. m -> Int] : IsRunning(s, f, m)}
<1>1. SUFFICES ASSUME bad # {} PROVE FALSE
  <2>1. n \in 0 .. n
    OBVIOUS
  <2>2. QED BY <2>1, Zenon
<1>2. bad \subseteq Nat
  OBVIOUS
<1>3. PICK m \in bad : \A k \in bad : m <= k
  <2> HIDE DEF bad
  <2>1. QED BY <1>1, <1>2, NatMin
<1>4. CASE m = 0
  <2>1. /\ [i \in 0 .. 0 |-> 0] \in [0 .. 0 -> Int]
        /\ IsRunning([i \in 0 .. 0 |-> 0], f, 0)
    BY DEF IsRunning
  <2>2. QED BY <2>1, <1>4
<1>5. CASE m # 0
  <2>1. m \in 0 .. n /\ m - 1 \in 0 .. n
    BY <1>5
  <2>2. m - 1 \notin bad
    BY <1>3, <2>1
  <2>3. PICK s \in [0 .. m - 1 -> Int] : IsRunning(s, f, m - 1)
    BY <2>1, <2>2
  <2> DEFINE t == [i \in 0 .. m |-> IF i = m THEN s[m - 1] + f[m] ELSE s[i]]
  <2>4. f[m] \in Int /\ s[m - 1] \in Int
    BY <2>1, <1>5
  <2>5. t \in [0 .. m -> Int]
    BY <2>4, <2>1
  <2>6. \A i \in 0 .. m - 1 : s[i] = IF i = 0 THEN 0 ELSE s[i - 1] + f[i]
    BY <2>3 DEF IsRunning
  <2>7. \A i \in 0 .. m : t[i] = IF i = 0 THEN 0 ELSE t[i - 1] + f[i]
    <3>1. SUFFICES ASSUME NEW i \in 0 .. m
                   PROVE  t[i] = IF i = 0 THEN 0 ELSE t[i - 1] + f[i]
      OBVIOUS
    <3>2. CASE i = m
      <4>1. t[i] = s[m - 1] + f[m] /\ t[i - 1] = s[m - 1]
        BY <3>2, <2>1, <1>5
      <4>2. QED BY <4>1, <3>2, <1>5
    <3>3. CASE i # m
      <4>1. i \in 0 .. m - 1 /\ t[i] = s[i]
        BY <3>3, <2>1
      <4>2. i # 0 => t[i - 1] = s[i - 1]
        BY <4>1
      <4>3. QED BY <4>1, <4>2, <2>6
    <3>4. QED BY <3>2, <3>3
  <2>8. IsRunning(t, f, m)
    BY <2>7, <2>5 DEF IsRunning
  <2>9. QED BY <2>5, <2>8
<1>6. QED BY <1>4, <1>5

\* The running sums of f are determined by f.
LEMMA RunningUnique ==
  ASSUME NEW n \in Nat, NEW f \in [1 .. n -> Int],
         NEW s, IsRunning(s, f, n), NEW t, IsRunning(t, f, n)
  PROVE  s = t
<1> DEFINE differ == {i \in 0 .. n : s[i] # t[i]}
<1>1. \A i \in 0 .. n : /\ s[i] = IF i = 0 THEN 0 ELSE s[i - 1] + f[i]
                        /\ t[i] = IF i = 0 THEN 0 ELSE t[i - 1] + f[i]
  BY DEF IsRunning
<1>2. differ = {}
  <2>1. SUFFICES ASSUME differ # {} PROVE FALSE
    OBVIOUS
  <2>2. differ \subseteq Nat
    OBVIOUS
  <2>3. PICK i \in differ : \A j \in differ : i <= j
    <3> HIDE DEF differ
    <3>1. QED BY <2>1, <2>2, NatMin
  <2>4. CASE i = 0
    BY <2>3, <2>4, <1>1
  <2>5. CASE i # 0
    <3>1. i - 1 \in 0 .. n /\ i - 1 \notin differ
      BY <2>3, <2>5
    <3>2. s[i - 1] = t[i - 1]
      BY <3>1
    <3>3. QED BY <3>2, <2>5, <1>1
  <2>6. QED BY <2>4, <2>5
<1>3. \A i \in 0 .. n : s[i] = t[i]
  BY <1>2
<1>4. QED BY <1>3 DEF IsRunning

\* What the recursive definition computes: the running sums.
LEMMA RunningDef ==
  ASSUME NEW n \in Nat, NEW f \in [1 .. n -> Int]
  PROVE  Running(f, n) \in [0 .. n -> Int] /\ IsRunning(Running(f, n), f, n)
<1>1. PICK s \in [0 .. n -> Int] : IsRunning(s, f, n)
  BY RunningExists
<1>2. Running(f, n) = CHOOSE t : IsRunning(t, f, n)
  BY Zenon DEF Running, IsRunning
<1>3. IsRunning(Running(f, n), f, n)
  BY <1>1, <1>2
<1>4. Running(f, n) = s
  BY <1>1, <1>3, RunningUnique
<1>5. QED BY <1>1, <1>4
-----------------------------------------------------------------------------
\* The sum of integers is an integer.
THEOREM SumToType ==
  ASSUME NEW n \in Nat, NEW f \in [1 .. n -> Int]
  PROVE  SumTo(f, n) \in Int
BY RunningDef DEF SumTo

\* The sum of zeros is zero.
THEOREM SumToZero ==
  ASSUME NEW n \in Nat, NEW f \in [1 .. n -> Int], \A i \in 1 .. n : f[i] = 0
  PROVE  SumTo(f, n) = 0
<1> DEFINE z == [i \in 0 .. n |-> 0]
<1>1. IsRunning(z, f, n)
  BY DEF IsRunning
<1>2. Running(f, n) = z
  BY <1>1, RunningDef, RunningUnique
<1>3. QED BY <1>2 DEF SumTo

\* Two families of integers that agree have the same sum, and changing the k-th
\* entry moves the sum by the difference.
LEMMA SumToUpdate ==
  ASSUME NEW n \in Nat, NEW f \in [1 .. n -> Int], NEW g \in [1 .. n -> Int],
         NEW k \in 1 .. n, \A i \in (1 .. n) \ {k} : g[i] = f[i]
  PROVE  SumTo(g, n) = SumTo(f, n) + (g[k] - f[k])
<1> DEFINE s == Running(f, n)
           t == [i \in 0 .. n |-> IF i < k THEN s[i] ELSE s[i] + (g[k] - f[k])]
<1>1. s \in [0 .. n -> Int] /\ IsRunning(s, f, n)
  BY RunningDef
<1>2. \A i \in 0 .. n : s[i] = IF i = 0 THEN 0 ELSE s[i - 1] + f[i]
  BY <1>1 DEF IsRunning
<1> HIDE DEF s
<1>3. \A i \in 0 .. n : t[i] = IF i = 0 THEN 0 ELSE t[i - 1] + g[i]
  <2>1. SUFFICES ASSUME NEW i \in 0 .. n
                 PROVE  t[i] = IF i = 0 THEN 0 ELSE t[i - 1] + g[i]
    OBVIOUS
  <2>2. CASE i = 0
    BY <2>2, <1>2
  <2>3. CASE i # 0
    <3>1. i - 1 \in 0 .. n /\ i \in 1 .. n
      BY <2>3
    <3>2. s[i] = s[i - 1] + f[i] /\ s[i - 1] \in Int /\ f[i] \in Int /\ g[i] \in Int
      BY <3>1, <1>1, <1>2, <2>3
    <3>3. i # k => g[i] = f[i]
      BY <3>1
    <3>4. QED BY <3>1, <3>2, <3>3, <2>3
  <2>4. QED BY <2>2, <2>3
<1>4. IsRunning(t, g, n)
  BY <1>3 DEF IsRunning
<1>5. Running(g, n) = t
  BY <1>4, RunningDef, RunningUnique
<1>6. QED
  BY <1>5, <1>1 DEF SumTo, s

\* A sum of natural numbers is a natural number.
THEOREM SumToNat ==
  ASSUME NEW n \in Nat, NEW f \in [1 .. n -> Nat]
  PROVE  SumTo(f, n) \in Nat
<1> DEFINE s == Running(f, n)
           negative == {i \in 0 .. n : s[i] < 0}
<1>1. f \in [1 .. n -> Int]
  OBVIOUS
<1>2. s \in [0 .. n -> Int] /\ IsRunning(s, f, n)
  BY <1>1, RunningDef
<1>3. \A i \in 0 .. n : s[i] = IF i = 0 THEN 0 ELSE s[i - 1] + f[i]
  BY <1>2 DEF IsRunning
<1> HIDE DEF s
<1>4. negative = {}
  <2>1. SUFFICES ASSUME negative # {} PROVE FALSE
    OBVIOUS
  <2>2. negative \subseteq Nat
    OBVIOUS
  <2>3. PICK i \in negative : \A j \in negative : i <= j
    <3> HIDE DEF negative
    <3>1. QED BY <2>1, <2>2, NatMin
  <2>4. i # 0
    BY <1>3
  <2>5. i - 1 \in 0 .. n /\ i \in 1 .. n /\ i - 1 \notin negative
    BY <2>3, <2>4
  <2>6. s[i - 1] \in Nat /\ f[i] \in Nat /\ s[i] = s[i - 1] + f[i]
    BY <2>5, <2>4, <1>2, <1>3
  <2>7. QED BY <2>6
<1>5. n \in 0 .. n
  OBVIOUS
<1>6. s[n] \in Nat
  BY <1>5, <1>4, <1>2
<1>7. QED BY <1>6 DEF SumTo, s

\* A sum of natural numbers is at least each of them.
THEOREM SumToAtLeast ==
  ASSUME NEW n \in Nat, NEW f \in [1 .. n -> Nat], NEW k \in 1 .. n
  PROVE  f[k] <= SumTo(f, n)
<1> DEFINE g == [f EXCEPT ![k] = 0]
<1>1. g \in [1 .. n -> Nat] /\ g[k] = 0 /\ \A i \in (1 .. n) \ {k} : g[i] = f[i]
  OBVIOUS
<1>2. f \in [1 .. n -> Int] /\ g \in [1 .. n -> Int]
  BY <1>1
<1> HIDE DEF g
<1>3. SumTo(g, n) = SumTo(f, n) + (g[k] - f[k])
  BY <1>1, <1>2, SumToUpdate
<1>4. SumTo(g, n) \in Nat
  BY <1>1, SumToNat
<1>5. SumTo(f, n) \in Int /\ f[k] \in Nat
  BY <1>2, SumToType
<1>6. QED BY <1>1, <1>3, <1>4, <1>5
=============================================================================
