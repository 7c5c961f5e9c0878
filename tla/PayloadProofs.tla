--------------------------- MODULE PayloadProofs ---------------------------
(***************************************************************************)
(* What Payload's functions compute, proved for every input: the numbers   *)
(* of the bulk form and the chunks of a batch.  The library's induction    *)
(* theorems take a predicate, so induction is made with a set in its       *)
(* place, from the least element of what would be left out (WFMin).        *)
(***************************************************************************)
EXTENDS Payload, FiniteSetTheorems, SequenceTheorems, WellFoundedInduction, TLAPS

-----------------------------------------------------------------------------
(* Induction with a set in the place of a predicate, and recursion.        *)

\* A set of numbers that holds zero and, with a number, the next one, holds them all.
LEMMA SetInduction ==
  ASSUME NEW S, 0 \in S, \A n \in Nat : n \in S => n + 1 \in S
  PROVE  Nat \subseteq S
<1> DEFINE T == Nat \ S
           R == OpToRel(<, Nat)
<1> SUFFICES ASSUME T # {} PROVE FALSE
  OBVIOUS
<1>1. T \subseteq Nat
  OBVIOUS
<1>2. PICK x \in T : \A y \in T : ~ (<<y, x>> \in R)
  <2> HIDE DEF T, R
  <2>1. IsWellFoundedOn(R, Nat)
    BY NatLessThanWellFounded DEF R
  <2> QED
    BY <1>1, <2>1, WFMin
<1>3. x \in Nat /\ x # 0 /\ x - 1 \in Nat /\ x - 1 < x
  OBVIOUS
<1>4. x - 1 \in T
  BY <1>3
<1>5. <<x - 1, x>> \in R
  BY <1>3 DEF OpToRel
<1> QED
  BY <1>2, <1>4, <1>5

\* The same up to a bound.
LEMMA StepInduction ==
  ASSUME NEW m \in Nat, NEW S, 0 \in S, \A i \in 1..m : i - 1 \in S => i \in S
  PROVE  0..m \subseteq S
<1> DEFINE T == {n \in Nat : n \in 0..m => n \in S}
<1>1. 0 \in T
  OBVIOUS
<1>2. \A n \in Nat : n \in T => n + 1 \in T
  OBVIOUS
<1> HIDE DEF T
<1>3. Nat \subseteq T
  BY <1>1, <1>2, SetInduction
<1> QED
  BY <1>3 DEF T

\* A loop of m turns on states of X: what each turn does, and the states it goes through.
Loop(m, X) == [1..m -> [X -> X]]
Runs(f, m, X, start, step) ==
  f \in [0..m -> X] /\ f[0] = start /\ \A i \in 1..m : f[i] = step[i][f[i - 1]]

\* There are such states.
LEMMA Recursion ==
  ASSUME NEW m \in Nat, NEW X, NEW start \in X, NEW step \in Loop(m, X)
  PROVE  \E f : Runs(f, m, X, start, step)
<1> DEFINE Good(k, f) == f[0] = start /\ \A i \in 1..k : f[i] = step[i][f[i - 1]]
           S == {k \in 0..m : \E f \in [0..k -> X] : Good(k, f)}
<1>1. 0 \in S
  <2> DEFINE f == [i \in 0..0 |-> start]
  <2>1. f \in [0..0 -> X] /\ f[0] = start
    OBVIOUS
  <2> HIDE DEF f
  <2>2. Good(0, f)
    BY <2>1
  <2> QED
    BY <2>1, <2>2
<1>2. ASSUME NEW i \in 1..m, i - 1 \in S
      PROVE  i \in S
  <2>1. PICK f \in [0..(i - 1) -> X] : Good(i - 1, f)
    BY <1>2
  <2> DEFINE g == [k \in 0..i |-> IF k = i THEN step[i][f[i - 1]] ELSE f[k]]
  <2>2. step[i][f[i - 1]] \in X
    BY DEF Loop
  <2>3. g \in [0..i -> X]
    BY <2>2
  <2>4. g[0] = start
    BY <2>1
  <2>5. ASSUME NEW k \in 1..i
        PROVE  g[k] = step[k][g[k - 1]]
    <3>1. g[k - 1] = f[k - 1]
      OBVIOUS
    <3>2. CASE k = i
      BY <3>1, <3>2
    <3>3. CASE k # i
      BY <3>1, <3>3, <2>1
    <3> QED
      BY <3>2, <3>3
  <2> HIDE DEF g
  <2>6. Good(i, g)
    BY <2>4, <2>5
  <2>7. i \in 0..m
    OBVIOUS
  <2> HIDE DEF Good
  <2> QED
    BY <2>3, <2>6, <2>7
<1> HIDE DEF S
<1>3. 0..m \subseteq S
  BY <1>1, <1>2, StepInduction
<1> QED
  BY <1>3 DEF S, Runs

-----------------------------------------------------------------------------
(* Concatenating a sequence of sequences.                                  *)

\* The values that a function takes as it concatenates, one sequence after the other.
Concatenates(f, s) == f[0] = <<>> /\ \A i \in 1..Len(s) : f[i] = f[i - 1] \o s[i]

\* There is such a function.
LEMMA FlattenExists ==
  ASSUME NEW X, NEW s \in Seq(Seq(X))
  PROVE  \E f \in [0..Len(s) -> Seq(X)] : Concatenates(f, s)
<1> DEFINE step == [i \in 1..Len(s) |-> [x \in Seq(X) |-> x \o s[i]]]
<1>1. step \in [1..Len(s) -> [Seq(X) -> Seq(X)]]
  <2>1. \A i \in 1..Len(s) : s[i] \in Seq(X)
    OBVIOUS
  <2>2. \A i \in 1..Len(s) : \A x \in Seq(X) : x \o s[i] \in Seq(X)
    BY <2>1
  <2> QED
    BY <2>2
<1>2. \A i \in 1..Len(s) : \A x \in Seq(X) : step[i][x] = x \o s[i]
  OBVIOUS
<1> DEFINE m == Len(s)
           Y == Seq(X)
           start == <<>>
<1> HIDE DEF step
<1>3. \E f : Runs(f, m, Y, start, step)
  <2>1. m \in Nat
    OBVIOUS
  <2>2. start \in Y
    OBVIOUS
  <2>3. step \in Loop(m, Y)
    BY <1>1 DEF Loop
  <2> HIDE DEF m, Y, start
  <2> QED
    BY <2>1, <2>2, <2>3, Recursion
<1>5. PICK f \in [0..m -> Y] : f[0] = start /\ \A i \in 1..m : f[i] = step[i][f[i - 1]]
  BY <1>3 DEF Runs
<1>6. \A i \in 1..m : f[i] = f[i - 1] \o s[i]
  <2> SUFFICES ASSUME NEW i \in 1..m PROVE f[i] = f[i - 1] \o s[i]
    OBVIOUS
  <2>1. i - 1 \in 0..m
    OBVIOUS
  <2>2. f[i - 1] \in Y
    BY <2>1
  <2> QED
    BY <1>2, <1>5, <2>2
<1>7. Concatenates(f, s)
  BY <1>5, <1>6 DEF Concatenates
<1> QED
  BY <1>7

\* And it ends in FlattenSeq.
LEMMA FlattenIs ==
  ASSUME NEW X, NEW s \in Seq(Seq(X)), NEW f \in [0..Len(s) -> Seq(X)], Concatenates(f, s)
  PROVE  FlattenSeq(s) = f[Len(s)]
<1> DEFINE D(g) == [i \in 1..Len(s) |-> IF i = 1 THEN s[i] ELSE g[i - 1] \o s[i]]
           flatten == CHOOSE g : g = D(g)
<1>0. Len(s) \in Nat
  OBVIOUS
<1>1. CASE Len(s) = 0
  <2>1. s = <<>>
    BY <1>1
  <2> QED
    BY <1>1, <2>1 DEF FlattenSeq, Concatenates
<1>2. CASE Len(s) # 0
  <2> DEFINE h == [i \in 1..Len(s) |-> f[i]]
  <2>1. \A i \in 1..Len(s) : h[i] = D(h)[i]
    <3> SUFFICES ASSUME NEW i \in 1..Len(s) PROVE h[i] = D(h)[i]
      OBVIOUS
    <3>1. s[i] \in Seq(X)
      OBVIOUS
    <3>2. CASE i = 1
      <4>1. f[1] = <<>> \o s[1]
        BY <3>2, <1>0 DEF Concatenates
      <4> QED
        BY <3>1, <3>2, <4>1, ConcatEmptySeq
    <3>3. CASE i # 1
      <4>1. i - 1 \in 1..Len(s)
        BY <3>3, <1>0
      <4>2. f[i] = f[i - 1] \o s[i]
        BY DEF Concatenates
      <4>3. h[i - 1] = f[i - 1] /\ h[i] = f[i]
        BY <4>1
      <4> HIDE DEF h
      <4> QED
        BY <3>3, <4>2, <4>3
    <3> QED
      BY <3>2, <3>3
  <2>2. h = D(h)
    BY <2>1
  <2>3. flatten = D(flatten)
    <3> HIDE DEF h, D
    <3> QED
      BY <2>2
  <2> DEFINE S == {i \in 0..Len(s) : i # 0 => flatten[i] = f[i]}
  <2>4. 0 \in S
    BY <1>0
  <2>5. ASSUME NEW i \in 1..Len(s), i - 1 \in S
        PROVE  i \in S
    <3>1. flatten[i] = IF i = 1 THEN s[i] ELSE flatten[i - 1] \o s[i]
      <4> HIDE DEF flatten
      <4> QED
        BY <2>3
    <3>2. CASE i = 1
      <4>1. flatten[i] = h[i]
        BY <3>1, <3>2, <2>2
      <4> QED
        BY <4>1
    <3>3. CASE i # 1
      <4>1. flatten[i - 1] = f[i - 1]
        BY <2>5, <3>3
      <4>2. flatten[i] = f[i]
        BY <4>1, <3>1, <3>3 DEF Concatenates
      <4> QED
        BY <4>2
    <3> QED
      BY <3>2, <3>3
  <2>6. FlattenSeq(s) = flatten[Len(s)]
    BY <1>2 DEF FlattenSeq
  <2> HIDE DEF S, flatten
  <2>7. 0..Len(s) \subseteq S
    BY <1>0, <2>4, <2>5, StepInduction
  <2>8. Len(s) \in S
    BY <1>0, <2>7
  <2>9. flatten[Len(s)] = f[Len(s)]
    BY <1>2, <2>8 DEF S
  <2> QED
    BY <2>6, <2>9
<1> QED
  BY <1>1, <1>2

LEMMA FlattenSteps ==
  ASSUME NEW X, NEW s \in Seq(Seq(X))
  PROVE  \E f \in [0..Len(s) -> Seq(X)] : Concatenates(f, s) /\ FlattenSeq(s) = f[Len(s)]
<1>1. PICK f \in [0..Len(s) -> Seq(X)] : Concatenates(f, s)
  BY FlattenExists
<1>2. FlattenSeq(s) = f[Len(s)]
  BY <1>1, FlattenIs
<1> QED
  BY <1>1, <1>2

LEMMA FlattenType ==
  ASSUME NEW X, NEW s \in Seq(Seq(X))
  PROVE  FlattenSeq(s) \in Seq(X)
<1>1. PICK f \in [0..Len(s) -> Seq(X)] : Concatenates(f, s) /\ FlattenSeq(s) = f[Len(s)]
  BY FlattenSteps
<1>2. Len(s) \in 0..Len(s)
  OBVIOUS
<1> QED
  BY <1>1, <1>2

LEMMA FlattenEmpty == FlattenSeq(<<>>) = <<>>
  BY DEF FlattenSeq

\* Of a sequence and another one, in the order they stand in.
LEMMA FlattenConcat ==
  ASSUME NEW X, NEW s \in Seq(Seq(X)), NEW t \in Seq(Seq(X))
  PROVE  FlattenSeq(s \o t) = FlattenSeq(s) \o FlattenSeq(t)
<1>1. PICK f \in [0..Len(s) -> Seq(X)] : Concatenates(f, s) /\ FlattenSeq(s) = f[Len(s)]
  BY FlattenSteps
<1>2. PICK h \in [0..Len(t) -> Seq(X)] : Concatenates(h, t) /\ FlattenSeq(t) = h[Len(t)]
  BY FlattenSteps
<1> DEFINE m == Len(s)
           n == Len(t)
           u == s \o t
           g == [i \in 0..Len(u) |-> IF i <= m THEN f[i] ELSE f[m] \o h[i - m]]
<1>3. m \in Nat /\ n \in Nat /\ u \in Seq(Seq(X)) /\ Len(u) = m + n
  BY ConcatProperties
<1>4. \A i \in 1..m : u[i] = s[i]
  BY <1>3, ConcatProperties
<1>5. \A i \in 1..n : u[m + i] = t[i]
  BY <1>3, ConcatProperties
<1>6. \A i \in 0..m : f[i] \in Seq(X)
  BY <1>3
<1>7. \A i \in 0..n : h[i] \in Seq(X)
  BY <1>3
<1> HIDE DEF u
<1>8. \A i \in 0..m : g[i] = f[i]
  BY <1>3
<1>9. \A i \in 0..n : g[m + i] = f[m] \o h[i]
  <2> SUFFICES ASSUME NEW i \in 0..n PROVE g[m + i] = f[m] \o h[i]
    OBVIOUS
  <2>1. CASE i = 0
    <3>1. f[m] \o h[0] = f[m]
      BY <1>2, <1>3, <1>6, ConcatEmptySeq DEF Concatenates
    <3>2. g[m + 0] = f[m]
      BY <1>3
    <3> QED
      BY <2>1, <3>1, <3>2
  <2>2. CASE i # 0
    <3>1. m + i \in 0..Len(u) /\ ~(m + i <= m) /\ (m + i) - m = i
      BY <1>3, <2>2
    <3> QED
      BY <3>1
  <2> QED
    BY <2>1, <2>2
<1>10. g \in [0..Len(u) -> Seq(X)]
  <2> SUFFICES ASSUME NEW i \in 0..Len(u)
               PROVE  (IF i <= m THEN f[i] ELSE f[m] \o h[i - m]) \in Seq(X)
    OBVIOUS
  <2>1. CASE i <= m
    BY <1>3, <1>6, <2>1
  <2>2. CASE ~(i <= m)
    <3>1. i - m \in 0..n /\ m \in 0..m
      BY <1>3, <2>2
    <3>2. f[m] \in Seq(X) /\ h[i - m] \in Seq(X)
      BY <1>6, <1>7, <3>1
    <3> QED
      BY <2>2, <3>2, ConcatProperties
  <2> QED
    BY <2>1, <2>2
<1>11. ASSUME NEW i \in 1..Len(u)
       PROVE  g[i] = g[i - 1] \o u[i]
  <2>1. CASE i <= m
    <3>1. i \in 1..m /\ i - 1 \in 0..m
      BY <1>3, <2>1
    <3>2. g[i] = f[i] /\ g[i - 1] = f[i - 1] /\ u[i] = s[i]
      BY <1>3, <1>4, <1>8, <3>1
    <3> HIDE DEF g
    <3> QED
      BY <1>1, <3>1, <3>2 DEF Concatenates
  <2>2. CASE ~(i <= m)
    <3> DEFINE k == i - m
    <3>1. k \in 1..n /\ k - 1 \in 0..n /\ m + k = i /\ m + (k - 1) = i - 1 /\ m \in 0..m
      BY <1>3, <2>2
    <3> HIDE DEF g, k
    <3>2. g[i] = f[m] \o h[k] /\ g[i - 1] = f[m] \o h[k - 1] /\ u[i] = t[k]
      <4>1. k \in 0..n
        BY <3>1, <1>3
      <4> QED
        BY <1>5, <1>9, <3>1, <4>1
    <3>3. h[k] = h[k - 1] \o t[k]
      BY <1>2, <3>1 DEF Concatenates
    <3>4. f[m] \in Seq(X) /\ h[k - 1] \in Seq(X) /\ t[k] \in Seq(X)
      BY <1>6, <1>7, <3>1
    <3>5. (f[m] \o h[k - 1]) \o t[k] = f[m] \o (h[k - 1] \o t[k])
      <4> DEFINE a == f[m]
                 b == h[k - 1]
                 c == t[k]
      <4>1. a \in Seq(X)
        BY <3>4
      <4>2. b \in Seq(X)
        BY <3>4
      <4>3. c \in Seq(X)
        BY <3>4
      <4> HIDE DEF a, b, c
      <4>4. (a \o b) \o c = a \o (b \o c)
        BY <4>1, <4>2, <4>3
      <4> QED
        BY <4>4 DEF a, b, c
    <3> QED
      BY <3>2, <3>3, <3>5
  <2> QED
    BY <2>1, <2>2
<1>12. g[0] = <<>>
  BY <1>1, <1>3, <1>8 DEF Concatenates
<1> HIDE DEF g
<1>13. g[Len(u)] = f[m] \o h[n]
  <2>1. n \in 0..n /\ Len(u) = m + n
    BY <1>3
  <2> HIDE DEF m, n
  <2> QED
    BY <1>9, <2>1
<1>14. Concatenates(g, u)
  BY <1>11, <1>12 DEF Concatenates
<1>15. FlattenSeq(u) = g[Len(u)]
  BY <1>3, <1>10, <1>14, FlattenIs
<1> QED
  BY <1>1, <1>2, <1>13, <1>15 DEF u

\* Of one sequence.
LEMMA FlattenOne ==
  ASSUME NEW X, NEW x \in Seq(X)
  PROVE  FlattenSeq(<<x>>) = x
<1> DEFINE s == <<x>>
           f == [i \in 0..1 |-> IF i = 0 THEN <<>> ELSE x]
<1>1. s \in Seq(Seq(X)) /\ Len(s) = 1 /\ s[1] = x
  OBVIOUS
<1>2. f \in [0..1 -> Seq(X)] /\ f[0] = <<>> /\ f[1] = x
  OBVIOUS
<1>3. <<>> \o x = x
  BY ConcatEmptySeq
<1> HIDE DEF s, f
<1>4. Concatenates(f, s)
  BY <1>1, <1>2, <1>3 DEF Concatenates
<1>5. FlattenSeq(s) = f[1]
  BY <1>1, <1>2, <1>4, FlattenIs
<1> QED
  BY <1>2, <1>5 DEF s

LEMMA FlattenAppend ==
  ASSUME NEW X, NEW s \in Seq(Seq(X)), NEW x \in Seq(X)
  PROVE  FlattenSeq(Append(s, x)) = FlattenSeq(s) \o x
<1> DEFINE t == <<x>>
<1>1. Append(s, x) = s \o t
  BY AppendIsConcat
<1>2. t \in Seq(Seq(X))
  OBVIOUS
<1>3. FlattenSeq(t) = x
  BY FlattenOne
<1> HIDE DEF t
<1>4. FlattenSeq(s \o t) = FlattenSeq(s) \o FlattenSeq(t)
  BY <1>2, FlattenConcat
<1> QED
  BY <1>1, <1>3, <1>4

-----------------------------------------------------------------------------
(* The recipients of the bulk form.                                        *)

\* What one part does to the numbers collected.
Collect(ns, n) == IF n = NoDigits \/ Contains(ns, n) THEN ns ELSE Append(ns, n)

\* The numbers that parts stand for.
Cleaned == {Digits[d] : d \in Dialled}

LEMMA CollectType ==
  ASSUME NEW ns \in Seq(Cleaned), NEW n \in Cleaned
  PROVE  Collect(ns, n) \in Seq(Cleaned)
  BY DEF Collect

LEMMA ParsedSteps ==
  ASSUME NEW parts \in Seq(Dialled)
  PROVE  /\ Parsed(parts)[0] = <<>>
         /\ \A i \in 1..Len(parts) :
              Parsed(parts)[i] = Collect(Parsed(parts)[i - 1], Digits[parts[i]])
<1> DEFINE m == Len(parts)
           Y == Seq(Cleaned)
           start == <<>>
           D(g) == [i \in 0..m |-> IF i = 0 THEN start ELSE Collect(g[i - 1], Digits[parts[i]])]
           step == [i \in 1..m |-> [x \in Y |-> Collect(x, Digits[parts[i]])]]
<1>1. m \in Nat
  OBVIOUS
<1>2. start \in Y
  OBVIOUS
<1>3. step \in Loop(m, Y)
  <2>1. \A i \in 1..m : Digits[parts[i]] \in Cleaned
    BY DEF Cleaned
  <2> QED
    BY <2>1, CollectType DEF Loop
<1>4. \E f : Runs(f, m, Y, start, step)
  <2> HIDE DEF m, Y, start, step
  <2> QED
    BY <1>1, <1>2, <1>3, Recursion
<1>5. PICK f \in [0..m -> Y] : f[0] = start /\ \A i \in 1..m : f[i] = step[i][f[i - 1]]
  BY <1>4 DEF Runs
<1>6. \A i \in 1..m : f[i] = Collect(f[i - 1], Digits[parts[i]])
  <2> SUFFICES ASSUME NEW i \in 1..m PROVE f[i] = Collect(f[i - 1], Digits[parts[i]])
    OBVIOUS
  <2>1. i - 1 \in 0..m
    OBVIOUS
  <2> HIDE DEF Y
  <2>2. f[i - 1] \in Y
    BY <2>1
  <2> QED
    BY <1>5, <2>2
<1>7. f = D(f)
  BY <1>5, <1>6
<1>8. Parsed(parts) = CHOOSE g : g = D(g)
  BY DEF Parsed, Collect
<1>9. Parsed(parts) = D(Parsed(parts))
  <2> HIDE DEF D
  <2> QED
    BY <1>7, <1>8
<1> QED
  BY <1>1, <1>9

\* What is collected after k parts: numbers that differ, those of the parts.
Values(ns)       == {ns[a] : a \in DOMAIN ns}
Distinct(ns)     == \A a, b \in DOMAIN ns : ns[a] = ns[b] => a = b
Stand(parts, k)  == {Digits[parts[a]] : a \in 1..k}
Collected(parts, k, ns) ==
  ns \in Seq(Cleaned) /\ Distinct(ns) /\ Values(ns) = Stand(parts, k) \ {NoDigits}

\* A part more, a number more or none.
LEMMA CollectStep ==
  ASSUME NEW parts \in Seq(Dialled), NEW k \in 1..Len(parts), NEW ns,
         Collected(parts, k - 1, ns)
  PROVE  Collected(parts, k, Collect(ns, Digits[parts[k]]))
<1> DEFINE n    == Digits[parts[k]]
           more == Collect(ns, n)
<1>1. n \in Cleaned
  BY DEF Cleaned
<1>2. Stand(parts, k) = Stand(parts, k - 1) \cup {n}
  BY DEF Stand
<1>3. /\ ns \in Seq(Cleaned) /\ Distinct(ns)
      /\ Values(ns) = Stand(parts, k - 1) \ {NoDigits}
  BY DEF Collected
<1> HIDE DEF n
<1>4. CASE n = NoDigits
  <2>1. more = ns
    BY <1>4 DEF Collect
  <2> QED
    BY <1>2, <1>3, <1>4, <2>1 DEF Collected, n
<1>5. CASE n # NoDigits /\ Contains(ns, n)
  <2>1. more = ns
    BY <1>5 DEF Collect
  <2>2. n \in Values(ns)
    BY <1>3, <1>5 DEF Contains, Values
  <2> QED
    BY <1>2, <1>3, <1>5, <2>1, <2>2 DEF Collected, n
<1>6. CASE n # NoDigits /\ ~Contains(ns, n)
  <2>1. more = Append(ns, n)
    BY <1>6 DEF Collect
  <2> HIDE DEF more
  <2>2. /\ more \in Seq(Cleaned)
        /\ DOMAIN ns = 1..Len(ns) /\ Len(ns) \in Nat
        /\ DOMAIN more = 1..(Len(ns) + 1)
        /\ \A a \in 1..Len(ns) : more[a] = ns[a]
        /\ more[Len(ns) + 1] = n
    BY <1>1, <1>3, <2>1
  <2>3. \A a \in 1..Len(ns) : ns[a] # n
    BY <1>6 DEF Contains
  <2>4. Distinct(more)
    BY <1>3, <2>2, <2>3 DEF Distinct
  <2>5. Values(more) = Values(ns) \cup {n}
    BY <2>2 DEF Values
  <2>6. Values(more) = Stand(parts, k) \ {NoDigits}
    BY <1>2, <1>3, <1>6, <2>5
  <2> QED
    BY <2>2, <2>4, <2>6 DEF Collected, more, n
<1> QED
  BY <1>4, <1>5, <1>6

\* By induction, after any number of parts.
LEMMA ParsedFacts ==
  ASSUME NEW parts \in Seq(Dialled)
  PROVE  \A k \in 0..Len(parts) : Collected(parts, k, Parsed(parts)[k])
<1> DEFINE S == {k \in 0..Len(parts) : Collected(parts, k, Parsed(parts)[k])}
           m == Len(parts)
<1>1. 0 \in S
  <2>1. Collected(parts, 0, <<>>)
    BY DEF Collected, Values, Stand, Distinct
  <2>2. Parsed(parts)[0] = <<>>
    BY ParsedSteps
  <2> QED
    BY <2>1, <2>2
<1>2. \A k \in 1..m : k - 1 \in S => k \in S
  <2> SUFFICES ASSUME NEW k \in 1..m, k - 1 \in S PROVE k \in S
    OBVIOUS
  <2>1. Parsed(parts)[k] = Collect(Parsed(parts)[k - 1], Digits[parts[k]])
    BY ParsedSteps
  <2>2. Collected(parts, k - 1, Parsed(parts)[k - 1])
    OBVIOUS
  <2> QED
    BY <2>1, <2>2, CollectStep
<1>3. m \in Nat
  OBVIOUS
<1> HIDE DEF S
<1>4. 0..m \subseteq S
  BY <1>1, <1>2, <1>3, StepInduction
<1> QED
  BY <1>4 DEF S

\* Whatever is typed into the field, the recipients are its numbers, each once.
THEOREM RecipientsOnce ==
  ASSUME NEW parts \in Seq(Dialled), Recipients(parts) # Refused
  PROVE  /\ Distinct(Recipients(parts))
         /\ Values(Recipients(parts)) = Stand(parts, Len(parts)) \ {NoDigits}
<1>1. Recipients(parts) = Parsed(parts)[Len(parts)]
  BY DEF Recipients
<1>2. Len(parts) \in 0..Len(parts)
  OBVIOUS
<1>3. Collected(parts, Len(parts), Parsed(parts)[Len(parts)])
  BY <1>2, ParsedFacts
<1> QED
  BY <1>1, <1>3 DEF Collected

-----------------------------------------------------------------------------
(* Runs of rows with the same content.                                     *)

\* What a row does to the runs before it.
Extend(text, gs, i) ==
  IF gs # <<>> /\ text[Last(Last(gs))] = text[i]
  THEN Append(Front(gs), Append(Last(gs), i))
  ELSE Append(gs, <<i>>)

\* A sequence that is not empty is its front and its last element.
LEMMA FrontAndLast ==
  ASSUME NEW X, NEW s \in Seq(X), s # <<>>
  PROVE  Front(s) \in Seq(X) /\ Last(s) \in X /\ s = Append(Front(s), Last(s))
<1>1. Len(s) \in Nat /\ Len(s) # 0
  BY EmptySeq
<1>2. \A i \in 1..(Len(s) - 1) : s[i] \in X
  BY <1>1
<1>3. Front(s) \in Seq(X)
  BY <1>1, <1>2, SubSeqProperties DEF Front
<1>4. Len(Front(s)) = Len(s) - 1 /\ \A i \in 1..(Len(s) - 1) : Front(s)[i] = s[i]
  <2> DEFINE n == Len(s) - 1
  <2>1. n \in Int /\ 1 \in Int /\ 1 <= n + 1 /\ \A i \in 1..n : s[i] \in X
    BY <1>1
  <2> DEFINE t == SubSeq(s, 1, n)
  <2> HIDE DEF n
  <2>2. /\ Len(t) = IF 1 <= n THEN n - 1 + 1 ELSE 0
        /\ \A i \in 1..(n - 1 + 1) : t[i] = s[1 + i - 1]
    BY <2>1, SubSeqProperties
  <2> HIDE DEF t
  <2>3. Len(t) = n
    BY <2>1, <2>2
  <2>4. \A i \in 1..n : t[i] = s[i]
    <3> SUFFICES ASSUME NEW i \in 1..n PROVE t[i] = s[i]
      OBVIOUS
    <3>1. i \in 1..(n - 1 + 1) /\ 1 + i - 1 = i
      BY <2>1
    <3> QED
      BY <2>2, <3>1
  <2> QED
    BY <2>3, <2>4 DEF Front, t, n
<1>5. Last(s) \in X
  BY <1>1 DEF Last
<1> DEFINE t == Append(Front(s), Last(s))
<1>6. t \in Seq(X) /\ Len(t) = Len(s)
  BY <1>1, <1>3, <1>4, <1>5
<1>7. \A i \in 1..Len(s) : s[i] = t[i]
  BY <1>1, <1>3, <1>4, <1>5 DEF Last
<1> HIDE DEF t
<1>8. s = t
  BY <1>6, <1>7, SeqEqual
<1> QED
  BY <1>3, <1>5, <1>8 DEF t

Message == Seq(Nat)
Chunk   == Seq(Message)

LEMMA ExtendType ==
  ASSUME NEW text, NEW gs \in Chunk, NEW i \in Nat
  PROVE  Extend(text, gs, i) \in Chunk
<1>1. CASE gs # <<>> /\ text[Last(Last(gs))] = text[i]
  <2>1. Front(gs) \in Seq(Message) /\ Last(gs) \in Message
    BY <1>1, FrontAndLast DEF Chunk
  <2>2. Append(Last(gs), i) \in Message
    BY <2>1 DEF Message
  <2> QED
    BY <1>1, <2>1, <2>2, AppendProperties DEF Extend, Chunk
<1>2. CASE ~(gs # <<>> /\ text[Last(Last(gs))] = text[i])
  <2>1. <<i>> \in Message
    BY DEF Message
  <2> QED
    BY <1>2, <2>1, AppendProperties DEF Extend, Chunk
<1> QED
  BY <1>1, <1>2

LEMMA GroupedSteps ==
  ASSUME NEW X, NEW text \in Seq(X)
  PROVE  /\ Grouped(text)[0] = <<>>
         /\ \A i \in 1..Len(text) : Grouped(text)[i] = Extend(text, Grouped(text)[i - 1], i)
<1> DEFINE m == Len(text)
           start == <<>>
           D(g) == [i \in 0..m |-> IF i = 0 THEN start ELSE Extend(text, g[i - 1], i)]
           step == [i \in 1..m |-> [x \in Chunk |-> Extend(text, x, i)]]
<1>1. m \in Nat
  OBVIOUS
<1>2. start \in Chunk
  BY DEF Chunk
<1>3. step \in Loop(m, Chunk)
  <2>1. \A i \in 1..m : \A x \in Chunk : Extend(text, x, i) \in Chunk
    BY ExtendType
  <2> QED
    BY <2>1 DEF Loop
<1>4. \E f : Runs(f, m, Chunk, start, step)
  <2> HIDE DEF m, start, step
  <2> QED
    BY <1>1, <1>2, <1>3, Recursion
<1>5. PICK f \in [0..m -> Chunk] : f[0] = start /\ \A i \in 1..m : f[i] = step[i][f[i - 1]]
  BY <1>4 DEF Runs
<1>6. \A i \in 1..m : f[i] = Extend(text, f[i - 1], i)
  <2> SUFFICES ASSUME NEW i \in 1..m PROVE f[i] = Extend(text, f[i - 1], i)
    OBVIOUS
  <2>1. i - 1 \in 0..m
    OBVIOUS
  <2>2. f[i - 1] \in Chunk
    BY <2>1
  <2> QED
    BY <1>5, <2>2
<1>7. f = D(f)
  BY <1>5, <1>6
<1>8. Grouped(text) = CHOOSE g : g = D(g)
  BY DEF Grouped, Extend
<1>9. Grouped(text) = D(Grouped(text))
  <2> HIDE DEF D
  <2> QED
    BY <1>7, <1>8
<1> QED
  BY <1>1, <1>9

\* After k rows, the runs hold these rows once and in order, none is empty, and the rows
\* of one have one content.
SameText(text, g) == g # <<>> /\ \A a, b \in DOMAIN g : text[g[a]] = text[g[b]]
GroupedTo(text, k, gs) ==
  /\ gs \in Chunk
  /\ FlattenSeq(gs) = [i \in 1..k |-> i]
  /\ \A n \in 1..Len(gs) : SameText(text, gs[n])

LEMMA CountUp ==
  ASSUME NEW k \in Nat \ {0}
  PROVE  /\ [i \in 1..k |-> i] \in Message
         /\ Append([i \in 1..(k - 1) |-> i], k) = [i \in 1..k |-> i]
  BY DEF Message

\* A row with the content of the last run makes it longer, another starts a run.
LEMMA ExtendStep ==
  ASSUME NEW X, NEW text \in Seq(X), NEW k \in 1..Len(text), NEW gs,
         GroupedTo(text, k - 1, gs)
  PROVE  GroupedTo(text, k, Extend(text, gs, k))
<1>1. /\ gs \in Chunk /\ FlattenSeq(gs) = [i \in 1..(k - 1) |-> i]
      /\ \A n \in 1..Len(gs) : SameText(text, gs[n])
  BY DEF GroupedTo
<1>2. k \in Nat \ {0}
  OBVIOUS
<1> DEFINE more == Extend(text, gs, k)
<1>3. more \in Chunk
  BY <1>1, <1>2, ExtendType
<1>4. CASE gs # <<>> /\ text[Last(Last(gs))] = text[k]
  <2> DEFINE F == Front(gs)
             L == Last(gs)
             M == Append(L, k)
  <2>1. F \in Chunk /\ L \in Message /\ gs = Append(F, L)
    BY <1>1, <1>4, FrontAndLast DEF Chunk
  <2>2. M \in Message
    BY <1>2, <2>1 DEF Message
  <2>3. more = Append(F, M)
    BY <1>4 DEF Extend
  <2>4. text[Last(L)] = text[k]
    BY <1>4
  <2> HIDE DEF F, L, more
  <2>5. FlattenSeq(F) \in Message
    BY <2>1, FlattenType DEF Chunk, Message
  <2>6. FlattenSeq(gs) = FlattenSeq(F) \o L
    BY <2>1, FlattenAppend DEF Chunk, Message
  <2>7. FlattenSeq(more) = FlattenSeq(F) \o M
    <3> HIDE DEF M
    <3> QED
      BY <2>1, <2>2, <2>3, FlattenAppend DEF Chunk, Message
  <2>8. FlattenSeq(F) \o M = Append(FlattenSeq(F) \o L, k)
    BY <2>1, <2>5 DEF Message
  <2>9. FlattenSeq(more) = [i \in 1..k |-> i]
    BY <1>1, <1>2, <2>6, <2>7, <2>8, CountUp
  <2>10. SameText(text, L)
    <3>1. Len(gs) \in 1..Len(gs) /\ gs[Len(gs)] = L
      BY <2>1, <1>1, AppendProperties DEF Chunk
    <3> QED
      BY <1>1, <3>1
  <2>11. SameText(text, M)
    <3>1. Len(L) \in Nat \ {0} /\ Last(L) = L[Len(L)] /\ DOMAIN L = 1..Len(L)
      BY <2>1, <2>10, EmptySeq DEF SameText, Message, Last
    <3>2. DOMAIN M = 1..(Len(L) + 1) /\ M # <<>>
      <4>1. M \in Seq(Nat) /\ Len(M) = Len(L) + 1 /\ M # <<>>
        BY <1>2, <2>1, AppendProperties DEF Message
      <4> HIDE DEF M
      <4> QED
        BY <4>1
    <3>3. M[Len(L) + 1] = k /\ \A a \in 1..Len(L) : M[a] = L[a]
      BY <1>2, <2>1 DEF Message
    <3>4. \A a \in 1..(Len(L) + 1) : text[M[a]] = text[k]
      BY <2>4, <2>10, <3>1, <3>3 DEF SameText
    <3> HIDE DEF M
    <3> QED
      BY <3>2, <3>4 DEF SameText
  <2>12. \A n \in 1..Len(more) : SameText(text, more[n])
    <3> HIDE DEF M
    <3>1. Len(more) = Len(F) + 1 /\ Len(gs) = Len(F) + 1 /\ Len(F) \in Nat
      BY <2>1, <2>2, <2>3, AppendProperties DEF Chunk
    <3>2. more[Len(F) + 1] = M /\ \A n \in 1..Len(F) : more[n] = F[n] /\ gs[n] = F[n]
      BY <2>1, <2>2, <2>3, AppendProperties DEF Chunk
    <3> QED
      BY <1>1, <2>11, <3>1, <3>2
  <2> QED
    BY <1>3, <2>9, <2>12 DEF GroupedTo, more
<1>5. CASE ~(gs # <<>> /\ text[Last(Last(gs))] = text[k])
  <2> DEFINE M == <<k>>
  <2>1. more = Append(gs, M)
    BY <1>5 DEF Extend
  <2>2. M \in Message /\ SameText(text, M)
    BY <1>2 DEF Message, SameText
  <2>3. FlattenSeq(gs) \o M = Append(FlattenSeq(gs), k)
    <3>1. FlattenSeq(gs) \in Message
      BY <1>1, FlattenType DEF Chunk, Message
    <3> QED
      BY <1>2, <3>1, AppendIsConcat DEF Message
  <2> HIDE DEF M, more
  <2>4. FlattenSeq(more) = FlattenSeq(gs) \o M
    BY <1>1, <2>1, <2>2, FlattenAppend DEF Chunk, Message
  <2>5. FlattenSeq(more) = [i \in 1..k |-> i]
    BY <1>1, <1>2, <2>3, <2>4, CountUp
  <2>6. \A n \in 1..Len(more) : SameText(text, more[n])
    <3>1. Len(more) = Len(gs) + 1 /\ Len(gs) \in Nat
      BY <1>1, <2>1, <2>2, AppendProperties DEF Chunk
    <3>2. more[Len(gs) + 1] = M /\ \A n \in 1..Len(gs) : more[n] = gs[n]
      BY <1>1, <2>1, <2>2, AppendProperties DEF Chunk
    <3> QED
      BY <1>1, <2>2, <3>1, <3>2
  <2> QED
    BY <1>3, <2>5, <2>6 DEF GroupedTo, more
<1> QED
  BY <1>4, <1>5

LEMMA GroupsFacts ==
  ASSUME NEW X, NEW text \in Seq(X)
  PROVE  GroupedTo(text, Len(text), Groups(text))
<1> DEFINE S == {k \in 0..Len(text) : GroupedTo(text, k, Grouped(text)[k])}
           m == Len(text)
<1>1. 0 \in S
  <2>1. [i \in 1..0 |-> i] = <<>>
    OBVIOUS
  <2>2. GroupedTo(text, 0, <<>>)
    BY <2>1, FlattenEmpty DEF GroupedTo, Chunk
  <2>3. Grouped(text)[0] = <<>>
    BY GroupedSteps
  <2> QED
    BY <2>2, <2>3
<1>2. \A k \in 1..m : k - 1 \in S => k \in S
  <2> SUFFICES ASSUME NEW k \in 1..m, k - 1 \in S PROVE k \in S
    OBVIOUS
  <2>1. Grouped(text)[k] = Extend(text, Grouped(text)[k - 1], k)
    BY GroupedSteps
  <2>2. GroupedTo(text, k - 1, Grouped(text)[k - 1])
    OBVIOUS
  <2> QED
    BY <2>1, <2>2, ExtendStep
<1>3. m \in Nat
  OBVIOUS
<1> HIDE DEF S
<1>4. 0..m \subseteq S
  BY <1>1, <1>2, <1>3, StepInduction
<1>5. m \in S
  BY <1>3, <1>4
<1> QED
  BY <1>5 DEF S, Groups

-----------------------------------------------------------------------------
(* A longer run, cut into parts.                                           *)

\* Where part k ends, and how many parts there are.
End(g, size, k) == IF k * size < Len(g) THEN k * size ELSE Len(g)
Cuts(g, size)   == (Len(g) + size - 1) \div size

\* Every part begins within the run, and the last one ends with it.
LEMMA CutsFacts ==
  ASSUME NEW g \in Message, NEW size \in Nat \ {0}
  PROVE  /\ Cuts(g, size) \in Nat
         /\ \A k \in 1..Cuts(g, size) : (k - 1) * size \in Nat /\ (k - 1) * size < Len(g)
         /\ Len(g) <= Cuts(g, size) * size
<1> DEFINE a == Len(g) + size - 1
           n == a \div size
<1>1. Len(g) \in Nat /\ a \in Nat /\ a - (size - 1) = Len(g)
  BY DEF Message
<1>2. n \in Nat /\ n * size <= a /\ a < n * size + size
  <2> HIDE DEF a
  <2> QED
    BY <1>1
<1> HIDE DEF n
<1>3. ASSUME NEW k \in 1..n
      PROVE  (k - 1) * size \in Nat /\ (k - 1) * size < Len(g)
  <2>1. k - 1 \in Nat /\ k - 1 <= n - 1
    BY <1>2
  <2>2. (k - 1) * size \in Nat /\ (k - 1) * size <= (n - 1) * size
    BY <1>2, <2>1
  <2>3. (n - 1) * size = n * size - size
    BY <1>2
  <2>4. n * size \in Nat
    BY <1>2
  <2> QED
    BY <1>1, <1>2, <2>2, <2>3, <2>4
<1>4. Len(g) <= n * size
  <2>1. n * size \in Nat
    BY <1>2
  <2> QED
    BY <1>1, <1>2, <2>1
<1> QED
  BY <1>2, <1>3, <1>4 DEF n, Cuts

\* The parts of a run are the run, none is empty or longer than it may be, and each is
\* of rows of the run.
LEMMA PartsFacts ==
  ASSUME NEW g \in Message, NEW size \in Nat \ {0}
  PROVE  LET cut == Parts(g, size)
         IN  /\ cut \in Chunk
             /\ FlattenSeq(cut) = g
             /\ \A k \in 1..Len(cut) :
                  /\ Len(cut[k]) \in 1..size
                  /\ \A i \in 1..Len(cut[k]) : \E j \in 1..Len(g) : cut[k][i] = g[j]
<1> DEFINE cut == Parts(g, size)
           n   == Cuts(g, size)
           B(k) == (k - 1) * size + 1
           E(k) == End(g, size, k)
           f   == [k \in 0..n |-> SubSeq(g, 1, E(k))]
<1>1. n \in Nat /\ Len(g) \in Nat
  BY CutsFacts DEF Message
<1>2. cut = [k \in 1..n |-> SubSeq(g, B(k), E(k))]
  BY DEF Parts, Cuts, End
<1>3. ASSUME NEW k \in 1..n
      PROVE  /\ B(k) \in 1..Len(g) /\ E(k) \in B(k)..Len(g)
             /\ E(k) - B(k) + 1 \in 1..size
             /\ E(k - 1) = B(k) - 1
  <2> DEFINE a == (k - 1) * size
             b == k * size
  <2>1. a \in Nat /\ a < Len(g)
    BY CutsFacts
  <2>2. b = a + size
    OBVIOUS
  <2> HIDE DEF a, b
  <2>3. B(k) = a + 1 /\ E(k) = (IF b < Len(g) THEN b ELSE Len(g))
    BY DEF End, a, b
  <2>4. E(k - 1) = a
    BY <2>1 DEF End, a
  <2> HIDE DEF B, E
  <2> QED
    BY <1>1, <2>1, <2>2, <2>3, <2>4
<1>4. ASSUME NEW k \in 1..n
      PROVE  /\ cut[k] \in Message /\ Len(cut[k]) = E(k) - B(k) + 1
             /\ \A i \in 1..Len(cut[k]) : B(k) + i - 1 \in 1..Len(g) /\ cut[k][i] = g[B(k) + i - 1]
  <2> DEFINE lo == B(k)
             hi == E(k)
             t  == SubSeq(g, lo, hi)
  <2>1. cut[k] = t
    BY <1>2
  <2>2. lo \in 1..Len(g) /\ hi \in lo..Len(g)
    BY <1>3
  <2> HIDE DEF lo, hi
  <2>3. \A i \in lo..hi : g[i] \in Nat
    BY <1>1, <2>2 DEF Message
  <2>4. /\ t \in Seq(Nat) /\ Len(t) = IF lo <= hi THEN hi - lo + 1 ELSE 0
        /\ \A i \in 1..(hi - lo + 1) : t[i] = g[lo + i - 1]
    BY <1>1, <2>2, <2>3, SubSeqProperties
  <2> HIDE DEF t
  <2>5. Len(t) = hi - lo + 1
    BY <1>1, <2>2, <2>4
  <2>6. \A i \in 1..Len(t) : lo + i - 1 \in 1..Len(g) /\ t[i] = g[lo + i - 1]
    BY <1>1, <2>2, <2>4, <2>5
  <2> HIDE DEF cut
  <2> QED
    BY <2>1, <2>4, <2>5, <2>6 DEF lo, hi, Message
<1>5. cut \in Chunk /\ Len(cut) = n
  <2> HIDE DEF B, E
  <2>1. \A k \in 1..n : SubSeq(g, B(k), E(k)) \in Message
    BY <1>2, <1>4
  <2> HIDE DEF cut, n
  <2> QED
    BY <1>1, <1>2, <2>1 DEF Chunk
<1>6. ASSUME NEW k \in 1..Len(cut)
      PROVE  /\ Len(cut[k]) \in 1..size
             /\ \A i \in 1..Len(cut[k]) : \E j \in 1..Len(g) : cut[k][i] = g[j]
  <2>1. k \in 1..n
    BY <1>5
  <2> HIDE DEF B, E, cut, n
  <2> QED
    BY <1>3, <1>4, <2>1
<1>7. FlattenSeq(cut) = g
  <2>1. ASSUME NEW k \in 0..n
        PROVE  E(k) \in 0..Len(g)
    <3>1. k * size \in Nat
      BY <1>1
    <3> QED
      BY <1>1, <3>1 DEF End
  <2>2. ASSUME NEW k \in 0..n
        PROVE  SubSeq(g, 1, E(k)) \in Message
    <3> DEFINE hi == E(k)
    <3>1. hi \in 0..Len(g)
      BY <2>1
    <3> HIDE DEF hi
    <3>2. \A i \in 1..hi : g[i] \in Nat
      BY <1>1, <3>1 DEF Message
    <3>3. SubSeq(g, 1, hi) \in Seq(Nat)
      BY <3>1, <3>2, SubSeqProperties
    <3> QED
      BY <3>3 DEF hi, Message
  <2>3. f \in [0..n -> Message]
    <3> HIDE DEF E, n
    <3> QED
      BY <2>2
  <2>4. f[0] = <<>>
    <3>1. E(0) = 0
      BY <1>1 DEF End
    <3>2. SubSeq(g, 1, 0) = <<>>
      BY SubSeqEmpty
    <3>3. 0 \in 0..n
      BY <1>1
    <3> HIDE DEF E, n
    <3> QED
      BY <3>1, <3>2, <3>3
  <2>5. ASSUME NEW k \in 1..n
        PROVE  f[k] = f[k - 1] \o cut[k]
    <3> DEFINE lo == B(k)
               hi == E(k)
    <3>1. k \in 0..n /\ k - 1 \in 0..n
      BY <1>1
    <3>2. lo \in 1..Len(g) /\ hi \in lo..Len(g) /\ E(k - 1) = lo - 1
      BY <1>3
    <3>3. f[k] = SubSeq(g, 1, hi) /\ f[k - 1] = SubSeq(g, 1, lo - 1)
          /\ cut[k] = SubSeq(g, lo, hi)
      <4>1. cut[k] = SubSeq(g, lo, hi)
        BY <1>2
      <4> HIDE DEF E, n, cut, B
      <4> QED
        BY <3>1, <3>2, <4>1
    <3> HIDE DEF lo, hi, f, cut
    <3> DEFINE mid == lo - 1
    <3>4. mid \in 0..Len(g) /\ hi \in mid..Len(g) /\ mid + 1 = lo /\ 1 \in 1..(Len(g) + 1)
          /\ mid \in (1 - 1)..Len(g)
      BY <1>1, <3>2
    <3> HIDE DEF mid
    <3>5. SubSeq(g, 1, mid) \o SubSeq(g, mid + 1, hi) = SubSeq(g, 1, hi)
      BY <3>4, ConcatAdjacentSubSeq DEF Message
    <3>6. f[k - 1] = SubSeq(g, 1, mid) /\ cut[k] = SubSeq(g, mid + 1, hi)
      BY <3>3, <3>4 DEF mid
    <3> QED
      BY <3>3, <3>5, <3>6
  <2>6. f[n] = g
    <3>1. E(n) = Len(g)
      BY <1>1, CutsFacts DEF End
    <3>2. SubSeq(g, 1, Len(g)) = g
      BY SubSeqFull DEF Message
    <3>3. n \in 0..n
      BY <1>1
    <3> HIDE DEF E, n
    <3> QED
      BY <3>1, <3>2, <3>3
  <2> HIDE DEF f, cut, n
  <2>7. Concatenates(f, cut)
    BY <1>5, <2>4, <2>5 DEF Concatenates
  <2>8. FlattenSeq(cut) = f[Len(cut)]
    BY <1>5, <2>3, <2>7, FlattenIs DEF Chunk, Message
  <2> QED
    BY <1>5, <2>6, <2>8
<1> QED
  BY <1>5, <1>6, <1>7

\* Parts as chunks of one message each flatten to the parts.
LEMMA FlattenSingles ==
  ASSUME NEW X, NEW s \in Seq(X)
  PROVE  FlattenSeq([k \in DOMAIN s |-> <<s[k]>>]) = s
<1> DEFINE n == Len(s)
           u == [k \in 1..n |-> <<s[k]>>]
           f == [k \in 0..n |-> [i \in 1..k |-> s[i]]]
<1>1. n \in Nat /\ DOMAIN s = 1..n /\ \A k \in 1..n : s[k] \in X
  OBVIOUS
<1>2. u \in Seq(Seq(X)) /\ Len(u) = n
  <2> HIDE DEF n
  <2>1. \A k \in 1..n : <<s[k]>> \in Seq(X)
    BY <1>1
  <2> QED
    BY <1>1, <2>1
<1>3. f \in [0..n -> Seq(X)]
  <2> HIDE DEF n
  <2>1. \A k \in 0..n : [i \in 1..k |-> s[i]] \in Seq(X)
    BY <1>1
  <2> QED
    BY <2>1
<1>4. f[0] = <<>>
  BY <1>1
<1>5. ASSUME NEW k \in 1..n
      PROVE  f[k] = f[k - 1] \o u[k]
  <2> HIDE DEF n
  <2>1. k \in 0..n /\ k - 1 \in 0..n
    BY <1>1
  <2> DEFINE before == [i \in 1..(k - 1) |-> s[i]]
             after  == [i \in 1..k |-> s[i]]
  <2>2. f[k] = after /\ f[k - 1] = before /\ u[k] = <<s[k]>>
    BY <2>1
  <2>3. before \in Seq(X) /\ Len(before) = k - 1 /\ after \in Seq(X) /\ Len(after) = k
    BY <1>1, <2>1
  <2>4. after = before \o <<s[k]>>
    BY <1>1, <2>1, <2>3
  <2> HIDE DEF f, u, before, after
  <2> QED
    BY <2>2, <2>4
<1>6. f[n] = s
  <2>1. n \in 0..n
    BY <1>1
  <2>2. f[n] = [i \in 1..n |-> s[i]]
    BY <2>1
  <2> HIDE DEF f
  <2> QED
    BY <2>2
<1> HIDE DEF f, u
<1>7. Concatenates(f, u)
  BY <1>2, <1>4, <1>5 DEF Concatenates
<1>8. FlattenSeq(u) = f[Len(u)]
  BY <1>2, <1>3, <1>7, FlattenIs
<1> QED
  BY <1>1, <1>2, <1>6, <1>8 DEF u

-----------------------------------------------------------------------------
(* Chunks.                                                                 *)

\* The chunks done and the one being filled, and the rows in them in their order.
Filling  == [done : Seq(Chunk), open : Chunk]
Sent(st) == FlattenSeq(FlattenSeq(st.done)) \o FlattenSeq(st.open)

\* A chunk as _submit_via_rest may post it, and chunks as they may stand with at most n
\* messages in the one being filled.
FitChunk(text, c, size, limit) ==
  /\ c # <<>>
  /\ \A k \in 1..Len(c) : SameText(text, c[k])
  /\ \/ Len(c) = 1 /\ Len(c[1]) <= size
     \/ Len(c) <= limit /\ \A k \in 1..Len(c) : Len(c[k]) = 1
FitTo(text, st, size, limit, n) ==
  /\ st \in Filling
  /\ \A k \in 1..Len(st.done) : FitChunk(text, st.done[k], size, limit)
  /\ Len(st.open) <= n
  /\ \A k \in 1..Len(st.open) : SameText(text, st.open[k]) /\ Len(st.open[k]) = 1

LEMMA SentType ==
  ASSUME NEW st \in Filling
  PROVE  /\ FlattenSeq(st.done) \in Chunk /\ FlattenSeq(FlattenSeq(st.done)) \in Message
         /\ FlattenSeq(st.open) \in Message /\ Sent(st) \in Message
<1>1. st.done \in Seq(Chunk) /\ st.open \in Chunk
  BY DEF Filling
<1>2. FlattenSeq(st.done) \in Chunk
  BY <1>1, FlattenType DEF Chunk
<1>3. FlattenSeq(FlattenSeq(st.done)) \in Message /\ FlattenSeq(st.open) \in Message
  BY <1>1, <1>2, FlattenType DEF Chunk, Message
<1> QED
  BY <1>2, <1>3, ConcatProperties DEF Sent, Message

LEMMA FlushType ==
  ASSUME NEW st \in Filling
  PROVE  Flush(st) \in Filling
<1>1. st.done \in Seq(Chunk) /\ st.open \in Chunk
  BY DEF Filling
<1>2. Append(st.done, st.open) \in Seq(Chunk) /\ <<>> \in Chunk
  BY <1>1, AppendProperties DEF Chunk
<1> QED
  BY <1>2 DEF Flush, Filling

\* flush() loses no row, and leaves nothing in the chunk being filled.
LEMMA FlushFacts ==
  ASSUME NEW text, NEW size, NEW limit \in Nat, NEW st,
         FitTo(text, st, size, limit, limit)
  PROVE  FitTo(text, Flush(st), size, limit, 0) /\ Sent(Flush(st)) = Sent(st)
         /\ Flush(st).open = <<>>
<1>1. st \in Filling /\ st.done \in Seq(Chunk) /\ st.open \in Chunk
  BY DEF FitTo, Filling
<1>2. CASE st.open = <<>>
  <2>1. Flush(st) = st
    BY <1>2 DEF Flush
  <2>2. Len(st.open) = 0
    BY <1>2
  <2> QED
    BY <1>2, <2>1, <2>2 DEF FitTo
<1>3. CASE st.open # <<>>
  <2> DEFINE d == st.done
             c == st.open
             more == Append(d, c)
             fl == Flush(st)
  <2>1. fl = [done |-> more, open |-> <<>>]
    BY <1>3 DEF Flush
  <2>2. fl \in Filling /\ fl.done = more /\ fl.open = <<>> /\ Len(fl.open) = 0
    <3>1. fl \in Filling
      BY <1>1, FlushType
    <3> HIDE DEF fl
    <3> QED
      BY <2>1, <3>1
  <2>3. d \in Seq(Chunk) /\ c \in Chunk
    BY <1>1
  <2>4. FitChunk(text, c, size, limit)
    BY <1>3 DEF FitTo, FitChunk
  <2>5. \A k \in 1..Len(d) : FitChunk(text, d[k], size, limit)
    BY DEF FitTo
  <2>6. Sent(st) = FlattenSeq(FlattenSeq(d)) \o FlattenSeq(c)
    BY DEF Sent
  <2> HIDE DEF d, c, fl
  <2>7. Len(more) = Len(d) + 1 /\ Len(d) \in Nat /\ more[Len(d) + 1] = c
        /\ \A k \in 1..Len(d) : more[k] = d[k]
    BY <2>3, AppendProperties
  <2> HIDE DEF more
  <2>8. \A k \in 1..Len(more) : FitChunk(text, more[k], size, limit)
    BY <2>4, <2>5, <2>7
  <2>9. FitTo(text, fl, size, limit, 0)
    BY <2>2, <2>8 DEF FitTo
  <2> DEFINE A == FlattenSeq(d)
  <2>10. FlattenSeq(more) = A \o c
    BY <2>3, FlattenAppend DEF Chunk, more
  <2>11. A \in Chunk
    BY <2>3, FlattenType DEF Chunk
  <2> HIDE DEF A
  <2>12. FlattenSeq(A \o c) = FlattenSeq(A) \o FlattenSeq(c)
    BY <2>3, <2>11, FlattenConcat DEF Chunk, Message
  <2>13. FlattenSeq(A) \in Seq(Nat) /\ FlattenSeq(c) \in Seq(Nat)
    BY <2>3, <2>11, FlattenType DEF Chunk, Message
  <2> DEFINE all == FlattenSeq(A) \o FlattenSeq(c)
  <2>14. all \o <<>> = all
    <3>1. all \in Seq(Nat)
      BY <2>13, ConcatProperties
    <3> HIDE DEF all
    <3> QED
      BY <3>1, ConcatEmptySeq
  <2>15. Sent(fl) = all \o <<>>
    BY <2>2, <2>10, <2>12, FlattenEmpty DEF Sent
  <2> QED
    BY <2>2, <2>6, <2>9, <2>14, <2>15 DEF A, fl
<1> QED
  BY <1>2, <1>3

LEMMA AddSingleType ==
  ASSUME NEW st \in Filling, NEW i \in Nat, NEW limit
  PROVE  AddSingle(st, i, limit) \in Filling
<1> DEFINE room == IF Len(st.open) + 1 > limit THEN Flush(st) ELSE st
           more == [room EXCEPT !.open = Append(@, <<i>>)]
<1>1. room \in Filling
  BY FlushType
<1>2. <<i>> \in Message
  BY DEF Message
<1> HIDE DEF room
<1>3. more \in Filling
  <2>1. room.open \in Seq(Message)
    BY <1>1 DEF Filling, Chunk
  <2>2. Append(room.open, <<i>>) \in Chunk
    BY <1>2, <2>1, AppendProperties DEF Chunk
  <2> QED
    BY <1>1, <2>2 DEF Filling
<1> HIDE DEF more
<1>4. AddSingle(st, i, limit) = IF Len(more.open) >= limit THEN Flush(more) ELSE more
  BY DEF AddSingle, more, room
<1> QED
  BY <1>3, <1>4, FlushType

\* Between rows the chunk being filled has room for one more.
Room(text, st, size, limit) == FitTo(text, st, size, limit, limit - 1)

\* From st to new, some rows were put behind those so far.
Takes(text, st, new, rows, size, limit) ==
  Room(text, new, size, limit) /\ Sent(new) = Sent(st) \o rows

\* A row alone in its run goes behind the rows so far.
LEMMA AddSingleFacts ==
  ASSUME NEW text, NEW size, NEW limit \in Nat \ {0}, NEW st, NEW i \in Nat,
         Room(text, st, size, limit)
  PROVE  Takes(text, st, AddSingle(st, i, limit), <<i>>, size, limit)
<1>1. st \in Filling /\ st.done \in Seq(Chunk) /\ st.open \in Chunk /\ Len(st.open) \in Nat
  BY DEF Room, FitTo, Filling, Chunk
<1>2. Len(st.open) <= limit - 1
  BY DEF Room, FitTo
<1> DEFINE one  == <<i>>
           more == [st EXCEPT !.open = Append(@, one)]
<1>3. AddSingle(st, i, limit) = IF Len(more.open) >= limit THEN Flush(more) ELSE more
  <2>1. ~(Len(st.open) + 1 > limit)
    BY <1>1, <1>2
  <2> QED
    BY <2>1 DEF AddSingle
<1>4. one \in Message /\ Len(one) = 1 /\ SameText(text, one)
  BY DEF Message, SameText
<1> HIDE DEF one
<1>5. more.done = st.done /\ more.open = Append(st.open, one)
  BY <1>1 DEF Filling
<1>6. /\ more.open \in Chunk /\ Len(more.open) = Len(st.open) + 1
      /\ more.open[Len(st.open) + 1] = one
      /\ \A k \in 1..Len(st.open) : more.open[k] = st.open[k]
  BY <1>1, <1>4, <1>5, AppendProperties DEF Chunk
<1>7. more \in Filling
  BY <1>1, <1>5, <1>6 DEF Filling
<1> HIDE DEF more
<1>8. \A k \in 1..Len(more.open) : SameText(text, more.open[k]) /\ Len(more.open[k]) = 1
  BY <1>1, <1>4, <1>6 DEF Room, FitTo
<1>9. Len(more.open) <= limit
  BY <1>1, <1>2, <1>6
<1>10. FitTo(text, more, size, limit, limit)
  BY <1>5, <1>7, <1>8, <1>9 DEF Room, FitTo
<1>11. Sent(more) = Sent(st) \o one
  <2> DEFINE a == FlattenSeq(FlattenSeq(st.done))
             b == FlattenSeq(st.open)
  <2>1. FlattenSeq(more.open) = b \o one
    BY <1>1, <1>4, <1>5, FlattenAppend DEF Chunk, Message
  <2>2. a \in Seq(Nat) /\ b \in Seq(Nat) /\ one \in Seq(Nat)
    BY <1>1, <1>4, SentType DEF Message
  <2>3. Sent(more) = a \o (b \o one) /\ Sent(st) = a \o b
    BY <1>5, <2>1 DEF Sent
  <2> HIDE DEF a, b
  <2>4. a \o (b \o one) = (a \o b) \o one
    BY <2>2
  <2> QED
    BY <2>3, <2>4
<1>12. CASE Len(more.open) >= limit
  <2>1. FitTo(text, Flush(more), size, limit, 0) /\ Sent(Flush(more)) = Sent(more)
        /\ Flush(more).open = <<>>
    BY <1>10, FlushFacts
  <2>2. Room(text, Flush(more), size, limit)
    BY <2>1 DEF Room, FitTo
  <2> QED
    BY <1>3, <1>11, <1>12, <2>1, <2>2 DEF Takes, one
<1>13. CASE ~(Len(more.open) >= limit)
  <2>1. Len(more.open) <= limit - 1
    BY <1>1, <1>6, <1>13
  <2>2. Room(text, more, size, limit)
    BY <1>10, <2>1 DEF Room, FitTo
  <2> QED
    BY <1>3, <1>11, <1>13, <2>2 DEF Takes, one
<1> QED
  BY <1>12, <1>13

LEMMA AddRunType ==
  ASSUME NEW st \in Filling, NEW g \in Message, NEW size \in Nat \ {0}
  PROVE  AddRun(st, g, size) \in Filling
<1> DEFINE cut == Parts(g, size)
           ones == [k \in DOMAIN cut |-> <<cut[k]>>]
<1>1. cut \in Seq(Message)
  BY PartsFacts DEF Chunk
<1> HIDE DEF cut
<1>2. ones \in Seq(Chunk)
  <2>1. DOMAIN cut = 1..Len(cut) /\ Len(cut) \in Nat
    BY <1>1
  <2>2. \A k \in DOMAIN cut : <<cut[k]>> \in Chunk
    BY <1>1, <2>1 DEF Chunk
  <2> QED
    BY <2>1, <2>2
<1>3. Flush(st).done \in Seq(Chunk) /\ <<>> \in Chunk
  BY FlushType DEF Filling, Chunk
<1>4. AddRun(st, g, size) = [done |-> Flush(st).done \o ones, open |-> <<>>]
  BY DEF AddRun, cut
<1> HIDE DEF ones
<1>5. Flush(st).done \o ones \in Seq(Chunk)
  BY <1>2, <1>3, ConcatProperties
<1> QED
  BY <1>3, <1>4, <1>5 DEF Filling

\* A longer run goes behind the rows so far, in messages of its own.
LEMMA AddRunFacts ==
  ASSUME NEW text, NEW size \in Nat \ {0}, NEW limit \in Nat \ {0}, NEW st,
         NEW g \in Message, SameText(text, g), Room(text, st, size, limit)
  PROVE  Takes(text, st, AddRun(st, g, size), g, size, limit)
<1> DEFINE cut  == Parts(g, size)
           ones == [k \in DOMAIN cut |-> <<cut[k]>>]
           fl   == Flush(st)
           d    == fl.done
           new  == AddRun(st, g, size)
<1>1. /\ cut \in Seq(Message) /\ FlattenSeq(cut) = g
      /\ \A k \in 1..Len(cut) :
           /\ Len(cut[k]) \in 1..size
           /\ \A i \in 1..Len(cut[k]) : \E j \in 1..Len(g) : cut[k][i] = g[j]
  BY PartsFacts DEF Chunk
<1>2. FitTo(text, fl, size, limit, 0) /\ Sent(fl) = Sent(st) /\ fl.open = <<>>
  <2>1. FitTo(text, st, size, limit, limit)
    BY DEF Room, FitTo, Filling, Chunk
  <2> QED
    BY <2>1, FlushFacts
<1>3. new = [done |-> d \o ones, open |-> <<>>]
  BY DEF AddRun
<1>4. new \in Filling
  BY AddRunType DEF Room, FitTo
<1> HIDE DEF cut
<1>5. /\ ones \in Seq(Chunk) /\ Len(ones) = Len(cut) /\ Len(cut) \in Nat
      /\ \A k \in 1..Len(cut) : ones[k] = <<cut[k]>>
  <2>1. DOMAIN cut = 1..Len(cut) /\ Len(cut) \in Nat
    BY <1>1
  <2>2. \A k \in DOMAIN cut : <<cut[k]>> \in Chunk
    BY <1>1, <2>1 DEF Chunk
  <2> QED
    BY <2>1, <2>2
<1>6. FlattenSeq(ones) = cut
  BY <1>1, FlattenSingles
<1>7. \A k \in 1..Len(cut) : FitChunk(text, ones[k], size, limit)
  <2> SUFFICES ASSUME NEW k \in 1..Len(cut) PROVE FitChunk(text, <<cut[k]>>, size, limit)
    BY <1>5
  <2> DEFINE m == cut[k]
  <2>1. m \in Message /\ Len(m) \in 1..size
    BY <1>1
  <2>2. m # <<>> /\ DOMAIN m = 1..Len(m) /\ DOMAIN g = 1..Len(g)
    BY <2>1 DEF Message
  <2>3. \A i \in 1..Len(m) : \E j \in 1..Len(g) : m[i] = g[j]
    BY <1>1
  <2> HIDE DEF m
  <2>4. SameText(text, m)
    BY <2>2, <2>3 DEF SameText
  <2> DEFINE c == <<m>>
  <2>5. c # <<>> /\ Len(c) = 1 /\ c[1] = m
    OBVIOUS
  <2> HIDE DEF c
  <2>6. FitChunk(text, c, size, limit)
    BY <2>1, <2>4, <2>5 DEF FitChunk
  <2> QED
    BY <2>6 DEF c, m
<1> HIDE DEF ones, new, fl
<1>8. fl \in Filling /\ d \in Seq(Chunk) /\ Len(d) \in Nat
  BY <1>2 DEF FitTo, Filling
<1>9. \A k \in 1..Len(d) : FitChunk(text, d[k], size, limit)
  BY <1>2 DEF FitTo
<1> HIDE DEF d
<1>10. new.done = d \o ones /\ new.open = <<>>
  BY <1>3
<1>11. Room(text, new, size, limit)
  <2> DEFINE all == d \o ones
  <2>1. Len(all) = Len(d) + Len(ones)
    BY <1>5, <1>8, ConcatProperties
  <2>2. \A k \in 1..(Len(d) + Len(ones)) : all[k] = IF k <= Len(d) THEN d[k] ELSE ones[k - Len(d)]
    BY <1>5, <1>8, ConcatProperties
  <2> HIDE DEF all
  <2>3. \A k \in 1..Len(all) : FitChunk(text, all[k], size, limit)
    <3> SUFFICES ASSUME NEW k \in 1..Len(all) PROVE FitChunk(text, all[k], size, limit)
      OBVIOUS
    <3>1. k \in Int /\ k <= Len(d) + Len(ones) /\ Len(ones) \in Nat
      BY <1>5, <1>8, <2>1
    <3>2. CASE k <= Len(d)
      <4>1. k \in 1..Len(d) /\ all[k] = d[k]
        BY <1>8, <2>1, <2>2, <3>1, <3>2
      <4> QED
        BY <1>9, <4>1
    <3>3. CASE ~(k <= Len(d))
      <4>1. k - Len(d) \in 1..Len(cut) /\ all[k] = ones[k - Len(d)]
        BY <1>5, <1>8, <2>1, <2>2, <3>1, <3>3
      <4> QED
        BY <1>7, <4>1
    <3> QED
      BY <3>2, <3>3
  <2>4. Len(<<>>) = 0
    OBVIOUS
  <2> QED
    BY <1>4, <1>10, <2>3, <2>4 DEF Room, FitTo, all
<1>12. Sent(new) = Sent(fl) \o g
  <2> DEFINE A == FlattenSeq(d)
             a == FlattenSeq(A)
  <2>1. FlattenSeq(d \o ones) = A \o cut
    BY <1>5, <1>6, <1>8, FlattenConcat DEF Chunk
  <2>2. A \in Seq(Message)
    BY <1>8, FlattenType DEF Chunk
  <2> HIDE DEF A
  <2>3. FlattenSeq(A \o cut) = a \o g
    BY <1>1, <2>2, FlattenConcat DEF Message
  <2>4. a \in Seq(Nat) /\ g \in Seq(Nat)
    BY <2>2, FlattenType DEF Message
  <2> HIDE DEF a
  <2>5. a \o <<>> = a
    BY <2>4, ConcatEmptySeq
  <2>6. Sent(fl) = a \o <<>>
    BY <1>2, FlattenEmpty DEF Sent, A, a, d
  <2> DEFINE all == a \o g
  <2>7. all \o <<>> = all
    <3>1. all \in Seq(Nat)
      BY <2>4, ConcatProperties
    <3> HIDE DEF all
    <3> QED
      BY <3>1, ConcatEmptySeq
  <2>8. Sent(new) = all \o <<>>
    BY <1>10, <2>1, <2>3, FlattenEmpty DEF Sent
  <2> QED
    BY <2>5, <2>6, <2>7, <2>8
<1> QED
  BY <1>2, <1>11, <1>12 DEF Takes, new, fl

\* What a run does to the chunks.
Fill(st, g, size, limit) ==
  IF Len(g) = 1 THEN AddSingle(st, g[1], limit) ELSE AddRun(st, g, size)

LEMMA OneRow ==
  ASSUME NEW g \in Message, Len(g) = 1
  PROVE  g[1] \in Nat /\ g = <<g[1]>>
<1>1. g \in Seq(Nat)
  BY DEF Message
<1>2. g[1] \in Nat
  <2>1. 1 \in 1..Len(g)
    OBVIOUS
  <2> QED
    BY <1>1, <2>1, ElementOfSeq
<1> DEFINE h == <<g[1]>>
<1>3. h \in Seq(Nat) /\ Len(h) = 1 /\ h[1] = g[1]
  BY <1>2
<1> HIDE DEF h
<1>4. \A i \in 1..Len(g) : g[i] = h[i]
  BY <1>3
<1>5. g = h
  BY <1>1, <1>3, <1>4, SeqEqual
<1> QED
  BY <1>2, <1>5 DEF h

LEMMA FillType ==
  ASSUME NEW st \in Filling, NEW g \in Message, NEW size \in Nat \ {0}, NEW limit
  PROVE  Fill(st, g, size, limit) \in Filling
<1>1. CASE Len(g) = 1
  <2>1. g[1] \in Nat
    BY <1>1, OneRow
  <2> QED
    BY <1>1, <2>1, AddSingleType DEF Fill
<1>2. CASE Len(g) # 1
  BY <1>2, AddRunType DEF Fill
<1> QED
  BY <1>1, <1>2

LEMMA FillFacts ==
  ASSUME NEW text, NEW size \in Nat \ {0}, NEW limit \in Nat \ {0}, NEW st,
         NEW g \in Message, SameText(text, g), Room(text, st, size, limit)
  PROVE  Takes(text, st, Fill(st, g, size, limit), g, size, limit)
<1>1. CASE Len(g) = 1
  <2> DEFINE i == g[1]
  <2>1. i \in Nat
    BY <1>1, OneRow
  <2>2. Fill(st, g, size, limit) = AddSingle(st, i, limit)
    BY <1>1 DEF Fill
  <2>4. g = <<i>>
    BY <1>1, OneRow
  <2> HIDE DEF i
  <2>3. Takes(text, st, AddSingle(st, i, limit), <<i>>, size, limit)
    BY <2>1, AddSingleFacts
  <2> QED
    BY <2>2, <2>3, <2>4
<1>2. CASE Len(g) # 1
  <2>1. Fill(st, g, size, limit) = AddRun(st, g, size)
    BY <1>2 DEF Fill
  <2>2. Takes(text, st, AddRun(st, g, size), g, size, limit)
    BY AddRunFacts
  <2> QED
    BY <2>1, <2>2
<1> QED
  BY <1>1, <1>2

Nothing == [done |-> <<>>, open |-> <<>>]

LEMMA FilledSteps ==
  ASSUME NEW groups \in Chunk, NEW size \in Nat \ {0}, NEW limit
  PROVE  /\ Filled(groups, size, limit)[0] = Nothing
         /\ \A k \in 1..Len(groups) :
              Filled(groups, size, limit)[k]
                = Fill(Filled(groups, size, limit)[k - 1], groups[k], size, limit)
<1> DEFINE m == Len(groups)
           D(g) == [k \in 0..m |-> IF k = 0 THEN Nothing
                                   ELSE Fill(g[k - 1], groups[k], size, limit)]
           step == [k \in 1..m |-> [x \in Filling |-> Fill(x, groups[k], size, limit)]]
<1>1. m \in Nat
  BY DEF Chunk
<1>2. Nothing \in Filling
  BY DEF Nothing, Filling, Chunk
<1>3. step \in Loop(m, Filling)
  <2>1. \A k \in 1..m : groups[k] \in Message
    BY DEF Chunk
  <2>2. \A k \in 1..m : \A x \in Filling : Fill(x, groups[k], size, limit) \in Filling
    BY <2>1, FillType
  <2> QED
    BY <2>2 DEF Loop
<1>4. \E f : Runs(f, m, Filling, Nothing, step)
  <2> HIDE DEF m, step
  <2> QED
    BY <1>1, <1>2, <1>3, Recursion
<1>5. PICK f \in [0..m -> Filling] :
        f[0] = Nothing /\ \A k \in 1..m : f[k] = step[k][f[k - 1]]
  BY <1>4 DEF Runs
<1>6. \A k \in 1..m : f[k] = Fill(f[k - 1], groups[k], size, limit)
  <2> SUFFICES ASSUME NEW k \in 1..m PROVE f[k] = Fill(f[k - 1], groups[k], size, limit)
    OBVIOUS
  <2>1. k - 1 \in 0..m
    OBVIOUS
  <2>2. f[k - 1] \in Filling
    BY <2>1
  <2> QED
    BY <1>5, <2>2
<1>7. f = D(f)
  BY <1>5, <1>6
<1>8. Filled(groups, size, limit) = CHOOSE g : g = D(g)
  BY DEF Filled, Fill, Nothing
<1>9. Filled(groups, size, limit) = D(Filled(groups, size, limit))
  <2> HIDE DEF D
  <2> QED
    BY <1>7, <1>8
<1> QED
  BY <1>1, <1>9

\* After any number of runs, the chunks hold their rows in order and keep their limits.
LEMMA FilledFacts ==
  ASSUME NEW text, NEW groups \in Chunk, NEW size \in Nat \ {0}, NEW limit \in Nat \ {0},
         \A k \in 1..Len(groups) : SameText(text, groups[k])
  PROVE  LET st == Filled(groups, size, limit)[Len(groups)]
         IN  Room(text, st, size, limit) /\ Sent(st) = FlattenSeq(groups)
<1> DEFINE m  == Len(groups)
           st == Filled(groups, size, limit)
<1>1. PICK f \in [0..m -> Seq(Nat)] : Concatenates(f, groups) /\ FlattenSeq(groups) = f[m]
  BY FlattenSteps DEF Chunk, Message
<1> DEFINE S == {k \in 0..m : /\ Room(text, st[k], size, limit)
                              /\ Sent(st[k]) = f[k]}
<1>2. m \in Nat
  BY DEF Chunk
<1>3. 0 \in S
  <2>1. st[0] = Nothing
    BY FilledSteps
  <2>2. Nothing \in Filling
    BY DEF Nothing, Filling, Chunk
  <2>3. Nothing.done = <<>> /\ Nothing.open = <<>> /\ Len(<<>>) = 0
    BY DEF Nothing
  <2>4. Room(text, Nothing, size, limit)
    BY <2>2, <2>3 DEF Room, FitTo
  <2>5. Sent(Nothing) = <<>>
    BY <2>3, FlattenEmpty DEF Sent
  <2>6. f[0] = <<>>
    BY <1>1 DEF Concatenates
  <2> QED
    BY <1>2, <2>1, <2>4, <2>5, <2>6
<1>4. \A k \in 1..m : k - 1 \in S => k \in S
  <2> SUFFICES ASSUME NEW k \in 1..m, k - 1 \in S PROVE k \in S
    OBVIOUS
  <2>1. st[k] = Fill(st[k - 1], groups[k], size, limit)
    BY FilledSteps
  <2>2. Room(text, st[k - 1], size, limit) /\ Sent(st[k - 1]) = f[k - 1]
    OBVIOUS
  <2>3. groups[k] \in Message /\ SameText(text, groups[k])
    BY DEF Chunk
  <2>4. f[k] = f[k - 1] \o groups[k]
    BY <1>1 DEF Concatenates
  <2> HIDE DEF st
  <2> DEFINE old == st[k - 1]
             g   == groups[k]
  <2>5. Room(text, old, size, limit)
    BY <2>2
  <2>8. g \in Message /\ SameText(text, g)
    BY <2>3
  <2> HIDE DEF old, g, S
  <2>6. Takes(text, old, Fill(old, g, size, limit), g, size, limit)
    BY <2>5, <2>8, FillFacts
  <2>7. /\ Room(text, st[k], size, limit)
        /\ Sent(st[k]) = f[k]
    BY <2>1, <2>2, <2>4, <2>6 DEF Takes, old, g
  <2> QED
    BY <2>7 DEF S
<1> HIDE DEF S, st
<1>5. 0..m \subseteq S
  BY <1>2, <1>3, <1>4, StepInduction
<1>6. m \in S
  BY <1>2, <1>5
<1> QED
  BY <1>1, <1>6 DEF S, st

\* Whatever the batch, its chunks hold every row once and in order, none is empty, the
\* rows of a message have one content, and each chunk keeps to its limit.
THEOREM ChunksFit ==
  ASSUME NEW X, NEW text \in Seq(X), NEW size \in Nat \ {0}, NEW limit \in Nat \ {0}
  PROVE  LET chunks == Chunks(text, size, limit)
         IN  /\ chunks \in Seq(Chunk)
             /\ FlattenSeq(FlattenSeq(chunks)) = [i \in 1..Len(text) |-> i]
             /\ \A k \in 1..Len(chunks) : FitChunk(text, chunks[k], size, limit)
<1> DEFINE groups == Groups(text)
           st     == Filled(groups, size, limit)[Len(groups)]
           fl     == Flush(st)
<1>1. groups \in Chunk /\ FlattenSeq(groups) = [i \in 1..Len(text) |-> i]
      /\ \A n \in 1..Len(groups) : SameText(text, groups[n])
  BY GroupsFacts DEF GroupedTo
<1>2. Chunks(text, size, limit) = fl.done
  BY DEF Chunks
<1> HIDE DEF groups
<1>3. Room(text, st, size, limit) /\ Sent(st) = FlattenSeq(groups)
  BY <1>1, FilledFacts
<1> HIDE DEF st
<1>4. FitTo(text, st, size, limit, limit)
  BY <1>3 DEF Room, FitTo, Filling, Chunk
<1>5. FitTo(text, fl, size, limit, 0) /\ Sent(fl) = Sent(st) /\ fl.open = <<>>
  BY <1>4, FlushFacts
<1> HIDE DEF fl
<1>6. fl \in Filling
  BY <1>5 DEF FitTo
<1> DEFINE all == FlattenSeq(FlattenSeq(fl.done))
<1>7. all \in Seq(Nat) /\ Sent(fl) = all \o <<>>
  BY <1>5, <1>6, SentType, FlattenEmpty DEF Sent, Message
<1> HIDE DEF all
<1>8. Sent(fl) = all
  BY <1>7, ConcatEmptySeq
<1> QED
  BY <1>1, <1>2, <1>3, <1>5, <1>6, <1>8 DEF FitTo, Filling, all

=============================================================================
