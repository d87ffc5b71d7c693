---------------------------- MODULE GradingProofs ----------------------------
(***************************************************************************)
(* Proofs about a round and its verdict (Grading).  The invariant has four *)
(* layers, each proved on the ones before it: AuditInv, the shape of the   *)
(* collector and its table; SealInv, that the table keeps the seal of      *)
(* every judged round because it only grows (Grows); JudgeInv, that what   *)
(* is asked and kept in a judging concerns the right agents and says no    *)
(* more than their evidence; and, on the first two, AccountInv: what the   *)
(* book does not know of an agent's acts is counted as lost, or was lost   *)
(* where nobody was listening.                                             *)
(*                                                                         *)
(* Recursive functions are first unfolded into a relation between their    *)
(* successive values (Keeps, AllPersisted, AllCovered); what holds of all  *)
(* of these is then shown by SetInduction.                                 *)
(***************************************************************************)
EXTENDS Grading, WellFoundedInduction, FiniteSetTheorems, TLAPS

-----------------------------------------------------------------------------
(* Recursion and induction.  The library's theorems take an operator as a  *)
(* parameter; these take a set and a function instead.                     *)

\* A set of numbers has a least one.
LEMMA Least ==
    ASSUME NEW S \in SUBSET Nat, S # {}
    PROVE  \E x \in S : \A y \in S : x <= y
<1>1. IsWellFoundedOn(OpToRel(<, Nat), Nat)
  BY NatLessThanWellFounded, Zenon
<1>2. \E x \in S : \A y \in S : ~(<<y, x>> \in OpToRel(<, Nat))
  BY <1>1, WFMin, Zenon
<1>3. \E x \in S : \A y \in S : ~(y < x)
  BY <1>2 DEF OpToRel
<1> QED
  BY <1>3

\* A set of numbers with a bound has a greatest one.
LEMMA Greatest ==
    ASSUME NEW n \in Nat, NEW S \in SUBSET (1..n), S # {}
    PROVE  \E x \in S : \A y \in S : y <= x
<1> DEFINE T == {m \in Nat : \A y \in S : y <= m}
<1>1. n \in T
  OBVIOUS
<1>2. PICK m \in T : \A k \in T : m <= k
  BY <1>1, Least
<1>3. m \in S
  <2> SUFFICES ASSUME m \notin S
               PROVE  FALSE
    OBVIOUS
  <2>1. \A y \in S : y \in Nat /\ y <= m /\ y # m /\ y >= 1
    BY <1>2
  <2>2. m - 1 \in Nat /\ \A y \in S : y <= m - 1
    <3>1. PICK y \in S : y >= 1 /\ y <= m /\ y \in Nat
      BY <2>1
    <3>2. m \in Nat /\ m >= 1
      BY <1>2, <3>1
    <3> QED
      BY <2>1, <3>2
  <2> QED
    BY <1>2, <2>2
<1> QED
  BY <1>2, <1>3

\* What holds of 0, and of n + 1 when it holds of n, holds of every number.
LEMMA SetInduction ==
    ASSUME NEW S, 0 \in S, \A n \in Nat : n \in S => n + 1 \in S
    PROVE  \A n \in Nat : n \in S
<1> SUFFICES ASSUME NEW m \in Nat, m \notin S
             PROVE  FALSE
  OBVIOUS
<1> DEFINE Out == {n \in Nat : n \notin S}
<1>1. PICK x \in Out : \A y \in Out : x <= y
  <2>1. Out \in SUBSET Nat /\ Out # {}
    OBVIOUS
  <2> HIDE DEF Out
  <2> QED
    BY <2>1, Least
<1>2. x \in Nat /\ x \notin S
  BY <1>1
<1>3. x - 1 \in Nat /\ (x - 1) + 1 = x /\ ~(x <= x - 1)
  BY <1>2
<1>4. x - 1 \in S
  BY <1>1, <1>3
<1> QED
  BY <1>2, <1>3, <1>4

\* f takes n steps from `base`.
Takes(f, T, base, step, n) ==
    f \in [0..n -> T] /\ f[0] = base /\ \A k \in 1..n : f[k] = step[<<k, f[k - 1]>>]

\* A recursion, one step at a time, has a solution of any length.
LEMMA Recursion ==
    ASSUME NEW T, NEW base \in T, NEW step \in [Nat \X T -> T], NEW N \in Nat
    PROVE  \E f : Takes(f, T, base, step, N)
<1> DEFINE Solves(f, n) == Takes(f, T, base, step, n)
           Solvable == {n \in Nat : \E f : Solves(f, n)}
<1>1. 0 \in Solvable
  <2>1. Solves([k \in 0..0 |-> base], 0)
    BY DEF Takes
  <2> QED
    BY <2>1
<1>2. ASSUME NEW n \in Nat, n \in Solvable
      PROVE  n + 1 \in Solvable
  <2>1. PICK f : Solves(f, n)
    BY <1>2
  <2>0. f \in [0..n -> T] /\ f[0] = base /\ \A k \in 1..n : f[k] = step[<<k, f[k - 1]>>]
    BY <2>1 DEF Takes
  <2> DEFINE g == [k \in 0..(n + 1) |-> IF k <= n THEN f[k] ELSE step[<<n + 1, f[n]>>]]
  <2>2. \A k \in 0..n : f[k] \in T /\ g[k] = f[k]
    BY <2>0
  <2>3. g[n + 1] = step[<<n + 1, f[n]>>] /\ g[n + 1] \in T
    <3>1. n \in 0..n /\ n + 1 \in 0..(n + 1) /\ ~(n + 1 <= n) /\ n + 1 \in Nat
      OBVIOUS
    <3>2. <<n + 1, f[n]>> \in Nat \X T
      BY <2>2, <3>1
    <3> QED
      BY <3>1, <3>2
  <2>4. g \in [0..(n + 1) -> T]
    <3>1. \A k \in 0..(n + 1) : k \in 0..n \/ k = n + 1
      OBVIOUS
    <3>2. \A k \in 0..(n + 1) : g[k] \in T
      BY <2>2, <2>3, <3>1
    <3>3. g = [k \in 0..(n + 1) |-> g[k]]
      OBVIOUS
    <3> HIDE DEF g
    <3> QED
      BY <3>2, <3>3
  <2>5. \A k \in 1..(n + 1) : g[k] = step[<<k, g[k - 1]>>]
    <3> SUFFICES ASSUME NEW k \in 1..(n + 1)
                 PROVE  g[k] = step[<<k, g[k - 1]>>]
      OBVIOUS
    <3>1. CASE k = n + 1
      <4>1. k - 1 = n /\ n \in 0..n
        BY <3>1
      <4> QED
        BY <2>2, <2>3, <3>1, <4>1
    <3>2. CASE k # n + 1
      <4>1. k \in 1..n /\ k \in 0..n /\ k - 1 \in 0..n
        BY <3>2
      <4>2. g[k] = f[k] /\ g[k - 1] = f[k - 1]
        BY <2>2, <4>1
      <4> QED
        BY <2>0, <4>1, <4>2
    <3> QED
      BY <3>1, <3>2
  <2>6. Solves(g, n + 1)
    <3>1. 0 \in 0..n
      OBVIOUS
    <3> HIDE DEF g
    <3> QED
      BY <2>0, <2>2, <2>4, <2>5, <3>1 DEF Takes
  <2> HIDE DEF g, Solves
  <2> QED
    BY <2>6
<1>3. N \in Solvable
  <2> HIDE DEF Solvable
  <2> QED
    BY <1>1, <1>2, SetInduction
<1> QED
  BY <1>3

-----------------------------------------------------------------------------
(* Subsequences. *)

\* The recursion behind Among, unfolded.
Keeps(kept, X, s, S) ==
    /\ kept \in [0..Len(s) -> Seq(X)] /\ kept[0] = <<>>
    /\ \A n \in 1..Len(s) :
         kept[n] = IF s[n] \in S THEN Append(kept[n - 1], s[n]) ELSE kept[n - 1]
    /\ Among(s, S) = kept[Len(s)]

LEMMA AmongUnfolded ==
    ASSUME NEW X, NEW s \in Seq(X), NEW S
    PROVE  \E kept : Keeps(kept, X, s, S)
<1> DEFINE N == Len(s)
           Is(k) == k = [n \in 0..N |->
                            IF n = 0 THEN <<>>
                            ELSE IF s[n] \in S THEN Append(k[n - 1], s[n]) ELSE k[n - 1]]
           kept == CHOOSE k : Is(k)
           step == [p \in Nat \X Seq(X) |->
                      IF p[1] \in 1..N /\ s[p[1]] \in S THEN Append(p[2], s[p[1]]) ELSE p[2]]
<1>1. N \in Nat /\ \A n \in 1..N : s[n] \in X
  OBVIOUS
<1>2. step \in [Nat \X Seq(X) -> Seq(X)]
  OBVIOUS
<1>3. PICK f \in [0..N -> Seq(X)] :
        f[0] = <<>> /\ \A n \in 1..N : f[n] = step[<<n, f[n - 1]>>]
  <2> DEFINE T == Seq(X)
             base == <<>>
  <2>1. base \in T /\ step \in [Nat \X T -> T] /\ N \in Nat
    BY <1>1, <1>2
  <2> HIDE DEF step, N, T, base
  <2>2. \E f : Takes(f, T, base, step, N)
    BY <2>1, Recursion
  <2> QED
    BY <2>2 DEF Takes, T, base
<1>4. \A n \in 1..N : f[n] = IF s[n] \in S THEN Append(f[n - 1], s[n]) ELSE f[n - 1]
  <2> SUFFICES ASSUME NEW n \in 1..N
               PROVE  f[n] = IF s[n] \in S THEN Append(f[n - 1], s[n]) ELSE f[n - 1]
    OBVIOUS
  <2>1. n - 1 \in 0..N /\ f[n - 1] \in Seq(X)
    BY <1>1, <1>3
  <2>2. <<n, f[n - 1]>> \in Nat \X Seq(X)
    BY <1>1, <2>1
  <2>3. step[<<n, f[n - 1]>>] = IF s[n] \in S THEN Append(f[n - 1], s[n]) ELSE f[n - 1]
    BY <2>2
  <2> QED
    BY <1>3, <2>3
<1>5. Is(f)
  <2> DEFINE B == [n \in 0..N |-> IF n = 0 THEN <<>>
                                   ELSE IF s[n] \in S THEN Append(f[n - 1], s[n]) ELSE f[n - 1]]
  <2>1. ASSUME NEW n \in 0..N
        PROVE  f[n] = B[n]
    <3>1. CASE n = 0
      BY <1>3, <3>1
    <3>2. CASE n # 0
      <4>1. n \in 1..N
        BY <1>1, <3>2
      <4> QED
        BY <1>4, <3>2, <4>1
    <3> QED
      BY <3>1, <3>2
  <2>2. f = B
    BY <1>3, <2>1
  <2> QED
    BY <2>2
<1>6. Is(kept)
  BY <1>5
<1>7. Among(s, S) = kept[N]
  BY DEF Among
<1> HIDE DEF kept
<1>8. /\ DOMAIN kept = 0..N /\ kept[0] = <<>>
      /\ \A n \in 1..N :
            kept[n] = IF s[n] \in S THEN Append(kept[n - 1], s[n]) ELSE kept[n - 1]
  <2> DEFINE B == [n \in 0..N |-> IF n = 0 THEN <<>>
                                   ELSE IF s[n] \in S THEN Append(kept[n - 1], s[n]) ELSE kept[n - 1]]
  <2>1. kept = B
    BY <1>6
  <2>2. \A n \in 0..N : kept[n] = B[n]
    BY <2>1
  <2>3. DOMAIN kept = 0..N
    BY <2>1
  <2> HIDE DEF B
  <2>4. kept[0] = <<>>
    BY <1>1, <2>2 DEF B
  <2>5. \A n \in 1..N : n \in 0..N /\ n # 0
    BY <1>1
  <2> QED
    BY <2>2, <2>3, <2>4, <2>5 DEF B
<1>9. \A n \in Nat : n \in {m \in Nat : m <= N => kept[m] \in Seq(X)}
  <2> DEFINE Good == {m \in Nat : m <= N => kept[m] \in Seq(X)}
  <2> HIDE DEF N
  <2>1. 0 \in Good
    <3>1. <<>> \in Seq(X)
      OBVIOUS
    <3> QED
      BY <1>8, <3>1
  <2>2. ASSUME NEW n \in Nat, n \in Good
        PROVE  n + 1 \in Good
    <3> SUFFICES ASSUME n + 1 <= N
                 PROVE  kept[n + 1] \in Seq(X)
      OBVIOUS
    <3>1. n + 1 \in 1..N /\ (n + 1) - 1 = n /\ kept[n] \in Seq(X)
      BY <1>1, <2>2
    <3>2. s[n + 1] \in X
      BY <1>1, <3>1
    <3>3. kept[n + 1] = IF s[n + 1] \in S THEN Append(kept[n], s[n + 1]) ELSE kept[n]
      BY <1>8, <3>1
    <3>4. Append(kept[n], s[n + 1]) \in Seq(X)
      BY <3>1, <3>2
    <3> QED
      BY <3>1, <3>3, <3>4
  <2> HIDE DEF Good
  <2>3. \A n \in Nat : n \in Good
    BY <2>1, <2>2, SetInduction
  <2> QED
    BY <2>3 DEF Good
<1>10. kept \in [0..N -> Seq(X)]
  <2>1. \A n \in 0..N : kept[n] \in Seq(X)
    BY <1>1, <1>9
  <2> DEFINE B == [n \in 0..N |-> IF n = 0 THEN <<>>
                                   ELSE IF s[n] \in S THEN Append(kept[n - 1], s[n]) ELSE kept[n - 1]]
  <2>2. kept = B
    BY <1>6
  <2>3. kept = [n \in 0..N |-> kept[n]]
    BY <2>2
  <2> QED
    BY <2>1, <2>3
<1> QED
  BY <1>7, <1>8, <1>10 DEF Keeps

LEMMA ToSetTyped ==
    ASSUME NEW X, NEW s \in Seq(X)
    PROVE  /\ ToSet(s) \subseteq X
           /\ \A x : x \in ToSet(s) <=> \E i \in 1..Len(s) : s[i] = x
           /\ s \in Seq(ToSet(s))
BY DEF ToSet

LEMMA ToSetAppend ==
    ASSUME NEW X, NEW s \in Seq(X), NEW x \in X
    PROVE  /\ ToSet(Append(s, x)) = ToSet(s) \cup {x}
           /\ IsInjective(s) /\ x \notin ToSet(s) => IsInjective(Append(s, x))
<1>1. /\ Len(Append(s, x)) = Len(s) + 1 /\ DOMAIN Append(s, x) = 1..(Len(s) + 1)
      /\ Len(s) \in Nat /\ DOMAIN s = 1..Len(s)
      /\ \A i \in 1..Len(s) : Append(s, x)[i] = s[i]
      /\ Append(s, x)[Len(s) + 1] = x
  OBVIOUS
<1>2. \A i : i \in 1..(Len(s) + 1) <=> i \in 1..Len(s) \/ i = Len(s) + 1
  BY <1>1
<1>3. ToSet(Append(s, x)) = ToSet(s) \cup {x}
  BY <1>1, <1>2 DEF ToSet
<1>4. ASSUME IsInjective(s), x \notin ToSet(s)
      PROVE  IsInjective(Append(s, x))
  <2>1. \A i \in 1..Len(s) : s[i] # x
    BY <1>1, <1>4 DEF ToSet
  <2>2. \A i, j \in 1..Len(s) : s[i] = s[j] => i = j
    BY <1>1, <1>4 DEF IsInjective
  <2> QED
    BY <1>1, <1>2, <2>1, <2>2 DEF IsInjective
<1> QED
  BY <1>3, <1>4

LEMMA ToSetConcat ==
    ASSUME NEW X, NEW s \in Seq(X), NEW t \in Seq(X)
    PROVE  /\ ToSet(s \o t) = ToSet(s) \cup ToSet(t)
           /\ IsInjective(s) /\ IsInjective(t) /\ ToSet(s) \cap ToSet(t) = {} => IsInjective(s \o t)
<1> DEFINE m == Len(s)
           n == Len(t)
<1>1. /\ m \in Nat /\ n \in Nat /\ DOMAIN s = 1..m /\ DOMAIN t = 1..n
      /\ DOMAIN (s \o t) = 1..(m + n)
      /\ \A i \in 1..(m + n) : (s \o t)[i] = IF i <= m THEN s[i] ELSE t[i - m]
  OBVIOUS
<1> HIDE DEF m, n
<1>2. \A i \in 1..(m + n) : (i <= m /\ i \in 1..m) \/ (~(i <= m) /\ i - m \in 1..n)
  BY <1>1
<1>3. \A i \in 1..m : i \in 1..(m + n) /\ (s \o t)[i] = s[i]
  BY <1>1
<1>4. \A i \in 1..n : m + i \in 1..(m + n) /\ (s \o t)[m + i] = t[i]
  <2> SUFFICES ASSUME NEW i \in 1..n
               PROVE  m + i \in 1..(m + n) /\ (s \o t)[m + i] = t[i]
    OBVIOUS
  <2>1. m + i \in 1..(m + n) /\ ~(m + i <= m) /\ (m + i) - m = i
    BY <1>1
  <2> QED
    BY <1>1, <2>1
<1>5. ToSet(s \o t) = ToSet(s) \cup ToSet(t)
  <2>1. ToSet(s \o t) \subseteq ToSet(s) \cup ToSet(t)
    <3> SUFFICES ASSUME NEW i \in 1..(m + n)
                 PROVE  (s \o t)[i] \in ToSet(s) \cup ToSet(t)
      BY <1>1 DEF ToSet
    <3>1. CASE i <= m
      BY <1>1, <1>2, <3>1 DEF ToSet
    <3>2. CASE ~(i <= m)
      BY <1>1, <1>2, <3>2 DEF ToSet
    <3> QED
      BY <3>1, <3>2
  <2>2. ToSet(s) \subseteq ToSet(s \o t)
    BY <1>1, <1>3 DEF ToSet
  <2>3. ToSet(t) \subseteq ToSet(s \o t)
    <3> SUFFICES ASSUME NEW i \in 1..n
                 PROVE  t[i] \in ToSet(s \o t)
      BY <1>1 DEF ToSet
    <3> QED
      BY <1>1, <1>4 DEF ToSet
  <2> QED
    BY <2>1, <2>2, <2>3
<1>6. ASSUME IsInjective(s), IsInjective(t), ToSet(s) \cap ToSet(t) = {}
      PROVE  IsInjective(s \o t)
  <2>1. \A i \in 1..m, j \in 1..n : s[i] # t[j]
    BY <1>1, <1>6 DEF ToSet
  <2>2. /\ \A i, j \in 1..m : s[i] = s[j] => i = j
        /\ \A i, j \in 1..n : t[i] = t[j] => i = j
    BY <1>1, <1>6 DEF IsInjective
  <2> SUFFICES ASSUME NEW i \in 1..(m + n), NEW j \in 1..(m + n), (s \o t)[i] = (s \o t)[j]
               PROVE  i = j
    BY <1>1 DEF IsInjective
  <2>3. CASE i <= m /\ j <= m
    BY <1>1, <1>2, <2>2, <2>3
  <2>4. CASE ~(i <= m) /\ ~(j <= m)
    <3>1. i - m = j - m
      BY <1>1, <1>2, <2>2, <2>4
    <3> QED
      BY <1>1, <3>1
  <2>5. CASE i <= m /\ ~(j <= m)
    BY <1>1, <1>2, <2>1, <2>5
  <2>6. CASE ~(i <= m) /\ j <= m
    <3>1. i - m \in 1..n /\ j \in 1..m /\ t[i - m] = s[j]
      BY <1>1, <1>2, <2>6
    <3> QED
      BY <2>1, <3>1
  <2> QED
    BY <2>3, <2>4, <2>5, <2>6
<1> QED
  BY <1>5, <1>6

\* Among keeps the elements of S and no other, each as often as it was.
LEMMA AmongFacts ==
    ASSUME NEW X, NEW s \in Seq(X), NEW S
    PROVE  /\ Among(s, S) \in Seq(X)
           /\ ToSet(Among(s, S)) = ToSet(s) \cap S
           /\ IsInjective(s) => IsInjective(Among(s, S))
<1> DEFINE N == Len(s)
<1>1. N \in Nat /\ \A n \in 1..N : s[n] \in X
  OBVIOUS
<1>0. PICK kept : Keeps(kept, X, s, S)
  BY AmongUnfolded
<1>2. /\ kept \in [0..N -> Seq(X)] /\ kept[0] = <<>>
      /\ \A n \in 1..N : kept[n] = IF s[n] \in S THEN Append(kept[n - 1], s[n])
                                                   ELSE kept[n - 1]
      /\ Among(s, S) = kept[N]
  BY <1>0 DEF Keeps
<1> DEFINE Is(n) == /\ ToSet(kept[n]) = {s[i] : i \in 1..n} \cap S
                    /\ IsInjective(s) => IsInjective(kept[n])
           Good == {n \in Nat : n <= N => Is(n)}
<1>3. 0 \in Good
  <2>1. ToSet(<<>>) = {} /\ IsInjective(<<>>)
    BY DEF ToSet, IsInjective
  <2>2. {s[i] : i \in 1..0} = {}
    OBVIOUS
  <2> QED
    BY <1>2, <2>1, <2>2
<1>4. ASSUME NEW n \in Nat, n \in Good
      PROVE  n + 1 \in Good
  <2> SUFFICES ASSUME n + 1 <= N
               PROVE  Is(n + 1)
    OBVIOUS
  <2> HIDE DEF N
  <2>1. /\ n + 1 \in 1..N /\ (n + 1) - 1 = n /\ n \in 0..N /\ n <= N /\ n + 1 \notin 1..n
        /\ \A i : i \in 1..(n + 1) <=> i \in 1..n \/ i = n + 1
        /\ \A i \in 1..n : i \in 1..N
    BY <1>1, n + 1 <= N
  <2>2. kept[n] \in Seq(X) /\ s[n + 1] \in X
    BY <1>1, <1>2, <2>1
  <2>3. ToSet(kept[n]) = {s[i] : i \in 1..n} \cap S /\ (IsInjective(s) => IsInjective(kept[n]))
    BY <1>4, <2>1
  <2>4. kept[n + 1] = IF s[n + 1] \in S THEN Append(kept[n], s[n + 1]) ELSE kept[n]
    BY <1>2, <2>1
  <2>5. {s[i] : i \in 1..(n + 1)} = {s[i] : i \in 1..n} \cup {s[n + 1]}
    BY <2>1
  <2>6. IsInjective(s) => s[n + 1] \notin {s[i] : i \in 1..n}
    BY <2>1 DEF IsInjective, N
  <2>7. CASE s[n + 1] \in S
    <3>1. kept[n + 1] = Append(kept[n], s[n + 1])
      BY <2>4, <2>7
    <3>2. ToSet(kept[n + 1]) = ToSet(kept[n]) \cup {s[n + 1]}
      BY <2>2, <3>1, ToSetAppend
    <3>3. ToSet(kept[n + 1]) = {s[i] : i \in 1..(n + 1)} \cap S
      BY <2>3, <2>5, <2>7, <3>2
    <3>4. ASSUME IsInjective(s)
          PROVE  IsInjective(kept[n + 1])
      <4>1. IsInjective(kept[n]) /\ s[n + 1] \notin ToSet(kept[n])
        BY <2>3, <2>6, <3>4
      <4> QED
        BY <2>2, <3>1, <4>1, ToSetAppend
    <3> QED
      BY <3>3, <3>4
  <2>8. CASE s[n + 1] \notin S
    <3>1. kept[n + 1] = kept[n]
      BY <2>4, <2>8
    <3>2. {s[i] : i \in 1..(n + 1)} \cap S = {s[i] : i \in 1..n} \cap S
      BY <2>5, <2>8
    <3> QED
      BY <2>3, <3>1, <3>2
  <2> QED
    BY <2>7, <2>8
<1>5. Is(N)
  <2> HIDE DEF Good, Is
  <2>1. \A n \in Nat : n \in Good
    BY <1>3, <1>4, SetInduction
  <2> HIDE DEF N
  <2> QED
    BY <1>1, <2>1 DEF Good
<1>6. {s[i] : i \in 1..N} = ToSet(s)
  BY DEF ToSet
<1>7. kept[N] \in Seq(X)
  BY <1>1, <1>2
<1> QED
  BY <1>2, <1>5, <1>6, <1>7

LEMMA AmongEmpty == \A S : Among(<<>>, S) = <<>>
<1> SUFFICES ASSUME NEW S
             PROVE  Among(<<>>, S) = <<>>
  OBVIOUS
<1>1. <<>> \in Seq({}) /\ Len(<<>>) = 0
  OBVIOUS
<1>2. PICK kept : Keeps(kept, {}, <<>>, S)
  BY <1>1, AmongUnfolded
<1> QED
  BY <1>1, <1>2 DEF Keeps

\* One more element at the end is kept at the end, or is not kept.
LEMMA AmongAppend ==
    ASSUME NEW X, NEW s \in Seq(X), NEW x \in X, NEW S
    PROVE  Among(Append(s, x), S) = IF x \in S THEN Append(Among(s, S), x) ELSE Among(s, S)
<1> DEFINE N == Len(s)
           t == Append(s, x)
<1>1. /\ N \in Nat /\ t \in Seq(X) /\ Len(t) = N + 1 /\ t[N + 1] = x
      /\ \A n \in 1..N : t[n] = s[n]
  OBVIOUS
<1> HIDE DEF t
<1>0. PICK kept : Keeps(kept, X, s, S)
  BY AmongUnfolded
<1>2. /\ kept \in [0..N -> Seq(X)] /\ kept[0] = <<>>
      /\ \A n \in 1..N : kept[n] = IF s[n] \in S THEN Append(kept[n - 1], s[n])
                                                   ELSE kept[n - 1]
      /\ Among(s, S) = kept[N]
  BY <1>0 DEF Keeps
<1> HIDE DEF N
<1>3. PICK more : Keeps(more, X, t, S)
  BY <1>1, AmongUnfolded
<1>10. /\ more[0] = <<>>
       /\ \A n \in 1..(N + 1) : more[n] = IF t[n] \in S THEN Append(more[n - 1], t[n])
                                                          ELSE more[n - 1]
       /\ Among(t, S) = more[N + 1]
  BY <1>1, <1>3 DEF Keeps
<1> DEFINE Good == {n \in Nat : n <= N => more[n] = kept[n]}
<1>4. 0 \in Good
  BY <1>2, <1>10
<1>5. ASSUME NEW n \in Nat, n \in Good
      PROVE  n + 1 \in Good
  <2> SUFFICES ASSUME n + 1 <= N
               PROVE  more[n + 1] = kept[n + 1]
    OBVIOUS
  <2>1. n + 1 \in 1..N /\ n + 1 \in 1..(N + 1) /\ (n + 1) - 1 = n /\ n <= N
    BY <1>1
  <2>2. more[n] = kept[n] /\ t[n + 1] = s[n + 1]
    BY <1>1, <1>5, <2>1
  <2>3. kept[n + 1] = IF s[n + 1] \in S THEN Append(kept[n], s[n + 1]) ELSE kept[n]
    BY <1>2, <2>1
  <2>4. more[n + 1] = IF t[n + 1] \in S THEN Append(more[n], t[n + 1]) ELSE more[n]
    BY <1>10, <2>1
  <2> QED
    BY <2>2, <2>3, <2>4
<1>6. more[N] = kept[N]
  <2> HIDE DEF Good
  <2>1. \A n \in Nat : n \in Good
    BY <1>4, <1>5, SetInduction
  <2> QED
    BY <1>1, <2>1 DEF Good
<1>7. N + 1 \in 1..(N + 1) /\ (N + 1) - 1 = N
  BY <1>1
<1>8. more[N + 1] = IF t[N + 1] \in S THEN Append(more[N], t[N + 1]) ELSE more[N]
  BY <1>10, <1>7
<1>9. Among(t, S) = IF x \in S THEN Append(Among(s, S), x) ELSE Among(s, S)
  BY <1>1, <1>2, <1>10, <1>6, <1>8
<1> QED
  BY <1>9 DEF t

\* Where each element of a strict order of 1..N stands, counted by what is before it.
LEMMA StandingPermutes ==
    ASSUME NEW N \in Nat, NEW R,
           \A i \in 1..N : <<i, i>> \notin R,
           \A i, j \in 1..N : i # j => <<i, j>> \in R \/ <<j, i>> \in R,
           \A i, j, k \in 1..N : <<i, j>> \in R /\ <<j, k>> \in R => <<i, k>> \in R
    PROVE  LET ahead(i) == Cardinality({j \in 1..N : <<j, i>> \in R})
           IN  /\ \A i \in 1..N : ahead(i) \in Nat /\ ahead(i) + 1 \in 1..N
               /\ \A i, j \in 1..N : <<i, j>> \in R <=> ahead(i) < ahead(j)
               /\ \A k \in 1..N : \E i \in 1..N : ahead(i) = k - 1
<1> DEFINE D == 1..N
           Ahead(i) == {j \in D : <<j, i>> \in R}
           ahead(i) == Cardinality(Ahead(i))
<1>1. IsFiniteSet(D) /\ Cardinality(D) = N
  BY FS_Interval
<1>2. ASSUME NEW i \in D
      PROVE  IsFiniteSet(Ahead(i)) /\ ahead(i) \in Nat /\ ahead(i) < N
  <2>1. Ahead(i) \in SUBSET D /\ i \notin Ahead(i)
    OBVIOUS
  <2> HIDE DEF Ahead, D
  <2>2. IsFiniteSet(Ahead(i)) /\ ahead(i) <= N /\ (ahead(i) = N => Ahead(i) = D)
    BY <1>1, <2>1, FS_Subset
  <2>3. ahead(i) \in Nat
    BY <2>2, FS_CardinalityType
  <2>4. Ahead(i) # D
    BY <2>1
  <2> HIDE DEF ahead
  <2> QED
    BY <2>2, <2>3, <2>4
<1>3. ASSUME NEW i \in D, NEW j \in D, <<i, j>> \in R
      PROVE  ahead(i) < ahead(j)
  <2>1. Ahead(i) \in SUBSET Ahead(j) /\ i \in Ahead(j) /\ i \notin Ahead(i)
    BY <1>3
  <2>2. IsFiniteSet(Ahead(j)) /\ ahead(i) \in Nat /\ ahead(j) \in Nat
    BY <1>2
  <2> HIDE DEF Ahead, D
  <2>3. ahead(i) <= ahead(j) /\ ahead(i) # ahead(j)
    BY <2>1, <2>2, FS_Subset
  <2> HIDE DEF ahead
  <2> QED
    BY <2>2, <2>3
<1>4. \A i \in D : ahead(i) \in Nat /\ ahead(i) + 1 \in D
  <2> SUFFICES ASSUME NEW i \in D
               PROVE  ahead(i) \in Nat /\ ahead(i) + 1 \in D
    OBVIOUS
  <2>1. ahead(i) \in Nat /\ ahead(i) < N
    BY <1>2
  <2> HIDE DEF ahead
  <2> QED
    BY <2>1
<1>5. \A i, j \in D : <<i, j>> \in R <=> ahead(i) < ahead(j)
  <2> SUFFICES ASSUME NEW i \in D, NEW j \in D, ahead(i) < ahead(j)
               PROVE  <<i, j>> \in R
    BY <1>3
  <2>1. ahead(i) \in Nat /\ ahead(j) \in Nat
    BY <1>4
  <2>2. i # j /\ <<j, i>> \notin R
    <3> HIDE DEF ahead
    <3>1. i # j
      BY <2>1
    <3>2. ASSUME <<j, i>> \in R
          PROVE  FALSE
      <4>1. ahead(j) < ahead(i)
        BY <1>3, <3>2
      <4> QED
        BY <2>1, <4>1
    <3> QED
      BY <3>1, <3>2
  <2> QED
    BY <2>2
<1> HIDE DEF ahead
<1>6. \A k \in D : \E i \in D : ahead(i) = k - 1
  <2> DEFINE place == [i \in D |-> ahead(i) + 1]
  <2>1. \A i, j \in D : place[i] = place[j] => i = j
    <3> SUFFICES ASSUME NEW i \in D, NEW j \in D, place[i] = place[j], i # j
                 PROVE  FALSE
      OBVIOUS
    <3>1. ahead(i) \in Nat /\ ahead(j) \in Nat /\ ahead(i) = ahead(j)
      BY <1>4
    <3>2. ahead(i) < ahead(j) \/ ahead(j) < ahead(i)
      BY <1>5
    <3> QED
      BY <3>1, <3>2
  <2>2. place \in [D -> D]
    BY <1>4
  <2> HIDE DEF D, place
  <2>3. place \in Injection(D, D)
    <3>1. IsInjective(place)
      BY <2>1, <2>2 DEF IsInjective
    <3> QED
      BY <2>2, <3>1 DEF Injection
  <2> USE DEF place
  <2>4. place \in Surjection(D, D)
    BY <1>1, <2>3, FS_Injection
  <2>5. \A k \in D : \E i \in D : place[i] = k
    BY <2>4 DEF Surjection
  <2>6. \A i \in D : place[i] = ahead(i) + 1 /\ ahead(i) \in Nat
    BY <1>4
  <2> HIDE DEF place
  <2>7. \A k \in D : k \in Nat
    BY DEF D
  <2> QED
    BY <2>5, <2>6, <2>7
<1> QED
  BY <1>4, <1>5, <1>6 DEF ahead

\* SortedBy is a permutation of the sequence in which no key follows a greater one.
LEMMA SortedFacts ==
    ASSUME NEW X, NEW s \in Seq(X), NEW key, \A i \in DOMAIN s : key[s[i]] \in Nat
    PROVE  LET t == SortedBy(s, key)
           IN  /\ t \in Seq(X) /\ Len(t) = Len(s) /\ ToSet(t) = ToSet(s)
               /\ IsInjective(s) => IsInjective(t)
               /\ \A i, j \in DOMAIN t : i < j => key[t[i]] <= key[t[j]]
<1> DEFINE N == Len(s)
           D == 1..N
           before(i, j) == key[s[i]] < key[s[j]] \/ (key[s[i]] = key[s[j]] /\ i < j)
           R == {p \in D \X D : before(p[1], p[2])}
           ahead(i) == Cardinality({j \in D : before(j, i)})
           behind(i) == Cardinality({j \in D : <<j, i>> \in R})
           at == [k \in D |-> CHOOSE i \in D : ahead(i) = k - 1]
           t == SortedBy(s, key)
<1>1. N \in Nat /\ DOMAIN s = D /\ \A i \in D : s[i] \in X /\ key[s[i]] \in Nat
  OBVIOUS
<1>2. t = [k \in D |-> s[CHOOSE i \in D : ahead(i) = k - 1]]
  BY <1>1 DEF SortedBy
<1>3. \A i, j \in D : <<i, j>> \in R <=> before(i, j)
  OBVIOUS
<1>4. \A i \in D : behind(i) = ahead(i)
  <2> SUFFICES ASSUME NEW i \in D
               PROVE  {j \in D : <<j, i>> \in R} = {j \in D : before(j, i)}
    OBVIOUS
  <2> HIDE DEF before, R
  <2> QED
    BY <1>3
<1>5. /\ \A i \in D : ~before(i, i)
      /\ \A i, j \in D : i # j => before(i, j) \/ before(j, i)
      /\ \A i, j, k \in D : before(i, j) /\ before(j, k) => before(i, k)
      /\ \A i, j \in D : before(i, j) => key[s[i]] <= key[s[j]]
  <2> HIDE DEF N
  <2> QED
    BY <1>1
<1> HIDE DEF before, R
<1>6. /\ \A i \in D : <<i, i>> \notin R
      /\ \A i, j \in D : i # j => <<i, j>> \in R \/ <<j, i>> \in R
      /\ \A i, j, k \in D : <<i, j>> \in R /\ <<j, k>> \in R => <<i, k>> \in R
  BY <1>3, <1>5
<1>7. /\ \A i \in D : behind(i) \in Nat /\ behind(i) + 1 \in D
      /\ \A i, j \in D : <<i, j>> \in R <=> behind(i) < behind(j)
      /\ \A k \in D : \E i \in D : behind(i) = k - 1
  <2> HIDE DEF N
  <2> QED
    BY <1>1, <1>6, StandingPermutes
<1> HIDE DEF behind
<1>8. /\ \A i \in D : ahead(i) \in Nat /\ ahead(i) + 1 \in D
      /\ \A i, j \in D : before(i, j) <=> ahead(i) < ahead(j)
      /\ \A k \in D : \E i \in D : ahead(i) = k - 1
  <2> HIDE DEF D, ahead
  <2> QED
    BY <1>3, <1>4, <1>7
<1> HIDE DEF ahead
<1>9. \A k \in D : at[k] \in D /\ ahead(at[k]) = k - 1 /\ t[k] = s[at[k]]
  BY <1>2, <1>8
<1>10. t \in [D -> X]
  BY <1>1, <1>2, <1>8
<1>11. t \in Seq(X) /\ Len(t) = N /\ DOMAIN t = D
  BY <1>1, <1>10
<1> HIDE DEF t, at
<1>12. \A i \in D : \E k \in D : at[k] = i
  <2> SUFFICES ASSUME NEW i \in D
               PROVE  \E k \in D : at[k] = i
    OBVIOUS
  <2>1. ahead(i) \in Nat /\ ahead(i) + 1 \in D
    BY <1>8
  <2>2. PICK k \in D : k = ahead(i) + 1
    BY <2>1
  <2>3. at[k] \in D /\ ahead(at[k]) = ahead(i)
    BY <1>9, <2>1, <2>2
  <2>4. ~before(i, at[k]) /\ ~before(at[k], i)
    <3>1. ~(ahead(i) < ahead(at[k])) /\ ~(ahead(at[k]) < ahead(i))
      BY <2>1, <2>3
    <3> HIDE DEF D
    <3> QED
      BY <1>8, <2>3, <3>1
  <2> QED
    BY <1>5, <2>3, <2>4
<1>13. ToSet(t) = ToSet(s)
  <2>1. \A x \in ToSet(t) : x \in ToSet(s)
    BY <1>1, <1>9, <1>11 DEF ToSet
  <2>2. ASSUME NEW i \in D
        PROVE  s[i] \in ToSet(t)
    <3>1. PICK k \in D : at[k] = i
      BY <1>12
    <3>2. k \in DOMAIN t /\ t[k] = s[i]
      BY <1>9, <1>11, <3>1
    <3> QED
      BY <3>2 DEF ToSet
  <2>3. \A x \in ToSet(s) : x \in ToSet(t)
    BY <1>1, <2>2 DEF ToSet
  <2> QED
    BY <2>1, <2>3
<1>14. ASSUME IsInjective(s)
       PROVE  IsInjective(t)
  <2> SUFFICES ASSUME NEW i \in D, NEW j \in D, t[i] = t[j]
               PROVE  i = j
    BY <1>11 DEF IsInjective
  <2>1. at[i] = at[j]
    BY <1>1, <1>9, <1>14 DEF IsInjective
  <2>2. i - 1 = j - 1 /\ i \in Nat /\ j \in Nat
    BY <1>9, <2>1
  <2> QED
    BY <2>2
<1>15. ASSUME NEW i \in D, NEW j \in D, i < j
       PROVE  key[t[i]] <= key[t[j]]
  <2>1. at[i] \in D /\ at[j] \in D /\ ahead(at[i]) = i - 1 /\ ahead(at[j]) = j - 1
    BY <1>9
  <2>2. i - 1 < j - 1
    BY <1>15
  <2>3. before(at[i], at[j])
    BY <1>8, <2>1, <2>2
  <2> QED
    BY <1>5, <1>9, <2>1, <2>3
<1> QED
  BY <1>11, <1>13, <1>14, <1>15 DEF t

-----------------------------------------------------------------------------
(* Books.  Whatever is observed, a book keeps its shape and its round, and *)
(* its table only grows, by records of what was observed.                  *)

LiveRows == [type : {"evidence", "late"}, round : 1..MaxRounds, draft : Drafts]
FrozenRows == [type : {"frozen"}, round : 1..MaxRounds, through : Nat, digest : Seq(Drafts),
               dropped : [Agents -> Nat], capture : [Agents -> Captures], streamGaps : Nat]
Rows == LiveRows \cup FrozenRows
Shapes ==
    [round : 0..MaxRounds, frozen : BOOLEAN, streamGaps : Nat, runDropped : Nat,
     total : Nat, kept : [Agents -> Nat], dropped : [Agents -> Nat], open : Seq(Agents),
     settled : SUBSET Agents, pending : Seq(Agents)]
Counted(c) == \A a \in Agents : c.kept[a] <= c.total
Collectors == {c \in Shapes : Counted(c) /\ IsInjective(c.open) /\ IsInjective(c.pending)}
Books == {b \in [coll : Collectors, rows : Seq(Rows)] : b.coll.round # 0}

Lengthens(s, t, r) ==
    /\ Len(s) <= Len(t)
    /\ \A i \in 1..Len(s) : t[i] = s[i]
    /\ \A i \in 1..Len(t) : i > Len(s) => t[i] \in LiveRows /\ t[i].round = r
Grows(b, c) ==
    c \in Books /\ c.coll.round = b.coll.round /\ Lengthens(b.rows, c.rows, b.coll.round)

LEMMA LengthensTransitively ==
    ASSUME NEW s \in Seq(Rows), NEW t \in Seq(Rows), NEW u \in Seq(Rows),
           NEW r, Lengthens(s, t, r), Lengthens(t, u, r)
    PROVE  Lengthens(s, u, r)
<1>1. Len(s) \in Nat /\ Len(t) \in Nat /\ Len(u) \in Nat
  OBVIOUS
<1>2. Len(s) <= Len(t) /\ Len(t) <= Len(u)
  BY DEF Lengthens
<1>3. \A i \in 1..Len(s) : i \in 1..Len(t)
  BY <1>1, <1>2
<1>4. ASSUME NEW i \in 1..Len(u), i > Len(s)
      PROVE  u[i] \in LiveRows /\ u[i].round = r
  <2>1. CASE i <= Len(t)
    <3>1. i \in 1..Len(t)
      BY <1>1, <2>1
    <3> QED
      BY <1>4, <3>1 DEF Lengthens
  <2>2. CASE ~(i <= Len(t))
    <3>1. i > Len(t)
      BY <1>1, <2>2
    <3> QED
      BY <3>1 DEF Lengthens
  <2> QED
    BY <2>1, <2>2
<1> QED
  BY <1>1, <1>2, <1>3, <1>4 DEF Lengthens

LEMMA GrowsTransitively ==
    ASSUME NEW b \in Books, NEW c, NEW d, Grows(b, c), Grows(c, d)
    PROVE  Grows(b, d)
<1>1. b.rows \in Seq(Rows) /\ c.rows \in Seq(Rows) /\ d.rows \in Seq(Rows)
  BY DEF Grows, Books
<1> QED
  BY <1>1, LengthensTransitively DEF Grows

LEMMA LengthensItself ==
    ASSUME NEW s \in Seq(Rows), NEW r
    PROVE  Lengthens(s, s, r)
<1>1. Len(s) \in Nat /\ \A i \in 1..Len(s) : ~(i > Len(s))
  OBVIOUS
<1> QED
  BY <1>1 DEF Lengthens

LEMMA LengthensByOne ==
    ASSUME NEW s \in Seq(Rows), NEW row \in LiveRows
    PROVE  Append(s, row) \in Seq(Rows) /\ Lengthens(s, Append(s, row), row.round)
<1>1. row \in Rows
  BY DEF Rows
<1>2. /\ Append(s, row) \in Seq(Rows) /\ Len(Append(s, row)) = Len(s) + 1
      /\ Append(s, row)[Len(s) + 1] = row
      /\ \A i \in 1..Len(s) : Append(s, row)[i] = s[i]
      /\ Len(s) \in Nat
  BY <1>1
<1>3. \A i \in 1..(Len(s) + 1) : i > Len(s) => i = Len(s) + 1
  BY <1>2
<1> QED
  BY <1>2, <1>3 DEF Lengthens

\* A book whose collector alone has changed, within its shape.
LEMMA CollectorChanges ==
    ASSUME NEW b \in Books, NEW c \in Collectors, c.round = b.coll.round
    PROVE  Grows(b, [coll |-> c, rows |-> b.rows])
<1>1. b.rows \in Seq(Rows) /\ b.coll.round # 0
  BY DEF Books
<1> QED
  BY <1>1, LengthensItself DEF Grows, Books

\* One field of a collector gets another value.
LEMMA ShapesKept ==
    ASSUME NEW c \in Shapes
    PROVE  /\ \A n \in Nat :
                /\ [c EXCEPT !.runDropped = n] \in Shapes
                /\ [c EXCEPT !.streamGaps = n] \in Shapes
                /\ [c EXCEPT !.total = n] \in Shapes
           /\ \A f \in [Agents -> Nat] :
                [c EXCEPT !.kept = f] \in Shapes /\ [c EXCEPT !.dropped = f] \in Shapes
           /\ \A q \in Seq(Agents) :
                [c EXCEPT !.open = q] \in Shapes /\ [c EXCEPT !.pending = q] \in Shapes
           /\ \A S \in SUBSET Agents : [c EXCEPT !.settled = S] \in Shapes
           /\ [c EXCEPT !.frozen = TRUE] \in Shapes
           /\ c.runDropped \in Nat /\ c.streamGaps \in Nat /\ c.total \in Nat
           /\ c.kept \in [Agents -> Nat] /\ c.dropped \in [Agents -> Nat]
           /\ c.open \in Seq(Agents) /\ c.pending \in Seq(Agents) /\ c.settled \in SUBSET Agents
           /\ c.round \in 0..MaxRounds /\ c.frozen \in BOOLEAN
<1>1. \A n \in Nat : /\ [c EXCEPT !.runDropped = n] \in Shapes
                     /\ [c EXCEPT !.streamGaps = n] \in Shapes
                     /\ [c EXCEPT !.total = n] \in Shapes
  BY DEF Shapes
<1>2. \A f \in [Agents -> Nat] :
        [c EXCEPT !.kept = f] \in Shapes /\ [c EXCEPT !.dropped = f] \in Shapes
  BY DEF Shapes
<1>3. \A q \in Seq(Agents) :
        [c EXCEPT !.open = q] \in Shapes /\ [c EXCEPT !.pending = q] \in Shapes
  BY DEF Shapes
<1>4. \A S \in SUBSET Agents : [c EXCEPT !.settled = S] \in Shapes
  BY DEF Shapes
<1>5. [c EXCEPT !.frozen = TRUE] \in Shapes
  BY DEF Shapes
<1>6. /\ c.runDropped \in Nat /\ c.streamGaps \in Nat /\ c.total \in Nat
      /\ c.kept \in [Agents -> Nat] /\ c.dropped \in [Agents -> Nat]
      /\ c.open \in Seq(Agents) /\ c.pending \in Seq(Agents) /\ c.settled \in SUBSET Agents
      /\ c.round \in 0..MaxRounds /\ c.frozen \in BOOLEAN
  BY DEF Shapes
<1> QED
  BY <1>1, <1>2, <1>3, <1>4, <1>5, <1>6

LEMMA RefuseGrows ==
    ASSUME NEW b \in Books, NEW agent \in Owners
    PROVE  Grows(b, Refuse(b, agent))
<1> DEFINE c == b.coll
<1>1. c \in Collectors /\ b.rows \in Seq(Rows) /\ b = [coll |-> c, rows |-> b.rows]
  BY DEF Books
<1>2. CASE agent = Run
  <2>1. Refuse(b, agent) = [coll |-> [c EXCEPT !.runDropped = @ + 1], rows |-> b.rows]
    BY <1>1, <1>2 DEF Refuse
  <2> DEFINE e == [c EXCEPT !.runDropped = @ + 1]
  <2>0. c \in Shapes /\ c.runDropped + 1 \in Nat
    <3>1. c \in Shapes
      BY <1>1 DEF Collectors
    <3>2. c.runDropped \in Nat
      BY <3>1 DEF Shapes
    <3> QED
      BY <3>1, <3>2
  <2>2. /\ e \in Shapes /\ e.round = c.round
        /\ e.kept = c.kept /\ e.total = c.total /\ e.open = c.open /\ e.pending = c.pending
    <3>1. e \in Shapes
      BY <2>0, ShapesKept
    <3> QED
      BY <2>0, <3>1 DEF Shapes
  <2> HIDE DEF e
  <2>3. e \in Collectors
    BY <1>1, <2>2 DEF Collectors, Counted
  <2> QED
    BY <2>1, <2>2, <2>3, CollectorChanges DEF e
<1>3. CASE agent # Run
  <2>1. Refuse(b, agent) = [coll |-> [c EXCEPT !.dropped[agent] = @ + 1], rows |-> b.rows]
    BY <1>1, <1>3 DEF Refuse
  <2>2. agent \in Agents
    BY <1>3 DEF Owners
  <2> DEFINE e == [c EXCEPT !.dropped[agent] = @ + 1]
  <2>0. c \in Shapes /\ [c.dropped EXCEPT ![agent] = c.dropped[agent] + 1] \in [Agents -> Nat]
    <3>1. c \in Shapes
      BY <1>1 DEF Collectors
    <3>2. c.dropped \in [Agents -> Nat]
      BY <3>1 DEF Shapes
    <3>3. c.dropped[agent] + 1 \in Nat
      BY <2>2, <3>2
    <3> QED
      BY <3>1, <3>2, <3>3
  <2>3. /\ e \in Shapes /\ e.round = c.round
        /\ e.kept = c.kept /\ e.total = c.total /\ e.open = c.open /\ e.pending = c.pending
    <3>1. e \in Shapes
      BY <2>0, ShapesKept
    <3> QED
      BY <2>0, <3>1 DEF Shapes
  <2> HIDE DEF e
  <2>4. e \in Collectors
    BY <1>1, <2>3 DEF Collectors, Counted
  <2> QED
    BY <2>1, <2>3, <2>4, CollectorChanges DEF e
<1> QED
  BY <1>2, <1>3

LEMMA WriteGrows ==
    ASSUME NEW b \in Books, NEW d \in Drafts
    PROVE  Grows(b, Write(b, d))
<1> DEFINE row == [type |-> IF b.coll.frozen THEN "late" ELSE "evidence",
                   round |-> b.coll.round, draft |-> d]
           one == [b.coll EXCEPT !.total = @ + 1]
           own == IF d.agent = Run THEN one ELSE [one EXCEPT !.kept[d.agent] = @ + 1]
<1>1. b.coll \in Collectors /\ b.rows \in Seq(Rows) /\ b.coll.round # 0
  BY DEF Books
<1>2. Write(b, d) = [coll |-> own, rows |-> Append(b.rows, row)]
  BY <1>1 DEF Write, Collectors, Shapes
<1>3. d.agent \in Owners
  BY DEF Drafts
<1>4. own \in Collectors /\ own.round = b.coll.round
  <2>1. /\ b.coll \in Shapes /\ b.coll.total \in Nat
        /\ \A a \in Agents : b.coll.kept[a] \in Nat /\ b.coll.kept[a] <= b.coll.total
    BY <1>1, ShapesKept DEF Collectors, Counted
  <2>2. /\ one \in Shapes /\ one.round = b.coll.round /\ one.kept = b.coll.kept
        /\ one.total = b.coll.total + 1 /\ one.open = b.coll.open
        /\ one.pending = b.coll.pending
    <3>1. b.coll.total + 1 \in Nat
      BY <2>1
    <3>2. one \in Shapes
      BY <2>1, <3>1, ShapesKept
    <3> QED
      BY <2>1, <3>2 DEF Shapes
  <2> HIDE DEF one
  <2>3. /\ own \in Shapes /\ own.round = one.round /\ own.total = one.total
        /\ own.open = one.open /\ own.pending = one.pending
        /\ \A a \in Agents : own.kept[a] = one.kept[a] \/ own.kept[a] = one.kept[a] + 1
    <3>1. CASE d.agent = Run
      BY <2>2, <3>1
    <3>2. CASE d.agent # Run
      <4> DEFINE f == [one.kept EXCEPT ![d.agent] = one.kept[d.agent] + 1]
      <4>1. d.agent \in Agents /\ one.kept \in [Agents -> Nat]
        BY <1>3, <2>2, <3>2, ShapesKept DEF Owners
      <4>2. f \in [Agents -> Nat] /\ \A a \in Agents : f[a] = one.kept[a] \/ f[a] = one.kept[a] + 1
        BY <4>1
      <4>3. own = [one EXCEPT !.kept = f]
        BY <2>2, <3>2
      <4> HIDE DEF f, own
      <4>4. own \in Shapes
        BY <2>2, <4>2, <4>3, ShapesKept
      <4> QED
        BY <2>2, <4>2, <4>3, <4>4 DEF Shapes
    <3> QED
      BY <3>1, <3>2
  <2> HIDE DEF own
  <2>4. \A a \in Agents : own.kept[a] <= own.total
    BY <2>1, <2>2, <2>3
  <2> QED
    BY <1>1, <2>2, <2>3, <2>4 DEF Collectors, Counted
<1>5. row \in LiveRows /\ row.round = b.coll.round
  BY <1>1 DEF LiveRows, Collectors, Shapes
<1> HIDE DEF row, own
<1>6. Append(b.rows, row) \in Seq(Rows) /\ Lengthens(b.rows, Append(b.rows, row), row.round)
  BY <1>1, <1>5, LengthensByOne
<1> QED
  BY <1>1, <1>2, <1>4, <1>5, <1>6 DEF Grows, Books

LEMMA PersistGrows ==
    ASSUME NEW b \in Books, NEW d \in Drafts, NEW lost
    PROVE  Grows(b, Persist(b, d, lost)) /\ Grows(b, PersistUncapped(b, d, lost))
<1>1. d.agent \in Owners
  BY DEF Drafts
<1> QED
  BY <1>1, RefuseGrows, WriteGrows DEF Persist, PersistUncapped

-----------------------------------------------------------------------------
(* The two recursions of freeze: what is still open, and the coverage. *)

AllPersisted(after, b, drafts, lost) ==
    /\ after \in [0..Len(drafts) -> Books] /\ after[0] = b
    /\ \A n \in 1..Len(drafts) : after[n] = Persist(after[n - 1], drafts[n], lost)
    /\ PersistAll(b, drafts, lost) = after[Len(drafts)]

LEMMA PersistAllUnfolded ==
    ASSUME NEW b \in Books, NEW drafts \in Seq(Drafts), NEW lost
    PROVE  \E after : AllPersisted(after, b, drafts, lost)
<1> DEFINE N == Len(drafts)
           Is(f) == f = [n \in 0..N |-> IF n = 0 THEN b ELSE Persist(f[n - 1], drafts[n], lost)]
           after == CHOOSE f : Is(f)
           step == [p \in Nat \X Books |->
                      IF p[1] \in 1..N THEN Persist(p[2], drafts[p[1]], lost) ELSE p[2]]
<1>1. N \in Nat /\ \A n \in 1..N : drafts[n] \in Drafts
  OBVIOUS
<1>2. PersistAll(b, drafts, lost) = after[N]
  BY DEF PersistAll
<1> HIDE DEF N
<1>3. \A c \in Books : \A n \in 1..N : Persist(c, drafts[n], lost) \in Books
  BY <1>1, PersistGrows DEF Grows
<1>4. step \in [Nat \X Books -> Books]
  BY <1>3
<1>5. PICK f : Takes(f, Books, b, step, N)
  <2> HIDE DEF step
  <2> QED
    BY <1>1, <1>4, Recursion
<1>6. f \in [0..N -> Books] /\ f[0] = b /\ \A n \in 1..N : f[n] = step[<<n, f[n - 1]>>]
  BY <1>5 DEF Takes
<1>7. \A n \in 1..N : f[n] = Persist(f[n - 1], drafts[n], lost)
  <2> SUFFICES ASSUME NEW n \in 1..N
               PROVE  f[n] = Persist(f[n - 1], drafts[n], lost)
    OBVIOUS
  <2>1. n - 1 \in 0..N /\ n \in Nat /\ f[n - 1] \in Books
    BY <1>1, <1>6
  <2>2. <<n, f[n - 1]>> \in Nat \X Books
    BY <2>1
  <2>3. step[<<n, f[n - 1]>>] = Persist(f[n - 1], drafts[n], lost)
    BY <2>2
  <2> QED
    BY <1>6, <2>3
<1>8. Is(f)
  <2> DEFINE B == [n \in 0..N |-> IF n = 0 THEN b ELSE Persist(f[n - 1], drafts[n], lost)]
  <2>1. ASSUME NEW n \in 0..N
        PROVE  f[n] = B[n]
    <3>1. CASE n = 0
      BY <1>6, <3>1
    <3>2. CASE n # 0
      <4>1. n \in 1..N
        BY <1>1, <3>2
      <4> QED
        BY <1>7, <3>2, <4>1
    <3> QED
      BY <3>1, <3>2
  <2>2. f = B
    BY <1>6, <2>1
  <2> QED
    BY <2>2
<1>9. Is(after)
  BY <1>8
<1> HIDE DEF after
<1>10. /\ after = [n \in 0..N |-> after[n]] /\ after[0] = b
       /\ \A n \in 1..N : after[n] = Persist(after[n - 1], drafts[n], lost)
  <2> DEFINE B == [n \in 0..N |-> IF n = 0 THEN b ELSE Persist(after[n - 1], drafts[n], lost)]
  <2>1. after = B
    BY <1>9
  <2>2. \A n \in 0..N : after[n] = B[n]
    BY <2>1
  <2>3. after = [n \in 0..N |-> after[n]]
    BY <2>1
  <2>4. 0 \in 0..N /\ \A n \in 1..N : n \in 0..N /\ n # 0
    BY <1>1
  <2> QED
    BY <2>2, <2>3, <2>4
<1> DEFINE Good == {n \in Nat : n <= N => after[n] \in Books}
<1>11. 0 \in Good
  BY <1>10
<1>12. ASSUME NEW n \in Nat, n \in Good
       PROVE  n + 1 \in Good
  <2> SUFFICES ASSUME n + 1 <= N
               PROVE  after[n + 1] \in Books
    OBVIOUS
  <2>1. n + 1 \in 1..N /\ (n + 1) - 1 = n /\ n <= N
    BY <1>1
  <2>2. after[n] \in Books /\ after[n + 1] = Persist(after[n], drafts[n + 1], lost)
    BY <1>10, <1>12, <2>1
  <2> QED
    BY <1>3, <2>1, <2>2
<1>13. \A n \in 0..N : after[n] \in Books
  <2> HIDE DEF Good
  <2>1. \A n \in Nat : n \in Good
    BY <1>11, <1>12, SetInduction
  <2> QED
    BY <1>1, <2>1 DEF Good
<1>14. after \in [0..N -> Books]
  BY <1>10, <1>13
<1> QED
  BY <1>2, <1>10, <1>14 DEF AllPersisted, N

LEMMA PersistAllGrows ==
    ASSUME NEW b \in Books, NEW drafts \in Seq(Drafts), NEW lost
    PROVE  Grows(b, PersistAll(b, drafts, lost))
<1> DEFINE N == Len(drafts)
<1>1. N \in Nat /\ \A n \in 1..N : drafts[n] \in Drafts
  OBVIOUS
<1>2. PICK after : AllPersisted(after, b, drafts, lost)
  BY PersistAllUnfolded
<1>3. /\ after \in [0..N -> Books] /\ after[0] = b
      /\ \A n \in 1..N : after[n] = Persist(after[n - 1], drafts[n], lost)
      /\ PersistAll(b, drafts, lost) = after[N]
  BY <1>2 DEF AllPersisted
<1> HIDE DEF N
<1> DEFINE Good == {n \in Nat : n <= N => Grows(b, after[n])}
<1>4. 0 \in Good
  <2>1. Lengthens(b.rows, b.rows, b.coll.round)
    BY LengthensItself DEF Books
  <2> QED
    BY <1>3, <2>1 DEF Grows
<1>5. ASSUME NEW n \in Nat, n \in Good
      PROVE  n + 1 \in Good
  <2> SUFFICES ASSUME n + 1 <= N
               PROVE  Grows(b, after[n + 1])
    OBVIOUS
  <2>1. n + 1 \in 1..N /\ (n + 1) - 1 = n /\ n <= N /\ n \in 0..N
    BY <1>1
  <2>2. Grows(b, after[n]) /\ after[n] \in Books
    BY <1>3, <1>5, <2>1
  <2>3. Grows(after[n], after[n + 1])
    BY <1>1, <1>3, <2>1, <2>2, PersistGrows
  <2> QED
    BY <2>2, <2>3, GrowsTransitively
<1> HIDE DEF Good
<1>6. \A n \in Nat : n \in Good
  BY <1>4, <1>5, SetInduction
<1> QED
  BY <1>1, <1>3, <1>6 DEF Good

LEMMA CoverAgentGrows ==
    ASSUME NEW b \in Books, NEW a \in Agents, NEW capture, NEW lost
    PROVE  Grows(b, CoverAgent(b, a, capture, lost))
<1> DEFINE d == Draft(a, "integrity", Integrity(capture[a]))
           e == Draft(a, "gap", "unknown")
           c == PersistUncapped(b, d, lost)
<1>1. d \in Drafts /\ e \in Drafts
  BY DEF Draft, Drafts, Integrity, Owners, Whats, Outcomes
<1> HIDE DEF d, e
<1>2. Grows(b, c)
  BY <1>1, PersistGrows
<1>3. c \in Books
  BY <1>2 DEF Grows
<1>4. CoverAgent(b, a, capture, lost) = IF c.coll.dropped[a] = 0 THEN c
                                        ELSE PersistUncapped(c, e, lost)
  BY DEF CoverAgent, d, e
<1> HIDE DEF c
<1>5. Grows(c, PersistUncapped(c, e, lost))
  BY <1>1, <1>3, PersistGrows
<1> QED
  BY <1>2, <1>4, <1>5, GrowsTransitively

AllCovered(upTo, b, capture, lost) ==
    /\ upTo \in [0..Cardinality(Agents) -> Books] /\ upTo[0] = b
    /\ \A a \in 1..Cardinality(Agents) : upTo[a] = CoverAgent(upTo[a - 1], a, capture, lost)
    /\ CoveredAgents(b, capture, lost) = upTo[Cardinality(Agents)]

LEMMA AddCoverageUnfolded ==
    ASSUME NEW b \in Books, NEW capture, NEW lost
    PROVE  \E upTo : AllCovered(upTo, b, capture, lost)
<1> DEFINE N == Cardinality(Agents)
           Is(f) == f = [n \in 0..N |-> IF n = 0 THEN b ELSE CoverAgent(f[n - 1], n, capture, lost)]
           upTo == CHOOSE f : Is(f)
           step == [p \in Nat \X Books |->
                      IF p[1] \in 1..N THEN CoverAgent(p[2], p[1], capture, lost) ELSE p[2]]
<1>1. N \in Nat /\ \A n \in 1..N : n \in Agents
  BY AgentsAssumption, FS_CardinalityType
<1>2. CoveredAgents(b, capture, lost) = upTo[N]
  BY DEF CoveredAgents
<1> HIDE DEF N
<1>3. \A c \in Books : \A n \in 1..N : CoverAgent(c, n, capture, lost) \in Books
  BY <1>1, CoverAgentGrows DEF Grows
<1>4. step \in [Nat \X Books -> Books]
  BY <1>3
<1>5. PICK f : Takes(f, Books, b, step, N)
  <2> HIDE DEF step
  <2> QED
    BY <1>1, <1>4, Recursion
<1>6. f \in [0..N -> Books] /\ f[0] = b /\ \A n \in 1..N : f[n] = step[<<n, f[n - 1]>>]
  BY <1>5 DEF Takes
<1>7. \A n \in 1..N : f[n] = CoverAgent(f[n - 1], n, capture, lost)
  <2> SUFFICES ASSUME NEW n \in 1..N
               PROVE  f[n] = CoverAgent(f[n - 1], n, capture, lost)
    OBVIOUS
  <2>1. n - 1 \in 0..N /\ n \in Nat /\ f[n - 1] \in Books
    BY <1>1, <1>6
  <2>2. <<n, f[n - 1]>> \in Nat \X Books
    BY <2>1
  <2>3. step[<<n, f[n - 1]>>] = CoverAgent(f[n - 1], n, capture, lost)
    BY <2>2
  <2> QED
    BY <1>6, <2>3
<1>8. Is(f)
  <2> DEFINE B == [n \in 0..N |-> IF n = 0 THEN b ELSE CoverAgent(f[n - 1], n, capture, lost)]
  <2>1. ASSUME NEW n \in 0..N
        PROVE  f[n] = B[n]
    <3>1. CASE n = 0
      BY <1>6, <3>1
    <3>2. CASE n # 0
      <4>1. n \in 1..N
        BY <1>1, <3>2
      <4> QED
        BY <1>7, <3>2, <4>1
    <3> QED
      BY <3>1, <3>2
  <2>2. f = B
    BY <1>6, <2>1
  <2> QED
    BY <2>2
<1>9. Is(upTo)
  BY <1>8
<1> HIDE DEF upTo
<1>10. /\ upTo = [n \in 0..N |-> upTo[n]] /\ upTo[0] = b
       /\ \A n \in 1..N : upTo[n] = CoverAgent(upTo[n - 1], n, capture, lost)
  <2> DEFINE B == [n \in 0..N |-> IF n = 0 THEN b ELSE CoverAgent(upTo[n - 1], n, capture, lost)]
  <2>1. upTo = B
    BY <1>9
  <2>2. \A n \in 0..N : upTo[n] = B[n]
    BY <2>1
  <2>3. upTo = [n \in 0..N |-> upTo[n]]
    BY <2>1
  <2>4. 0 \in 0..N /\ \A n \in 1..N : n \in 0..N /\ n # 0
    BY <1>1
  <2> QED
    BY <2>2, <2>3, <2>4
<1> DEFINE Good == {n \in Nat : n <= N => upTo[n] \in Books}
<1>11. 0 \in Good
  BY <1>10
<1>12. ASSUME NEW n \in Nat, n \in Good
       PROVE  n + 1 \in Good
  <2> SUFFICES ASSUME n + 1 <= N
               PROVE  upTo[n + 1] \in Books
    OBVIOUS
  <2>1. n + 1 \in 1..N /\ (n + 1) - 1 = n /\ n <= N
    BY <1>1
  <2>2. upTo[n] \in Books /\ upTo[n + 1] = CoverAgent(upTo[n], n + 1, capture, lost)
    BY <1>10, <1>12, <2>1
  <2> QED
    BY <1>3, <2>1, <2>2
<1>13. \A n \in 0..N : upTo[n] \in Books
  <2> HIDE DEF Good
  <2>1. \A n \in Nat : n \in Good
    BY <1>11, <1>12, SetInduction
  <2> QED
    BY <1>1, <2>1 DEF Good
<1>14. upTo \in [0..N -> Books]
  BY <1>10, <1>13
<1> QED
  BY <1>2, <1>10, <1>14 DEF AllCovered, N

LEMMA CoveredAgentsGrows ==
    ASSUME NEW b \in Books, NEW capture, NEW lost
    PROVE  Grows(b, CoveredAgents(b, capture, lost))
<1> DEFINE N == Cardinality(Agents)
<1>1. N \in Nat /\ \A n \in 1..N : n \in Agents
  BY AgentsAssumption, FS_CardinalityType
<1>2. PICK upTo : AllCovered(upTo, b, capture, lost)
  BY AddCoverageUnfolded
<1>3. /\ upTo \in [0..N -> Books] /\ upTo[0] = b
      /\ \A n \in 1..N : upTo[n] = CoverAgent(upTo[n - 1], n, capture, lost)
      /\ CoveredAgents(b, capture, lost) = upTo[N]
  BY <1>2 DEF AllCovered
<1> HIDE DEF N
<1> DEFINE Good == {n \in Nat : n <= N => Grows(b, upTo[n])}
<1>4. 0 \in Good
  <2>1. Lengthens(b.rows, b.rows, b.coll.round)
    BY LengthensItself DEF Books
  <2> QED
    BY <1>3, <2>1 DEF Grows
<1>5. ASSUME NEW n \in Nat, n \in Good
      PROVE  n + 1 \in Good
  <2> SUFFICES ASSUME n + 1 <= N
               PROVE  Grows(b, upTo[n + 1])
    OBVIOUS
  <2>1. n + 1 \in 1..N /\ (n + 1) - 1 = n /\ n <= N /\ n \in 0..N
    BY <1>1
  <2>2. Grows(b, upTo[n]) /\ upTo[n] \in Books
    BY <1>3, <1>5, <2>1
  <2>3. Grows(upTo[n], upTo[n + 1])
    BY <1>1, <1>3, <2>1, <2>2, CoverAgentGrows
  <2> QED
    BY <2>2, <2>3, GrowsTransitively
<1> HIDE DEF Good
<1>6. \A n \in Nat : n \in Good
  BY <1>4, <1>5, SetInduction
<1> QED
  BY <1>1, <1>3, <1>6 DEF Good

LEMMA AddCoverageGrows ==
    ASSUME NEW b \in Books, NEW capture, NEW lost
    PROVE  Grows(b, AddCoverage(b, capture, lost))
<1> DEFINE agents == CoveredAgents(b, capture, lost)
           d == Draft(Run, "gap", "unknown")
<1>1. Grows(b, agents) /\ agents \in Books
  BY CoveredAgentsGrows DEF Grows
<1>2. AddCoverage(b, capture, lost) = IF agents.coll.runDropped = 0 THEN agents
                                      ELSE PersistUncapped(agents, d, lost)
  BY DEF AddCoverage
<1>3. d \in Drafts
  BY DEF Draft, Drafts, Owners, Whats, Outcomes
<1> HIDE DEF agents, d
<1>4. Grows(agents, PersistUncapped(agents, d, lost))
  BY <1>1, <1>3, PersistGrows
<1> QED
  BY <1>1, <1>2, <1>4, GrowsTransitively

-----------------------------------------------------------------------------
(* What one event does to a book. *)

LEMMA ClosedFacts ==
    ASSUME NEW q \in Seq(Agents), NEW a, IsInjective(q)
    PROVE  Closed(q, a) \in Seq(Agents) /\ IsInjective(Closed(q, a))
BY AmongFacts DEF Closed

\* The lists of open calls and of pending requests change as they may.
LEMMA OpenChanges ==
    ASSUME NEW b \in Books, NEW q \in Seq(Agents), IsInjective(q), NEW S \in SUBSET Agents
    PROVE  /\ Grows(b, [b EXCEPT !.coll.open = q])
           /\ Grows(b, [b EXCEPT !.coll.pending = q])
           /\ Grows(b, [b EXCEPT !.coll.open = q, !.coll.settled = S])
<1> DEFINE c == b.coll
<1>1. c \in Shapes /\ c \in Collectors /\ b = [coll |-> c, rows |-> b.rows]
  BY DEF Books, Collectors
<1>2. Counted(c) /\ IsInjective(c.open) /\ IsInjective(c.pending)
  BY <1>1 DEF Collectors
<1>3. Grows(b, [b EXCEPT !.coll.open = q])
  <2> DEFINE e == [c EXCEPT !.open = q]
  <2>1. e \in Shapes
    BY <1>1, ShapesKept
  <2>2. /\ e.round = c.round /\ e.kept = c.kept /\ e.total = c.total /\ e.open = q
        /\ e.pending = c.pending
    BY <1>1 DEF Shapes
  <2>3. [b EXCEPT !.coll.open = q] = [coll |-> e, rows |-> b.rows]
    BY <1>1
  <2> HIDE DEF e
  <2>4. e \in Collectors
    BY <1>2, <2>1, <2>2 DEF Collectors, Counted
  <2> QED
    BY <2>2, <2>3, <2>4, CollectorChanges
<1>4. Grows(b, [b EXCEPT !.coll.pending = q])
  <2> DEFINE e == [c EXCEPT !.pending = q]
  <2>1. e \in Shapes
    BY <1>1, ShapesKept
  <2>2. /\ e.round = c.round /\ e.kept = c.kept /\ e.total = c.total /\ e.open = c.open
        /\ e.pending = q
    BY <1>1 DEF Shapes
  <2>3. [b EXCEPT !.coll.pending = q] = [coll |-> e, rows |-> b.rows]
    BY <1>1
  <2> HIDE DEF e
  <2>4. e \in Collectors
    BY <1>2, <2>1, <2>2 DEF Collectors, Counted
  <2> QED
    BY <2>2, <2>3, <2>4, CollectorChanges
<1>5. Grows(b, [b EXCEPT !.coll.open = q, !.coll.settled = S])
  <2> DEFINE e == [c EXCEPT !.open = q]
             f == [e EXCEPT !.settled = S]
  <2>1. e \in Shapes
    BY <1>1, ShapesKept
  <2>2. /\ e.round = c.round /\ e.kept = c.kept /\ e.total = c.total /\ e.open = q
        /\ e.pending = c.pending
    BY <1>1 DEF Shapes
  <2>3. [b EXCEPT !.coll.open = q, !.coll.settled = S] = [coll |-> f, rows |-> b.rows]
    <3> DEFINE y == [b EXCEPT !.coll.open = q]
    <3>1. y = [coll |-> e, rows |-> b.rows]
      BY <1>1
    <3>2. [b EXCEPT !.coll.open = q, !.coll.settled = S] = [y EXCEPT !.coll.settled = S]
      BY DEF Books
    <3> HIDE DEF y, e
    <3> QED
      BY <3>1, <3>2
  <2> HIDE DEF e
  <2>4. f \in Shapes
    BY <2>1, ShapesKept
  <2>5. /\ f.round = e.round /\ f.kept = e.kept /\ f.total = e.total /\ f.open = e.open
        /\ f.pending = e.pending
    BY <2>1 DEF Shapes
  <2> HIDE DEF f
  <2>6. f \in Collectors
    BY <1>2, <2>2, <2>4, <2>5 DEF Collectors, Counted
  <2> QED
    BY <2>2, <2>3, <2>5, <2>6, CollectorChanges
<1> QED
  BY <1>3, <1>4, <1>5

LEMMA ToolEventGrows ==
    ASSUME NEW b \in Books, NEW a \in Agents, NEW st, NEW lost
    PROVE  Grows(b, ToolEvent(b, a, st, lost))
<1> DEFINE c == b.coll
           d == Draft(a, "tool", IF st = "completed" THEN "completed" ELSE "failed")
           x == [b EXCEPT !.coll.open = Closed(@, a), !.coll.settled = @ \cup {a}]
<1>1. c \in Shapes /\ IsInjective(c.open)
  BY DEF Books, Collectors
<1>2. c.open \in Seq(Agents) /\ c.settled \in SUBSET Agents
  BY <1>1 DEF Shapes
<1>3. d \in Drafts
  BY DEF Draft, Drafts, Owners, Whats, Outcomes
<1>4. Grows(b, b)
  BY LengthensItself DEF Grows, Books
<1>5. Grows(b, x)
  <2> DEFINE q == Closed(c.open, a)
             S == c.settled \cup {a}
  <2>1. q \in Seq(Agents) /\ IsInjective(q) /\ S \in SUBSET Agents
    BY <1>1, <1>2, ClosedFacts
  <2>2. x = [b EXCEPT !.coll.open = q, !.coll.settled = S]
    BY DEF Books
  <2> HIDE DEF q, S, x
  <2> QED
    BY <2>1, <2>2, OpenChanges
<1>6. ASSUME ~Contains(c.open, a)
      PROVE  Grows(b, [b EXCEPT !.coll.open = Append(@, a)])
  <2> DEFINE q == Append(c.open, a)
  <2>1. a \notin ToSet(c.open)
    BY <1>2, <1>6 DEF Contains, ToSet
  <2>2. q \in Seq(Agents) /\ IsInjective(q)
    BY <1>1, <1>2, <2>1, ToSetAppend
  <2> HIDE DEF q
  <2>3. Grows(b, [b EXCEPT !.coll.open = q])
    BY <2>2, OpenChanges
  <2> QED
    BY <2>3 DEF q
<1>7. Grows(b, Persist(x, d, lost))
  <2> HIDE DEF x, d
  <2>1. x \in Books
    BY <1>5 DEF Grows
  <2> QED
    BY <1>3, <1>5, <2>1, PersistGrows, GrowsTransitively
<1>8. \/ ToolEvent(b, a, st, lost) = b
      \/ ToolEvent(b, a, st, lost) = Persist(x, d, lost)
      \/ ~Contains(c.open, a) /\ ToolEvent(b, a, st, lost) = [b EXCEPT !.coll.open = Append(@, a)]
  <2> HIDE DEF d
  <2> QED
    BY DEF ToolEvent, d
<1> HIDE DEF x, d
<1> QED
  BY <1>4, <1>6, <1>7, <1>8

LEMMA PermissionEventGrows ==
    ASSUME NEW b \in Books, NEW a \in Agents, NEW st \in Outcomes \cup {"asked"}, NEW lost
    PROVE  Grows(b, PermissionEvent(b, a, st, lost))
<1> DEFINE c == b.coll
           d == Draft(a, "permission", st)
           x == [b EXCEPT !.coll.pending = Closed(@, a)]
<1>1. c \in Shapes /\ IsInjective(c.pending)
  BY DEF Books, Collectors
<1>2. c.pending \in Seq(Agents)
  BY <1>1 DEF Shapes
<1>4. Grows(b, b)
  BY LengthensItself DEF Grows, Books
<1>5. Grows(b, x)
  <2> DEFINE q == Closed(c.pending, a)
  <2>1. q \in Seq(Agents) /\ IsInjective(q)
    BY <1>1, <1>2, ClosedFacts
  <2>2. x = [b EXCEPT !.coll.pending = q]
    BY DEF Books
  <2> HIDE DEF q, x
  <2> QED
    BY <2>1, <2>2, OpenChanges
<1>6. ASSUME ~Contains(c.pending, a)
      PROVE  Grows(b, [b EXCEPT !.coll.pending = Append(@, a)])
  <2> DEFINE q == Append(c.pending, a)
  <2>1. a \notin ToSet(c.pending)
    BY <1>2, <1>6 DEF Contains, ToSet
  <2>2. q \in Seq(Agents) /\ IsInjective(q)
    BY <1>1, <1>2, <2>1, ToSetAppend
  <2> HIDE DEF q
  <2>3. Grows(b, [b EXCEPT !.coll.pending = q])
    BY <2>2, OpenChanges
  <2> QED
    BY <2>3 DEF q
<1>7. ASSUME st # "asked"
      PROVE  Grows(b, Persist(x, d, lost))
  <2>1. d \in Drafts
    BY <1>7 DEF Draft, Drafts, Owners, Whats
  <2> HIDE DEF x, d
  <2>2. x \in Books
    BY <1>5 DEF Grows
  <2> QED
    BY <1>5, <2>1, <2>2, PersistGrows, GrowsTransitively
<1>8. \/ PermissionEvent(b, a, st, lost) = b
      \/ st # "asked" /\ PermissionEvent(b, a, st, lost) = Persist(x, d, lost)
      \/ /\ ~Contains(c.pending, a)
         /\ PermissionEvent(b, a, st, lost) = [b EXCEPT !.coll.pending = Append(@, a)]
  BY DEF PermissionEvent
<1> HIDE DEF x, d
<1> QED
  BY <1>4, <1>6, <1>7, <1>8

LEMMA GapGrows ==
    ASSUME NEW b \in Books
    PROVE  Grows(b, Gap(b))
<1> DEFINE c == b.coll
           n == c.streamGaps + 1
           e == [c EXCEPT !.streamGaps = n]
           d == Draft(Run, "gap", "unknown")
           x == [coll |-> e, rows |-> b.rows]
<1>1. c \in Shapes /\ Counted(c) /\ IsInjective(c.open) /\ IsInjective(c.pending)
  BY DEF Books, Collectors
<1>2. n \in Nat
  BY <1>1 DEF Shapes
<1>3. Gap(b) = Persist(x, d, {})
  BY DEF Gap, Books
<1>4. d \in Drafts
  BY DEF Draft, Drafts, Owners, Whats, Outcomes
<1> HIDE DEF n
<1>5. e \in Shapes
  BY <1>1, <1>2, ShapesKept
<1>6. /\ e.round = c.round /\ e.kept = c.kept /\ e.total = c.total /\ e.open = c.open
      /\ e.pending = c.pending
  BY <1>1 DEF Shapes
<1> HIDE DEF e, d
<1>7. e \in Collectors
  BY <1>1, <1>5, <1>6 DEF Collectors, Counted
<1>8. Grows(b, x)
  BY <1>6, <1>7, CollectorChanges
<1> HIDE DEF x
<1>9. x \in Books
  BY <1>8 DEF Grows
<1> QED
  BY <1>3, <1>4, <1>8, <1>9, PersistGrows, GrowsTransitively

LEMMA SettleOpenGrows ==
    ASSUME NEW b \in Books, NEW lost
    PROVE  Grows(b, SettleOpen(b, lost))
<1> DEFINE c == b.coll
           unknown == Unknown(c.open, "tool") \o Unknown(c.pending, "permission")
           p == PersistAll(b, unknown, lost)
<1>1. c.open \in Seq(Agents) /\ c.pending \in Seq(Agents)
  BY DEF Books, Collectors, Shapes
<1>2. ASSUME NEW q \in Seq(Agents), NEW what \in Whats
      PROVE  Unknown(q, what) \in Seq(Drafts)
  <2>1. \A i \in 1..Len(q) : Draft(q[i], what, "unknown") \in Drafts
    BY DEF Draft, Drafts, Owners, Outcomes
  <2>2. Len(q) \in Nat /\ DOMAIN q = 1..Len(q)
    OBVIOUS
  <2> QED
    BY <2>1, <2>2 DEF Unknown
<1>3. unknown \in Seq(Drafts)
  <2>1. Unknown(c.open, "tool") \in Seq(Drafts) /\ Unknown(c.pending, "permission") \in Seq(Drafts)
    BY <1>1, <1>2 DEF Whats
  <2> QED
    BY <2>1
<1>4. SettleOpen(b, lost) = [p EXCEPT !.coll.open = <<>>, !.coll.pending = <<>>]
  BY DEF SettleOpen
<1> HIDE DEF unknown
<1>5. Grows(b, p) /\ p \in Books
  BY <1>3, PersistAllGrows DEF Grows
<1> HIDE DEF p
<1> DEFINE x == [p EXCEPT !.coll.open = <<>>]
<1>6. <<>> \in Seq(Agents) /\ IsInjective(<<>>)
  BY DEF IsInjective
<1>7. Grows(p, x)
  BY <1>5, <1>6, OpenChanges
<1>8. x \in Books
  BY <1>7 DEF Grows
<1>9. [p EXCEPT !.coll.open = <<>>, !.coll.pending = <<>>] = [x EXCEPT !.coll.pending = <<>>]
  BY <1>5 DEF Books
<1> HIDE DEF x
<1>10. Grows(x, [x EXCEPT !.coll.pending = <<>>])
  BY <1>6, <1>8, OpenChanges
<1>11. Grows(b, x)
  BY <1>5, <1>7, GrowsTransitively
<1> QED
  BY <1>4, <1>9, <1>10, <1>11, GrowsTransitively

-----------------------------------------------------------------------------
(* The table: what is frozen in it, and the evidence it holds. *)

LEMMA LastOfFacts ==
    ASSUME NEW s \in Seq(Rows), NEW r, NEW type
    PROVE  LET at == LastOf(s, r, type)
           IN  /\ at \in 0..Len(s)
               /\ at # 0 => s[at].round = r /\ s[at].type = type
               /\ \A i \in 1..Len(s) : s[i].round = r /\ s[i].type = type => i <= at /\ at # 0
<1> DEFINE S == {i \in DOMAIN s : s[i].round = r /\ s[i].type = type}
           m == CHOOSE i \in S : \A j \in S : j <= i
<1>1. Len(s) \in Nat /\ DOMAIN s = 1..Len(s) /\ S \in SUBSET (1..Len(s))
  OBVIOUS
<1>2. LastOf(s, r, type) = IF S = {} THEN 0 ELSE m
  BY DEF LastOf
<1>3. ASSUME S # {}
      PROVE  m \in S /\ \A j \in S : j <= m
  <2> HIDE DEF S
  <2>1. \E i \in S : \A j \in S : j <= i
    BY <1>1, <1>3, Greatest
  <2> QED
    BY <2>1
<1> HIDE DEF m
<1>4. CASE S = {}
  BY <1>1, <1>2, <1>4
<1>5. CASE S # {}
  <2>1. LastOf(s, r, type) = m /\ m \in S /\ \A j \in S : j <= m
    BY <1>2, <1>3, <1>5
  <2>2. \A i \in 1..Len(s) : s[i].round = r /\ s[i].type = type => i \in S
    BY <1>1
  <2>3. m \in 1..Len(s) /\ s[m].round = r /\ s[m].type = type
    BY <1>1, <2>1
  <2> HIDE DEF S
  <2> QED
    BY <1>1, <2>1, <2>2, <2>3
<1> QED
  BY <1>4, <1>5

\* What is observed later changes neither the frozen row of a round nor what came before it.
LEMMA LastOfKept ==
    ASSUME NEW s \in Seq(Rows), NEW t \in Seq(Rows), NEW q, Lengthens(s, t, q), NEW r
    PROVE  LastOf(t, r, "frozen") = LastOf(s, r, "frozen")
<1> DEFINE S == {i \in DOMAIN s : s[i].round = r /\ s[i].type = "frozen"}
           T == {i \in DOMAIN t : t[i].round = r /\ t[i].type = "frozen"}
<1>1. T = S
  <2>1. DOMAIN s = 1..Len(s) /\ DOMAIN t = 1..Len(t) /\ Len(s) \in Nat /\ Len(t) \in Nat
    OBVIOUS
  <2>2. \A i \in 1..Len(s) : i \in 1..Len(t) /\ t[i] = s[i]
    BY <2>1 DEF Lengthens
  <2>3. \A i \in 1..Len(t) : t[i].type = "frozen" => i \in 1..Len(s)
    <3> SUFFICES ASSUME NEW i \in 1..Len(t), i \notin 1..Len(s)
                 PROVE  t[i].type # "frozen"
      OBVIOUS
    <3>1. i > Len(s)
      BY <2>1
    <3>2. t[i] \in LiveRows
      BY <3>1 DEF Lengthens
    <3> QED
      BY <3>2 DEF LiveRows
  <2> QED
    BY <2>1, <2>2, <2>3
<1> DEFINE LastIn(at) == IF at = {} THEN 0 ELSE CHOOSE i \in at : \A j \in at : j <= i
<1>2. LastOf(s, r, "frozen") = LastIn(S) /\ LastOf(t, r, "frozen") = LastIn(T)
  BY DEF LastOf
<1> HIDE DEF S, T, LastIn
<1> QED
  BY <1>1, <1>2

LEMMA IncludedKept ==
    ASSUME NEW s \in Seq(Rows), NEW t \in Seq(Rows), Len(s) <= Len(t),
           \A i \in 1..Len(s) : t[i] = s[i], NEW r, NEW through \in 0..Len(s)
    PROVE  Included(t, r, through) = Included(s, r, through)
<1>1. SubSeq(t, 1, through) = SubSeq(s, 1, through)
  <2>1. Len(s) \in Nat /\ Len(t) \in Nat /\ \A i \in 1..through : i \in 1..Len(s) /\ t[i] = s[i]
    OBVIOUS
  <2> QED
    BY <2>1
<1> QED
  BY <1>1 DEF Included

\* The rows of one type and round are those, and nothing else.
LEMMA EvidenceRows ==
    ASSUME NEW s \in Seq(Rows), NEW r
    PROVE  RowsOf(s, r, "evidence") \in Seq(LiveRows)
<1> DEFINE S == {row \in ToSet(s) : row.round = r /\ row.type = "evidence"}
           q == Among(s, S)
<1>1. q \in Seq(Rows) /\ ToSet(q) = ToSet(s) \cap S
  <2> HIDE DEF S
  <2> QED
    BY AmongFacts
<1>2. S \subseteq LiveRows
  <2>1. ToSet(s) \subseteq Rows
    BY ToSetTyped
  <2> QED
    BY <2>1 DEF Rows, FrozenRows
<1>3. q \in Seq(ToSet(q)) /\ ToSet(q) \subseteq LiveRows
  <2> HIDE DEF q, S
  <2> QED
    BY <1>1, <1>2, ToSetTyped
<1>4. RowsOf(s, r, "evidence") = q
  BY DEF RowsOf
<1> HIDE DEF q
<1> QED
  BY <1>3, <1>4

LEMMA IncludedTyped ==
    ASSUME NEW s \in Seq(Rows), NEW r, NEW through \in 0..Len(s)
    PROVE  Included(s, r, through) \in Seq(Drafts)
<1> DEFINE p == SubSeq(s, 1, through)
           q == RowsOf(p, r, "evidence")
<1>1. p \in Seq(Rows)
  OBVIOUS
<1> HIDE DEF p
<1>2. q \in Seq(LiveRows)
  BY <1>1, EvidenceRows
<1>3. Included(s, r, through) = [i \in DOMAIN q |-> q[i].draft]
  BY DEF Included, DraftsOf, p
<1> HIDE DEF q
<1>4. DOMAIN q = 1..Len(q) /\ Len(q) \in Nat /\ \A i \in 1..Len(q) : q[i].draft \in Drafts
  <2>1. \A i \in 1..Len(q) : q[i] \in LiveRows
    BY <1>2
  <2>2. \A row \in LiveRows : row.draft \in Drafts
    BY DEF LiveRows
  <2> QED
    BY <1>2, <2>1, <2>2
<1> QED
  BY <1>3, <1>4

-----------------------------------------------------------------------------
(* The audit under observation. *)

AuditInv ==
    /\ audited \in BOOLEAN /\ spent \in 0..MaxSurprises /\ round \in 0..MaxRounds
    /\ tool \in [Agents -> ToolStates] /\ permission \in [Agents -> PermissionStates]
    /\ edited \subseteq Agents
    /\ stream \in {"up", "refused", "closed"} /\ blind \in BOOLEAN
    /\ coll \in Collectors /\ coll.round \in {0, round} /\ rows \in Seq(Rows)
    /\ \A i \in 1..Len(rows) : rows[i].round <= round

\* What a step that only observes does to the collector and its table.
Observes ==
    /\ coll' \in Collectors /\ coll'.round = coll.round
    /\ rows' \in Seq(Rows) /\ Lengthens(rows, rows', coll.round)
    /\ spent' \in 0..MaxSurprises

LEMMA FreshFacts ==
    ASSUME NEW r \in 0..MaxRounds
    PROVE  Fresh(r) \in Collectors /\ Fresh(r).round = r
<1>1. <<>> \in Seq(Agents) /\ IsInjective(<<>>)
  BY DEF IsInjective
<1>2. Fresh(r) \in Shapes /\ Fresh(r).round = r
  BY <1>1 DEF Fresh, Shapes
<1>3. Counted(Fresh(r)) /\ Fresh(r).open = <<>> /\ Fresh(r).pending = <<>>
  BY DEF Fresh, Counted
<1> QED
  BY <1>1, <1>2, <1>3 DEF Collectors

LEMMA BookFacts ==
    ASSUME AuditInv, coll.round # 0
    PROVE  Book \in Books /\ Book.coll = coll /\ Book.rows = rows
BY DEF AuditInv, Book, Books

LEMMA NoteObserves ==
    ASSUME AuditInv, NEW b, coll.round # 0, Grows(Book, b), Note(b),
           spent' \in 0..MaxSurprises
    PROVE  Observes
<1>1. Book.coll = coll /\ Book.rows = rows
  BY BookFacts
<1>2. b.coll \in Collectors /\ b.rows \in Seq(Rows)
  BY DEF Grows, Books
<1> QED
  BY <1>1, <1>2 DEF Grows, Note, Observes

LEMMA UnchangedObserves ==
    ASSUME AuditInv, UNCHANGED <<coll, rows>>, spent' \in 0..MaxSurprises
    PROVE  Observes
<1>1. Lengthens(rows, rows, coll.round)
  BY LengthensItself DEF AuditInv
<1> QED
  BY <1>1 DEF AuditInv, Observes

LEMMA SurpriseBounded ==
    ASSUME AuditInv, NEW n \in Nat, Surprise(n)
    PROVE  spent' \in 0..MaxSurprises
<1>1. spent \in Nat /\ MaxSurprises \in Nat
  BY LimitsAssumption DEF AuditInv
<1> QED
  BY <1>1 DEF Surprise

LEMMA RecordedObserves ==
    ASSUME AuditInv, NEW b, Recorded(b), coll.round # 0 => Grows(Book, b),
           spent' \in 0..MaxSurprises
    PROVE  Observes
BY NoteObserves, UnchangedObserves DEF Recorded

LEMMA ObserveObserves ==
    ASSUME AuditInv, NEW kept, NEW unwritten, Observe(kept, unwritten),
           coll.round # 0 => Grows(Book, kept) /\ Grows(Book, unwritten)
    PROVE  Observes
<1>1. spent' \in 0..MaxSurprises
  BY SurpriseBounded DEF Observe
<1>2. Recorded(kept) \/ Recorded(unwritten)
  BY DEF Observe
<1> QED
  BY <1>1, <1>2, RecordedObserves

LEMMA ReportedObserves ==
    ASSUME AuditInv, NEW kept, NEW unwritten, Reported(kept, unwritten),
           coll.round # 0 => Grows(Book, kept) /\ Grows(Book, unwritten)
    PROVE  Observes
<1>1. CASE stream = "up"
  BY <1>1, ObserveObserves DEF Reported
<1>2. CASE stream # "up"
  <2>1. spent' \in 0..MaxSurprises /\ UNCHANGED <<coll, rows>>
    BY <1>2, SurpriseBounded DEF Reported
  <2> QED
    BY <2>1, UnchangedObserves
<1> QED
  BY <1>1, <1>2

LEMMA ActsObserve ==
    ASSUME AuditInv, NEW a \in Actors
    PROVE  /\ \A to \in ToolStates : ToolMoves(a, to) => Observes
           /\ ToolReportedAgain(a) => Observes
           /\ \A to \in PermissionStates : PermissionMoves(a, to) => Observes
           /\ FileEdited(a) => Observes
           /\ AttemptFailed(a, round) => Observes
<1>0. a \in Agents
  BY AgentsAssumption
<1>1. ASSUME NEW to \in ToolStates, ToolMoves(a, to)
      PROVE  Observes
  <2> DEFINE d == Draft(a, "tool", IF to = "completed" THEN "completed" ELSE "failed")
  <2>1. Reported(ToolEvent(Book, a, to, {}), ToolEvent(Book, a, to, {d}))
    BY <1>1 DEF ToolMoves
  <2> HIDE DEF d
  <2>2. ASSUME coll.round # 0
        PROVE  /\ Grows(Book, ToolEvent(Book, a, to, {}))
               /\ Grows(Book, ToolEvent(Book, a, to, {d}))
    BY <1>0, <2>2, BookFacts, ToolEventGrows
  <2> QED
    BY <2>1, <2>2, ReportedObserves
<1>2. ASSUME ToolReportedAgain(a)
      PROVE  Observes
  <2>1. coll.round # 0 /\ Note(ToolEvent(Book, a, tool[a], {})) /\ Surprise(1)
    BY <1>2 DEF ToolReportedAgain
  <2>2. Grows(Book, ToolEvent(Book, a, tool[a], {}))
    BY <1>0, <2>1, BookFacts, ToolEventGrows
  <2> QED
    BY <2>1, <2>2, SurpriseBounded, NoteObserves
<1>3. ASSUME NEW to \in PermissionStates, PermissionMoves(a, to)
      PROVE  Observes
  <2> DEFINE d == Draft(a, "permission", to)
  <2>1. /\ Reported(PermissionEvent(Book, a, to, {}), PermissionEvent(Book, a, to, {d}))
        /\ to \in Outcomes \cup {"asked"}
    BY <1>3 DEF PermissionMoves, Outcomes
  <2> HIDE DEF d
  <2>2. ASSUME coll.round # 0
        PROVE  /\ Grows(Book, PermissionEvent(Book, a, to, {}))
               /\ Grows(Book, PermissionEvent(Book, a, to, {d}))
    BY <1>0, <2>1, <2>2, BookFacts, PermissionEventGrows
  <2> QED
    BY <2>1, <2>2, ReportedObserves
<1>4. ASSUME FileEdited(a)
      PROVE  Observes
  <2> DEFINE d == Draft(a, "file", "completed")
  <2>1. Reported(Persist(Book, d, {}), Persist(Book, d, {d}))
    BY <1>4 DEF FileEdited
  <2>2. d \in Drafts
    BY <1>0 DEF Draft, Drafts, Owners, Whats, Outcomes
  <2> HIDE DEF d
  <2>3. ASSUME coll.round # 0
        PROVE  Grows(Book, Persist(Book, d, {})) /\ Grows(Book, Persist(Book, d, {d}))
    BY <2>2, <2>3, BookFacts, PersistGrows
  <2> QED
    BY <2>1, <2>3, ReportedObserves
<1>5. ASSUME AttemptFailed(a, round)
      PROVE  Observes
  <2> DEFINE d == Draft(a, "failure", "failed")
  <2>1. Observe(Persist(Book, d, {}), Persist(Book, d, {d}))
    BY <1>5 DEF AttemptFailed
  <2>2. d \in Drafts
    BY <1>0 DEF Draft, Drafts, Owners, Whats, Outcomes
  <2> HIDE DEF d
  <2>3. ASSUME coll.round # 0
        PROVE  Grows(Book, Persist(Book, d, {})) /\ Grows(Book, Persist(Book, d, {d}))
    BY <2>2, <2>3, BookFacts, PersistGrows
  <2> QED
    BY <2>1, <2>3, ObserveObserves
<1> QED
  BY <1>1, <1>2, <1>3, <1>4, <1>5

LEMMA ObservingKeepsAudit ==
    ASSUME AuditInv, Acts \/ Stream
    PROVE  Observes /\ AuditInv' /\ UNCHANGED <<audited, round>>
<1> DEFINE World == /\ tool' \in [Agents -> ToolStates]
                    /\ permission' \in [Agents -> PermissionStates] /\ edited' \subseteq Agents
                    /\ stream' \in {"up", "refused", "closed"} /\ blind' \in BOOLEAN
                    /\ UNCHANGED <<audited, round>>
<1>0. Actors \subseteq Agents
  BY AgentsAssumption
<1>1. ASSUME Acts
      PROVE  Observes /\ World
  <2>1. PICK a \in Actors : \/ \E to \in ToolStates : ToolMoves(a, to)
                            \/ ToolReportedAgain(a)
                            \/ \E to \in PermissionStates : PermissionMoves(a, to)
                            \/ FileEdited(a)
                            \/ AttemptFailed(a, round)
    BY <1>1 DEF Acts
  <2>2. Observes
    BY <2>1, ActsObserve
  <2>3. CASE \E to \in ToolStates : ToolMoves(a, to)
    BY <1>0, <2>2, <2>3 DEF ToolMoves, AuditInv
  <2>4. CASE ToolReportedAgain(a)
    BY <1>0, <2>2, <2>4 DEF ToolReportedAgain, AuditInv, world
  <2>5. CASE \E to \in PermissionStates : PermissionMoves(a, to)
    BY <1>0, <2>2, <2>5 DEF PermissionMoves, AuditInv
  <2>6. CASE FileEdited(a)
    BY <1>0, <2>2, <2>6 DEF FileEdited, AuditInv
  <2>7. CASE AttemptFailed(a, round)
    BY <1>0, <2>2, <2>7 DEF AttemptFailed, AuditInv, world
  <2> QED
    BY <2>1, <2>3, <2>4, <2>5, <2>6, <2>7
<1>2. ASSUME Stream
      PROVE  Observes /\ World
  <2>1. CASE StreamRefused
    <3>1. Recorded(Gap(Book)) /\ Surprise(1)
      BY <2>1 DEF StreamRefused
    <3>2. ASSUME coll.round # 0
          PROVE  Grows(Book, Gap(Book))
      BY <3>2, BookFacts, GapGrows
    <3>3. Observes
      BY <3>1, <3>2, SurpriseBounded, RecordedObserves
    <3> QED
      BY <2>1, <3>3 DEF StreamRefused, AuditInv, world
  <2>2. CASE StreamClosed
    <3>1. Observes
      BY <2>2, SurpriseBounded, UnchangedObserves DEF StreamClosed
    <3> QED
      BY <2>2, <3>1 DEF StreamClosed, AuditInv, world
  <2>3. CASE Resubscribed
    <3>1. Observes
      BY <2>3, UnchangedObserves DEF Resubscribed, AuditInv
    <3> QED
      BY <2>3, <3>1 DEF Resubscribed, AuditInv, world
  <2> QED
    BY <1>2, <2>1, <2>2, <2>3 DEF Stream
<1>3. Observes /\ World
  BY <1>1, <1>2
<1>4. ASSUME NEW i \in 1..Len(rows')
      PROVE  rows'[i].round <= round
  <2>1. Len(rows) \in Nat /\ Len(rows') \in Nat /\ round \in Nat /\ coll.round \in {0, round}
    BY <1>3 DEF AuditInv, Observes
  <2>2. CASE i > Len(rows)
    <3>1. rows'[i].round = coll.round
      BY <1>3, <2>2 DEF Observes, Lengthens
    <3> QED
      BY <2>1, <3>1
  <2>3. CASE ~(i > Len(rows))
    <3>1. i \in 1..Len(rows)
      BY <2>1, <2>3
    <3>2. rows'[i] = rows[i]
      BY <1>3, <3>1 DEF Observes, Lengthens
    <3> QED
      BY <3>1, <3>2 DEF AuditInv
  <2> QED
    BY <2>2, <2>3
<1> QED
  BY <1>3, <1>4 DEF AuditInv, Observes

-----------------------------------------------------------------------------
(* Sealing. *)

LEMMA ExtendedFacts ==
    ASSUME NEW f, NEW g
    PROVE  /\ DOMAIN Extended(f, g) = DOMAIN f \cup DOMAIN g
           /\ \A x \in DOMAIN f : Extended(f, g)[x] = f[x]
           /\ \A x \in DOMAIN g : x \notin DOMAIN f => Extended(f, g)[x] = g[x]
BY DEF Extended

\* The seal of round r: what is frozen last for it holds what it was computed from.
SealedAs(table, r, records) ==
    LET at == LastOf(table, r, "frozen")
    IN  /\ at \in 1..Len(table)
        /\ table[at].through \in 0..at
        /\ table[at].digest = records
        /\ Included(table, r, table[at].through) = records

LEMMA SealReads ==
    ASSUME NEW table, NEW r, NEW records, SealedAs(table, r, records)
    PROVE  LET view == Read(table, r)
           IN  view.frozen /\ DigestMatches(view) /\ view.records = records
<1> DEFINE at == LastOf(table, r, "frozen")
<1>1. at # 0 /\ table[at].digest = records /\ Included(table, r, table[at].through) = records
  BY DEF SealedAs
<1> HIDE DEF at
<1> DEFINE view == Read(table, r)
<1>2. view.frozen = (at # 0) /\ view.records = Included(table, r, table[at].through)
      /\ view.row = table[at]
  BY <1>1 DEF Read, at
<1> HIDE DEF view
<1>3. view.frozen /\ DigestMatches(view) /\ view.records = records
  BY <1>1, <1>2 DEF DigestMatches
<1> QED
  BY <1>3 DEF view

\* A seal stays when the table grows by nothing that is frozen for its round.
LEMMA SealStays ==
    ASSUME NEW s \in Seq(Rows), NEW t \in Seq(Rows), Len(s) <= Len(t),
           \A i \in 1..Len(s) : t[i] = s[i], NEW r, NEW records, SealedAs(s, r, records),
           LastOf(t, r, "frozen") = LastOf(s, r, "frozen")
    PROVE  SealedAs(t, r, records)
<1> DEFINE at == LastOf(s, r, "frozen")
           through == s[at].through
<1>1. /\ at \in 1..Len(s) /\ through \in 0..at /\ s[at].digest = records
      /\ Included(s, r, through) = records
  BY DEF SealedAs
<1>2. Len(s) \in Nat /\ Len(t) \in Nat
  OBVIOUS
<1> HIDE DEF at
<1>3. at \in 1..Len(t) /\ t[at] = s[at] /\ through \in 0..Len(s)
  BY <1>1, <1>2
<1> HIDE DEF through
<1>4. Included(t, r, through) = records
  BY <1>1, <1>3, IncludedKept
<1> QED
  BY <1>1, <1>3, <1>4 DEF SealedAs, at, through

LEMMA LastOfOther ==
    ASSUME NEW s \in Seq(Rows), NEW row \in Rows, NEW r, row.round # r
    PROVE  LastOf(Append(s, row), r, "frozen") = LastOf(s, r, "frozen")
<1> DEFINE t == Append(s, row)
           S == {i \in DOMAIN s : s[i].round = r /\ s[i].type = "frozen"}
           T == {i \in DOMAIN t : t[i].round = r /\ t[i].type = "frozen"}
           LastIn(at) == IF at = {} THEN 0 ELSE CHOOSE i \in at : \A j \in at : j <= i
<1>1. /\ DOMAIN s = 1..Len(s) /\ DOMAIN t = 1..(Len(s) + 1) /\ Len(s) \in Nat
      /\ \A i \in 1..Len(s) : t[i] = s[i]
      /\ t[Len(s) + 1] = row
  OBVIOUS
<1>2. \A i : i \in 1..(Len(s) + 1) <=> i \in 1..Len(s) \/ i = Len(s) + 1
  BY <1>1
<1> HIDE DEF t
<1>3. T = S
  BY <1>1, <1>2
<1>4. LastOf(s, r, "frozen") = LastIn(S) /\ LastOf(t, r, "frozen") = LastIn(T)
  BY DEF LastOf
<1> HIDE DEF S, T, LastIn
<1> QED
  BY <1>3, <1>4 DEF t

LEMMA SealBookFacts ==
    ASSUME NEW b \in Books, NEW capture \in [Agents -> Captures], NEW lost
    PROVE  LET c == SealBook(b, capture, lost)
               r == b.coll.round
           IN  /\ c.coll \in Collectors /\ c.coll.round = r
               /\ \E filled : /\ Grows(b, filled)
                             /\ c.rows = Append(filled.rows, Frozen(filled, r, capture))
               /\ \A filled \in Books :
                    filled.coll.round = r =>
                      /\ Frozen(filled, r, capture) \in FrozenRows
                      /\ Frozen(filled, r, capture).round = r
                      /\ SealedAs(Append(filled.rows, Frozen(filled, r, capture)), r,
                                  Included(filled.rows, r, LastOf(filled.rows, r, "evidence")))
<1> DEFINE settled == SettleOpen(b, lost)
           filled == AddCoverage(settled, capture, lost)
           r == b.coll.round
           e == [filled.coll EXCEPT !.frozen = TRUE]
<1>1. Grows(b, settled) /\ settled \in Books
  BY SettleOpenGrows DEF Grows
<1>2. SealBook(b, capture, lost) =
        [coll |-> e, rows |-> Append(filled.rows, Frozen(filled, r, capture))]
  BY DEF SealBook
<1>3. Grows(b, filled)
  <2> HIDE DEF settled
  <2> QED
    BY <1>1, AddCoverageGrows, GrowsTransitively
<1> HIDE DEF filled
<1>4. filled \in Books /\ filled.coll.round = r
  BY <1>3 DEF Grows
<1>5. e \in Collectors /\ e.round = r
  <2>1. /\ filled.coll \in Shapes /\ Counted(filled.coll) /\ IsInjective(filled.coll.open)
        /\ IsInjective(filled.coll.pending)
    BY <1>4 DEF Books, Collectors
  <2>2. e \in Shapes
    BY <2>1, ShapesKept
  <2>3. /\ e.round = filled.coll.round /\ e.kept = filled.coll.kept
        /\ e.total = filled.coll.total /\ e.open = filled.coll.open
        /\ e.pending = filled.coll.pending
    BY <2>1 DEF Shapes
  <2> HIDE DEF e
  <2> QED
    BY <1>4, <2>1, <2>2, <2>3 DEF Collectors, Counted
<1>6. ASSUME NEW c \in Books, c.coll.round = r
      PROVE  /\ Frozen(c, r, capture) \in FrozenRows
             /\ Frozen(c, r, capture).round = r
             /\ SealedAs(Append(c.rows, Frozen(c, r, capture)), r,
                         Included(c.rows, r, LastOf(c.rows, r, "evidence")))
  <2> DEFINE s == c.rows
             through == LastOf(s, r, "evidence")
             digest == Included(s, r, through)
             row == Frozen(c, r, capture)
             t == Append(s, row)
  <2>1. s \in Seq(Rows) /\ c.coll \in Shapes /\ c.coll.round # 0
    BY DEF Books, Collectors
  <2>2. through \in 0..Len(s)
    BY <2>1, LastOfFacts
  <2> HIDE DEF through
  <2>3. digest \in Seq(Drafts)
    BY <2>1, <2>2, IncludedTyped
  <2> HIDE DEF digest
  <2>4. /\ r \in 1..MaxRounds /\ c.coll.dropped \in [Agents -> Nat]
        /\ c.coll.streamGaps \in Nat /\ Len(s) \in Nat
    BY <1>6, <2>1 DEF Shapes
  <2>5. row = [type |-> "frozen", round |-> r, through |-> through, digest |-> digest,
               dropped |-> c.coll.dropped, capture |-> capture,
               streamGaps |-> c.coll.streamGaps]
    BY DEF Frozen, through, digest
  <2> HIDE DEF row, s
  <2>6. row \in FrozenRows /\ row.round = r /\ row.type = "frozen"
    BY <2>2, <2>3, <2>4, <2>5 DEF FrozenRows
  <2>7. row.through = through /\ row.digest = digest
    BY <2>5
  <2>8. row \in Rows
    BY <2>6 DEF Rows
  <2>9. /\ t \in Seq(Rows) /\ Len(t) = Len(s) + 1 /\ t[Len(s) + 1] = row
        /\ \A i \in 1..Len(s) : t[i] = s[i]
    BY <2>1, <2>8
  <2> HIDE DEF t
  <2> DEFINE at == LastOf(t, r, "frozen")
  <2>10. at = Len(t)
    <3>1. at \in 0..Len(t) /\ (\A i \in 1..Len(t) : t[i].round = r /\ t[i].type = "frozen" => i <= at)
      BY <2>9, LastOfFacts
    <3>2. Len(t) \in 1..Len(t) /\ t[Len(t)].round = r /\ t[Len(t)].type = "frozen"
      BY <2>4, <2>6, <2>9
    <3> HIDE DEF at
    <3> QED
      BY <2>4, <2>9, <3>1, <3>2
  <2> HIDE DEF at
  <2>11. Included(t, r, through) = digest
    <3>1. Len(s) <= Len(t)
      BY <2>4, <2>9
    <3> QED
      BY <2>1, <2>2, <2>9, <3>1, IncludedKept DEF digest
  <2>12. at \in 1..Len(t) /\ t[at] = row /\ through \in 0..at
    BY <2>2, <2>4, <2>9, <2>10
  <2>13. SealedAs(t, r, digest)
    BY <2>7, <2>11, <2>12 DEF SealedAs, at
  <2> QED
    BY <2>6, <2>13 DEF digest, through, t, row, s
<1> HIDE DEF e
<1> QED
  BY <1>2, <1>3, <1>5, <1>6

-----------------------------------------------------------------------------
(* What a round was judged by stays what its audit shows. *)

\* Only judged rounds are frozen, and each is frozen as what it was judged by.
Seals ==
    /\ \A i \in 1..Len(rows) : rows[i].type = "frozen" => rows[i].round \in DOMAIN gradedOn
    /\ \A r \in DOMAIN gradedOn : SealedAs(rows, r, gradedOn[r])

SealInv ==
    /\ phase \in {"idle", "collecting", "reviewing", "scoring", "graded", "failed"}
    /\ kind \in {"original", "preview"}
    /\ phase \in {"idle", "collecting", "failed"} => kind = "original"
    /\ DOMAIN gradedOn \subseteq 1..round
    /\ phase = "collecting" =>
         round # 0 /\ round \notin DOMAIN gradedOn /\ (audited => coll.round = round)
    /\ audited /\ phase \in {"reviewing", "scoring", "graded"} => round \in DOMAIN gradedOn
    /\ audited /\ phase \in {"reviewing", "scoring"} =>
         \A a \in Agents : evidence[a].records = RecordsOf(gradedOn[round], a)
    /\ Seals

LEMMA SealsKept ==
    ASSUME AuditInv, Seals, Observes, gradedOn' = gradedOn
    PROVE  Seals'
<1>1. rows \in Seq(Rows) /\ rows' \in Seq(Rows) /\ Lengthens(rows, rows', coll.round)
  BY DEF AuditInv, Observes
<1>2. /\ Len(rows) \in Nat /\ Len(rows') \in Nat /\ Len(rows) <= Len(rows')
      /\ \A i \in 1..Len(rows) : rows'[i] = rows[i]
      /\ \A i \in 1..Len(rows') : i > Len(rows) => rows'[i] \in LiveRows
  BY <1>1 DEF Lengthens
<1>3. ASSUME NEW i \in 1..Len(rows'), rows'[i].type = "frozen"
      PROVE  rows'[i].round \in DOMAIN gradedOn
  <2>1. ~(i > Len(rows))
    BY <1>2, <1>3 DEF LiveRows
  <2>2. i \in 1..Len(rows)
    BY <1>2, <2>1
  <2> QED
    BY <1>2, <1>3, <2>2 DEF Seals
<1>4. ASSUME NEW r \in DOMAIN gradedOn
      PROVE  SealedAs(rows', r, gradedOn[r])
  <2>1. LastOf(rows', r, "frozen") = LastOf(rows, r, "frozen")
    BY <1>1, LastOfKept
  <2>2. SealedAs(rows, r, gradedOn[r])
    BY DEF Seals
  <2> QED
    BY <1>1, <1>2, <2>1, <2>2, SealStays
<1> QED
  BY <1>3, <1>4 DEF Seals

LEMMA FreezeSeals ==
    ASSUME AuditInv, SealInv, phase = "collecting", audited,
           NEW capture \in [Agents -> Captures], NEW lost,
           Note(SealBook(Book, capture, lost)),
           gradedOn' = Extended(gradedOn, Envelope(round, Read(rows', round)))
    PROVE  /\ coll' \in Collectors /\ coll'.round = round /\ rows' \in Seq(Rows)
           /\ \A i \in 1..Len(rows') : rows'[i].round <= round
           /\ Seals' /\ \A x : x \in DOMAIN gradedOn' <=> x \in DOMAIN gradedOn \/ x = round
           /\ Read(rows', round).frozen
           /\ gradedOn'[round] = Read(rows', round).records
<1> DEFINE view == Read(rows', round)
<1>1. /\ round # 0 /\ round \notin DOMAIN gradedOn /\ coll.round = round /\ coll.round # 0
      /\ rows \in Seq(Rows) /\ Seals
  BY DEF SealInv, AuditInv
<1>2. Book \in Books /\ Book.coll = coll /\ Book.rows = rows
  BY <1>1, BookFacts
<1>3. PICK filled :
        /\ Grows(Book, filled)
        /\ rows' = Append(filled.rows, Frozen(filled, round, capture))
        /\ coll' \in Collectors /\ coll'.round = round
  BY <1>1, <1>2, SealBookFacts DEF Note
<1> DEFINE row == Frozen(filled, round, capture)
           s == filled.rows
           records == Included(s, round, LastOf(s, round, "evidence"))
<1>4. filled \in Books /\ filled.coll.round = round /\ Lengthens(rows, s, round) /\ s \in Seq(Rows)
  BY <1>1, <1>2, <1>3 DEF Grows, Books
<1>5. row \in FrozenRows /\ row.round = round /\ SealedAs(Append(s, row), round, records)
  BY <1>1, <1>2, <1>4, SealBookFacts
<1> HIDE DEF row, records, s
<1>6. rows' = Append(s, row) /\ row \in Rows
  BY <1>3, <1>5 DEF s, row, Rows
<1>7. /\ rows' \in Seq(Rows) /\ Len(rows') = Len(s) + 1 /\ rows'[Len(s) + 1] = row
      /\ \A i \in 1..Len(s) : rows'[i] = s[i]
      /\ Len(s) \in Nat /\ Len(rows) \in Nat
  BY <1>1, <1>4, <1>6
<1>8. SealedAs(rows', round, records)
  BY <1>5, <1>6
<1>9. view.frozen /\ view.records = records
  BY <1>8, SealReads
<1>10. /\ DOMAIN gradedOn' = DOMAIN gradedOn \cup {round}
       /\ gradedOn'[round] = view.records
       /\ \A r \in DOMAIN gradedOn : gradedOn'[r] = gradedOn[r]
  <2> DEFINE g == Envelope(round, view)
  <2> HIDE DEF view
  <2>1. DOMAIN g = {round} /\ g[round] = view.records
    BY DEF Envelope
  <2>2. gradedOn' = Extended(gradedOn, g)
    BY DEF view
  <2> HIDE DEF g
  <2>3. /\ DOMAIN Extended(gradedOn, g) = DOMAIN gradedOn \cup DOMAIN g
        /\ \A x \in DOMAIN gradedOn : Extended(gradedOn, g)[x] = gradedOn[x]
        /\ \A x \in DOMAIN g : x \notin DOMAIN gradedOn => Extended(gradedOn, g)[x] = g[x]
    BY ExtendedFacts, Zenon
  <2>4. round \in DOMAIN g
    BY <2>1
  <2> QED
    BY <1>1, <2>1, <2>2, <2>3, <2>4 DEF view
<1>11. ASSUME NEW i \in 1..Len(rows'), rows'[i].type = "frozen"
       PROVE  rows'[i].round \in DOMAIN gradedOn'
  <2>1. CASE i = Len(s) + 1
    BY <1>5, <1>7, <1>10, <2>1
  <2>2. CASE i # Len(s) + 1
    <3>1. i \in 1..Len(s) /\ rows'[i] = s[i]
      BY <1>7, <2>2
    <3>2. i \in 1..Len(rows) /\ s[i] = rows[i]
      <4>1. ~(i > Len(rows))
        BY <1>4, <1>11, <3>1 DEF Lengthens, LiveRows
      <4>2. i \in 1..Len(rows)
        BY <1>7, <3>1, <4>1
      <4> QED
        BY <1>4, <4>2 DEF Lengthens
    <3> QED
      BY <1>1, <1>10, <1>11, <3>1, <3>2 DEF Seals
  <2> QED
    BY <2>1, <2>2
<1>12. ASSUME NEW r \in DOMAIN gradedOn
       PROVE  SealedAs(rows', r, gradedOn'[r])
  <2>1. r # round /\ SealedAs(rows, r, gradedOn[r])
    BY <1>1 DEF Seals
  <2>2. LastOf(rows', r, "frozen") = LastOf(rows, r, "frozen")
    <3>1. LastOf(rows', r, "frozen") = LastOf(s, r, "frozen")
      BY <1>4, <1>5, <1>6, <2>1, LastOfOther
    <3> QED
      BY <1>1, <1>4, <3>1, LastOfKept
  <2>3. Len(rows) <= Len(rows') /\ \A i \in 1..Len(rows) : rows'[i] = rows[i]
    <3>1. Len(rows) <= Len(s) /\ \A i \in 1..Len(rows) : s[i] = rows[i]
      BY <1>4 DEF Lengthens
    <3>2. \A i \in 1..Len(rows) : i \in 1..Len(s)
      BY <1>7, <3>1
    <3> QED
      BY <1>7, <3>1, <3>2
  <2>4. SealedAs(rows', r, gradedOn[r])
    BY <1>1, <1>7, <2>1, <2>2, <2>3, SealStays
  <2> QED
    BY <1>10, <2>4
<1>13. SealedAs(rows', round, gradedOn'[round])
  BY <1>8, <1>9, <1>10
<1>14. Seals'
  BY <1>10, <1>11, <1>12, <1>13 DEF Seals
<1>15. ASSUME NEW i \in 1..Len(rows')
       PROVE  rows'[i].round <= round
  <2>0. round \in Nat
    BY DEF AuditInv
  <2>1. CASE i = Len(s) + 1
    BY <1>5, <1>7, <2>0, <2>1
  <2>2. CASE i # Len(s) + 1
    <3>1. i \in 1..Len(s) /\ rows'[i] = s[i]
      BY <1>7, <2>2
    <3>2. CASE i > Len(rows)
      BY <1>4, <2>0, <3>1, <3>2 DEF Lengthens
    <3>3. CASE ~(i > Len(rows))
      <4>1. i \in 1..Len(rows)
        BY <1>7, <3>1, <3>3
      <4>2. s[i] = rows[i]
        BY <1>4, <4>1 DEF Lengthens
      <4> QED
        BY <3>1, <4>1, <4>2 DEF AuditInv
    <3> QED
      BY <3>2, <3>3
  <2> QED
    BY <2>1, <2>2
<1> HIDE DEF view
<1> QED
  BY <1>3, <1>7, <1>9, <1>10, <1>14, <1>15 DEF view

\* What the judge's own steps leave alone, and where they lead.
Deliberates ==
    /\ UNCHANGED <<audited, round, world, stream, blind, coll, rows, setting, kind, status,
                   evidence, gradedOn>>
    /\ spent' \in 0..MaxSurprises
    /\ phase \in {"reviewing", "scoring"}
    /\ \/ phase' \in {phase, "scoring", "graded"}
       \/ phase' = "failed" /\ kind = "original"

LEMMA JudgingDeliberates ==
    ASSUME AuditInv, SealInv,
           ReviewFailed \/ ReviewsDone \/ ScoreSingleCall \/ ScoreBatch \/ ScoreFinals \/ CallFails
    PROVE  Deliberates
<1>0. spent \in 0..MaxSurprises
  BY DEF AuditInv
<1>1. ASSUME ReviewFailed
      PROVE  Deliberates
  <2>1. UNCHANGED spent \/ Surprise(2)
    BY <1>1 DEF ReviewFailed, Answered
  <2>2. spent' \in 0..MaxSurprises
    BY <1>0, <2>1, SurpriseBounded
  <2> QED
    BY <1>1, <2>2 DEF ReviewFailed, Deliberates
<1>2. ASSUME ReviewsDone
      PROVE  Deliberates
  <2>1. phase' \in {"scoring", "graded"} /\ UNCHANGED gradedOn
    BY <1>2 DEF ReviewsDone, Finish, Rank
  <2> QED
    BY <1>0, <1>2, <2>1 DEF ReviewsDone, Deliberates, auditVars
<1>3. ASSUME ScoreSingleCall
      PROVE  Deliberates
  <2>1. (UNCHANGED spent \/ Surprise(2)) /\ phase' = "graded" /\ UNCHANGED gradedOn
    BY <1>3 DEF ScoreSingleCall, Answered, Finish
  <2>2. spent' \in 0..MaxSurprises
    BY <1>0, <2>1, SurpriseBounded
  <2> QED
    BY <1>3, <2>1, <2>2 DEF ScoreSingleCall, Deliberates
<1>4. ASSUME ScoreBatch
      PROVE  Deliberates
  <2>1. UNCHANGED spent \/ Surprise(2)
    BY <1>4 DEF ScoreBatch, Answered
  <2>2. spent' \in 0..MaxSurprises
    BY <1>0, <2>1, SurpriseBounded
  <2> QED
    BY <1>4, <2>2 DEF ScoreBatch, Deliberates
<1>5. ASSUME ScoreFinals
      PROVE  Deliberates
  <2>1. (UNCHANGED spent \/ Surprise(2)) /\ phase' = "graded" /\ UNCHANGED gradedOn
    BY <1>5 DEF ScoreFinals, Answered, Finish
  <2>2. spent' \in 0..MaxSurprises
    BY <1>0, <2>1, SurpriseBounded
  <2> QED
    BY <1>5, <2>1, <2>2 DEF ScoreFinals, Deliberates
<1>6. ASSUME CallFails
      PROVE  Deliberates
  <2>1. /\ UNCHANGED gradedOn
        /\ \/ phase' \in {phase, "scoring", "graded"}
           \/ phase' = "failed" /\ kind = "original"
    BY <1>6 DEF CallFails, Rank
  <2> QED
    BY <1>0, <1>6, <2>1 DEF CallFails, Deliberates, auditVars
<1> QED
  BY <1>1, <1>2, <1>3, <1>4, <1>5, <1>6

LEMMA DeliberatingSeals ==
    ASSUME AuditInv, SealInv, Deliberates
    PROVE  AuditInv' /\ SealInv'
<1>1. Observes
  BY UnchangedObserves DEF Deliberates
<1>2. Seals'
  BY <1>1, SealsKept DEF Deliberates, SealInv
<1>3. AuditInv'
  BY DEF AuditInv, Deliberates, world
<1>4. /\ audited' = audited /\ round' = round /\ coll' = coll /\ kind' = kind
      /\ evidence' = evidence /\ gradedOn' = gradedOn
  BY DEF Deliberates
<1>5. phase \in {"reviewing", "scoring"}
  BY DEF Deliberates
<1>6. /\ phase' \in {"reviewing", "scoring", "graded", "failed"}
      /\ phase' = "failed" => kind = "original"
  BY DEF Deliberates
<1>7. /\ kind \in {"original", "preview"} /\ DOMAIN gradedOn \subseteq 1..round
      /\ audited => round \in DOMAIN gradedOn
      /\ audited => \A a \in Agents : evidence[a].records = RecordsOf(gradedOn[round], a)
  BY <1>5 DEF SealInv
<1> QED
  BY <1>2, <1>3, <1>4, <1>6, <1>7 DEF SealInv

LEMMA FreezeKeepsSeals ==
    ASSUME AuditInv, SealInv, Freeze
    PROVE  AuditInv' /\ SealInv'
<1>1. PICK st \in [Agents -> {"ok", "failed"}] :
        \/ /\ ~audited
           /\ StartReview(st, NoEvidence)
           /\ UNCHANGED <<spent, coll, rows, gradedOn>>
        \/ /\ audited
           /\ \E capture \in {CaptureOf(st)} \cup
                              {[CaptureOf(st) EXCEPT ![a] = c] : a \in Agents, c \in Captures},
                 lost \in {{}} \cup {{Draft(a, what, "unknown")} :
                                       a \in Actors, what \in {"tool", "permission"}} :
                LET odd == Cardinality(lost) + (IF capture = CaptureOf(st) THEN 0 ELSE 1)
                    b == SealBook(Book, capture, lost)
                    view == Read(b.rows, round)
                IN  /\ Surprise(odd)
                    /\ Note(b)
                    /\ StartReview(st, [a \in Agents |-> EvidenceOf(view, a)])
                    /\ gradedOn' = Extended(gradedOn, Envelope(round, view))
  BY DEF Freeze
<1>2. phase = "collecting" /\ UNCHANGED <<audited, round, world, stream, blind, kind>>
  BY DEF Freeze
<1>3. round # 0 /\ round \in 0..MaxRounds /\ DOMAIN gradedOn \subseteq 1..round /\ kind = "original"
  BY <1>2 DEF SealInv, AuditInv
<1>4. CASE ~audited
  <2>1. UNCHANGED <<spent, coll, rows, gradedOn>> /\ phase' = "reviewing"
    BY <1>1, <1>4 DEF StartReview
  <2>2. Observes
    BY <2>1, UnchangedObserves DEF AuditInv
  <2>3. Seals'
    BY <2>1, <2>2, SealsKept DEF SealInv
  <2>4. AuditInv'
    BY <1>2, <2>1 DEF AuditInv, world
  <2> QED
    BY <1>2, <1>3, <1>4, <2>1, <2>3, <2>4 DEF SealInv
<1>5. CASE audited
  <2>1. PICK capture \in {CaptureOf(st)} \cup
                         {[CaptureOf(st) EXCEPT ![a] = c] : a \in Agents, c \in Captures},
             lost \in {{}} \cup {{Draft(a, what, "unknown")} :
                                  a \in Actors, what \in {"tool", "permission"}} :
          /\ Surprise(Cardinality(lost) + (IF capture = CaptureOf(st) THEN 0 ELSE 1))
          /\ Note(SealBook(Book, capture, lost))
          /\ StartReview(st, [a \in Agents |->
                                 EvidenceOf(Read(SealBook(Book, capture, lost).rows, round), a)])
          /\ gradedOn' = Extended(gradedOn,
                             Envelope(round, Read(SealBook(Book, capture, lost).rows, round)))
    BY <1>1, <1>5
  <2>2. capture \in [Agents -> Captures]
    <3>1. CaptureOf(st) \in [Agents -> Captures]
      BY DEF CaptureOf, Captures
    <3> QED
      BY <3>1
  <2>3. Cardinality(lost) \in Nat
    <3>1. CASE lost = {}
      BY <3>1, FS_EmptySet
    <3>2. CASE lost # {}
      <4>1. \E x : lost = {x}
        BY <3>2
      <4>2. PICK x : lost = {x}
        BY <4>1
      <4>3. Cardinality({x}) = 1
        BY FS_Singleton
      <4> QED
        BY <4>2, <4>3
    <3> QED
      BY <3>1, <3>2
  <2>4. spent' \in 0..MaxSurprises
    BY <2>1, <2>3, SurpriseBounded
  <2>5. rows' = SealBook(Book, capture, lost).rows
    BY <2>1 DEF Note
  <2>6. /\ gradedOn' = Extended(gradedOn, Envelope(round, Read(rows', round)))
        /\ evidence' = [a \in Agents |-> EvidenceOf(Read(rows', round), a)]
        /\ phase' = "reviewing"
    BY <2>1, <2>5 DEF StartReview
  <2>7. /\ coll' \in Collectors /\ coll'.round = round /\ rows' \in Seq(Rows)
        /\ \A i \in 1..Len(rows') : rows'[i].round <= round
        /\ Seals' /\ \A x : x \in DOMAIN gradedOn' <=> x \in DOMAIN gradedOn \/ x = round
        /\ Read(rows', round).frozen /\ gradedOn'[round] = Read(rows', round).records
    <3>1. Note(SealBook(Book, capture, lost))
      BY <2>1
    <3>2. gradedOn' = Extended(gradedOn, Envelope(round, Read(rows', round)))
      BY <2>6
    <3>3. phase = "collecting"
      BY <1>2
    <3> QED
      BY <1>5, <2>2, <3>1, <3>2, <3>3, FreezeSeals
  <2> DEFINE view == Read(rows', round)
  <2> HIDE DEF view
  <2>8. \A a \in Agents : evidence'[a].records = RecordsOf(gradedOn'[round], a)
    <3>1. view.frozen /\ gradedOn'[round] = view.records
      BY <2>7 DEF view
    <3>2. evidence' = [a \in Agents |-> EvidenceOf(view, a)]
      BY <2>6 DEF view
    <3> QED
      BY <3>1, <3>2 DEF EvidenceOf
  <2>9. DOMAIN gradedOn' \subseteq 1..round /\ round \in DOMAIN gradedOn'
    BY <1>3, <2>7
  <2>10. AuditInv'
    BY <1>2, <2>4, <2>7 DEF AuditInv, world
  <2> QED
    BY <1>2, <1>3, <2>6, <2>7, <2>8, <2>9, <2>10 DEF SealInv
<1> QED
  BY <1>4, <1>5

LEMMA StepKeepsSeals ==
    ASSUME AuditInv, SealInv, [Next]_vars
    PROVE  AuditInv' /\ SealInv'
<1>1. CASE StartRound
  <2>1. /\ round' = round + 1 /\ round < MaxRounds /\ audited' = audited
        /\ coll' = IF audited THEN Fresh(round + 1) ELSE NoCollector
        /\ phase' = "collecting" /\ kind' = "original" /\ UNCHANGED <<rows, gradedOn, spent, stream>>
        /\ tool' = [a \in Agents |-> "none"] /\ permission' = [a \in Agents |-> "none"]
        /\ edited' = {} /\ blind' = (stream # "up")
    BY <1>1 DEF StartRound, BeginRound
  <2>2. /\ round \in Nat /\ MaxRounds \in Nat /\ round + 1 \in 0..MaxRounds
        /\ DOMAIN gradedOn \subseteq 1..(round + 1) /\ round + 1 \notin DOMAIN gradedOn
        /\ round + 1 # 0
    BY <2>1, LimitsAssumption DEF AuditInv, SealInv
  <2>3. coll' \in Collectors /\ coll'.round \in {0, round'} /\ (audited => coll'.round = round')
    BY <2>1, <2>2, FreshFacts DEF NoCollector
  <2>4. AuditInv'
    <3>1. ASSUME NEW i \in 1..Len(rows)
          PROVE  rows[i].round <= round + 1
      <4>1. rows[i] \in Rows
        BY DEF AuditInv
      <4>2. rows[i].round \in Nat
        BY <4>1, LimitsAssumption DEF Rows, LiveRows, FrozenRows
      <4> QED
        BY <2>2, <4>2 DEF AuditInv
    <3> QED
      BY <2>1, <2>2, <2>3, <3>1 DEF AuditInv, ToolStates, PermissionStates
  <2>5. Seals'
    BY <2>1 DEF SealInv, Seals
  <2> QED
    BY <2>1, <2>2, <2>3, <2>4, <2>5 DEF SealInv
<1>2. CASE Observing
  <2>1. /\ Observes /\ AuditInv' /\ UNCHANGED <<audited, round>>
        /\ UNCHANGED <<phase, kind, evidence, gradedOn>>
    BY <1>2, ObservingKeepsAudit DEF Observing
  <2>2. Seals'
    BY <2>1, SealsKept DEF SealInv
  <2>3. coll'.round = coll.round
    BY <2>1 DEF Observes
  <2> QED
    BY <2>1, <2>2, <2>3 DEF SealInv
<1>3. CASE Freeze
  BY <1>3, FreezeKeepsSeals
<1>4. CASE ReviewFailed \/ ReviewsDone \/ ScoreSingleCall \/ ScoreBatch \/ ScoreFinals \/ CallFails
  BY <1>4, JudgingDeliberates, DeliberatingSeals
<1>5. CASE Rejudge
  <2> DEFINE view == Read(rows, round)
  <2>1. /\ UNCHANGED <<audited, spent, round, tool, permission, edited, stream, blind, coll, rows>>
        /\ UNCHANGED gradedOn /\ kind' = "preview" /\ phase = "graded" /\ phase' = "reviewing"
        /\ evidence' = [a \in Agents |-> EvidenceOf(view, a)]
    BY <1>5 DEF Rejudge, StartReview, auditVars, world
  <2>2. AuditInv'
    BY <2>1 DEF AuditInv
  <2>3. Seals'
    BY <2>1 DEF SealInv, Seals
  <2>4. audited => round \in DOMAIN gradedOn
    BY <2>1 DEF SealInv
  <2>5. ASSUME audited
        PROVE  view.frozen /\ view.records = gradedOn[round]
    <3>1. SealedAs(rows, round, gradedOn[round])
      BY <2>4, <2>5 DEF SealInv, Seals
    <3> QED
      BY <3>1, SealReads
  <2> HIDE DEF view
  <2>6. audited => \A a \in Agents : evidence'[a].records = RecordsOf(gradedOn[round], a)
    BY <2>1, <2>5 DEF EvidenceOf
  <2> QED
    BY <2>1, <2>2, <2>3, <2>4, <2>6 DEF SealInv
<1>6. CASE Crash
  <2>1. /\ UNCHANGED <<audited, round, tool, permission, edited, blind, rows, gradedOn, kind, evidence>>
        /\ coll' = Fresh(0) /\ stream' = "up" /\ phase # "idle"
        /\ phase' = IF phase = "graded" \/ kind = "preview" THEN "graded" ELSE "failed"
        /\ Surprise(1)
    BY <1>6 DEF Crash, CollectorLost, NoCollector, world
  <2>2. coll' \in Collectors /\ coll'.round = 0
    BY <2>1, LimitsAssumption, FreshFacts
  <2>3. spent' \in 0..MaxSurprises
    BY <2>1, SurpriseBounded
  <2>4. AuditInv'
    BY <2>1, <2>2, <2>3 DEF AuditInv
  <2>5. Seals'
    BY <2>1 DEF SealInv, Seals
  <2>6. /\ phase' \in {"graded", "failed"} /\ (phase' = "failed" => kind = "original")
        /\ phase' = "graded" => phase \in {"reviewing", "scoring", "graded"}
    BY <2>1 DEF SealInv
  <2> QED
    BY <2>1, <2>4, <2>5, <2>6 DEF SealInv
<1>7. CASE UNCHANGED vars
  <2>1. UNCHANGED <<audited, spent, round, tool, permission, edited, stream, blind, coll, rows,
                    phase, kind, evidence, gradedOn>>
    BY <1>7 DEF vars, auditVars, world
  <2>2. AuditInv'
    BY <2>1 DEF AuditInv
  <2>3. Seals'
    BY <2>1 DEF SealInv, Seals
  <2> QED
    BY <2>1, <2>2, <2>3 DEF SealInv
<1> QED
  BY <1>1, <1>2, <1>3, <1>4, <1>5, <1>6, <1>7 DEF Next, Deciding

LEMMA InitSeals ==
    ASSUME Init
    PROVE  AuditInv /\ SealInv
<1>1. coll = Fresh(0) /\ 0 \in 0..MaxRounds /\ MaxSurprises \in Nat
  BY LimitsAssumption DEF Init, AuditInit, NoCollector
<1>2. coll \in Collectors /\ coll.round = 0
  BY <1>1, FreshFacts
<1>3. rows = <<>> /\ rows \in Seq(Rows) /\ Len(rows) = 0 /\ DOMAIN gradedOn = {}
  BY DEF Init, AuditInit, None
<1>4. AuditInv
  <2>1. audited \in BOOLEAN /\ spent = 0 /\ round = 0 /\ stream = "up" /\ blind = FALSE /\ edited = {}
    BY DEF Init, AuditInit
  <2>2. tool \in [Agents -> ToolStates] /\ permission \in [Agents -> PermissionStates]
    BY DEF Init, AuditInit, ToolStates, PermissionStates
  <2>3. coll \in Collectors /\ coll.round \in {0, round} /\ rows \in Seq(Rows)
    BY <1>2, <1>3
  <2>4. spent \in 0..MaxSurprises /\ round \in 0..MaxRounds
    BY <1>1, <2>1
  <2>5. \A i \in 1..Len(rows) : rows[i].round <= round
    <3>1. Len(rows) = 0
      BY <1>3
    <3> QED
      BY <3>1
  <2> QED
    BY <2>1, <2>2, <2>3, <2>4, <2>5 DEF AuditInv
<1>5. Seals
  BY <1>3 DEF Seals
<1> QED
  BY <1>3, <1>4, <1>5 DEF SealInv, Init

(* The audit keeps its shape, and what a judged round was judged by stays    *)
(* sealed in it.                                                             *)
THEOREM GradingIsSealed == Spec => [](AuditInv /\ SealInv)
<1>1. Init => AuditInv /\ SealInv
  BY InitSeals
<1>2. AuditInv /\ SealInv /\ [Next]_vars => (AuditInv /\ SealInv)'
  BY StepKeepsSeals
<1> QED
  BY <1>1, <1>2, PTL DEF Spec

(* What a round was judged by is what its audit shows ever after, under a    *)
(* digest that matches, and what it is judged by again.                      *)
THEOREM SealsHold == Spec => []SealedForGood
<1>1. AuditInv /\ SealInv => SealedForGood
  <2> SUFFICES ASSUME AuditInv, SealInv
               PROVE  SealedForGood
    OBVIOUS
  <2>1. ASSUME NEW r \in DOMAIN gradedOn
        PROVE  LET view == Read(rows, r)
               IN  view.frozen /\ DigestMatches(view) /\ view.records = gradedOn[r]
    <3>1. SealedAs(rows, r, gradedOn[r])
      BY DEF SealInv, Seals
    <3> QED
      BY <3>1, SealReads
  <2>2. phase \in {"reviewing", "scoring"} /\ audited =>
          \A a \in Agents : evidence[a].records = RecordsOf(gradedOn[round], a)
    BY DEF SealInv
  <2> QED
    BY <2>1, <2>2 DEF SealedForGood
<1> QED
  BY <1>1, GradingIsSealed, PTL

-----------------------------------------------------------------------------
(* Replies and what they are used for. *)

LEMMA OrdersFacts ==
    ASSUME NEW X, NEW s \in Seq(X), NEW byRef \in Orders(s)
    PROVE  /\ byRef \in Seq(X) /\ Len(byRef) = Len(s) /\ DOMAIN byRef = 1..Len(s)
           /\ \A ref \in DOMAIN byRef : byRef[ref] \in ToSet(s)
           /\ IsInjective(byRef)
<1>1. byRef \in [DOMAIN s -> ToSet(s)] /\ IsInjective(byRef)
  BY DEF Orders
<1>2. DOMAIN s = 1..Len(s) /\ Len(s) \in Nat /\ ToSet(s) \subseteq X
  BY ToSetTyped
<1> QED
  BY <1>1, <1>2

\* An agent is placed by the first entry that names a reference of its own.
LEMMA PlacedFacts ==
    ASSUME NEW reply, NEW byRef
    PROVE  /\ \A a : a \in DOMAIN Placed(reply, byRef) <=>
                    \E i \in Mentions(reply, byRef) : byRef[reply[i].ref] = a
           /\ \A a \in DOMAIN Placed(reply, byRef) :
                \E i \in Mentions(reply, byRef) :
                   Placed(reply, byRef)[a] = reply[i] /\ byRef[reply[i].ref] = a
           /\ \A i \in Mentions(reply, byRef) : i \in DOMAIN reply /\ reply[i].ref \in DOMAIN byRef
<1> DEFINE at == Mentions(reply, byRef)
           agents == {byRef[reply[i].ref] : i \in at}
           Of(a) == CHOOSE i \in at : byRef[reply[i].ref] = a
<1>1. Placed(reply, byRef) = [a \in agents |-> reply[Of(a)]]
  BY DEF Placed
<1>2. \A i \in at : i \in DOMAIN reply /\ reply[i].ref \in DOMAIN byRef
  BY DEF Mentions
<1> HIDE DEF at
<1>3. \A a \in agents : Of(a) \in at /\ byRef[reply[Of(a)].ref] = a
  OBVIOUS
<1> HIDE DEF agents, Of
<1>4. DOMAIN Placed(reply, byRef) = agents
  BY <1>1
<1>5. \A a \in agents : Placed(reply, byRef)[a] = reply[Of(a)]
  BY <1>1
<1> QED
  BY <1>2, <1>3, <1>4, <1>5 DEF agents, at

LEMMA PlacedAmong ==
    ASSUME NEW X, NEW s \in Seq(X), NEW byRef \in Orders(s), NEW reply
    PROVE  DOMAIN Placed(reply, byRef) \subseteq ToSet(s)
<1> DEFINE placed == Placed(reply, byRef)
<1>1. /\ \A a : a \in DOMAIN placed <=> \E i \in Mentions(reply, byRef) : byRef[reply[i].ref] = a
      /\ \A i \in Mentions(reply, byRef) : reply[i].ref \in DOMAIN byRef
  BY PlacedFacts
<1>2. \A ref \in DOMAIN byRef : byRef[ref] \in ToSet(s)
  BY OrdersFacts
<1> HIDE DEF placed
<1>3. DOMAIN placed \subseteq ToSet(s)
  BY <1>1, <1>2
<1> QED
  BY <1>3 DEF placed

LEMMA BatchesFacts ==
    ASSUME NEW X, NEW s \in Seq(X), NEW size \in Nat \ {0}
    PROVE  /\ Batches(s, size) \in Seq(Seq(X))
           /\ \A k \in 1..Len(Batches(s, size)) : ToSet(Batches(s, size)[k]) \subseteq ToSet(s)
<1> DEFINE n == (Len(s) + size - 1) \div size
           from(k) == (k - 1) * size + 1
           to(k) == IF k * size > Len(s) THEN Len(s) ELSE k * size
           all == Batches(s, size)
<1>1. Len(s) \in Nat /\ Len(s) + size - 1 \in Nat
  OBVIOUS
<1>2. n \in Nat
  BY <1>1
<1>3. all = [k \in 1..n |-> SubSeq(s, from(k), to(k))]
  BY DEF Batches
<1> HIDE DEF n, all
<1>4. ASSUME NEW k \in 1..n
      PROVE  SubSeq(s, from(k), to(k)) \in Seq(X) /\ ToSet(SubSeq(s, from(k), to(k))) \subseteq ToSet(s)
  <2>1. k \in Nat /\ k > 0
    BY <1>2
  <2>2. from(k) \in Nat /\ from(k) > 0
    <3>1. (k - 1) * size \in Nat
      BY <2>1
    <3> QED
      BY <3>1
  <2>3. to(k) \in Nat /\ to(k) <= Len(s)
    <3>1. k * size \in Nat
      BY <2>1
    <3> QED
      BY <1>1, <3>1
  <2> HIDE DEF from, to
  <2> QED
    BY <2>2, <2>3 DEF ToSet
<1> HIDE DEF from, to
<1>5. all \in Seq(Seq(X)) /\ Len(all) = n
  BY <1>2, <1>3, <1>4
<1>6. \A k \in 1..Len(all) : ToSet(all[k]) \subseteq ToSet(s)
  BY <1>3, <1>4, <1>5
<1> QED
  BY <1>5, <1>6 DEF all

-----------------------------------------------------------------------------
(* Reviews. *)

\* A review of agent a that says no more than the evidence.
Grounded(a, review) ==
    /\ review.cites \subseteq {a}
    /\ review.cites # {} => evidence[a].records # <<>>
    /\ review.status = "clear" =>
         /\ evidence[a].recorded
         /\ Coverage(evidence[a]) \subseteq review.limits \/ review.limits = {"its own"}

LEMMA AssessedGrounded ==
    ASSUME NEW entry, NEW a, NEW byRef, byRef[entry.ref] = a
    PROVE  Grounded(a, Assessed(entry, a, byRef))
<1> DEFINE ev == evidence[a]
           allowed == Citable(entry.ref, ev)
           raw == entry.review
           review == Normalize(raw, allowed, ev)
           cites == {byRef[ref] : ref \in review.cites \cap DOMAIN byRef}
           limits == IF raw.verbose THEN {"its own"} ELSE Coverage(ev)
           doubtful == \/ raw.status = "absent"
                       \/ raw.status = "flagged" /\ raw.findings = {}
                       \/ raw.status = "clear" /\ ~ev.recorded
<1>1. /\ review = Review(IF doubtful THEN "insufficient" ELSE raw.status,
                         raw.findings \cap allowed, limits)
      /\ Assessed(entry, a, byRef) = [review EXCEPT !.cites = cites]
  BY DEF Normalize, Assessed
<1> HIDE DEF limits, doubtful
<1>2. /\ Assessed(entry, a, byRef).cites = cites /\ Assessed(entry, a, byRef).limits = limits
      /\ Assessed(entry, a, byRef).status = IF doubtful THEN "insufficient" ELSE raw.status
      /\ review.cites = raw.findings \cap allowed
  BY <1>1 DEF Review
<1>3. allowed \subseteq {entry.ref} /\ (allowed # {} => ev.records # <<>>)
  BY DEF Citable
<1> HIDE DEF review, allowed
<1>4. cites \subseteq {a} /\ (cites # {} => ev.records # <<>>)
  BY <1>2, <1>3
<1>5. Assessed(entry, a, byRef).status = "clear" => ev.recorded
  BY <1>2 DEF doubtful
<1>6. limits = {"its own"} \/ Coverage(ev) \subseteq limits
  BY DEF limits
<1> QED
  BY <1>2, <1>4, <1>5, <1>6 DEF Grounded

LEMMA UnreviewedGrounded ==
    ASSUME NEW a
    PROVE  /\ Grounded(a, Unreviewed(evidence[a]))
           /\ Unreviewed(evidence[a]).status # "clear"
BY DEF Unreviewed, Review, Grounded

\* Every agent a reply places is assessed by its own evidence.
LEMMA PlacedGrounded ==
    ASSUME NEW reply, NEW byRef, NEW a \in DOMAIN Placed(reply, byRef)
    PROVE  Grounded(a, Assessed(Placed(reply, byRef)[a], a, byRef))
<1>1. \E i \in Mentions(reply, byRef) :
         Placed(reply, byRef)[a] = reply[i] /\ byRef[reply[i].ref] = a
  BY PlacedFacts
<1>2. byRef[Placed(reply, byRef)[a].ref] = a
  BY <1>1
<1> QED
  BY <1>2, AssessedGrounded

\* What a score may say of the agent it is for.
Fair(g) ==
    /\ Grounded(g.agent, g.review)
    /\ g.review.status = "clear" => g.how # "none" \/ status[g.agent] # "ok"

LEMMA EveryoneFacts ==
    ASSUME NEW S \in SUBSET Agents
    PROVE  /\ Among(Everyone, S) \in Seq(Agents) /\ IsInjective(Among(Everyone, S))
           /\ ToSet(Among(Everyone, S)) = S
<1>1. Cardinality(Agents) \in Nat /\ Agents = 1..Cardinality(Agents)
  BY AgentsAssumption, FS_CardinalityType
<1>2. /\ Everyone \in Seq(Agents) /\ IsInjective(Everyone) /\ DOMAIN Everyone = Agents
      /\ \A a \in Agents : Everyone[a] = a
  <2>1. Everyone \in [1..Cardinality(Agents) -> Agents]
    BY <1>1 DEF Everyone
  <2>2. Everyone \in Seq(Agents)
    BY <1>1, <2>1
  <2> QED
    BY <2>2 DEF Everyone, IsInjective
<1>3. ToSet(Everyone) = Agents
  BY <1>2 DEF ToSet
<1>4. /\ Among(Everyone, S) \in Seq(Agents) /\ ToSet(Among(Everyone, S)) = ToSet(Everyone) \cap S
      /\ IsInjective(Everyone) => IsInjective(Among(Everyone, S))
  <2>1. Everyone \in Seq(Agents)
    BY <1>2
  <2> QED
    BY <2>1, AmongFacts
<1> QED
  BY <1>2, <1>3, <1>4

LEMMA InputsFacts ==
    /\ Inputs \in Seq(Agents) /\ IsInjective(Inputs) /\ ToSet(Inputs) = Submitted(status)
    /\ Rest \in Seq(Agents) /\ IsInjective(Rest) /\ ToSet(Rest) = Agents \ Submitted(status)
BY EveryoneFacts DEF Inputs, Rest, Submitted

\* What the schema lets through.
Raws == [status : {"absent", "clear", "flagged"}, findings : SUBSET Nat, verbose : BOOLEAN]
Entries == [ref : Nat, rank : Nat, review : Raws]

LEMMA RemovedTyped ==
    ASSUME NEW X, NEW s \in Seq(X), NEW i \in 1..Len(s)
    PROVE  RemoveAt(s, i) \in Seq(X)
<1>1. SubSeq(s, 1, i - 1) \in Seq(X)
  OBVIOUS
<1>2. SubSeq(s, i + 1, Len(s)) \in Seq(X)
  OBVIOUS
<1> QED
  BY <1>1, <1>2 DEF RemoveAt

LEMMA EntriesChange ==
    ASSUME NEW s \in Seq(Entries), NEW i \in 1..Len(s)
    PROVE  /\ \A r \in Nat : [s EXCEPT ![i].ref = r] \in Seq(Entries)
           /\ \A r \in Nat : [s EXCEPT ![i].rank = r] \in Seq(Entries)
           /\ \A v \in Raws : [s EXCEPT ![i].review = v] \in Seq(Entries)
<1>1. \A e \in Entries : [s EXCEPT ![i] = e] \in Seq(Entries)
  OBVIOUS
<1>2. s[i] \in Entries
  OBVIOUS
<1>3. /\ \A r \in Nat : [s[i] EXCEPT !.ref = r] \in Entries
      /\ \A r \in Nat : [s[i] EXCEPT !.rank = r] \in Entries
      /\ \A v \in Raws : [s[i] EXCEPT !.review = v] \in Entries
  BY <1>2 DEF Entries
<1> QED
  BY <1>1, <1>3

LEMMA RepliesFacts ==
    ASSUME NEW n \in Nat, NEW odd \in BOOLEAN, NEW reply \in Replies(n, odd)
    PROVE  reply \in Seq(Entries)
<1>1. \A i \in Nat : Entry(i) \in Entries
  BY DEF Entry, Entries, Clear, Raws
<1>2. WellFormed(n) \in Seq(Entries) /\ Len(WellFormed(n)) = n
  BY <1>1 DEF WellFormed
<1>3. NumberedHigh(n) \in Seq(Entries) /\ Len(NumberedHigh(n)) = n
  <2>1. \A i \in Nat : [Entry(i) EXCEPT !.rank = UnrankedRank + i] \in Entries
    BY <1>1 DEF UnrankedRank, Entries
  <2> QED
    BY <2>1 DEF NumberedHigh
<1>4. ASSUME NEW i \in 1..n
      PROVE  OddReviews(i, n) \subseteq Raws
  <2>1. (i % n) + 1 \in Nat
    OBVIOUS
  <2>2. NoReview \in Raws /\ [Clear EXCEPT !.verbose = TRUE] \in Raws
    BY DEF NoReview, Clear, Raws
  <2>3. \A cited \in {{}, {i}, {0}, {(i % n) + 1}} :
           [status |-> "flagged", findings |-> cited, verbose |-> FALSE] \in Raws
    BY <2>1 DEF Raws
  <2> QED
    BY <2>2, <2>3 DEF OddReviews
<1>5. ASSUME NEW i \in 1..n
      PROVE  /\ RemoveAt(WellFormed(n), i) \in Seq(Entries)
             /\ RemoveAt(NumberedHigh(n), i) \in Seq(Entries)
             /\ \A r \in 0..n : [WellFormed(n) EXCEPT ![i].ref = r] \in Seq(Entries)
             /\ [WellFormed(n) EXCEPT ![i].rank = 1] \in Seq(Entries)
             /\ \A v \in OddReviews(i, n) : [WellFormed(n) EXCEPT ![i].review = v] \in Seq(Entries)
  <2>1. i \in 1..Len(WellFormed(n)) /\ i \in 1..Len(NumberedHigh(n))
    BY <1>2, <1>3
  <2>2. RemoveAt(WellFormed(n), i) \in Seq(Entries) /\ RemoveAt(NumberedHigh(n), i) \in Seq(Entries)
    BY <1>2, <1>3, <2>1, RemovedTyped
  <2>3. /\ \A r \in Nat : [WellFormed(n) EXCEPT ![i].ref = r] \in Seq(Entries)
        /\ \A r \in Nat : [WellFormed(n) EXCEPT ![i].rank = r] \in Seq(Entries)
        /\ \A v \in Raws : [WellFormed(n) EXCEPT ![i].review = v] \in Seq(Entries)
    <3> HIDE DEF WellFormed
    <3> QED
      BY <1>2, <2>1, EntriesChange
  <2>4. 1 \in Nat /\ \A r \in 0..n : r \in Nat
    OBVIOUS
  <2> QED
    BY <1>4, <2>2, <2>3, <2>4
<1>6. <<>> \in Seq(Entries)
  OBVIOUS
<1>7. OddReplies(n) \subseteq Seq(Entries)
  <2> DEFINE Missing == {RemoveAt(NumberedHigh(n), i) : i \in 1..n}
             Wrong(i) == {RemoveAt(WellFormed(n), i)} \cup
                         {[WellFormed(n) EXCEPT ![i].ref = r] : r \in (0..n) \ {i}} \cup
                         {[WellFormed(n) EXCEPT ![i].rank = 1]} \cup
                         {[WellFormed(n) EXCEPT ![i].review = v] : v \in OddReviews(i, n)}
  <2>1. OddReplies(n) = {<<>>} \cup Missing \cup UNION {Wrong(i) : i \in 1..n}
    BY DEF OddReplies
  <2>2. Missing \subseteq Seq(Entries)
    BY <1>5
  <2>3. ASSUME NEW i \in 1..n
        PROVE  Wrong(i) \subseteq Seq(Entries)
    <3>1. {[WellFormed(n) EXCEPT ![i].ref = r] : r \in (0..n) \ {i}} \subseteq Seq(Entries)
      BY <1>5
    <3>2. {[WellFormed(n) EXCEPT ![i].review = v] : v \in OddReviews(i, n)} \subseteq Seq(Entries)
      BY <1>5
    <3>3. {RemoveAt(WellFormed(n), i)} \cup {[WellFormed(n) EXCEPT ![i].rank = 1]}
            \subseteq Seq(Entries)
      BY <1>5
    <3> QED
      BY <3>1, <3>2, <3>3
  <2> HIDE DEF Missing, Wrong
  <2> QED
    BY <1>6, <2>1, <2>2, <2>3
<1> QED
  BY <1>2, <1>7 DEF Replies

\* A sequence without repetitions is as long as it has elements.
LEMMA InjectiveLength ==
    ASSUME NEW X, NEW t \in Seq(X), IsInjective(t)
    PROVE  Len(t) = Cardinality(ToSet(t))
<1> DEFINE N == Len(t)
           D == 1..N
<1>1. N \in Nat /\ DOMAIN t = D /\ t \in [D -> ToSet(t)]
  BY ToSetTyped DEF ToSet
<1>2. IsFiniteSet(D) /\ Cardinality(D) = N
  BY <1>1, FS_Interval
<1>3. \A x \in ToSet(t) : \E i \in D : t[i] = x
  BY ToSetTyped
<1> HIDE DEF D
<1>4. t \in Surjection(D, ToSet(t)) /\ t \in Injection(D, ToSet(t))
  BY <1>1, <1>3 DEF Surjection, Injection
<1> QED
  BY <1>2, <1>4, FS_Surjection

\* What stands in the first part of a sequence stands before the rest.
LEMMA FirstPart ==
    ASSUME NEW X, NEW s \in Seq(X), NEW t \in Seq(X), ToSet(s) \cap ToSet(t) = {}
    PROVE  \A i, j \in DOMAIN (s \o t) :
             i < j /\ (s \o t)[j] \in ToSet(s) => (s \o t)[i] \in ToSet(s)
<1> DEFINE m == Len(s)
           n == Len(t)
<1>1. /\ m \in Nat /\ n \in Nat /\ DOMAIN s = 1..m /\ DOMAIN t = 1..n
      /\ DOMAIN (s \o t) = 1..(m + n)
      /\ \A i \in 1..(m + n) : (s \o t)[i] = IF i <= m THEN s[i] ELSE t[i - m]
  OBVIOUS
<1> HIDE DEF m, n
<1> SUFFICES ASSUME NEW i \in 1..(m + n), NEW j \in 1..(m + n), i < j, (s \o t)[j] \in ToSet(s)
             PROVE  (s \o t)[i] \in ToSet(s)
  BY <1>1
<1>2. \A k \in 1..(m + n) : (k <= m /\ k \in 1..m) \/ (~(k <= m) /\ k - m \in 1..n)
  BY <1>1
<1>3. \A k \in 1..m : s[k] \in ToSet(s)
  BY <1>1 DEF ToSet
<1>4. \A k \in 1..n : t[k] \notin ToSet(s)
  BY <1>1 DEF ToSet
<1>5. j <= m
  BY <1>1, <1>2, <1>4
<1>6. i <= m
  BY <1>1, <1>5
<1> QED
  BY <1>1, <1>2, <1>3, <1>6

\* The agents a reply names, in its order: those it places, and no one twice.
LEMMA NamedFacts ==
    ASSUME NEW X, NEW byRef \in Seq(X), IsInjective(byRef), NEW reply \in Seq(Entries)
    PROVE  LET at == Among([i \in DOMAIN reply |-> i], Mentions(reply, byRef))
               named == [i \in DOMAIN at |-> byRef[reply[at[i]].ref]]
               placed == Placed(reply, byRef)
           IN  /\ named \in Seq(X) /\ IsInjective(named) /\ ToSet(named) = DOMAIN placed
               /\ \A a \in DOMAIN placed : Ranks(placed)[a] = placed[a].rank /\ placed[a].rank \in Nat
               /\ DOMAIN placed \subseteq ToSet(byRef)
               /\ Mentions(reply, byRef) # {} => DOMAIN placed # {}
<1> DEFINE places == [i \in DOMAIN reply |-> i]
           M == Mentions(reply, byRef)
           at == Among(places, M)
           named == [i \in DOMAIN at |-> byRef[reply[at[i]].ref]]
           placed == Placed(reply, byRef)
<1>1. /\ \A i \in M : i \in DOMAIN reply /\ reply[i].ref \in DOMAIN byRef
      /\ \A i, j \in M : reply[i].ref = reply[j].ref => i = j
  <2>1. \A i \in M : i \in DOMAIN reply /\ reply[i].ref \in DOMAIN byRef
    BY DEF Mentions
  <2>2. \A i \in M : \A j \in 1..(i - 1) : reply[j].ref # reply[i].ref
    BY DEF Mentions
  <2>3. \A i \in M : i \in Nat /\ i >= 1
    BY <2>1
  <2> HIDE DEF M
  <2>4. \A i, j \in M : i < j => i \in 1..(j - 1)
    BY <2>3
  <2>5. \A i, j \in M : i = j \/ i < j \/ j < i
    BY <2>3
  <2> QED
    BY <2>1, <2>2, <2>4, <2>5
<1>2. /\ places \in Seq(DOMAIN reply) /\ IsInjective(places) /\ ToSet(places) = DOMAIN reply
  <2>1. DOMAIN reply = 1..Len(reply) /\ Len(reply) \in Nat
    OBVIOUS
  <2>2. DOMAIN places = DOMAIN reply /\ \A i \in DOMAIN reply : places[i] = i
    OBVIOUS
  <2>3. places \in Seq(DOMAIN reply)
    BY <2>1
  <2> HIDE DEF places
  <2>4. IsInjective(places)
    BY <2>2 DEF IsInjective
  <2>5. ToSet(places) = {places[i] : i \in DOMAIN places}
    BY DEF ToSet
  <2> QED
    BY <2>2, <2>3, <2>4, <2>5
<1> HIDE DEF places, M
<1>3. at \in Seq(DOMAIN reply) /\ IsInjective(at) /\ ToSet(at) = M
  <2>1. at \in Seq(DOMAIN reply) /\ IsInjective(at) /\ ToSet(at) = DOMAIN reply \cap M
    BY <1>2, AmongFacts
  <2> QED
    BY <1>1, <2>1
<1> HIDE DEF at
<1>4. /\ DOMAIN at = 1..Len(at) /\ Len(at) \in Nat /\ \A i \in DOMAIN at : at[i] \in M
      /\ \A x \in M : \E i \in DOMAIN at : at[i] = x
  BY <1>3 DEF ToSet
<1>5. DOMAIN named = DOMAIN at /\ \A i \in DOMAIN at : named[i] = byRef[reply[at[i]].ref]
  OBVIOUS
<1>6. \A i \in DOMAIN at : named[i] \in X
  BY <1>1, <1>4, <1>5
<1>7. named \in Seq(X)
  BY <1>4, <1>5, <1>6
<1>8. /\ \A a : a \in DOMAIN placed <=> \E i \in M : byRef[reply[i].ref] = a
      /\ \A a \in DOMAIN placed : \E i \in M : placed[a] = reply[i]
  BY PlacedFacts DEF M
<1> HIDE DEF named, placed
<1>9. IsInjective(named)
  <2> SUFFICES ASSUME NEW i \in DOMAIN at, NEW j \in DOMAIN at, named[i] = named[j]
               PROVE  i = j
    BY <1>5 DEF IsInjective
  <2>1. reply[at[i]].ref = reply[at[j]].ref
    <3>1. /\ reply[at[i]].ref \in DOMAIN byRef /\ reply[at[j]].ref \in DOMAIN byRef
          /\ byRef[reply[at[i]].ref] = byRef[reply[at[j]].ref]
      BY <1>1, <1>4, <1>5
    <3> QED
      BY <3>1 DEF IsInjective
  <2>2. at[i] = at[j]
    BY <1>1, <1>4, <2>1
  <2> QED
    BY <1>3, <2>2 DEF IsInjective
<1>10. ToSet(named) = DOMAIN placed
  <2>1. \A a \in ToSet(named) : a \in DOMAIN placed
    BY <1>4, <1>5, <1>8 DEF ToSet
  <2>2. ASSUME NEW a \in DOMAIN placed
        PROVE  a \in ToSet(named)
    <3>1. PICK x \in M : byRef[reply[x].ref] = a
      BY <1>8
    <3>2. PICK i \in DOMAIN at : at[i] = x
      BY <1>4
    <3>3. i \in DOMAIN named /\ named[i] = a
      BY <1>5, <3>1, <3>2
    <3> QED
      BY <3>3 DEF ToSet
  <2> QED
    BY <2>1, <2>2
<1>11. \A a \in DOMAIN placed : Ranks(placed)[a] = placed[a].rank /\ placed[a].rank \in Nat
  <2>1. \A i \in DOMAIN reply : reply[i].rank \in Nat
    <3>1. \A e \in Entries : e.rank \in Nat
      BY DEF Entries
    <3> QED
      BY <3>1
  <2> QED
    BY <1>1, <1>8, <2>1 DEF Ranks
<1>12. DOMAIN placed \subseteq ToSet(byRef)
  <2>1. \A ref \in DOMAIN byRef : byRef[ref] \in ToSet(byRef)
    BY DEF ToSet
  <2> QED
    BY <1>1, <1>8, <2>1
<1>13. M # {} => DOMAIN placed # {}
  BY <1>8
<1> QED
  BY <1>7, <1>9, <1>10, <1>11, <1>12, <1>13 DEF named, at, M, places, placed

\* The order of a reply is of the agents shown, those it places first.
LEMMA DeanonymizeFacts ==
    ASSUME NEW X, NEW byRef \in Seq(X), IsInjective(byRef), NEW reply \in Seq(Entries)
    PROVE  LET order == Deanonymize(reply, byRef)
               placed == DOMAIN Placed(reply, byRef)
           IN  /\ order \in Seq(X) /\ IsInjective(order) /\ ToSet(order) = ToSet(byRef)
               /\ \A i, j \in DOMAIN order : i < j /\ order[j] \in placed => order[i] \in placed
               /\ Mentions(reply, byRef) # {} => Len(order) > 0 /\ order[1] \in placed
<1> DEFINE at == Among([i \in DOMAIN reply |-> i], Mentions(reply, byRef))
           named == [i \in DOMAIN at |-> byRef[reply[at[i]].ref]]
           placed == Placed(reply, byRef)
           first == SortedBy(named, Ranks(placed))
           last == Among(byRef, ToSet(byRef) \ DOMAIN placed)
           order == Deanonymize(reply, byRef)
<1>1. /\ named \in Seq(X) /\ IsInjective(named) /\ ToSet(named) = DOMAIN placed
      /\ \A a \in DOMAIN placed : Ranks(placed)[a] = placed[a].rank /\ placed[a].rank \in Nat
      /\ DOMAIN placed \subseteq ToSet(byRef)
      /\ Mentions(reply, byRef) # {} => DOMAIN placed # {}
  BY NamedFacts, Zenon
<1>2. order = first \o last
  BY DEF Deanonymize
<1> HIDE DEF named, placed
<1>3. first \in Seq(X) /\ IsInjective(first) /\ ToSet(first) = DOMAIN placed
  <2>1. \A i \in DOMAIN named : Ranks(placed)[named[i]] \in Nat
    BY <1>1 DEF ToSet
  <2> QED
    BY <1>1, <2>1, SortedFacts
<1>4. last \in Seq(X) /\ IsInjective(last) /\ ToSet(last) = ToSet(byRef) \ DOMAIN placed
  <2>1. last \in Seq(X) /\ IsInjective(last) /\ ToSet(last) = ToSet(byRef) \cap (ToSet(byRef) \ DOMAIN placed)
    BY AmongFacts
  <2> QED
    BY <2>1
<1> HIDE DEF first, last, order
<1>5. order \in Seq(X) /\ IsInjective(order) /\ ToSet(order) = ToSet(byRef)
  <2>1. ToSet(first) \cap ToSet(last) = {} /\ ToSet(first) \cup ToSet(last) = ToSet(byRef)
    BY <1>1, <1>3, <1>4
  <2>2. IsInjective(first \o last) /\ ToSet(first \o last) = ToSet(first) \cup ToSet(last)
    BY <1>3, <1>4, <2>1, ToSetConcat
  <2> QED
    BY <1>2, <1>3, <1>4, <2>1, <2>2
<1>6. \A i, j \in DOMAIN order : i < j /\ order[j] \in DOMAIN placed => order[i] \in DOMAIN placed
  <2>1. ToSet(first) \cap ToSet(last) = {}
    BY <1>3, <1>4
  <2>2. \A i, j \in DOMAIN (first \o last) :
           i < j /\ (first \o last)[j] \in ToSet(first) => (first \o last)[i] \in ToSet(first)
    BY <1>3, <1>4, <2>1, FirstPart
  <2> QED
    BY <1>2, <1>3, <2>2
<1>7. ASSUME Mentions(reply, byRef) # {}
      PROVE  Len(order) > 0 /\ order[1] \in DOMAIN placed
  <2>1. \E i \in 1..Len(first) : first[i] \in DOMAIN placed
    <3>1. PICK a \in DOMAIN placed : TRUE
      BY <1>1, <1>7
    <3>2. a \in ToSet(first)
      BY <1>3
    <3> QED
      BY <1>3, <3>2, ToSetTyped
  <2>2. Len(first) \in Nat /\ Len(first) > 0 /\ first[1] \in ToSet(first)
    BY <1>3, <2>1 DEF ToSet
  <2>3. Len(order) > 0 /\ order[1] = first[1]
    BY <1>2, <1>3, <1>4, <2>2
  <2> QED
    BY <1>3, <2>2, <2>3
<1> QED
  BY <1>5, <1>6, <1>7 DEF order, placed

LEMMA WinnerFacts ==
    ASSUME NEW X, NEW byRef \in Seq(X), IsInjective(byRef), NEW reply \in Seq(Entries)
    PROVE  /\ Winner(reply, byRef) \in Seq(X)
           /\ ToSet(Winner(reply, byRef)) \subseteq DOMAIN Placed(reply, byRef)
<1> DEFINE order == Deanonymize(reply, byRef)
           placed == DOMAIN Placed(reply, byRef)
<1>1. /\ order \in Seq(X)
      /\ Mentions(reply, byRef) # {} => Len(order) > 0 /\ order[1] \in placed
  BY DeanonymizeFacts, Zenon
<1>2. Winner(reply, byRef) = IF Mentions(reply, byRef) = {} THEN <<>> ELSE <<order[1]>>
  BY DEF Winner
<1> HIDE DEF order, placed
<1>3. CASE Mentions(reply, byRef) = {}
  <2>1. Winner(reply, byRef) = <<>>
    BY <1>2, <1>3
  <2> QED
    BY <2>1 DEF ToSet
<1>4. CASE Mentions(reply, byRef) # {}
  <2>1. Winner(reply, byRef) = <<order[1]>> /\ order[1] \in X /\ order[1] \in placed
    BY <1>1, <1>2, <1>4
  <2> QED
    BY <2>1 DEF ToSet, placed
<1> QED
  BY <1>3, <1>4

\* The final order is of the inputs.  Nobody stands behind an agent no batch ranked whom a
\* batch ranked above UnrankedRank.
LEMMA OrderedFacts ==
    ASSUME NEW X, NEW inputs \in Seq(X), IsInjective(inputs), NEW finals, NEW places,
           DOMAIN places \subseteq ToSet(inputs), DOMAIN finals \subseteq DOMAIN places,
           \A a \in DOMAIN places : places[a].rank \in Nat,
           \A a \in DOMAIN finals : finals[a].rank \in Nat
    PROVE  LET order == Ordered(inputs, finals, places)
           IN  /\ order \in Seq(X) /\ IsInjective(order) /\ ToSet(order) = ToSet(inputs)
               /\ \A i, j \in DOMAIN order :
                    i < j => \/ order[i] \in DOMAIN places
                             \/ order[j] \notin DOMAIN places
                             \/ places[order[j]].rank >= UnrankedRank
<1> DEFINE all == ToSet(inputs)
           byBatch == Extended(Ranks(places), [a \in ToSet(inputs) |-> UnrankedRank])
           in == Among(inputs, DOMAIN finals)
           out == Among(inputs, ToSet(inputs) \ DOMAIN finals)
           ahead == SortedBy(in, byBatch)
           first == SortedBy(ahead, Ranks(finals))
           last == SortedBy(out, byBatch)
           order == Ordered(inputs, finals, places)
<1>1. order = first \o last
  BY DEF Ordered
<1>2. /\ \A a \in DOMAIN places : byBatch[a] = places[a].rank
      /\ \A a \in all : a \notin DOMAIN places => byBatch[a] = UnrankedRank
      /\ \A a \in all : byBatch[a] \in Nat
  <2>1. DOMAIN Ranks(places) = DOMAIN places /\ \A a \in DOMAIN places : Ranks(places)[a] = places[a].rank
    BY DEF Ranks
  <2>2. UnrankedRank \in Nat
    BY DEF UnrankedRank
  <2> HIDE DEF UnrankedRank
  <2> QED
    BY <2>1, <2>2 DEF Extended
<1> HIDE DEF byBatch
<1>3. in \in Seq(X) /\ IsInjective(in) /\ ToSet(in) = DOMAIN finals
  <2>1. in \in Seq(X) /\ IsInjective(in) /\ ToSet(in) = ToSet(inputs) \cap DOMAIN finals
    BY AmongFacts
  <2> QED
    BY <2>1
<1>4. out \in Seq(X) /\ IsInjective(out) /\ ToSet(out) = all \ DOMAIN finals
  <2>1. /\ out \in Seq(X) /\ IsInjective(out)
        /\ ToSet(out) = ToSet(inputs) \cap (ToSet(inputs) \ DOMAIN finals)
    BY AmongFacts
  <2> QED
    BY <2>1
<1> HIDE DEF in, out
<1>5. ahead \in Seq(X) /\ IsInjective(ahead) /\ ToSet(ahead) = DOMAIN finals
  <2>1. \A i \in DOMAIN in : byBatch[in[i]] \in Nat
    <3>1. \A i \in DOMAIN in : in[i] \in ToSet(in)
      BY DEF ToSet
    <3> QED
      BY <1>2, <1>3, <3>1
  <2> QED
    BY <1>3, <2>1, SortedFacts
<1> HIDE DEF ahead
<1>6. first \in Seq(X) /\ IsInjective(first) /\ ToSet(first) = DOMAIN finals
  <2>1. \A i \in DOMAIN ahead : Ranks(finals)[ahead[i]] \in Nat
    <3>1. \A i \in DOMAIN ahead : ahead[i] \in ToSet(ahead)
      BY DEF ToSet
    <3> QED
      BY <1>5, <3>1 DEF Ranks
  <2> QED
    BY <1>5, <2>1, SortedFacts
<1>7. /\ last \in Seq(X) /\ IsInjective(last) /\ ToSet(last) = all \ DOMAIN finals
      /\ \A i, j \in DOMAIN last : i < j => byBatch[last[i]] <= byBatch[last[j]]
  <2>1. \A i \in DOMAIN out : byBatch[out[i]] \in Nat
    <3>1. \A i \in DOMAIN out : out[i] \in ToSet(out)
      BY DEF ToSet
    <3> QED
      BY <1>2, <1>4, <3>1
  <2> QED
    BY <1>4, <2>1, SortedFacts
<1> HIDE DEF first, last, order
<1>8. order \in Seq(X) /\ IsInjective(order) /\ ToSet(order) = all
  <2>1. ToSet(first) \cap ToSet(last) = {} /\ ToSet(first) \cup ToSet(last) = all
    BY <1>6, <1>7
  <2>2. IsInjective(first \o last) /\ ToSet(first \o last) = ToSet(first) \cup ToSet(last)
    BY <1>6, <1>7, <2>1, ToSetConcat
  <2> QED
    BY <1>1, <1>6, <1>7, <2>1, <2>2
<1>9. ASSUME NEW i \in DOMAIN order, NEW j \in DOMAIN order, i < j,
             order[i] \notin DOMAIN places, order[j] \in DOMAIN places
      PROVE  places[order[j]].rank >= UnrankedRank
  <2> DEFINE m == Len(first)
             n == Len(last)
  <2>1. /\ m \in Nat /\ n \in Nat /\ DOMAIN first = 1..m /\ DOMAIN last = 1..n
        /\ DOMAIN order = 1..(m + n)
        /\ \A k \in 1..(m + n) : order[k] = IF k <= m THEN first[k] ELSE last[k - m]
    BY <1>1, <1>6, <1>7
  <2> HIDE DEF m, n
  <2>2. ~(i <= m)
    <3> SUFFICES ASSUME i <= m
                 PROVE  FALSE
      OBVIOUS
    <3>1. i \in 1..m /\ order[i] = first[i]
      BY <1>9, <2>1
    <3>2. first[i] \in DOMAIN finals
      BY <1>6, <2>1, <3>1 DEF ToSet
    <3> QED
      BY <1>9, <3>1, <3>2
  <2>3. /\ i - m \in 1..n /\ j - m \in 1..n /\ i - m < j - m
        /\ order[i] = last[i - m] /\ order[j] = last[j - m]
    BY <1>9, <2>1, <2>2
  <2>4. byBatch[order[i]] <= byBatch[order[j]]
    BY <1>7, <2>1, <2>3
  <2>5. byBatch[order[i]] = UnrankedRank
    <3>1. order[i] \in all
      BY <1>8, <1>9 DEF ToSet
    <3> QED
      BY <1>2, <1>9, <3>1
  <2>6. byBatch[order[j]] = places[order[j]].rank /\ places[order[j]].rank \in Nat
    BY <1>2, <1>9
  <2> QED
    BY <2>4, <2>5, <2>6 DEF UnrankedRank
<1> QED
  BY <1>8, <1>9 DEF order

LEMMA Concatenated ==
    ASSUME NEW X, NEW s \in Seq(X), NEW t \in Seq(X)
    PROVE  /\ s \o t \in Seq(X) /\ Len(s \o t) = Len(s) + Len(t)
           /\ \A i \in 1..(Len(s) + Len(t)) :
                (s \o t)[i] = IF i <= Len(s) THEN s[i] ELSE t[i - Len(s)]
OBVIOUS

FailedScores == {FailedScore(a) : a \in Agents}
Completes(v, scores, Z) ==
    /\ v \in Seq(Z \cup FailedScores) /\ Len(v) = Cardinality(Agents)
    /\ \A x : x \in Agents <=> \E i \in 1..Len(v) : v[i].agent = x
    /\ \A i \in 1..Len(v) :
         \/ i <= Len(scores) /\ v[i] = scores[i]
         \/ i > Len(scores) /\ \E a \in Agents : status[a] # "ok" /\ v[i] = FailedScore(a)

\* Scores of what was submitted, the failed ones behind them, are of every agent once.
LEMMA AppendedFacts ==
    ASSUME NEW order \in Seq(Agents), IsInjective(order), ToSet(order) = Submitted(status),
           NEW Z, NEW scores \in Seq(Z), Len(scores) = Len(order),
           \A i \in 1..Len(order) : scores[i].agent = order[i]
    PROVE  Completes(Appended(scores), scores, Z)
<1> DEFINE Y == Z \cup FailedScores
           failed == [i \in DOMAIN Rest |-> FailedScore(Rest[i])]
           v == Appended(scores)
           names == order \o Rest
           m == Len(order)
           n == Len(Rest)
<1>1. /\ Rest \in Seq(Agents) /\ IsInjective(Rest) /\ ToSet(Rest) = Agents \ Submitted(status)
      /\ ToSet(order) \subseteq Agents
  BY InputsFacts, ToSetTyped
<1> HIDE DEF Rest
<1>2. /\ m \in Nat /\ n \in Nat /\ DOMAIN Rest = 1..n /\ DOMAIN order = 1..m
      /\ \A i \in 1..n : Rest[i] \in Agents /\ status[Rest[i]] # "ok"
  <2>1. \A i \in 1..n : Rest[i] \in ToSet(Rest)
    BY <1>1, ToSetTyped
  <2>2. \A i \in 1..n : Rest[i] \in Agents /\ status[Rest[i]] # "ok"
    BY <1>1, <2>1 DEF Submitted
  <2> QED
    BY <1>1, <2>2
<1>3. v = scores \o failed
  BY DEF Appended, Rest
<1>4. failed \in Seq(Y) /\ Len(failed) = n /\ \A i \in 1..n : failed[i] = FailedScore(Rest[i])
  <2>1. \A i \in 1..n : FailedScore(Rest[i]) \in Y
    BY <1>2 DEF FailedScores
  <2> HIDE DEF Y
  <2> QED
    BY <1>2, <2>1
<1>5. scores \in Seq(Y)
  OBVIOUS
<1> HIDE DEF Y, failed, v, n
<1>6. /\ v \in Seq(Y) /\ Len(v) = m + n
      /\ \A i \in 1..(m + n) : v[i] = IF i <= m THEN scores[i] ELSE failed[i - m]
  <2>1. Len(scores) = m
    OBVIOUS
  <2> HIDE DEF m
  <2>2. failed \in Seq(Y) /\ Len(failed) = n
    BY <1>4
  <2>3. /\ scores \o failed \in Seq(Y) /\ Len(scores \o failed) = Len(scores) + Len(failed)
        /\ \A i \in 1..(Len(scores) + Len(failed)) :
             (scores \o failed)[i] = IF i <= Len(scores) THEN scores[i]
                                     ELSE failed[i - Len(scores)]
    BY <1>5, <2>2, Concatenated
  <2> QED
    BY <1>3, <2>1, <2>2, <2>3
<1>7. /\ names \in Seq(Agents) /\ Len(names) = m + n
      /\ \A i \in 1..(m + n) : names[i] = IF i <= m THEN order[i] ELSE Rest[i - m]
  BY <1>1, <1>2 DEF n
<1>8. IsInjective(names) /\ ToSet(names) = Agents
  <2>1. ToSet(order) \cap ToSet(Rest) = {} /\ ToSet(order) \cup ToSet(Rest) = Agents
    BY <1>1
  <2>2. names = order \o Rest
    OBVIOUS
  <2>3. order \in Seq(Agents) /\ Rest \in Seq(Agents) /\ IsInjective(order) /\ IsInjective(Rest)
    BY <1>1
  <2>4. /\ ToSet(order \o Rest) = ToSet(order) \cup ToSet(Rest)
        /\ IsInjective(order) /\ IsInjective(Rest) /\ ToSet(order) \cap ToSet(Rest) = {}
             => IsInjective(order \o Rest)
    BY <2>3, ToSetConcat, Zenon
  <2> QED
    BY <2>1, <2>2, <2>3, <2>4
<1> HIDE DEF m, names
<1>9. m + n = Cardinality(Agents)
  BY <1>7, <1>8, InjectiveLength
<1>10. \A i \in 1..(m + n) : (i <= m /\ i \in 1..m) \/ (i > m /\ ~(i <= m) /\ i - m \in 1..n)
  BY <1>2
<1>11. \A a : FailedScore(a).agent = a
  BY DEF FailedScore, Graded
<1>12. \A i \in 1..(m + n) : v[i].agent = names[i]
  <2> SUFFICES ASSUME NEW i \in 1..(m + n)
               PROVE  v[i].agent = names[i]
    OBVIOUS
  <2>1. CASE i <= m
    BY <1>6, <1>7, <1>10, <2>1 DEF m
  <2>2. CASE ~(i <= m)
    <3>1. v[i] = FailedScore(Rest[i - m]) /\ names[i] = Rest[i - m]
      BY <1>4, <1>6, <1>7, <1>10, <2>2
    <3> QED
      BY <1>11, <3>1
  <2> QED
    BY <2>1, <2>2
<1>13. \A x : x \in Agents <=> \E i \in 1..(m + n) : v[i].agent = x
  <2>1. \A x : x \in ToSet(names) <=> \E i \in 1..Len(names) : names[i] = x
    <3>1. names \in Seq(Agents)
      BY <1>7
    <3> QED
      BY <3>1, ToSetTyped, Zenon
  <2>2. \A x : x \in ToSet(names) <=> \E i \in 1..(m + n) : names[i] = x
    BY <1>7, <2>1
  <2> QED
    BY <1>8, <1>12, <2>2
<1>14. ASSUME NEW i \in 1..(m + n)
       PROVE  \/ i <= m /\ v[i] = scores[i]
              \/ i > m /\ \E a \in Agents : status[a] # "ok" /\ v[i] = FailedScore(a)
  <2>1. CASE i <= m
    BY <1>6, <2>1
  <2>2. CASE ~(i <= m)
    <3>1. i > m /\ i - m \in 1..n /\ v[i] = FailedScore(Rest[i - m])
      BY <1>4, <1>6, <1>10, <2>2
    <3> HIDE DEF FailedScore
    <3> QED
      BY <1>2, <3>1
  <2> QED
    BY <2>1, <2>2
<1>15. Len(scores) = m
  BY DEF m
<1> HIDE DEF FailedScore
<1>16. \A i \in 1..Len(v) : \/ i <= Len(scores) /\ v[i] = scores[i]
                            \/ /\ i > Len(scores)
                               /\ \E a \in Agents : status[a] # "ok" /\ v[i] = FailedScore(a)
  BY <1>6, <1>14, <1>15
<1> QED
  BY <1>6, <1>9, <1>13, <1>16 DEF v, Y, Completes

-----------------------------------------------------------------------------
(* What is asked of the model, and what comes of it. *)

\* A group of agents that may be asked about at this point.
Askable(s) ==
    /\ phase = "reviewing" => ToSet(s) \subseteq Agents \ Submitted(status)
    /\ phase = "scoring" => ToSet(s) \subseteq Submitted(status)

Settling ==
    /\ setting \in Settings /\ status \in [Agents -> {"ok", "failed"}]
    /\ \A a : a \in DOMAIN evidence <=> a \in Agents

Working ==
    /\ mode \in {"none", "single_call", "batched_finals"} /\ attempt \in 0..(Attempts - 1)
    /\ todo \in Seq(Seq(Agents)) /\ \A k \in 1..Len(todo) : Askable(todo[k])
    /\ \A a \in DOMAIN reviews : a \in Agents \ Submitted(status) /\ Grounded(a, reviews[a])
    /\ \A a \in DOMAIN placings : /\ a \in Submitted(status) /\ placings[a].rank \in Nat
                                  /\ Grounded(a, placings[a].review)
    /\ winners \in Seq(Agents) /\ ToSet(winners) \subseteq DOMAIN placings

Judged ==
    /\ phase # "graded" => verdict = None
    /\ VerdictIsWhole
    /\ \A g \in ToSet(verdict) : Fair(g)

JudgeInv == Settling /\ Working /\ Judged

LEMMA NothingAskedWorks == NothingAsked => Working'
<1> SUFFICES ASSUME NothingAsked
             PROVE  Working'
  OBVIOUS
<1>1. /\ mode' = "none" /\ attempt' = 0 /\ todo' = <<>> /\ reviews' = <<>> /\ placings' = <<>>
      /\ winners' = <<>>
  BY DEF NothingAsked, None
<1>2. ToSet(winners') = {} /\ DOMAIN reviews' = {} /\ DOMAIN placings' = {}
  BY <1>1 DEF ToSet
<1> QED
  BY <1>1, <1>2 DEF Working, Attempts

LEMMA NoVerdict == verdict' = None => Judged'
<1> SUFFICES ASSUME verdict' = None
             PROVE  Judged'
  OBVIOUS
<1>1. ToSet(verdict') = {}
  BY DEF None, ToSet
<1> QED
  BY <1>1 DEF Judged, VerdictIsWhole

\* The verdict stands while nothing it depends on changes.
LEMMA JudgedStands ==
    ASSUME Judged, UNCHANGED <<verdict, status, evidence>>,
           phase' = phase \/ phase' = "graded" \/ verdict = None
    PROVE  Judged'
BY DEF Judged, VerdictIsWhole, Standing, Fair, Grounded

LEMMA WorkStands ==
    ASSUME Working, UNCHANGED <<phase, status, evidence, judgeVars>>
    PROVE  Working'
BY DEF Working, Askable, Submitted, Grounded, judgeVars

\* Scores of the inputs, best first, become the verdict.
LEMMA FinishJudges ==
    ASSUME JudgeInv, NEW order \in Seq(Agents), IsInjective(order),
           ToSet(order) = Submitted(status),
           NEW Z, NEW scores \in Seq(Z), Len(scores) = Len(order),
           \A i \in 1..Len(order) : scores[i].agent = order[i] /\ Fair(scores[i]),
           \A i, j \in 1..Len(order) :
             i < j => \/ scores[i].how # "none" \/ scores[j].how = "none"
                      \/ scores[j].rank >= UnrankedRank,
           Finish(scores), UNCHANGED <<status, evidence>>
    PROVE  Judged'
<1> DEFINE v == Appended(scores)
           m == Len(order)
<1>1. /\ v \in Seq(Z \cup FailedScores)
      /\ Len(v) = Cardinality(Agents)
      /\ \A x : x \in Agents <=> \E i \in 1..Len(v) : v[i].agent = x
      /\ \A i \in 1..Len(v) :
           \/ i <= Len(scores) /\ v[i] = scores[i]
           \/ /\ i > Len(scores)
              /\ \E a \in Agents : status[a] # "ok" /\ v[i] = FailedScore(a)
  <2>1. \A i \in 1..Len(order) : scores[i].agent = order[i]
    OBVIOUS
  <2>2. /\ order \in Seq(Agents) /\ IsInjective(order) /\ ToSet(order) = Submitted(status)
        /\ scores \in Seq(Z) /\ Len(scores) = Len(order)
    OBVIOUS
  <2>3. Completes(v, scores, Z)
    BY <2>1, <2>2, AppendedFacts
  <2> HIDE DEF v, m
  <2> QED
    BY <2>3 DEF Completes
<1>2. verdict' = v /\ phase' = "graded"
  BY DEF Finish
<1> HIDE DEF v
<1>3. /\ m \in Nat /\ Len(v) \in Nat /\ DOMAIN v = 1..Len(v) /\ Len(scores) = m
      /\ \A i \in 1..m : status[order[i]] = "ok"
  <2>1. \A i \in 1..m : order[i] \in ToSet(order)
    BY ToSetTyped
  <2>2. \A i \in 1..m : status[order[i]] = "ok"
    BY <2>1 DEF Submitted
  <2> QED
    BY <1>1, <2>2
<1>4. ASSUME NEW i \in 1..Len(v), i <= m
      PROVE  /\ i \in 1..m /\ v[i] = scores[i] /\ Fair(v[i])
             /\ v[i].how # "none" => Standing(v[i]) = 1
             /\ v[i].how = "none" => Standing(v[i]) = 2
  <2>1. i \in 1..m /\ v[i] = scores[i]
    BY <1>1, <1>3, <1>4
  <2>2. v[i].agent = order[i] /\ Fair(v[i]) /\ status[v[i].agent] = "ok"
    BY <1>3, <2>1
  <2> QED
    BY <2>1, <2>2 DEF Standing
<1>5. ASSUME NEW i \in 1..Len(v), ~(i <= m)
      PROVE  Fair(v[i]) /\ Standing(v[i]) = 3
  <2>1. PICK a \in Agents : status[a] # "ok" /\ v[i] = FailedScore(a)
    BY <1>1, <1>3, <1>5
  <2>2. /\ v[i].agent = a /\ v[i].how = "none"
        /\ v[i].review = IF a \in DOMAIN reviews THEN reviews[a] ELSE Unreviewed(evidence[a])
    BY <2>1 DEF FailedScore, Graded
  <2>3. Grounded(a, v[i].review)
    BY <2>2, UnreviewedGrounded DEF JudgeInv, Working
  <2> QED
    BY <2>1, <2>2, <2>3 DEF Fair, Standing
<1> HIDE DEF m
<1>6. ASSUME NEW g \in ToSet(verdict')
      PROVE  Fair(g)'
  <2>1. PICK i \in 1..Len(v) : g = v[i]
    BY <1>2, <1>3 DEF ToSet
  <2>2. Fair(g)
    BY <1>4, <1>5, <2>1
  <2> QED
    BY <2>2 DEF Fair, Grounded
<1>7. ASSUME NEW i \in 1..Len(v), NEW j \in 1..Len(v), i < j
      PROVE  \/ Standing(v[i]) <= Standing(v[j])
             \/ Standing(v[i]) = 2 /\ v[j].rank >= UnrankedRank
  <2>1. CASE i <= m /\ j <= m
    <3>1. v[i].how # "none" \/ v[j].how = "none" \/ v[j].rank >= UnrankedRank
      BY <1>4, <1>7, <2>1 DEF m
    <3> QED
      BY <1>4, <2>1, <3>1
  <2>2. CASE i <= m /\ ~(j <= m)
    BY <1>4, <1>5, <2>2
  <2>3. CASE ~(i <= m)
    <3>1. ~(j <= m)
      BY <1>3, <1>7, <2>3
    <3> QED
      BY <1>5, <2>3, <3>1
  <2> QED
    BY <2>1, <2>2, <2>3
<1>8. VerdictIsWhole'
  <2>1. Len(verdict') = Cardinality(Agents)
    BY <1>1, <1>2
  <2>2. {g.agent : g \in ToSet(verdict')} = Agents
    <3>1. ASSUME NEW x \in Agents
          PROVE  \E g \in ToSet(v) : g.agent = x
      <4>1. PICK i \in 1..Len(v) : v[i].agent = x
        BY <1>1
      <4>2. v[i] \in ToSet(v)
        BY <1>3 DEF ToSet
      <4> QED
        BY <4>1, <4>2
    <3>2. \A g \in ToSet(v) : g.agent \in Agents
      BY <1>1, <1>3 DEF ToSet
    <3> QED
      BY <1>2, <3>1, <3>2
  <2>3. ASSUME NEW i \in DOMAIN verdict', NEW j \in DOMAIN verdict', i < j
        PROVE  \/ Standing(verdict[i])' <= Standing(verdict[j])'
               \/ Standing(verdict[i])' = 2 /\ verdict'[j].rank >= UnrankedRank
    <3>1. /\ Standing(verdict[i])' = Standing(v[i]) /\ Standing(verdict[j])' = Standing(v[j])
          /\ verdict'[j] = v[j]
      BY <1>2 DEF Standing
    <3>2. i \in 1..Len(v) /\ j \in 1..Len(v)
      BY <1>2, <1>3
    <3> QED
      BY <1>7, <2>3, <3>1, <3>2
  <2> QED
    BY <2>1, <2>2, <2>3 DEF VerdictIsWhole
<1> QED
  BY <1>2, <1>6, <1>8 DEF Judged

LEMMA AskedFacts ==
    ASSUME NEW s \in Seq(Agents), NEW odd \in BOOLEAN, NEW byRef \in Orders(s),
           NEW reply \in Replies(Len(s), odd)
    PROVE  /\ byRef \in Seq(Agents) /\ IsInjective(byRef)
           /\ IsInjective(s) => ToSet(byRef) = ToSet(s)
           /\ reply \in Seq(Entries)
           /\ \A a \in DOMAIN Placed(reply, byRef) :
                a \in ToSet(s) /\ Placed(reply, byRef)[a].rank \in Nat
<1>1. /\ byRef \in Seq(Agents) /\ Len(byRef) = Len(s) /\ DOMAIN byRef = 1..Len(s)
      /\ \A ref \in DOMAIN byRef : byRef[ref] \in ToSet(s)
      /\ IsInjective(byRef)
  BY OrdersFacts
<1>2. reply \in Seq(Entries)
  BY RepliesFacts
<1>3. ASSUME IsInjective(s)
      PROVE  ToSet(byRef) = ToSet(s)
  <2>1. Cardinality(ToSet(byRef)) = Len(s) /\ Cardinality(ToSet(s)) = Len(s)
    BY <1>1, <1>3, InjectiveLength
  <2>2. ToSet(byRef) \in SUBSET ToSet(s)
    BY <1>1 DEF ToSet
  <2>3. IsFiniteSet(ToSet(s))
    <3>1. IsFiniteSet(Agents) /\ ToSet(s) \subseteq Agents
      BY AgentsAssumption, ToSetTyped
    <3> QED
      BY <3>1, FS_Subset
  <2> QED
    BY <2>1, <2>2, <2>3, FS_Subset
<1>4. \A a \in DOMAIN Placed(reply, byRef) : a \in ToSet(s)
  BY PlacedAmong
<1>5. \A a \in DOMAIN Placed(reply, byRef) : Placed(reply, byRef)[a].rank \in Nat
  BY <1>1, <1>2, NamedFacts
<1> QED
  BY <1>1, <1>2, <1>3, <1>4, <1>5

\* What is put to the model once a review begins is of attempts with nothing to grade.
LEMMA ReviewBegins ==
    ASSUME NEW st \in [Agents -> {"ok", "failed"}], NEW ev, StartReview(st, ev)
    PROVE  Working' /\ status' \in [Agents -> {"ok", "failed"}] /\ evidence' = ev
<1> DEFINE group == {a \in Agents \ Submitted(st) : ev[a].recorded}
           s == Among(Everyone, group)
<1>1. /\ status' = st /\ evidence' = ev /\ phase' = "reviewing"
      /\ mode' = "none" /\ attempt' = 0 /\ reviews' = <<>> /\ placings' = <<>> /\ winners' = <<>>
      /\ todo' = Batches(s, ReviewBatch)
  BY DEF StartReview, None, Chunked
<1>2. s \in Seq(Agents) /\ ToSet(s) \subseteq Agents \ Submitted(st)
  <2>1. group \in SUBSET Agents
    OBVIOUS
  <2>2. s \in Seq(Agents) /\ ToSet(s) = group
    BY <2>1, EveryoneFacts
  <2> QED
    BY <2>2
<1>3. ReviewBatch \in Nat \ {0}
  BY JudgeAssumption
<1> HIDE DEF s
<1>4. /\ todo' \in Seq(Seq(Agents))
      /\ \A k \in 1..Len(todo') : ToSet(todo'[k]) \subseteq Agents \ Submitted(st)
  <2>1. /\ Batches(s, ReviewBatch) \in Seq(Seq(Agents))
        /\ \A k \in 1..Len(Batches(s, ReviewBatch)) :
             ToSet(Batches(s, ReviewBatch)[k]) \subseteq ToSet(s)
    BY <1>2, <1>3, BatchesFacts
  <2> QED
    BY <1>1, <1>2, <2>1
<1>5. \A k \in 1..Len(todo') : Askable(todo[k])'
  BY <1>1, <1>4 DEF Askable
<1>6. ToSet(winners') = {} /\ DOMAIN reviews' = {} /\ DOMAIN placings' = {}
  BY <1>1 DEF ToSet
<1> QED
  BY <1>1, <1>4, <1>5, <1>6 DEF Working, Attempts

\* What is put to the model to be ranked is of submissions.
LEMMA RankedGroups ==
    ASSUME Settling, NEW groups,
           groups = <<Inputs>> \/ groups = Batches(Inputs, setting.batchSize)
    PROVE  /\ groups \in Seq(Seq(Agents))
           /\ \A k \in 1..Len(groups) : ToSet(groups[k]) \subseteq Submitted(status)
<1>1. Inputs \in Seq(Agents) /\ ToSet(Inputs) = Submitted(status)
  BY InputsFacts
<1> HIDE DEF Inputs
<1>2. setting.batchSize \in Nat \ {0}
  BY JudgeAssumption DEF Settling
<1>3. CASE groups = <<Inputs>>
  BY <1>1, <1>3
<1>4. CASE groups = Batches(Inputs, setting.batchSize)
  BY <1>1, <1>2, <1>4, BatchesFacts
<1> QED
  BY <1>3, <1>4

LEMMA StrategyBegins ==
    ASSUME JudgeInv, NEW strategy \in {"single_call", "batched_finals"}, Rank(strategy),
           UNCHANGED <<setting, kind, status, evidence>>, phase # "graded"
    PROVE  JudgeInv'
<1>1. /\ mode' = strategy /\ attempt' = 0 /\ placings' = <<>> /\ winners' = <<>>
      /\ phase' = "scoring" /\ reviews' = reviews /\ verdict' = verdict
      /\ todo' = <<Inputs>> \/ todo' = Batches(Inputs, setting.batchSize)
  BY DEF Rank, None
<1>2. /\ todo' \in Seq(Seq(Agents))
      /\ \A k \in 1..Len(todo') : ToSet(todo'[k]) \subseteq Submitted(status)
  BY <1>1, RankedGroups DEF JudgeInv
<1>3. Submitted(status)' = Submitted(status)
  BY DEF Submitted
<1>4. \A k \in 1..Len(todo') : Askable(todo[k])'
  BY <1>1, <1>2, <1>3 DEF Askable
<1>5. \A a \in DOMAIN reviews' : a \in Agents \ Submitted(status)' /\ Grounded(a, reviews[a])'
  BY <1>1, <1>3 DEF JudgeInv, Working, Grounded
<1>6. ToSet(winners') = {} /\ DOMAIN placings' = {}
  BY <1>1 DEF ToSet
<1>7. Working'
  BY <1>1, <1>2, <1>3, <1>4, <1>5, <1>6 DEF Working, Attempts
<1>8. Settling'
  BY DEF JudgeInv, Settling
<1>9. Judged'
  BY <1>1, NoVerdict DEF JudgeInv, Judged
<1> QED
  BY <1>7, <1>8, <1>9 DEF JudgeInv

LEMMA StartRoundJudges ==
    ASSUME JudgeInv, StartRound
    PROVE  JudgeInv'
<1>1. /\ NothingAsked /\ verdict' = None /\ setting' = setting
      /\ status' = [a \in Agents |-> "ok"] /\ evidence' = NoEvidence
  BY DEF StartRound
<1>2. Settling'
  BY <1>1 DEF JudgeInv, Settling, NoEvidence
<1> QED
  BY <1>1, <1>2, NothingAskedWorks, NoVerdict DEF JudgeInv

LEMMA FreezeJudges ==
    ASSUME JudgeInv, Freeze
    PROVE  JudgeInv'
<1>1. \E st \in [Agents -> {"ok", "failed"}] : \E ev :
         StartReview(st, ev) /\ \A a : a \in DOMAIN ev <=> a \in Agents
  <2> DEFINE Given(capture, lost) ==
               [a \in Agents |-> EvidenceOf(Read(SealBook(Book, capture, lost).rows, round), a)]
  <2>1. PICK st \in [Agents -> {"ok", "failed"}] :
          StartReview(st, NoEvidence) \/ \E capture, lost : StartReview(st, Given(capture, lost))
    BY DEF Freeze
  <2>2. \A a : a \in DOMAIN NoEvidence <=> a \in Agents
    BY DEF NoEvidence
  <2>3. \A capture, lost, a : a \in DOMAIN Given(capture, lost) <=> a \in Agents
    OBVIOUS
  <2> HIDE DEF Given
  <2> QED
    BY <2>1, <2>2, <2>3
<1>2. PICK st \in [Agents -> {"ok", "failed"}] : \E ev :
         StartReview(st, ev) /\ \A a : a \in DOMAIN ev <=> a \in Agents
  BY <1>1
<1>3. PICK ev : StartReview(st, ev) /\ \A a : a \in DOMAIN ev <=> a \in Agents
  BY <1>2
<1>4. /\ phase = "collecting" /\ setting' = setting /\ verdict' = verdict
  BY DEF Freeze
<1>5. verdict' = None
  BY <1>4 DEF JudgeInv, Judged
<1>6. Settling' /\ Working'
  BY <1>4, <1>3, ReviewBegins DEF JudgeInv, Settling
<1> QED
  BY <1>5, <1>6, NoVerdict DEF JudgeInv

LEMMA RejudgeJudges ==
    ASSUME JudgeInv, Rejudge
    PROVE  JudgeInv'
<1> DEFINE ev == [a \in Agents |-> EvidenceOf(Read(rows, round), a)]
<1>1. verdict' = None /\ setting' = setting /\ StartReview(status, ev)
  BY DEF Rejudge
<1>2. status \in [Agents -> {"ok", "failed"}] /\ setting \in Settings
  BY DEF JudgeInv, Settling
<1>3. \A a : a \in DOMAIN ev <=> a \in Agents
  OBVIOUS
<1> HIDE DEF ev
<1>4. Settling' /\ Working'
  BY <1>1, <1>2, <1>3, ReviewBegins DEF Settling
<1> QED
  BY <1>1, <1>4, NoVerdict DEF JudgeInv

LEMMA CrashJudges ==
    ASSUME JudgeInv, SealInv, Crash
    PROVE  JudgeInv'
<1>1. /\ NothingAsked /\ UNCHANGED <<setting, kind, status, evidence>>
      /\ phase' = IF phase = "graded" \/ kind = "preview" THEN "graded" ELSE "failed"
      /\ verdict' = IF kind = "preview" THEN None ELSE verdict
  BY DEF Crash
<1>2. Settling'
  BY <1>1 DEF JudgeInv, Settling
<1>3. Judged'
  <2>1. CASE kind = "preview"
    BY <1>1, <2>1, NoVerdict
  <2>2. CASE kind # "preview"
    <3>1. verdict' = verdict /\ (phase' = "graded" \/ verdict = None)
      BY <1>1, <2>2 DEF JudgeInv, Judged
    <3> QED
      BY <1>1, <3>1, JudgedStands DEF JudgeInv
  <2> QED
    BY <2>1, <2>2
<1> QED
  BY <1>1, <1>2, <1>3, NothingAskedWorks DEF JudgeInv

LEMMA CallFailsJudges ==
    ASSUME JudgeInv, CallFails
    PROVE  JudgeInv'
<1>1. /\ phase = "scoring" /\ UNCHANGED <<setting, kind, status, evidence>>
      /\ mode \in {"none", "single_call", "batched_finals"} /\ attempt \in 0..(Attempts - 1)
  BY DEF CallFails, JudgeInv, Working
<1>2. Settling' /\ verdict = None
  BY <1>1 DEF JudgeInv, Settling, Judged
<1>3. ASSUME attempt < Attempts - 1, attempt' = attempt + 1,
             todo' = <<Inputs>> \/ todo' = Batches(Inputs, setting.batchSize),
             placings' = None, winners' = None, UNCHANGED <<phase, mode, reviews, verdict>>
      PROVE  JudgeInv'
  <2>1. /\ todo' \in Seq(Seq(Agents))
        /\ \A k \in 1..Len(todo') : ToSet(todo'[k]) \subseteq Submitted(status)
    BY <1>3, RankedGroups DEF JudgeInv
  <2>2. Submitted(status)' = Submitted(status)
    BY <1>1 DEF Submitted
  <2>3. \A k \in 1..Len(todo') : Askable(todo[k])'
    BY <1>1, <1>3, <2>1, <2>2 DEF Askable
  <2>4. \A a \in DOMAIN reviews' : a \in Agents \ Submitted(status)' /\ Grounded(a, reviews[a])'
    BY <1>1, <1>3, <2>2 DEF JudgeInv, Working, Grounded
  <2>5. winners' = <<>> /\ ToSet(winners') = {} /\ DOMAIN placings' = {}
    BY <1>3 DEF ToSet, None
  <2>6. attempt' \in 0..(Attempts - 1) /\ mode' = mode
    BY <1>1, <1>3 DEF Attempts
  <2>7. Working'
    BY <1>1, <2>1, <2>2, <2>3, <2>4, <2>5, <2>6 DEF Working
  <2>8. Judged'
    BY <1>2, <1>3, NoVerdict
  <2> QED
    BY <1>2, <2>7, <2>8 DEF JudgeInv
<1>4. ASSUME Rank("batched_finals")
      PROVE  JudgeInv'
  BY <1>1, <1>4, StrategyBegins
<1>5. ASSUME NothingAsked, verdict' = verdict
      PROVE  JudgeInv'
  BY <1>2, <1>5, NothingAskedWorks, NoVerdict DEF JudgeInv
<1>6. \/ /\ attempt < Attempts - 1 /\ attempt' = attempt + 1
         /\ todo' = <<Inputs>> \/ todo' = Batches(Inputs, setting.batchSize)
         /\ placings' = None /\ winners' = None /\ UNCHANGED <<phase, mode, reviews, verdict>>
      \/ Rank("batched_finals")
      \/ NothingAsked /\ verdict' = verdict
  BY DEF CallFails
<1> QED
  BY <1>3, <1>4, <1>5, <1>6

LEMMA ReviewFailedJudges ==
    ASSUME JudgeInv, ReviewFailed
    PROVE  JudgeInv'
<1>1. /\ phase = "reviewing" /\ todo # <<>> /\ todo' = Tail(todo)
      /\ UNCHANGED <<setting, phase, status, evidence, mode, attempt, placings, winners, verdict>>
  BY DEF ReviewFailed, None
<1>2. todo \in Seq(Seq(Agents)) /\ \A k \in 1..Len(todo) : Askable(todo[k])
  BY DEF JudgeInv, Working
<1>3. /\ Len(todo) > 0 /\ todo[1] \in Seq(Agents)
      /\ ToSet(todo[1]) \subseteq Agents \ Submitted(status)
  <2>1. Len(todo) > 0 /\ todo[1] \in Seq(Agents) /\ 1 \in 1..Len(todo)
    BY <1>1, <1>2
  <2> QED
    BY <1>1, <1>2, <2>1 DEF Askable
<1>4. Submitted(status)' = Submitted(status)
  BY <1>1 DEF Submitted
<1>5. \A a \in DOMAIN reviews' : a \in Agents \ Submitted(status) /\ Grounded(a, reviews'[a])
  <2>0. \A a \in DOMAIN reviews : a \in Agents \ Submitted(status) /\ Grounded(a, reviews[a])
    BY DEF JudgeInv, Working
  <2>1. CASE reviews' = reviews
    BY <2>0, <2>1
  <2>2. ASSUME NEW odd \in BOOLEAN, NEW byRef \in Orders(todo[1]),
               NEW reply \in Replies(Len(todo[1]), odd),
               reviews' = Extended(reviews, [a \in DOMAIN Placed(reply, byRef) |->
                                               Assessed(Placed(reply, byRef)[a], a, byRef)])
        PROVE  \A a \in DOMAIN reviews' :
                 a \in Agents \ Submitted(status) /\ Grounded(a, reviews'[a])
    <3> DEFINE placed == Placed(reply, byRef)
               made == [a \in DOMAIN placed |-> Assessed(placed[a], a, byRef)]
    <3>1. \A a \in DOMAIN placed : a \in Agents \ Submitted(status)
      BY <1>3, AskedFacts
    <3>2. \A a \in DOMAIN placed : made[a] = Assessed(placed[a], a, byRef) /\ Grounded(a, made[a])
      BY PlacedGrounded
    <3>3. (\A a : a \in DOMAIN made <=> a \in DOMAIN placed) /\ reviews' = Extended(reviews, made)
      BY <2>2
    <3> HIDE DEF made, placed
    <3>4. /\ \A a \in DOMAIN reviews' : a \in DOMAIN reviews \/ a \in DOMAIN made
          /\ \A a \in DOMAIN reviews : reviews'[a] = reviews[a]
          /\ \A a \in DOMAIN made : a \notin DOMAIN reviews => reviews'[a] = made[a]
      <4>1. reviews' = Extended(reviews, made)
        BY <3>3
      <4>2. /\ DOMAIN Extended(reviews, made) = DOMAIN reviews \cup DOMAIN made
            /\ \A a \in DOMAIN reviews : Extended(reviews, made)[a] = reviews[a]
            /\ \A a \in DOMAIN made : a \notin DOMAIN reviews => Extended(reviews, made)[a] = made[a]
        BY ExtendedFacts, Zenon
      <4> QED
        BY <4>1, <4>2
    <3> QED
      BY <2>0, <3>1, <3>2, <3>3, <3>4
  <2>3. \/ reviews' = reviews
        \/ \E odd \in BOOLEAN : \E byRef \in Orders(todo[1]), reply \in Replies(Len(todo[1]), odd) :
             reviews' = Extended(reviews, [a \in DOMAIN Placed(reply, byRef) |->
                                             Assessed(Placed(reply, byRef)[a], a, byRef)])
    BY DEF ReviewFailed, Answered
  <2> QED
    BY <2>1, <2>2, <2>3
<1>6. \A a \in DOMAIN reviews' : a \in Agents \ Submitted(status)' /\ Grounded(a, reviews[a])'
  BY <1>1, <1>4, <1>5 DEF Grounded
<1>7. todo' \in Seq(Seq(Agents)) /\ \A k \in 1..Len(todo') : Askable(todo[k])'
  <2>1. /\ todo' \in Seq(Seq(Agents)) /\ Len(todo') = Len(todo) - 1
        /\ \A k \in 1..Len(todo') : todo'[k] = todo[k + 1] /\ k + 1 \in 1..Len(todo)
    BY <1>1, <1>2
  <2> QED
    BY <1>1, <1>2, <1>4, <2>1 DEF Askable
<1>8. Working'
  BY <1>1, <1>4, <1>6, <1>7 DEF JudgeInv, Working, Grounded
<1> QED
  BY <1>1, <1>8, JudgedStands DEF JudgeInv, Settling

LEMMA FairScores ==
    ASSUME NEW a, NEW how, NEW rank
    PROVE  /\ \A review : Grounded(a, review) /\ how # "none" => Fair(Graded(a, how, rank, review))
           /\ Fair(Graded(a, "none", 0, Unreviewed(evidence[a])))
<1>1. /\ \A h, r, review : /\ Graded(a, h, r, review).agent = a
                           /\ Graded(a, h, r, review).how = h
                           /\ Graded(a, h, r, review).review = review
  BY DEF Graded
<1>2. Grounded(a, Unreviewed(evidence[a])) /\ Unreviewed(evidence[a]).status # "clear"
  BY UnreviewedGrounded
<1> QED
  BY <1>1, <1>2 DEF Fair

LEMMA ReviewsDoneJudges ==
    ASSUME JudgeInv, ReviewsDone
    PROVE  JudgeInv'
<1>1. /\ phase = "reviewing" /\ UNCHANGED <<setting, kind, status, evidence>>
      /\ IF Inputs = <<>> THEN Finish(<<>>) ELSE Rank(Chosen)
  BY DEF ReviewsDone, None
<1>2. CASE Inputs = <<>>
  <2>1. Finish(<<>>) /\ NothingAsked
    BY <1>1, <1>2 DEF Finish
  <2>2. Submitted(status) = {}
    BY <1>2, InputsFacts DEF ToSet
  <2>3. /\ <<>> \in Seq(Agents) /\ IsInjective(<<>>) /\ ToSet(<<>>) = Submitted(status)
        /\ <<>> \in Seq({}) /\ Len(<<>>) = 0
    BY <2>2 DEF IsInjective, ToSet
  <2>4. \A i \in 1..Len(<<>>) : <<>>[i].agent = <<>>[i] /\ Fair(<<>>[i])
    OBVIOUS
  <2>5. \A i, j \in 1..Len(<<>>) :
           i < j => \/ <<>>[i].how # "none" \/ <<>>[j].how = "none"
                    \/ <<>>[j].rank >= UnrankedRank
    OBVIOUS
  <2>6. Judged'
    BY <1>1, <2>1, <2>3, <2>4, <2>5, FinishJudges
  <2>7. Settling'
    BY <1>1 DEF JudgeInv, Settling
  <2> QED
    BY <2>1, <2>6, <2>7, NothingAskedWorks DEF JudgeInv
<1>3. CASE Inputs # <<>>
  <2>1. Chosen \in {"single_call", "batched_finals"}
    BY JudgeAssumption DEF Chosen, JudgeInv, Settling
  <2> QED
    BY <1>1, <1>3, <2>1, StrategyBegins
<1> QED
  BY <1>2, <1>3

LEMMA ScoreSingleCallJudges ==
    ASSUME JudgeInv, ScoreSingleCall
    PROVE  JudgeInv'
<1>0. PICK odd \in BOOLEAN : \E byRef \in Orders(Inputs), reply \in Replies(Len(Inputs), odd) :
        Finish([i \in DOMAIN Deanonymize(reply, byRef) |->
                  LET a == Deanonymize(reply, byRef)[i]
                  IN  IF a \in DOMAIN Placed(reply, byRef)
                      THEN Graded(a, "awarded", 0, Assessed(Placed(reply, byRef)[a], a, byRef))
                      ELSE Graded(a, "none", 0, Unreviewed(evidence[a]))])
  BY DEF ScoreSingleCall, Answered
<1>1. PICK byRef \in Orders(Inputs), reply \in Replies(Len(Inputs), odd) :
        Finish([i \in DOMAIN Deanonymize(reply, byRef) |->
                  LET a == Deanonymize(reply, byRef)[i]
                  IN  IF a \in DOMAIN Placed(reply, byRef)
                      THEN Graded(a, "awarded", 0, Assessed(Placed(reply, byRef)[a], a, byRef))
                      ELSE Graded(a, "none", 0, Unreviewed(evidence[a]))])
  BY <1>0
<1> DEFINE order == Deanonymize(reply, byRef)
           placed == Placed(reply, byRef)
           Score(a) == IF a \in DOMAIN placed
                       THEN Graded(a, "awarded", 0, Assessed(placed[a], a, byRef))
                       ELSE Graded(a, "none", 0, Unreviewed(evidence[a]))
           scores == [i \in DOMAIN order |-> Score(order[i])]
           Z == {Score(a) : a \in Agents}
<1>2. UNCHANGED <<setting, kind, status, evidence>> /\ Finish(scores) /\ NothingAsked
  BY <1>1 DEF ScoreSingleCall, Finish
<1>3. Inputs \in Seq(Agents) /\ IsInjective(Inputs) /\ ToSet(Inputs) = Submitted(status)
  BY InputsFacts
<1>4. /\ byRef \in Seq(Agents) /\ IsInjective(byRef) /\ ToSet(byRef) = Submitted(status)
      /\ reply \in Seq(Entries)
  BY <1>3, AskedFacts
<1>5. /\ order \in Seq(Agents) /\ IsInjective(order) /\ ToSet(order) = Submitted(status)
      /\ \A i, j \in DOMAIN order : i < j /\ order[j] \in DOMAIN placed => order[i] \in DOMAIN placed
  BY <1>4, DeanonymizeFacts
<1> HIDE DEF order
<1>6. \A a : Score(a).agent = a /\ (Score(a).how = "none" <=> a \notin DOMAIN placed)
  BY DEF Graded
<1>7. \A a : Fair(Score(a))
  <2> SUFFICES ASSUME NEW a
               PROVE  Fair(Score(a))
    OBVIOUS
  <2>1. CASE a \in DOMAIN placed
    BY <2>1, PlacedGrounded, FairScores
  <2>2. CASE a \notin DOMAIN placed
    BY <2>2, FairScores
  <2> QED
    BY <2>1, <2>2
<1>8. \A a \in Agents : Score(a) \in Z
  OBVIOUS
<1> HIDE DEF Score, Z, placed
<1>9. /\ scores \in Seq(Z) /\ Len(scores) = Len(order) /\ DOMAIN order = 1..Len(order)
      /\ \A i \in 1..Len(order) : scores[i] = Score(order[i])
  BY <1>5, <1>8
<1> HIDE DEF scores
<1>10. \A i \in 1..Len(order) : scores[i].agent = order[i] /\ Fair(scores[i])
  BY <1>6, <1>7, <1>9
<1>11. \A i, j \in 1..Len(order) :
          i < j => \/ scores[i].how # "none" \/ scores[j].how = "none"
                   \/ scores[j].rank >= UnrankedRank
  BY <1>5, <1>6, <1>9
<1>12. Judged'
  BY <1>2, <1>5, <1>9, <1>10, <1>11, FinishJudges
<1>13. Settling'
  BY <1>2 DEF JudgeInv, Settling
<1> QED
  BY <1>2, <1>12, <1>13, NothingAskedWorks DEF JudgeInv

LEMMA ScoreBatchJudges ==
    ASSUME JudgeInv, ScoreBatch
    PROVE  JudgeInv'
<1>1. /\ phase = "scoring" /\ todo # <<>> /\ todo' = Tail(todo)
      /\ UNCHANGED <<setting, phase, status, evidence, mode, attempt, reviews, verdict>>
  BY DEF ScoreBatch, None
<1>2. todo \in Seq(Seq(Agents)) /\ \A k \in 1..Len(todo) : Askable(todo[k])
  BY DEF JudgeInv, Working
<1>3. todo[1] \in Seq(Agents) /\ ToSet(todo[1]) \subseteq Submitted(status)
  <2>1. Len(todo) > 0 /\ todo[1] \in Seq(Agents) /\ 1 \in 1..Len(todo)
    BY <1>1, <1>2
  <2> QED
    BY <1>1, <1>2, <2>1 DEF Askable
<1>4. Submitted(status)' = Submitted(status)
  BY <1>1 DEF Submitted
<1>0. PICK odd \in BOOLEAN : \E byRef \in Orders(todo[1]), reply \in Replies(Len(todo[1]), odd) :
        /\ placings' = Extended(placings, [a \in DOMAIN Placed(reply, byRef) |->
                          [rank |-> Placed(reply, byRef)[a].rank,
                           review |-> Assessed(Placed(reply, byRef)[a], a, byRef)]])
        /\ winners' = winners \o Winner(reply, byRef)
  BY DEF ScoreBatch, Answered
<1>5. PICK byRef \in Orders(todo[1]), reply \in Replies(Len(todo[1]), odd) :
        /\ placings' = Extended(placings, [a \in DOMAIN Placed(reply, byRef) |->
                          [rank |-> Placed(reply, byRef)[a].rank,
                           review |-> Assessed(Placed(reply, byRef)[a], a, byRef)]])
        /\ winners' = winners \o Winner(reply, byRef)
  BY <1>0
<1> DEFINE placed == Placed(reply, byRef)
           made == [a \in DOMAIN placed |->
                      [rank |-> placed[a].rank, review |-> Assessed(placed[a], a, byRef)]]
<1>6. /\ byRef \in Seq(Agents) /\ IsInjective(byRef) /\ reply \in Seq(Entries)
      /\ \A a \in DOMAIN placed : a \in Submitted(status) /\ placed[a].rank \in Nat
  BY <1>3, AskedFacts
<1>7. \A a \in DOMAIN placed : made[a].rank \in Nat /\ Grounded(a, made[a].review)
  BY <1>6, PlacedGrounded
<1>8. (\A a : a \in DOMAIN made <=> a \in DOMAIN placed) /\ placings' = Extended(placings, made)
  BY <1>5
<1>9. Winner(reply, byRef) \in Seq(Agents) /\ ToSet(Winner(reply, byRef)) \subseteq DOMAIN placed
  BY <1>6, WinnerFacts
<1> HIDE DEF made, placed
<1>10. /\ \A a : a \in DOMAIN placings' <=> a \in DOMAIN placings \/ a \in DOMAIN made
       /\ \A a \in DOMAIN placings : placings'[a] = placings[a]
       /\ \A a \in DOMAIN made : a \notin DOMAIN placings => placings'[a] = made[a]
  <2>1. /\ DOMAIN Extended(placings, made) = DOMAIN placings \cup DOMAIN made
        /\ \A a \in DOMAIN placings : Extended(placings, made)[a] = placings[a]
        /\ \A a \in DOMAIN made : a \notin DOMAIN placings => Extended(placings, made)[a] = made[a]
    BY ExtendedFacts, Zenon
  <2> QED
    BY <1>8, <2>1
<1>11. /\ \A a \in DOMAIN placings : /\ a \in Submitted(status) /\ placings[a].rank \in Nat
                                     /\ Grounded(a, placings[a].review)
       /\ winners \in Seq(Agents) /\ ToSet(winners) \subseteq DOMAIN placings
  BY DEF JudgeInv, Working
<1>12. \A a \in DOMAIN placings' : /\ a \in Submitted(status) /\ placings'[a].rank \in Nat
                                   /\ Grounded(a, placings'[a].review)
  BY <1>6, <1>7, <1>8, <1>10, <1>11
<1>13. \A a \in DOMAIN placings' : /\ a \in Submitted(status)' /\ placings'[a].rank \in Nat
                                   /\ Grounded(a, placings[a].review)'
  BY <1>1, <1>4, <1>12 DEF Grounded
<1>14. winners' \in Seq(Agents) /\ ToSet(winners') \subseteq DOMAIN placings'
  <2>1. winners' \in Seq(Agents) /\ ToSet(winners') = ToSet(winners) \cup ToSet(Winner(reply, byRef))
    BY <1>5, <1>9, <1>11, ToSetConcat
  <2>2. \A a \in ToSet(winners') : a \in DOMAIN placings'
    BY <1>8, <1>9, <1>10, <1>11, <2>1
  <2> QED
    BY <2>1, <2>2
<1>15. todo' \in Seq(Seq(Agents)) /\ \A k \in 1..Len(todo') : Askable(todo[k])'
  <2>1. /\ todo' \in Seq(Seq(Agents)) /\ Len(todo') = Len(todo) - 1
        /\ \A k \in 1..Len(todo') : todo'[k] = todo[k + 1] /\ k + 1 \in 1..Len(todo)
    BY <1>1, <1>2
  <2> QED
    BY <1>1, <1>2, <1>4, <2>1 DEF Askable
<1>16. \A a \in DOMAIN reviews' : a \in Agents \ Submitted(status)' /\ Grounded(a, reviews[a])'
  BY <1>1, <1>4 DEF JudgeInv, Working, Grounded
<1>17. Working'
  BY <1>1, <1>13, <1>14, <1>15, <1>16 DEF JudgeInv, Working
<1> QED
  BY <1>1, <1>17, JudgedStands DEF JudgeInv, Settling

LEMMA ScoreFinalsJudges ==
    ASSUME JudgeInv, ScoreFinals
    PROVE  JudgeInv'
<1>1. /\ \A a \in DOMAIN placings : /\ a \in Submitted(status) /\ placings[a].rank \in Nat
                                    /\ Grounded(a, placings[a].review)
      /\ winners \in Seq(Agents) /\ ToSet(winners) \subseteq DOMAIN placings
  BY DEF JudgeInv, Working
<1>2. \E finals :
        /\ Finish([i \in DOMAIN Ordered(Inputs, finals, placings) |->
                     PlacedScore(Ordered(Inputs, finals, placings)[i])])
        /\ \A a \in DOMAIN finals : a \in DOMAIN placings /\ finals[a].rank \in Nat
  <2>1. CASE Len(winners) > 1
    <3>0. PICK odd \in BOOLEAN : \E byRef \in Orders(winners), reply \in Replies(Len(winners), odd) :
            Finish([i \in DOMAIN Ordered(Inputs, Placed(reply, byRef), placings) |->
                      PlacedScore(Ordered(Inputs, Placed(reply, byRef), placings)[i])])
      BY <2>1 DEF ScoreFinals, Answered
    <3>1. PICK byRef \in Orders(winners), reply \in Replies(Len(winners), odd) :
            Finish([i \in DOMAIN Ordered(Inputs, Placed(reply, byRef), placings) |->
                      PlacedScore(Ordered(Inputs, Placed(reply, byRef), placings)[i])])
      BY <3>0
    <3>2. \A a \in DOMAIN Placed(reply, byRef) :
             a \in ToSet(winners) /\ Placed(reply, byRef)[a].rank \in Nat
      BY <1>1, AskedFacts
    <3> QED
      BY <1>1, <3>1, <3>2
  <2>2. CASE ~(Len(winners) > 1)
    <3> DEFINE finals == [a \in ToSet(winners) |-> [rank |-> 1]]
    <3>1. Finish([i \in DOMAIN Ordered(Inputs, finals, placings) |->
                    PlacedScore(Ordered(Inputs, finals, placings)[i])])
      BY <2>2 DEF ScoreFinals
    <3>2. \A a \in DOMAIN finals : a \in DOMAIN placings /\ finals[a].rank \in Nat
      BY <1>1
    <3> HIDE DEF finals
    <3> QED
      BY <3>1, <3>2
  <2> QED
    BY <2>1, <2>2
<1>3. PICK finals :
        /\ Finish([i \in DOMAIN Ordered(Inputs, finals, placings) |->
                     PlacedScore(Ordered(Inputs, finals, placings)[i])])
        /\ \A a \in DOMAIN finals : a \in DOMAIN placings /\ finals[a].rank \in Nat
  BY <1>2
<1> DEFINE order == Ordered(Inputs, finals, placings)
           scores == [i \in DOMAIN order |-> PlacedScore(order[i])]
           Z == {PlacedScore(a) : a \in Agents}
<1>4. Inputs \in Seq(Agents) /\ IsInjective(Inputs) /\ ToSet(Inputs) = Submitted(status)
  BY InputsFacts
<1>5. UNCHANGED <<setting, kind, status, evidence>> /\ Finish(scores) /\ NothingAsked
  BY <1>3 DEF ScoreFinals, Finish
<1>6. /\ order \in Seq(Agents) /\ IsInjective(order) /\ ToSet(order) = Submitted(status)
      /\ \A i, j \in DOMAIN order :
           i < j => \/ order[i] \in DOMAIN placings
                    \/ order[j] \notin DOMAIN placings
                    \/ placings[order[j]].rank >= UnrankedRank
  <2>1. DOMAIN placings \subseteq ToSet(Inputs) /\ DOMAIN finals \subseteq DOMAIN placings
    BY <1>1, <1>3, <1>4
  <2>2. /\ \A a \in DOMAIN placings : placings[a].rank \in Nat
        /\ \A a \in DOMAIN finals : finals[a].rank \in Nat
    BY <1>1, <1>3
  <2> QED
    BY <1>4, <2>1, <2>2, OrderedFacts
<1> HIDE DEF order
<1>7. \A a : /\ PlacedScore(a).agent = a
             /\ PlacedScore(a).how = "none" <=> a \notin DOMAIN placings
             /\ a \in DOMAIN placings => PlacedScore(a).rank = placings[a].rank
  BY DEF PlacedScore, Graded
<1>8. \A a : Fair(PlacedScore(a))
  <2> SUFFICES ASSUME NEW a
               PROVE  Fair(PlacedScore(a))
    OBVIOUS
  <2>1. CASE a \in DOMAIN placings
    <3>1. PlacedScore(a) = Graded(a, "placing", placings[a].rank, placings[a].review)
      BY <2>1 DEF PlacedScore
    <3> QED
      BY <1>1, <2>1, <3>1, FairScores
  <2>2. CASE a \notin DOMAIN placings
    BY <2>2, FairScores DEF PlacedScore
  <2> QED
    BY <2>1, <2>2
<1>9. \A a \in Agents : PlacedScore(a) \in Z
  OBVIOUS
<1> HIDE DEF Z
<1>10. /\ scores \in Seq(Z) /\ Len(scores) = Len(order) /\ DOMAIN order = 1..Len(order)
       /\ \A i \in 1..Len(order) : scores[i] = PlacedScore(order[i])
  BY <1>6, <1>9
<1> HIDE DEF scores
<1>11. \A i \in 1..Len(order) : scores[i].agent = order[i] /\ Fair(scores[i])
  BY <1>7, <1>8, <1>10
<1>12. \A i, j \in 1..Len(order) :
          i < j => \/ scores[i].how # "none" \/ scores[j].how = "none"
                   \/ scores[j].rank >= UnrankedRank
  BY <1>6, <1>7, <1>10
<1>13. Judged'
  BY <1>5, <1>6, <1>10, <1>11, <1>12, FinishJudges
<1>14. Settling'
  BY <1>5 DEF JudgeInv, Settling
<1> QED
  BY <1>5, <1>13, <1>14, NothingAskedWorks DEF JudgeInv

LEMMA StepKeepsJudging ==
    ASSUME SealInv, JudgeInv, [Next]_vars
    PROVE  JudgeInv'
<1>1. CASE Observing \/ UNCHANGED vars
  <2>1. UNCHANGED <<setting, phase, status, evidence, judgeVars, verdict>>
    BY <1>1 DEF Observing, vars
  <2>2. Settling'
    BY <2>1 DEF JudgeInv, Settling
  <2>3. Working' /\ Judged'
    BY <2>1, WorkStands, JudgedStands DEF JudgeInv
  <2> QED
    BY <2>2, <2>3 DEF JudgeInv
<1> QED
  BY <1>1, StartRoundJudges, FreezeJudges, ReviewFailedJudges, ReviewsDoneJudges,
     ScoreSingleCallJudges, ScoreBatchJudges, ScoreFinalsJudges, CallFailsJudges,
     RejudgeJudges, CrashJudges DEF Next, Deciding

LEMMA InitJudges ==
    ASSUME Init
    PROVE  JudgeInv
<1>1. /\ setting \in Settings /\ status = [a \in Agents |-> "ok"] /\ evidence = NoEvidence
      /\ mode = "none" /\ attempt = 0 /\ todo = <<>> /\ reviews = <<>> /\ placings = <<>>
      /\ winners = <<>> /\ verdict = <<>>
  BY DEF Init, None
<1>2. /\ ToSet(winners) = {} /\ DOMAIN reviews = {} /\ DOMAIN placings = {}
      /\ ToSet(verdict) = {}
  BY <1>1 DEF ToSet
<1>3. Settling
  BY <1>1 DEF Settling, NoEvidence
<1>4. Working
  BY <1>1, <1>2 DEF Working, Attempts
<1>5. Judged
  BY <1>1, <1>2 DEF Judged, VerdictIsWhole, None
<1> QED
  BY <1>3, <1>4, <1>5 DEF JudgeInv

(* Whatever is observed, lost, answered, retried or interrupted, the audit   *)
(* keeps its shape and its seals, what is asked of the model is about agents *)
(* of the right kind, and what is kept of its replies is grounded.           *)
THEOREM GradingIsSound == Spec => [](AuditInv /\ SealInv /\ JudgeInv)
<1>1. Init => JudgeInv
  BY InitJudges
<1>2. SealInv /\ JudgeInv /\ [Next]_vars => JudgeInv'
  BY StepKeepsJudging
<1> QED
  BY <1>1, <1>2, GradingIsSealed, PTL DEF Spec

(* Every state a round can be in has the shape its definitions take for      *)
(* granted: the collector, its table, and the judge's own state.             *)
THEOREM TypeCorrect == Spec => []TypeOK
<1>1. AuditInv /\ SealInv /\ JudgeInv => TypeOK
  <2> SUFFICES ASSUME AuditInv, SealInv, JudgeInv
               PROVE  TypeOK
    OBVIOUS
  <2>1. AuditTypeOK
    <3>1. /\ audited \in BOOLEAN /\ spent \in 0..MaxSurprises /\ round \in 0..MaxRounds
          /\ tool \in [Agents -> ToolStates] /\ permission \in [Agents -> PermissionStates]
          /\ edited \subseteq Agents
          /\ stream \in {"up", "refused", "closed"} /\ blind \in BOOLEAN
      BY DEF AuditInv
    <3>2. coll \in Shapes /\ Counted(coll) /\ IsInjective(coll.open) /\ IsInjective(coll.pending)
      BY DEF AuditInv, Collectors
    <3>3. /\ coll.round \in 0..MaxRounds /\ coll.frozen \in BOOLEAN /\ coll.settled \subseteq Agents
          /\ coll.open \in Seq(Agents) /\ coll.pending \in Seq(Agents)
          /\ coll.total \in Nat
          /\ \A a \in Agents : coll.kept[a] \in Nat /\ coll.dropped[a] \in Nat
      BY <3>2 DEF Shapes
    <3>4. ToSet(coll.open) \cup ToSet(coll.pending) \subseteq Agents
      BY <3>3, ToSetTyped
    <3>5. \A a \in Agents : coll.kept[a] \in 0..coll.total /\ coll.dropped[a] \in Nat
      BY <3>2, <3>3 DEF Counted
    <3>6. \A i \in DOMAIN rows :
            /\ rows[i].type \in {"evidence", "late", "frozen"} /\ rows[i].round \in 1..MaxRounds
            /\ rows[i].type # "frozen" => rows[i].draft \in Drafts
      <4>1. rows \in Seq(Rows)
        BY DEF AuditInv
      <4>2. \A row \in Rows : /\ row.type \in {"evidence", "late", "frozen"}
                              /\ row.round \in 1..MaxRounds
                              /\ row.type # "frozen" => row.draft \in Drafts
        BY DEF Rows, LiveRows, FrozenRows
      <4>3. \A i \in DOMAIN rows : rows[i] \in Rows
        BY <4>1
      <4> QED
        BY <4>2, <4>3
    <3> QED
      BY <3>1, <3>2, <3>3, <3>4, <3>5, <3>6 DEF AuditTypeOK
  <2>2. /\ phase \in {"idle", "collecting", "reviewing", "scoring", "graded", "failed"}
        /\ kind \in {"original", "preview"} /\ DOMAIN gradedOn \subseteq 1..round
    BY DEF SealInv
  <2>3. /\ setting \in Settings /\ status \in [Agents -> {"ok", "failed"}]
        /\ DOMAIN evidence = Agents
    BY DEF JudgeInv, Settling
  <2>4. /\ mode \in {"none", "single_call", "batched_finals"} /\ attempt \in 0..(Attempts - 1)
        /\ DOMAIN reviews \cap Submitted(status) = {} /\ DOMAIN reviews \subseteq Agents
        /\ DOMAIN placings \subseteq Submitted(status) /\ ToSet(winners) \subseteq DOMAIN placings
    BY DEF JudgeInv, Working
  <2> QED
    BY <2>1, <2>2, <2>3, <2>4 DEF TypeOK
<1> QED
  BY <1>1, GradingIsSound, PTL

(* Every agent is in the verdict once, failures last, and nobody the model   *)
(* left unranked stands before one it ranked, short of ranks of 99 and more. *)
THEOREM VerdictsAreWhole == Spec => []VerdictIsWhole
<1>1. JudgeInv => VerdictIsWhole
  BY DEF JudgeInv, Judged
<1> QED
  BY <1>1, GradingIsSound, PTL

(* No review in a verdict says more than the evidence it was made from.      *)
THEOREM GroundedReviews == Spec => []ReviewsAreGrounded
<1>1. JudgeInv => ReviewsAreGrounded
  BY DEF JudgeInv, Judged, Fair, Grounded, ReviewsAreGrounded
<1> QED
  BY <1>1, GradingIsSound, PTL

-----------------------------------------------------------------------------
(* What the evidence says.  A table is followed record by record: what each *)
(* event adds to what is said of an agent, and what sealing adds.           *)

\* What is kept depends on which elements of the sequence are wanted, and on nothing else.
LEMMA AmongSame ==
    ASSUME NEW X, NEW s \in Seq(X), NEW S, NEW T, \A i \in 1..Len(s) : s[i] \in S <=> s[i] \in T
    PROVE  Among(s, S) = Among(s, T)
<1> DEFINE N == Len(s)
<1>1. N \in Nat
  OBVIOUS
<1>2. PICK f : Keeps(f, X, s, S)
  BY AmongUnfolded
<1>3. PICK g : Keeps(g, X, s, T)
  BY AmongUnfolded
<1>4. /\ f[0] = <<>> /\ g[0] = <<>> /\ Among(s, S) = f[N] /\ Among(s, T) = g[N]
      /\ \A n \in 1..N : f[n] = IF s[n] \in S THEN Append(f[n - 1], s[n]) ELSE f[n - 1]
      /\ \A n \in 1..N : g[n] = IF s[n] \in T THEN Append(g[n - 1], s[n]) ELSE g[n - 1]
  BY <1>2, <1>3 DEF Keeps
<1> HIDE DEF N
<1> DEFINE Good == {n \in Nat : n <= N => f[n] = g[n]}
<1>5. 0 \in Good
  BY <1>4
<1>6. ASSUME NEW n \in Nat, n \in Good
      PROVE  n + 1 \in Good
  <2> SUFFICES ASSUME n + 1 <= N
               PROVE  f[n + 1] = g[n + 1]
    OBVIOUS
  <2>1. n + 1 \in 1..N /\ (n + 1) - 1 = n /\ n <= N
    BY <1>1
  <2>2. f[n] = g[n] /\ (s[n + 1] \in S <=> s[n + 1] \in T)
    BY <1>6, <2>1 DEF N
  <2>3. f[n + 1] = IF s[n + 1] \in S THEN Append(f[n], s[n + 1]) ELSE f[n]
    BY <1>4, <2>1
  <2>4. g[n + 1] = IF s[n + 1] \in T THEN Append(g[n], s[n + 1]) ELSE g[n]
    BY <1>4, <2>1
  <2> QED
    BY <2>2, <2>3, <2>4
<1> HIDE DEF Good
<1>7. \A n \in Nat : n \in Good
  BY <1>5, <1>6, SetInduction
<1> QED
  BY <1>1, <1>4, <1>7 DEF Good

EvidenceOfRound(r) == {row \in LiveRows : row.round = r /\ row.type = "evidence"}
Told(table, r) == DraftsOf(RowsOf(table, r, "evidence"))
Said(table, r, a, what) == Among(RecordsOf(Told(table, r), a), {d \in Drafts : d.what = what})

LEMMA RowsOfEvidence ==
    ASSUME NEW s \in Seq(Rows), NEW r
    PROVE  RowsOf(s, r, "evidence") = Among(s, EvidenceOfRound(r))
<1> DEFINE S == {row \in ToSet(s) : row.round = r /\ row.type = "evidence"}
<1>1. ASSUME NEW i \in 1..Len(s)
      PROVE  s[i] \in S <=> s[i] \in EvidenceOfRound(r)
  <2>1. s[i] \in Rows /\ s[i] \in ToSet(s)
    BY DEF ToSet
  <2>2. s[i].type = "evidence" => s[i] \in LiveRows
    BY <2>1 DEF Rows, FrozenRows
  <2> QED
    BY <2>1, <2>2 DEF EvidenceOfRound
<1>2. RowsOf(s, r, "evidence") = Among(s, S)
  BY DEF RowsOf
<1> HIDE DEF S
<1> QED
  BY <1>1, <1>2, AmongSame

LEMMA ToldTyped ==
    ASSUME NEW s \in Seq(Rows), NEW r
    PROVE  Told(s, r) \in Seq(Drafts)
<1> DEFINE q == RowsOf(s, r, "evidence")
<1>1. q \in Seq(LiveRows)
  BY EvidenceRows
<1>2. Told(s, r) = [i \in DOMAIN q |-> q[i].draft]
  BY DEF Told, DraftsOf
<1> HIDE DEF q
<1>3. DOMAIN q = 1..Len(q) /\ Len(q) \in Nat /\ \A i \in 1..Len(q) : q[i].draft \in Drafts
  <2>1. \A i \in 1..Len(q) : q[i] \in LiveRows
    BY <1>1
  <2>2. \A row \in LiveRows : row.draft \in Drafts
    BY DEF LiveRows
  <2> QED
    BY <1>1, <2>1, <2>2
<1> QED
  BY <1>2, <1>3

LEMMA ToldAppend ==
    ASSUME NEW s \in Seq(Rows), NEW row \in Rows, NEW r
    PROVE  Told(Append(s, row), r) =
             IF row \in EvidenceOfRound(r) THEN Append(Told(s, r), row.draft) ELSE Told(s, r)
<1> DEFINE q == RowsOf(s, r, "evidence")
           p == RowsOf(Append(s, row), r, "evidence")
<1>1. Append(s, row) \in Seq(Rows)
  OBVIOUS
<1>2. q \in Seq(LiveRows)
  BY EvidenceRows
<1>3. p = IF row \in EvidenceOfRound(r) THEN Append(q, row) ELSE q
  <2>1. /\ q = Among(s, EvidenceOfRound(r))
        /\ p = Among(Append(s, row), EvidenceOfRound(r))
    BY <1>1, RowsOfEvidence
  <2> HIDE DEF p, q
  <2> QED
    BY <2>1, AmongAppend
<1>4. Told(s, r) = DraftsOf(q) /\ Told(Append(s, row), r) = DraftsOf(p)
  BY DEF Told
<1>5. \A t : DraftsOf(t) = [i \in DOMAIN t |-> t[i].draft]
  BY DEF DraftsOf
<1> HIDE DEF p, q
<1>6. CASE row \notin EvidenceOfRound(r)
  BY <1>3, <1>4, <1>6
<1>7. CASE row \in EvidenceOfRound(r)
  <2>1. p = Append(q, row) /\ row \in LiveRows
    BY <1>3, <1>7 DEF EvidenceOfRound
  <2>2. /\ Len(q) \in Nat /\ DOMAIN q = 1..Len(q) /\ DOMAIN p = 1..(Len(q) + 1)
        /\ p[Len(q) + 1] = row /\ \A i \in 1..Len(q) : p[i] = q[i]
    BY <1>2, <2>1
  <2> DEFINE f == DraftsOf(q)
             g == DraftsOf(p)
             h == Append(f, row.draft)
  <2>3. f \in Seq(Drafts) /\ Len(f) = Len(q) /\ \A i \in 1..Len(q) : f[i] = q[i].draft
    <3>1. f = [i \in 1..Len(q) |-> q[i].draft]
      BY <1>5, <2>2
    <3>2. Told(s, r) \in Seq(Drafts)
      BY ToldTyped
    <3>3. f \in Seq(Drafts)
      BY <1>4, <3>2
    <3> QED
      BY <2>2, <3>1, <3>3
  <2>4. g = [i \in 1..(Len(q) + 1) |-> p[i].draft]
    BY <1>5, <2>2
  <2> HIDE DEF f, g
  <2>5. row.draft \in Drafts
    BY <2>1 DEF LiveRows
  <2>6. /\ DOMAIN h = 1..(Len(q) + 1) /\ h[Len(q) + 1] = row.draft
        /\ \A i \in 1..Len(q) : h[i] = f[i]
        /\ h = [i \in 1..(Len(q) + 1) |-> h[i]]
    BY <2>2, <2>3, <2>5
  <2> HIDE DEF h
  <2>7. ASSUME NEW i \in 1..(Len(q) + 1)
        PROVE  h[i] = p[i].draft
    <3>1. i = Len(q) + 1 \/ i \in 1..Len(q)
      BY <2>2
    <3> QED
      BY <2>2, <2>3, <2>6, <3>1
  <2>8. g = h
    BY <2>4, <2>6, <2>7
  <2> QED
    BY <1>4, <1>7, <2>8 DEF f, g, h
<1> QED
  BY <1>6, <1>7

\* A record is said of its agent, in its kind, at the end; of nobody else.
LEMMA SaidAppend ==
    ASSUME NEW s \in Seq(Rows), NEW row \in Rows, NEW r, NEW a, NEW what
    PROVE  Said(Append(s, row), r, a, what) =
             IF row \in EvidenceOfRound(r) /\ row.draft.agent = a /\ row.draft.what = what
             THEN Append(Said(s, r, a, what), row.draft) ELSE Said(s, r, a, what)
<1> DEFINE A == {d \in Drafts : d.agent = a}
           W == {d \in Drafts : d.what = what}
           t == Told(s, r)
           x == Told(Append(s, row), r)
<1>1. /\ Said(s, r, a, what) = Among(Among(t, A), W)
      /\ Said(Append(s, row), r, a, what) = Among(Among(x, A), W)
  BY DEF Said, RecordsOf
<1>2. t \in Seq(Drafts)
  BY ToldTyped
<1>3. x = IF row \in EvidenceOfRound(r) THEN Append(t, row.draft) ELSE t
  BY ToldAppend
<1> HIDE DEF t, x
<1>4. CASE row \notin EvidenceOfRound(r)
  BY <1>1, <1>3, <1>4
<1>5. CASE row \in EvidenceOfRound(r)
  <2> DEFINE d == row.draft
  <2>1. d \in Drafts
    BY <1>5 DEF EvidenceOfRound, LiveRows
  <2>2. (d \in A <=> d.agent = a) /\ (d \in W <=> d.what = what)
    BY <2>1
  <2> HIDE DEF d, A, W
  <2>3. Among(x, A) = IF d \in A THEN Append(Among(t, A), d) ELSE Among(t, A)
    <3>1. x = Append(t, d)
      BY <1>3, <1>5 DEF d
    <3>2. Among(Append(t, d), A) = IF d \in A THEN Append(Among(t, A), d) ELSE Among(t, A)
      BY <1>2, <2>1, AmongAppend, Zenon
    <3> QED
      BY <3>1, <3>2
  <2>4. Among(t, A) \in Seq(Drafts)
    BY <1>2, AmongFacts
  <2>5. Among(Append(Among(t, A), d), W) =
          IF d \in W THEN Append(Among(Among(t, A), W), d) ELSE Among(Among(t, A), W)
    BY <2>1, <2>4, AmongAppend
  <2> QED
    BY <1>1, <1>5, <2>2, <2>3, <2>5 DEF d
<1> QED
  BY <1>4, <1>5

\* Of a round that has no rows nothing is said.
LEMMA SaidNothing ==
    ASSUME NEW s \in Seq(Rows), NEW r, \A i \in 1..Len(s) : s[i].round # r
    PROVE  \A a, what : Said(s, r, a, what) = <<>>
<1>1. ASSUME NEW i \in 1..Len(s)
      PROVE  s[i] \in EvidenceOfRound(r) <=> s[i] \in {}
  BY DEF EvidenceOfRound
<1>2. Among(s, EvidenceOfRound(r)) = Among(s, {})
  <2> DEFINE E == EvidenceOfRound(r)
  <2>1. \A i \in 1..Len(s) : s[i] \in E <=> s[i] \in {}
    BY <1>1
  <2> HIDE DEF E
  <2>2. Among(s, E) = Among(s, {})
    BY <2>1, AmongSame
  <2> QED
    BY <2>2 DEF E
<1>3. Among(s, {}) = <<>>
  <2> DEFINE q == Among(s, {})
  <2>1. q \in Seq(Rows) /\ ToSet(q) = {}
    <3>1. ToSet(q) = ToSet(s) \cap {} /\ q \in Seq(Rows)
      BY AmongFacts
    <3> QED
      BY <3>1
  <2> HIDE DEF q
  <2>2. Len(q) = 0
    <3>1. \A i \in 1..Len(q) : q[i] \in ToSet(q)
      BY <2>1 DEF ToSet
    <3>2. Len(q) \in Nat /\ \A i \in 1..Len(q) : FALSE
      BY <2>1, <3>1
    <3> QED
      BY <3>2
  <2>3. q = <<>>
    BY <2>1, <2>2
  <2> QED
    BY <2>3 DEF q
<1>4. RowsOf(s, r, "evidence") = <<>>
  BY <1>2, <1>3, RowsOfEvidence
<1>5. Told(s, r) = <<>>
  BY <1>4 DEF Told, DraftsOf
<1> QED
  BY <1>5, AmongEmpty DEF Said, RecordsOf

\* Up to the last record of its evidence a table says all it has to say of a round.
LEMMA ToldUpToLast ==
    ASSUME NEW s \in Seq(Rows), NEW r
    PROVE  Included(s, r, LastOf(s, r, "evidence")) = Told(s, r)
<1> DEFINE N == Len(s)
           at == LastOf(s, r, "evidence")
           First(n) == SubSeq(s, 1, n)
<1>1. N \in Nat /\ at \in 0..N
      /\ \A i \in 1..N : s[i].round = r /\ s[i].type = "evidence" => i <= at
  BY LastOfFacts
<1> HIDE DEF at
<1>2. ASSUME NEW n \in 0..N
      PROVE  First(n) \in Seq(Rows) /\ Len(First(n)) = n
  BY <1>1
<1>3. ASSUME NEW n \in Nat, n + 1 <= N
      PROVE  First(n + 1) = Append(First(n), s[n + 1])
  BY <1>1, <1>3
<1>4. First(N) = s
  BY <1>1
<1> HIDE DEF First, N
<1> DEFINE Good == {n \in Nat : at + n <= N => Told(First(at + n), r) = Told(First(at), r)}
<1>5. 0 \in Good
  BY <1>1
<1>6. ASSUME NEW n \in Nat, n \in Good
      PROVE  n + 1 \in Good
  <2> SUFFICES ASSUME at + (n + 1) <= N
               PROVE  Told(First(at + (n + 1)), r) = Told(First(at), r)
    OBVIOUS
  <2> DEFINE m == at + n
  <2>1. m \in Nat /\ m + 1 = at + (n + 1) /\ m + 1 <= N /\ m \in 0..N /\ m + 1 \in 1..N /\ ~(m + 1 <= at)
    BY <1>1
  <2>2. Told(First(m), r) = Told(First(at), r)
    BY <1>1, <1>6
  <2> HIDE DEF m
  <2>3. First(m + 1) = Append(First(m), s[m + 1]) /\ First(m) \in Seq(Rows)
    BY <1>2, <1>3, <2>1
  <2>4. s[m + 1] \in Rows /\ s[m + 1] \notin EvidenceOfRound(r)
    BY <1>1, <2>1 DEF EvidenceOfRound, N
  <2>5. Told(First(m + 1), r) = Told(First(m), r)
    <3> DEFINE q == First(m)
               row == s[m + 1]
    <3>1. q \in Seq(Rows) /\ row \in Rows /\ row \notin EvidenceOfRound(r)
      BY <2>3, <2>4
    <3> HIDE DEF q, row
    <3>2. Told(Append(q, row), r) = Told(q, r)
      BY <3>1, ToldAppend
    <3> QED
      BY <2>3, <3>2 DEF q, row
  <2> QED
    BY <2>1, <2>2, <2>5
<1> HIDE DEF Good
<1>7. \A n \in Nat : n \in Good
  BY <1>5, <1>6, SetInduction
<1>8. Told(First(N), r) = Told(First(at), r)
  <2>1. N - at \in Nat /\ at + (N - at) = N /\ N <= N
    BY <1>1
  <2>2. N - at \in Good
    BY <1>7, <2>1
  <2> QED
    BY <2>1, <2>2 DEF Good
<1>9. Included(s, r, at) = Told(First(at), r)
  BY DEF Included, Told, First
<1> QED
  BY <1>4, <1>8, <1>9 DEF at

Says(b, a, what) == Said(b.rows, b.coll.round, a, what)

\* What is written or counted changes nothing else of the collector, and no count goes back.
Carries(b, c) ==
    /\ Grows(b, c)
    /\ c.coll.frozen = b.coll.frozen /\ c.coll.streamGaps = b.coll.streamGaps
    /\ c.coll.open = b.coll.open /\ c.coll.settled = b.coll.settled
    /\ c.coll.pending = b.coll.pending
    /\ \A a \in Agents : c.coll.dropped[a] >= b.coll.dropped[a]

LEMMA NobodyRuns == Run \notin Agents
<1>1. Cardinality(Agents) \in Nat
  BY AgentsAssumption, FS_CardinalityType
<1> QED
  BY <1>1, AgentsAssumption DEF Run

LEMMA RefuseSays ==
    ASSUME NEW b \in Books, NEW agent \in Owners
    PROVE  LET c == Refuse(b, agent)
           IN  /\ Carries(b, c) /\ c.rows = b.rows
               /\ agent \in Agents => c.coll.dropped[agent] > 0
<1> DEFINE e == b.coll
           c == Refuse(b, agent)
<1>1. /\ e \in Shapes /\ b = [coll |-> e, rows |-> b.rows]
      /\ e.dropped \in [Agents -> Nat]
  BY ShapesKept DEF Books, Collectors
<1>2. CASE agent = Run
  <2>1. c = [coll |-> [e EXCEPT !.runDropped = @ + 1], rows |-> b.rows]
    BY <1>1, <1>2 DEF Refuse
  <2>2. /\ c.coll.frozen = e.frozen /\ c.coll.streamGaps = e.streamGaps
        /\ c.coll.open = e.open /\ c.coll.settled = e.settled
        /\ c.coll.pending = e.pending /\ c.coll.dropped = e.dropped /\ c.rows = b.rows
    BY <1>1, <2>1 DEF Shapes
  <2> HIDE DEF c, e
  <2>3. \A a \in Agents : c.coll.dropped[a] >= e.dropped[a]
    BY <1>1, <2>2
  <2>4. Grows(b, c)
    BY RefuseGrows DEF c
  <2> QED
    BY <1>2, <2>2, <2>3, <2>4, NobodyRuns DEF Carries, c, e
<1>3. CASE agent # Run
  <2>0. agent \in Agents
    BY <1>3 DEF Owners
  <2>1. c = [coll |-> [e EXCEPT !.dropped[agent] = @ + 1], rows |-> b.rows]
    BY <1>1, <1>3 DEF Refuse
  <2>2. /\ c.coll.frozen = e.frozen /\ c.coll.streamGaps = e.streamGaps
        /\ c.coll.open = e.open /\ c.coll.settled = e.settled
        /\ c.coll.pending = e.pending /\ c.rows = b.rows
        /\ c.coll.dropped = [e.dropped EXCEPT ![agent] = @ + 1]
    <3> DEFINE f == [e.dropped EXCEPT ![agent] = @ + 1]
    <3>1. c = [coll |-> [e EXCEPT !.dropped = f], rows |-> b.rows]
      BY <2>1
    <3> HIDE DEF f, e, c
    <3>2. c.coll = [e EXCEPT !.dropped = f] /\ c.rows = b.rows /\ e \in Shapes
      BY <1>1, <3>1
    <3>3. /\ c.coll.frozen = e.frozen /\ c.coll.streamGaps = e.streamGaps
          /\ c.coll.open = e.open /\ c.coll.settled = e.settled
          /\ c.coll.pending = e.pending /\ c.coll.dropped = f
      BY <3>2 DEF Shapes
    <3> QED
      BY <3>2, <3>3 DEF f
  <2> HIDE DEF c, e
  <2>3. /\ \A a \in Agents : c.coll.dropped[a] >= e.dropped[a]
        /\ c.coll.dropped[agent] > 0
    BY <1>1, <2>0, <2>2
  <2>4. Grows(b, c)
    BY RefuseGrows DEF c
  <2> QED
    BY <2>2, <2>3, <2>4 DEF Carries, c, e
<1> QED
  BY <1>2, <1>3

LEMMA WriteSays ==
    ASSUME NEW b \in Books, NEW d \in Drafts
    PROVE  LET c == Write(b, d)
           IN  /\ Carries(b, c)
               /\ \A a \in Agents, what \in Whats :
                    a # d.agent \/ what # d.what => Says(c, a, what) = Says(b, a, what)
               /\ ~b.coll.frozen =>
                    Says(c, d.agent, d.what) = Append(Says(b, d.agent, d.what), d)
<1> DEFINE row == [type |-> IF b.coll.frozen THEN "late" ELSE "evidence",
                   round |-> b.coll.round, draft |-> d]
           one == [b.coll EXCEPT !.total = @ + 1]
           own == IF d.agent = Run THEN one ELSE [one EXCEPT !.kept[d.agent] = @ + 1]
           c == Write(b, d)
<1>1. /\ b.coll \in Shapes /\ b.rows \in Seq(Rows) /\ b.coll.round # 0
      /\ b.coll.dropped \in [Agents -> Nat]
  BY ShapesKept DEF Books, Collectors
<1>2. c = [coll |-> own, rows |-> Append(b.rows, row)]
  BY <1>1 DEF Write, Shapes
<1>3. /\ own.frozen = b.coll.frozen /\ own.streamGaps = b.coll.streamGaps
      /\ own.open = b.coll.open /\ own.settled = b.coll.settled
      /\ own.pending = b.coll.pending /\ own.dropped = b.coll.dropped
      /\ own.round = b.coll.round
  BY <1>1 DEF Shapes
<1>4. row \in LiveRows /\ row.round = b.coll.round /\ row.draft = d
      /\ (row.type = "evidence" <=> ~b.coll.frozen)
  BY <1>1 DEF LiveRows, Shapes
<1> HIDE DEF row, own
<1>5. c.coll = own /\ c.rows = Append(b.rows, row)
  BY <1>2
<1>6. Grows(b, c)
  BY WriteGrows
<1> HIDE DEF c
<1>7. Carries(b, c)
  <2>1. \A a \in Agents : c.coll.dropped[a] >= b.coll.dropped[a]
    BY <1>1, <1>3, <1>5
  <2> QED
    BY <1>3, <1>5, <1>6, <2>1 DEF Carries
<1>8. row \in Rows
  BY <1>4 DEF Rows
<1>9. ASSUME NEW a, NEW what
      PROVE  Says(c, a, what) =
               IF row \in EvidenceOfRound(b.coll.round) /\ d.agent = a /\ d.what = what
               THEN Append(Says(b, a, what), d) ELSE Says(b, a, what)
  <2>1. Says(c, a, what) = Said(Append(b.rows, row), b.coll.round, a, what)
    BY <1>3, <1>5 DEF Says
  <2>2. b.rows \in Seq(Rows)
    BY <1>1
  <2>3. Said(Append(b.rows, row), b.coll.round, a, what) =
          IF row \in EvidenceOfRound(b.coll.round) /\ row.draft.agent = a /\ row.draft.what = what
          THEN Append(Said(b.rows, b.coll.round, a, what), row.draft)
          ELSE Said(b.rows, b.coll.round, a, what)
    <3> DEFINE s == b.rows
               r == b.coll.round
    <3>1. s \in Seq(Rows) /\ row \in Rows
      BY <1>8, <2>2
    <3> HIDE DEF s, r, row
    <3>2. Said(Append(s, row), r, a, what) =
            IF row \in EvidenceOfRound(r) /\ row.draft.agent = a /\ row.draft.what = what
            THEN Append(Said(s, r, a, what), row.draft) ELSE Said(s, r, a, what)
      BY <3>1, SaidAppend
    <3> QED
      BY <3>2 DEF s, r
  <2> QED
    BY <1>4, <2>1, <2>3 DEF Says
<1>10. ~b.coll.frozen => row \in EvidenceOfRound(b.coll.round)
  BY <1>4 DEF EvidenceOfRound
<1>11. ASSUME NEW a \in Agents, NEW what \in Whats, a # d.agent \/ what # d.what
       PROVE  Says(c, a, what) = Says(b, a, what)
  BY <1>9, <1>11
<1>12. ASSUME ~b.coll.frozen
       PROVE  Says(c, d.agent, d.what) = Append(Says(b, d.agent, d.what), d)
  BY <1>9, <1>10, <1>12
<1> QED
  BY <1>7, <1>11, <1>12 DEF c

\* A record that is to be persisted is written at the end, or its loss is counted.
LEMMA PersistSays ==
    ASSUME NEW b \in Books, NEW d \in Drafts, NEW lost,
           NEW c \in {Persist(b, d, lost), PersistUncapped(b, d, lost)}
    PROVE  /\ Carries(b, c) /\ c \in Books
           /\ \A a \in Agents, what \in Whats :
                a # d.agent \/ what # d.what => Says(c, a, what) = Says(b, a, what)
           /\ d.agent \in Agents /\ ~b.coll.frozen =>
                \/ c.coll.dropped[d.agent] > 0
                \/ Says(c, d.agent, d.what) = Append(Says(b, d.agent, d.what), d)
<1>1. c = Refuse(b, d.agent) \/ c = Write(b, d)
  BY DEF Persist, PersistUncapped
<1>2. CASE c = Refuse(b, d.agent)
  <2>1. d.agent \in Owners
    BY DEF Drafts
  <2>2. Carries(b, c) /\ c.rows = b.rows /\ (d.agent \in Agents => c.coll.dropped[d.agent] > 0)
    BY <1>2, <2>1, RefuseSays
  <2>3. c \in Books /\ c.coll.round = b.coll.round
    BY <2>2 DEF Carries, Grows
  <2>4. \A a, what : Says(c, a, what) = Says(b, a, what)
    BY <2>2, <2>3 DEF Says
  <2> QED
    BY <2>2, <2>3, <2>4
<1>3. CASE c = Write(b, d)
  <2>1. /\ Carries(b, c)
        /\ \A a \in Agents, what \in Whats :
             a # d.agent \/ what # d.what => Says(c, a, what) = Says(b, a, what)
        /\ ~b.coll.frozen => Says(c, d.agent, d.what) = Append(Says(b, d.agent, d.what), d)
    BY <1>3, WriteSays
  <2>2. c \in Books
    BY <2>1 DEF Carries, Grows
  <2> QED
    BY <2>1, <2>2
<1> QED
  BY <1>1, <1>2, <1>3

LEMMA CarriesTransitively ==
    ASSUME NEW b \in Books, NEW c, NEW d, Carries(b, c), Carries(c, d)
    PROVE  Carries(b, d)
<1>1. Grows(b, d) /\ c \in Books /\ d \in Books
  <2>1. Grows(b, c) /\ Grows(c, d)
    BY DEF Carries
  <2> QED
    BY <2>1, GrowsTransitively DEF Grows
<1>2. ASSUME NEW a \in Agents
      PROVE  d.coll.dropped[a] >= b.coll.dropped[a]
  <2>1. /\ b.coll.dropped \in [Agents -> Nat] /\ c.coll.dropped \in [Agents -> Nat]
        /\ d.coll.dropped \in [Agents -> Nat]
    BY <1>1, ShapesKept DEF Books, Collectors
  <2>2. d.coll.dropped[a] >= c.coll.dropped[a] /\ c.coll.dropped[a] >= b.coll.dropped[a]
    BY DEF Carries
  <2> QED
    BY <2>1, <2>2
<1> QED
  BY <1>1, <1>2 DEF Carries

LEMMA CarriesItself ==
    ASSUME NEW b \in Books
    PROVE  Carries(b, b)
<1>1. b.coll.dropped \in [Agents -> Nat] /\ b.rows \in Seq(Rows)
  BY ShapesKept DEF Books, Collectors
<1>2. Grows(b, b)
  BY <1>1, LengthensItself DEF Grows
<1> QED
  BY <1>1, <1>2 DEF Carries

\* The drafts of D, which say "unknown", are said at the end, or their loss is counted.
Adds(b, c, D) ==
    \A a \in Agents, what \in Whats :
        \/ c.coll.dropped[a] > 0
        \/ Says(c, a, what) = IF Draft(a, what, "unknown") \in D
                              THEN Append(Says(b, a, what), Draft(a, what, "unknown"))
                              ELSE Says(b, a, what)

LEMMA AddsOneMore ==
    ASSUME NEW b \in Books, NEW c \in Books, NEW D, NEW d \in Drafts, d \notin D,
           d.outcome = "unknown", NEW lost, ~b.coll.frozen, Carries(b, c), Adds(b, c, D)
    PROVE  LET e == Persist(c, d, lost)
           IN  Carries(b, e) /\ Adds(b, e, D \cup {d})
<1> DEFINE e == Persist(c, d, lost)
<1>1. /\ Carries(c, e) /\ e \in Books
      /\ \A a \in Agents, what \in Whats :
           a # d.agent \/ what # d.what => Says(e, a, what) = Says(c, a, what)
      /\ d.agent \in Agents /\ ~c.coll.frozen =>
           e.coll.dropped[d.agent] > 0 \/ Says(e, d.agent, d.what) = Append(Says(c, d.agent, d.what), d)
  BY PersistSays
<1> HIDE DEF e
<1>2. Carries(b, e) /\ ~c.coll.frozen
  BY <1>1, CarriesTransitively DEF Carries
<1>3. c.coll.dropped \in [Agents -> Nat] /\ e.coll.dropped \in [Agents -> Nat]
  BY <1>1, ShapesKept DEF Books, Collectors
<1>4. d = Draft(d.agent, d.what, "unknown")
  BY DEF Drafts, Draft
<1>5. ASSUME NEW a \in Agents, NEW what \in Whats, ~(e.coll.dropped[a] > 0)
      PROVE  Says(e, a, what) = IF Draft(a, what, "unknown") \in D \cup {d}
                                THEN Append(Says(b, a, what), Draft(a, what, "unknown"))
                                ELSE Says(b, a, what)
  <2> DEFINE u == Draft(a, what, "unknown")
  <2>1. ~(c.coll.dropped[a] > 0)
    <3>1. e.coll.dropped[a] >= c.coll.dropped[a]
      BY <1>1 DEF Carries
    <3> QED
      BY <1>3, <1>5, <3>1
  <2>2. Says(c, a, what) = IF u \in D THEN Append(Says(b, a, what), u) ELSE Says(b, a, what)
    BY <2>1 DEF Adds
  <2>3. CASE a = d.agent /\ what = d.what
    <3>1. u = d
      BY <1>4, <2>3
    <3>2. Says(e, a, what) = Append(Says(c, a, what), d)
      BY <1>1, <1>2, <1>5, <2>3
    <3> HIDE DEF u
    <3>3. Says(c, a, what) = Says(b, a, what)
      BY <2>2, <3>1
    <3>4. u \in D \cup {d}
      BY <3>1
    <3>5. Says(e, a, what) = Append(Says(b, a, what), u)
      BY <3>1, <3>2, <3>3
    <3> QED
      BY <3>4, <3>5 DEF u
  <2>4. CASE ~(a = d.agent /\ what = d.what)
    <3>1. u # d
      BY <2>4 DEF Draft
    <3>2. Says(e, a, what) = Says(c, a, what)
      BY <1>1, <2>4
    <3> HIDE DEF u
    <3>3. u \in D \cup {d} <=> u \in D
      BY <3>1
    <3> QED
      BY <2>2, <3>2, <3>3 DEF u
  <2> QED
    BY <2>3, <2>4
<1>6. Adds(b, e, D \cup {d})
  BY <1>5 DEF Adds
<1> QED
  BY <1>2, <1>6 DEF e

LEMMA PersistAllSays ==
    ASSUME NEW b \in Books, ~b.coll.frozen, NEW drafts \in Seq(Drafts), IsInjective(drafts),
           \A i \in 1..Len(drafts) : drafts[i].outcome = "unknown", NEW lost
    PROVE  LET c == PersistAll(b, drafts, lost)
           IN  c \in Books /\ Carries(b, c) /\ Adds(b, c, ToSet(drafts))
<1> DEFINE N == Len(drafts)
           First(n) == {drafts[i] : i \in 1..n}
<1>1. N \in Nat /\ \A n \in 1..N : drafts[n] \in Drafts /\ drafts[n].outcome = "unknown"
  OBVIOUS
<1>2. PICK after : AllPersisted(after, b, drafts, lost)
  BY PersistAllUnfolded
<1>3. /\ after \in [0..N -> Books] /\ after[0] = b
      /\ \A n \in 1..N : after[n] = Persist(after[n - 1], drafts[n], lost)
      /\ PersistAll(b, drafts, lost) = after[N]
  BY <1>2 DEF AllPersisted
<1>4. \A i, j \in 1..N : drafts[i] = drafts[j] => i = j
  BY DEF IsInjective
<1>5. ToSet(drafts) = First(N)
  BY DEF ToSet
<1> HIDE DEF N
<1> DEFINE Good == {n \in Nat : n <= N => Carries(b, after[n]) /\ Adds(b, after[n], First(n))}
<1>6. 0 \in Good
  <2>1. Carries(b, b)
    BY CarriesItself
  <2>2. First(0) = {}
    OBVIOUS
  <2>3. Adds(b, b, {})
    BY DEF Adds
  <2> HIDE DEF First
  <2> QED
    BY <1>3, <2>1, <2>2, <2>3
<1>7. ASSUME NEW n \in Nat, n \in Good
      PROVE  n + 1 \in Good
  <2> SUFFICES ASSUME n + 1 <= N
               PROVE  Carries(b, after[n + 1]) /\ Adds(b, after[n + 1], First(n + 1))
    OBVIOUS
  <2>1. /\ n + 1 \in 1..N /\ (n + 1) - 1 = n /\ n <= N /\ n \in 0..N /\ n + 1 \notin 1..n
        /\ \A i : i \in 1..(n + 1) <=> i \in 1..n \/ i = n + 1
        /\ \A i \in 1..n : i \in 1..N
    BY <1>1, n + 1 <= N
  <2>2. Carries(b, after[n]) /\ Adds(b, after[n], First(n)) /\ after[n] \in Books
    BY <1>3, <1>7, <2>1
  <2>3. First(n + 1) = First(n) \cup {drafts[n + 1]} /\ drafts[n + 1] \notin First(n)
    BY <1>4, <2>1
  <2>4. after[n + 1] = Persist(after[n], drafts[n + 1], lost)
    BY <1>3, <2>1
  <2>5. drafts[n + 1] \in Drafts /\ drafts[n + 1].outcome = "unknown"
    BY <1>1, <2>1
  <2> DEFINE c == after[n]
             d == drafts[n + 1]
             D == First(n)
  <2>6. /\ c \in Books /\ Carries(b, c) /\ Adds(b, c, D) /\ d \in Drafts /\ d \notin D
        /\ d.outcome = "unknown"
    BY <2>2, <2>3, <2>5
  <2> HIDE DEF c, d, D, First
  <2>7. Carries(b, Persist(c, d, lost)) /\ Adds(b, Persist(c, d, lost), D \cup {d})
    BY <2>6, AddsOneMore
  <2> QED
    BY <2>3, <2>4, <2>7 DEF c, d, D
<1> HIDE DEF Good
<1>8. \A n \in Nat : n \in Good
  BY <1>6, <1>7, SetInduction
<1>9. Carries(b, after[N]) /\ Adds(b, after[N], First(N)) /\ after[N] \in Books
  <2>1. N \in Good /\ N <= N /\ N \in 0..N
    BY <1>1, <1>8
  <2> HIDE DEF First
  <2> QED
    BY <1>3, <2>1 DEF Good
<1> HIDE DEF First
<1> QED
  BY <1>3, <1>5, <1>9

\* What is open and what is pending is said to be unknown, each once.
LEMMA UnknownFacts ==
    ASSUME NEW q \in Seq(Agents), IsInjective(q), NEW what \in Whats
    PROVE  /\ Unknown(q, what) \in Seq(Drafts) /\ IsInjective(Unknown(q, what))
           /\ ToSet(Unknown(q, what)) = {Draft(a, what, "unknown") : a \in ToSet(q)}
           /\ Len(Unknown(q, what)) = Len(q)
           /\ \A i \in 1..Len(q) : Unknown(q, what)[i] = Draft(q[i], what, "unknown")
<1> DEFINE u == Unknown(q, what)
<1>1. Len(q) \in Nat /\ DOMAIN q = 1..Len(q) /\ \A i \in 1..Len(q) : q[i] \in Agents
  OBVIOUS
<1>2. u = [i \in 1..Len(q) |-> Draft(q[i], what, "unknown")]
  BY <1>1 DEF Unknown
<1>3. \A i \in 1..Len(q) : Draft(q[i], what, "unknown") \in Drafts
  BY <1>1 DEF Draft, Drafts, Owners, Outcomes
<1> HIDE DEF u
<1>4. u \in Seq(Drafts) /\ Len(u) = Len(q) /\ DOMAIN u = 1..Len(q)
      /\ \A i \in 1..Len(q) : u[i] = Draft(q[i], what, "unknown")
  BY <1>1, <1>2, <1>3
<1>5. IsInjective(u)
  <2>1. \A i, j \in 1..Len(q) : q[i] = q[j] => i = j
    BY <1>1 DEF IsInjective
  <2>2. ASSUME NEW i \in 1..Len(q), NEW j \in 1..Len(q), u[i] = u[j]
        PROVE  i = j
    <3>1. q[i] = q[j]
      BY <1>4, <2>2 DEF Draft
    <3> QED
      BY <2>1, <3>1
  <2> QED
    BY <1>4, <2>2 DEF IsInjective
<1>6. ToSet(u) = {Draft(a, what, "unknown") : a \in ToSet(q)}
  BY <1>1, <1>4 DEF ToSet
<1> QED
  BY <1>4, <1>5, <1>6 DEF u

Ended(b, a, what, agents) ==
    IF a \in ToSet(agents) THEN Append(Says(b, a, what), Draft(a, what, "unknown"))
    ELSE Says(b, a, what)

LEMMA SettleOpenSays ==
    ASSUME NEW b \in Books, ~b.coll.frozen, NEW lost
    PROVE  LET c == SettleOpen(b, lost)
           IN  /\ c \in Books /\ c.coll.round = b.coll.round
               /\ c.coll.streamGaps = b.coll.streamGaps
               /\ \A a \in Agents :
                    /\ c.coll.dropped[a] >= b.coll.dropped[a]
                    /\ \/ c.coll.dropped[a] > 0
                       \/ /\ Says(c, a, "tool") = Ended(b, a, "tool", b.coll.open)
                          /\ Says(c, a, "permission") = Ended(b, a, "permission", b.coll.pending)
<1> DEFINE e == b.coll
           tools == Unknown(e.open, "tool")
           requests == Unknown(e.pending, "permission")
           drafts == tools \o requests
           p == PersistAll(b, drafts, lost)
           c == SettleOpen(b, lost)
<1>1. /\ e.open \in Seq(Agents) /\ e.pending \in Seq(Agents)
      /\ IsInjective(e.open) /\ IsInjective(e.pending)
  BY DEF Books, Collectors, Shapes
<1>2. /\ tools \in Seq(Drafts) /\ IsInjective(tools)
      /\ ToSet(tools) = {Draft(a, "tool", "unknown") : a \in ToSet(e.open)}
      /\ Len(tools) = Len(e.open)
      /\ \A i \in 1..Len(e.open) : tools[i] = Draft(e.open[i], "tool", "unknown")
  BY <1>1, UnknownFacts DEF Whats
<1>3. /\ requests \in Seq(Drafts) /\ IsInjective(requests)
      /\ ToSet(requests) = {Draft(a, "permission", "unknown") : a \in ToSet(e.pending)}
      /\ Len(requests) = Len(e.pending)
      /\ \A i \in 1..Len(e.pending) : requests[i] = Draft(e.pending[i], "permission", "unknown")
  BY <1>1, UnknownFacts DEF Whats
<1>4. c = [p EXCEPT !.coll.open = <<>>, !.coll.pending = <<>>]
  BY DEF SettleOpen
<1> HIDE DEF tools, requests
<1>5. ToSet(tools) \cap ToSet(requests) = {}
  BY <1>2, <1>3 DEF Draft
<1>6. /\ drafts \in Seq(Drafts) /\ IsInjective(drafts)
      /\ ToSet(drafts) = ToSet(tools) \cup ToSet(requests)
  BY <1>2, <1>3, <1>5, ToSetConcat
<1>7. ASSUME NEW i \in 1..Len(drafts)
      PROVE  drafts[i].outcome = "unknown"
  <2>1. drafts[i] \in ToSet(tools) \cup ToSet(requests)
    BY <1>6 DEF ToSet
  <2> HIDE DEF drafts
  <2> QED
    BY <1>2, <1>3, <2>1 DEF Draft
<1> HIDE DEF drafts
<1>8. p \in Books /\ Carries(b, p) /\ Adds(b, p, ToSet(drafts))
  BY <1>6, <1>7, PersistAllSays
<1> HIDE DEF p, c
<1>9. c \in Books
  BY SettleOpenGrows DEF Grows, c
<1>10. /\ c.rows = p.rows /\ c.coll.round = p.coll.round
       /\ c.coll.dropped = p.coll.dropped /\ c.coll.streamGaps = p.coll.streamGaps
  BY <1>4, <1>8 DEF Books, Collectors, Shapes
<1>11. p.coll.round = e.round /\ p.coll.streamGaps = e.streamGaps
       /\ \A a \in Agents : p.coll.dropped[a] >= e.dropped[a]
  BY <1>8 DEF Carries, Grows
<1>12. \A a, what : Says(c, a, what) = Says(p, a, what)
  BY <1>10 DEF Says
<1>13. ASSUME NEW a \in Agents, ~(c.coll.dropped[a] > 0)
       PROVE  /\ Says(c, a, "tool") = Ended(b, a, "tool", e.open)
              /\ Says(c, a, "permission") = Ended(b, a, "permission", e.pending)
  <2>1. \A what \in Whats :
          Says(p, a, what) = IF Draft(a, what, "unknown") \in ToSet(drafts)
                             THEN Append(Says(b, a, what), Draft(a, what, "unknown"))
                             ELSE Says(b, a, what)
    BY <1>8, <1>10, <1>13 DEF Adds
  <2>2. Draft(a, "tool", "unknown") \in ToSet(drafts) <=> a \in ToSet(e.open)
    BY <1>2, <1>3, <1>6 DEF Draft
  <2>3. Draft(a, "permission", "unknown") \in ToSet(drafts) <=> a \in ToSet(e.pending)
    BY <1>2, <1>3, <1>6 DEF Draft
  <2>4. "tool" \in Whats /\ "permission" \in Whats
    BY DEF Whats
  <2> QED
    BY <1>12, <2>1, <2>2, <2>3, <2>4 DEF Ended
<1>14. \A a \in Agents : c.coll.dropped[a] >= e.dropped[a]
  BY <1>10, <1>11
<1> QED
  BY <1>9, <1>10, <1>11, <1>13, <1>14 DEF c

\* c says of tool calls and permission requests what b says.
Leaves(b, c) ==
    /\ Carries(b, c)
    /\ \A a \in Agents, what \in {"tool", "permission"} : Says(c, a, what) = Says(b, a, what)

LEMMA LeavesTransitively ==
    ASSUME NEW b \in Books, NEW c, NEW d, Leaves(b, c), Leaves(c, d)
    PROVE  Leaves(b, d)
BY CarriesTransitively DEF Leaves

LEMMA CoverAgentLeaves ==
    ASSUME NEW b \in Books, NEW a \in Agents, NEW capture, NEW lost
    PROVE  Leaves(b, CoverAgent(b, a, capture, lost))
<1> DEFINE d == Draft(a, "integrity", Integrity(capture[a]))
           e == Draft(a, "gap", "unknown")
           c == PersistUncapped(b, d, lost)
           f == PersistUncapped(c, e, lost)
<1>1. d \in Drafts /\ e \in Drafts /\ d.what = "integrity" /\ e.what = "gap"
  BY DEF Draft, Drafts, Integrity, Owners, Whats, Outcomes
<1>2. CoverAgent(b, a, capture, lost) = IF c.coll.dropped[a] = 0 THEN c ELSE f
  BY DEF CoverAgent
<1>3. {"tool", "permission"} \subseteq Whats /\ "integrity" \notin {"tool", "permission"}
      /\ "gap" \notin {"tool", "permission"}
  BY DEF Whats
<1> HIDE DEF d, e
<1>4. /\ Carries(b, c) /\ c \in Books
      /\ \A x \in Agents, what \in Whats :
           x # d.agent \/ what # d.what => Says(c, x, what) = Says(b, x, what)
  BY <1>1, PersistSays
<1> HIDE DEF c
<1>5. /\ Carries(c, f)
      /\ \A x \in Agents, what \in Whats :
           x # e.agent \/ what # e.what => Says(f, x, what) = Says(c, x, what)
  BY <1>1, <1>4, PersistSays
<1> HIDE DEF f
<1>6. Leaves(b, c)
  BY <1>1, <1>3, <1>4 DEF Leaves
<1>7. Leaves(c, f)
  BY <1>1, <1>3, <1>5 DEF Leaves
<1> QED
  BY <1>2, <1>6, <1>7, LeavesTransitively

LEMMA CoveredAgentsLeaves ==
    ASSUME NEW b \in Books, NEW capture, NEW lost
    PROVE  LET c == CoveredAgents(b, capture, lost) IN c \in Books /\ Leaves(b, c)
<1> DEFINE N == Cardinality(Agents)
<1>1. N \in Nat /\ \A n \in 1..N : n \in Agents
  BY AgentsAssumption, FS_CardinalityType
<1>2. PICK upTo : AllCovered(upTo, b, capture, lost)
  BY AddCoverageUnfolded
<1>3. /\ upTo \in [0..N -> Books] /\ upTo[0] = b
      /\ \A n \in 1..N : upTo[n] = CoverAgent(upTo[n - 1], n, capture, lost)
      /\ CoveredAgents(b, capture, lost) = upTo[N]
  BY <1>2 DEF AllCovered
<1> HIDE DEF N
<1> DEFINE Good == {n \in Nat : n <= N => Leaves(b, upTo[n])}
<1>4. 0 \in Good
  BY <1>3, CarriesItself DEF Leaves
<1>5. ASSUME NEW n \in Nat, n \in Good
      PROVE  n + 1 \in Good
  <2> SUFFICES ASSUME n + 1 <= N
               PROVE  Leaves(b, upTo[n + 1])
    OBVIOUS
  <2>1. n + 1 \in 1..N /\ (n + 1) - 1 = n /\ n <= N /\ n \in 0..N
    BY <1>1
  <2>2. Leaves(b, upTo[n]) /\ upTo[n] \in Books
    BY <1>3, <1>5, <2>1
  <2>3. Leaves(upTo[n], upTo[n + 1])
    BY <1>1, <1>3, <2>1, <2>2, CoverAgentLeaves
  <2> QED
    BY <2>2, <2>3, LeavesTransitively
<1> HIDE DEF Good
<1>6. \A n \in Nat : n \in Good
  BY <1>4, <1>5, SetInduction
<1>7. Leaves(b, upTo[N]) /\ upTo[N] \in Books
  <2>1. N \in Good /\ N <= N /\ N \in 0..N
    BY <1>1, <1>6
  <2> QED
    BY <1>3, <2>1 DEF Good
<1> QED
  BY <1>3, <1>7

LEMMA AddCoverageLeaves ==
    ASSUME NEW b \in Books, NEW capture, NEW lost
    PROVE  Leaves(b, AddCoverage(b, capture, lost))
<1> DEFINE agents == CoveredAgents(b, capture, lost)
           d == Draft(Run, "gap", "unknown")
           f == PersistUncapped(agents, d, lost)
<1>1. agents \in Books /\ Leaves(b, agents)
  BY CoveredAgentsLeaves
<1>2. AddCoverage(b, capture, lost) = IF agents.coll.runDropped = 0 THEN agents ELSE f
  BY DEF AddCoverage
<1>3. d \in Drafts /\ d.agent = Run
  BY DEF Draft, Drafts, Owners, Whats, Outcomes
<1> HIDE DEF agents, d
<1>4. /\ Carries(agents, f)
      /\ \A x \in Agents, what \in Whats :
           x # d.agent \/ what # d.what => Says(f, x, what) = Says(agents, x, what)
  BY <1>1, <1>3, PersistSays
<1> HIDE DEF f
<1>5. {"tool", "permission"} \subseteq Whats /\ \A x \in Agents : x # Run
  BY NobodyRuns DEF Whats
<1>6. Leaves(agents, f)
  BY <1>3, <1>4, <1>5 DEF Leaves
<1> QED
  BY <1>1, <1>2, <1>6, LeavesTransitively

\* What every event leaves of a book.
Follows(b, c) ==
    /\ c \in Books /\ c.coll.round = b.coll.round /\ c.coll.frozen = b.coll.frozen
    /\ c.coll.streamGaps = b.coll.streamGaps
    /\ \A a \in Agents : c.coll.dropped[a] >= b.coll.dropped[a]

\* What an event says of a tool call: nothing new of the others, and of its own agent the end
\* of a call once.
LEMMA ToolEventSays ==
    ASSUME NEW b \in Books, ~b.coll.frozen, NEW a \in Agents,
           NEW st \in {"running", "completed", "error"}, NEW lost
    PROVE  LET c == ToolEvent(b, a, st, lost)
               d == Draft(a, "tool", IF st = "completed" THEN "completed" ELSE "failed")
           IN  /\ Follows(b, c) /\ c.coll.pending = b.coll.pending
               /\ \A x \in Agents :
                    /\ Says(c, x, "permission") = Says(b, x, "permission")
                    /\ x # a => /\ Says(c, x, "tool") = Says(b, x, "tool")
                                /\ x \in ToSet(c.coll.open) <=> x \in ToSet(b.coll.open)
                                /\ x \in c.coll.settled <=> x \in b.coll.settled
               /\ a \in b.coll.settled => c = b
               /\ a \notin b.coll.settled /\ st # "running" =>
                    /\ a \notin ToSet(c.coll.open) /\ a \in c.coll.settled
                    /\ c.coll.dropped[a] > 0 \/ Says(c, a, "tool") = Append(Says(b, a, "tool"), d)
               /\ a \notin b.coll.settled /\ st = "running" =>
                    /\ a \in ToSet(c.coll.open) /\ a \notin c.coll.settled
                    /\ Says(c, a, "tool") = Says(b, a, "tool")
<1> DEFINE e == b.coll
           d == Draft(a, "tool", IF st = "completed" THEN "completed" ELSE "failed")
           q == Closed(e.open, a)
           S == e.settled \cup {a}
           x == [b EXCEPT !.coll.open = q, !.coll.settled = S]
           c == ToolEvent(b, a, st, lost)
<1>1. /\ e \in Shapes /\ IsInjective(e.open) /\ e.open \in Seq(Agents)
      /\ e.settled \in SUBSET Agents /\ e.dropped \in [Agents -> Nat]
  BY ShapesKept DEF Books, Collectors
<1>2. Follows(b, b)
  BY <1>1 DEF Follows
<1>3. d \in Drafts /\ d.agent = a /\ d.what = "tool" /\ "tool" \in Whats /\ "permission" \in Whats
  BY DEF Draft, Drafts, Owners, Whats, Outcomes
<1>4. c = IF a \in e.settled THEN b
          ELSE IF st # "running" THEN Persist(x, d, lost)
          ELSE IF Contains(e.open, a) THEN b ELSE [b EXCEPT !.coll.open = Append(@, a)]
  BY DEF ToolEvent, Settled
<1>5. Contains(e.open, a) <=> a \in ToSet(e.open)
  BY <1>1 DEF Contains, ToSet
<1>6. CASE a \in e.settled
  BY <1>2, <1>4, <1>6
<1>7. CASE a \notin e.settled /\ st # "running"
  <2>1. /\ q \in Seq(Agents) /\ IsInjective(q) /\ ToSet(q) = ToSet(e.open) \cap (Agents \ {a})
        /\ S \in SUBSET Agents
    BY <1>1, AmongFacts DEF Closed
  <2> HIDE DEF q, S
  <2>2. x \in Books
    BY <2>1, OpenChanges DEF Grows
  <2>3. /\ x.rows = b.rows /\ x.coll.round = e.round /\ x.coll.frozen = e.frozen
        /\ x.coll.streamGaps = e.streamGaps /\ x.coll.dropped = e.dropped
        /\ x.coll.pending = e.pending /\ x.coll.open = q /\ x.coll.settled = S
    BY <1>1 DEF Books, Shapes
  <2> HIDE DEF x, d
  <2>4. c = Persist(x, d, lost)
    BY <1>4, <1>7
  <2> HIDE DEF c, e
  <2>5. /\ Carries(x, c) /\ c \in Books
        /\ \A y \in Agents, what \in Whats :
             y # d.agent \/ what # d.what => Says(c, y, what) = Says(x, y, what)
        /\ d.agent \in Agents /\ ~x.coll.frozen =>
             c.coll.dropped[d.agent] > 0 \/ Says(c, d.agent, d.what) = Append(Says(x, d.agent, d.what), d)
    BY <1>3, <2>2, <2>4, PersistSays
  <2>6. \A y, what : Says(x, y, what) = Says(b, y, what)
    BY <2>3 DEF Says, e
  <2>7. Follows(b, c)
    <3>1. c.coll.round = x.coll.round
      BY <2>5 DEF Carries, Grows
    <3> QED
      BY <2>3, <2>5, <3>1 DEF Carries, Follows, e
  <2>8. c.coll.pending = e.pending /\ c.coll.open = q /\ c.coll.settled = S
    BY <2>3, <2>5 DEF Carries
  <2>9. ASSUME NEW y \in Agents
        PROVE  /\ Says(c, y, "permission") = Says(b, y, "permission")
               /\ y # a => /\ Says(c, y, "tool") = Says(b, y, "tool")
                           /\ y \in ToSet(c.coll.open) <=> y \in ToSet(e.open)
                           /\ y \in c.coll.settled <=> y \in e.settled
    BY <1>3, <2>1, <2>5, <2>6, <2>8 DEF S
  <2>10. a \notin ToSet(c.coll.open) /\ a \in c.coll.settled
    BY <2>1, <2>8 DEF S
  <2>11. c.coll.dropped[a] > 0 \/ Says(c, a, "tool") = Append(Says(b, a, "tool"), d)
    BY <1>3, <2>3, <2>5, <2>6 DEF e
  <2> QED
    BY <1>7, <2>7, <2>8, <2>9, <2>10, <2>11 DEF c, e, d
<1>8. CASE a \notin e.settled /\ st = "running"
  <2>1. CASE a \in ToSet(e.open)
    BY <1>2, <1>4, <1>5, <1>8, <2>1
  <2>2. CASE a \notin ToSet(e.open)
    <3> DEFINE p == Append(e.open, a)
    <3>1. /\ p \in Seq(Agents) /\ IsInjective(p) /\ ToSet(p) = ToSet(e.open) \cup {a}
      BY <1>1, <2>2, ToSetAppend
    <3>2. c = [b EXCEPT !.coll.open = p]
      BY <1>4, <1>5, <1>8, <2>2
    <3> HIDE DEF p, c
    <3>3. c \in Books
      BY <3>1, <3>2, OpenChanges DEF Grows
    <3>4. /\ c.rows = b.rows /\ c.coll.round = e.round /\ c.coll.frozen = e.frozen
          /\ c.coll.streamGaps = e.streamGaps /\ c.coll.dropped = e.dropped
          /\ c.coll.pending = e.pending /\ c.coll.open = p /\ c.coll.settled = e.settled
      BY <1>1, <3>2 DEF Books, Shapes
    <3>5. \A y, what : Says(c, y, what) = Says(b, y, what)
      BY <3>4 DEF Says
    <3>6. Follows(b, c)
      BY <1>1, <3>3, <3>4 DEF Follows
    <3> HIDE DEF e
    <3>7. ASSUME NEW y \in Agents
          PROVE  /\ Says(c, y, "permission") = Says(b, y, "permission")
                 /\ y # a => /\ Says(c, y, "tool") = Says(b, y, "tool")
                             /\ y \in ToSet(c.coll.open) <=> y \in ToSet(e.open)
                             /\ y \in c.coll.settled <=> y \in e.settled
      BY <3>1, <3>4, <3>5
    <3>8. a \in ToSet(c.coll.open) /\ a \notin c.coll.settled
      BY <1>8, <3>1, <3>4
    <3> QED
      BY <1>8, <3>4, <3>5, <3>6, <3>7, <3>8 DEF c, e
  <2> QED
    BY <2>1, <2>2
<1> QED
  BY <1>6, <1>7, <1>8

LEMMA PermissionEventSays ==
    ASSUME NEW b \in Books, ~b.coll.frozen, NEW a \in Agents,
           NEW st \in {"asked", "allowed", "denied"}, NEW lost
    PROVE  LET c == PermissionEvent(b, a, st, lost)
               d == Draft(a, "permission", st)
           IN  /\ Follows(b, c) /\ c.coll.open = b.coll.open /\ c.coll.settled = b.coll.settled
               /\ \A x \in Agents :
                    /\ Says(c, x, "tool") = Says(b, x, "tool")
                    /\ x # a => /\ Says(c, x, "permission") = Says(b, x, "permission")
                                /\ x \in ToSet(c.coll.pending) <=> x \in ToSet(b.coll.pending)
               /\ st # "asked" =>
                    /\ a \notin ToSet(c.coll.pending)
                    /\ \/ c.coll.dropped[a] > 0
                       \/ Says(c, a, "permission") = Append(Says(b, a, "permission"), d)
               /\ st = "asked" =>
                    /\ a \in ToSet(c.coll.pending)
                    /\ Says(c, a, "permission") = Says(b, a, "permission")
<1> DEFINE e == b.coll
           d == Draft(a, "permission", st)
           q == Closed(e.pending, a)
           x == [b EXCEPT !.coll.pending = q]
           c == PermissionEvent(b, a, st, lost)
<1>1. /\ e \in Shapes /\ IsInjective(e.pending) /\ e.pending \in Seq(Agents)
      /\ e.dropped \in [Agents -> Nat]
  BY ShapesKept DEF Books, Collectors
<1>2. Follows(b, b)
  BY <1>1 DEF Follows
<1>4. c = IF st # "asked" THEN Persist(x, d, lost)
          ELSE IF Contains(e.pending, a) THEN b ELSE [b EXCEPT !.coll.pending = Append(@, a)]
  BY DEF PermissionEvent
<1>5. Contains(e.pending, a) <=> a \in ToSet(e.pending)
  BY <1>1 DEF Contains, ToSet
<1>7. CASE st # "asked"
  <2>0. d \in Drafts /\ d.agent = a /\ d.what = "permission" /\ "tool" \in Whats
        /\ "permission" \in Whats
    BY <1>7 DEF Draft, Drafts, Owners, Whats, Outcomes
  <2>1. /\ q \in Seq(Agents) /\ IsInjective(q) /\ ToSet(q) = ToSet(e.pending) \cap (Agents \ {a})
    BY <1>1, AmongFacts DEF Closed
  <2> HIDE DEF q
  <2>2. x \in Books
    BY <2>1, OpenChanges DEF Grows
  <2>3. /\ x.rows = b.rows /\ x.coll.round = e.round /\ x.coll.frozen = e.frozen
        /\ x.coll.streamGaps = e.streamGaps /\ x.coll.dropped = e.dropped
        /\ x.coll.pending = q /\ x.coll.open = e.open /\ x.coll.settled = e.settled
    BY <1>1 DEF Books, Shapes
  <2> HIDE DEF x, d
  <2>4. c = Persist(x, d, lost)
    BY <1>4, <1>7
  <2> HIDE DEF c, e
  <2>5. /\ Carries(x, c) /\ c \in Books
        /\ \A y \in Agents, what \in Whats :
             y # d.agent \/ what # d.what => Says(c, y, what) = Says(x, y, what)
        /\ d.agent \in Agents /\ ~x.coll.frozen =>
             c.coll.dropped[d.agent] > 0 \/ Says(c, d.agent, d.what) = Append(Says(x, d.agent, d.what), d)
    BY <2>0, <2>2, <2>4, PersistSays
  <2>6. \A y, what : Says(x, y, what) = Says(b, y, what)
    BY <2>3 DEF Says, e
  <2>7. Follows(b, c)
    <3>1. c.coll.round = x.coll.round
      BY <2>5 DEF Carries, Grows
    <3> QED
      BY <2>3, <2>5, <3>1 DEF Carries, Follows, e
  <2>8. c.coll.pending = q /\ c.coll.open = e.open /\ c.coll.settled = e.settled
    BY <2>3, <2>5 DEF Carries
  <2>9. ASSUME NEW y \in Agents
        PROVE  /\ Says(c, y, "tool") = Says(b, y, "tool")
               /\ y # a => /\ Says(c, y, "permission") = Says(b, y, "permission")
                           /\ y \in ToSet(c.coll.pending) <=> y \in ToSet(e.pending)
    BY <2>0, <2>1, <2>5, <2>6, <2>8
  <2>10. a \notin ToSet(c.coll.pending)
    BY <2>1, <2>8
  <2>11. c.coll.dropped[a] > 0 \/ Says(c, a, "permission") = Append(Says(b, a, "permission"), d)
    BY <2>0, <2>3, <2>5, <2>6 DEF e
  <2> QED
    BY <1>7, <2>7, <2>8, <2>9, <2>10, <2>11 DEF c, e, d
<1>8. CASE st = "asked"
  <2>1. CASE a \in ToSet(e.pending)
    BY <1>2, <1>4, <1>5, <1>8, <2>1
  <2>2. CASE a \notin ToSet(e.pending)
    <3> DEFINE p == Append(e.pending, a)
    <3>1. /\ p \in Seq(Agents) /\ IsInjective(p) /\ ToSet(p) = ToSet(e.pending) \cup {a}
      BY <1>1, <2>2, ToSetAppend
    <3>2. c = [b EXCEPT !.coll.pending = p]
      BY <1>4, <1>5, <1>8, <2>2
    <3> HIDE DEF p, c
    <3>3. c \in Books
      BY <3>1, <3>2, OpenChanges DEF Grows
    <3>4. /\ c.rows = b.rows /\ c.coll.round = e.round /\ c.coll.frozen = e.frozen
          /\ c.coll.streamGaps = e.streamGaps /\ c.coll.dropped = e.dropped
          /\ c.coll.pending = p /\ c.coll.open = e.open /\ c.coll.settled = e.settled
      BY <1>1, <3>2 DEF Books, Shapes
    <3>5. \A y, what : Says(c, y, what) = Says(b, y, what)
      BY <3>4 DEF Says
    <3>6. Follows(b, c)
      BY <1>1, <3>3, <3>4 DEF Follows
    <3> HIDE DEF e
    <3>7. ASSUME NEW y \in Agents
          PROVE  /\ Says(c, y, "tool") = Says(b, y, "tool")
                 /\ y # a => /\ Says(c, y, "permission") = Says(b, y, "permission")
                             /\ y \in ToSet(c.coll.pending) <=> y \in ToSet(e.pending)
      BY <3>1, <3>4, <3>5
    <3>8. a \in ToSet(c.coll.pending)
      BY <3>1, <3>4
    <3> QED
      BY <1>8, <3>4, <3>5, <3>6, <3>7, <3>8 DEF c, e
  <2> QED
    BY <2>1, <2>2
<1> QED
  BY <1>7, <1>8

-----------------------------------------------------------------------------
(* The account of a round: as long as nothing was lost, the book knows of   *)
(* each call and request what has become of it.                             *)

Ending(state) == IF state = "completed" THEN "completed" ELSE "failed"
CallKnown(b, a, state) ==
    \/ /\ state = "none" /\ a \notin ToSet(b.coll.open) /\ a \notin b.coll.settled
       /\ Says(b, a, "tool") = <<>>
    \/ /\ state = "running" /\ a \in ToSet(b.coll.open) /\ a \notin b.coll.settled
       /\ Says(b, a, "tool") = <<>>
    \/ /\ state \in Settled /\ a \notin ToSet(b.coll.open) /\ a \in b.coll.settled
       /\ Says(b, a, "tool") = <<Draft(a, "tool", Ending(state))>>
RequestKnown(b, a, state) ==
    \/ state = "none" /\ a \notin ToSet(b.coll.pending) /\ Says(b, a, "permission") = <<>>
    \/ state = "asked" /\ a \in ToSet(b.coll.pending) /\ Says(b, a, "permission") = <<>>
    \/ /\ state \in {"allowed", "denied"} /\ a \notin ToSet(b.coll.pending)
       /\ Says(b, a, "permission") = <<Draft(a, "permission", state)>>
Lossy(b, a) == b.coll.streamGaps > 0 \/ b.coll.dropped[a] > 0
Known(b, a, call, request) ==
    Lossy(b, a) \/ (CallKnown(b, a, call) /\ RequestKnown(b, a, request))

\* What is known of an agent stays known while nothing is said of it.
LEMMA KnownStays ==
    ASSUME NEW b \in Books, NEW c, NEW a \in Agents, NEW call, NEW request,
           Known(b, a, call, request), Follows(b, c),
           \A what \in {"tool", "permission"} : Says(c, a, what) = Says(b, a, what),
           a \in ToSet(c.coll.open) <=> a \in ToSet(b.coll.open),
           a \in c.coll.settled <=> a \in b.coll.settled,
           a \in ToSet(c.coll.pending) <=> a \in ToSet(b.coll.pending)
    PROVE  Known(c, a, call, request)
<1>1. b.coll.dropped[a] \in Nat /\ c.coll.dropped[a] \in Nat
  <2>1. b.coll.dropped \in [Agents -> Nat] /\ c.coll.dropped \in [Agents -> Nat]
    BY ShapesKept DEF Follows, Books, Collectors
  <2> QED
    BY <2>1
<1>2. Lossy(b, a) => Lossy(c, a)
  BY <1>1 DEF Lossy, Follows
<1>3. CallKnown(b, a, call) => CallKnown(c, a, call)
  BY DEF CallKnown
<1>4. RequestKnown(b, a, request) => RequestKnown(c, a, request)
  BY DEF RequestKnown
<1> QED
  BY <1>2, <1>3, <1>4 DEF Known

LEMMA CallMoves ==
    ASSUME NEW b \in Books, ~b.coll.frozen, NEW a \in Agents, NEW t, NEW st,
           \/ <<t, st>> \in {<<"none", "running">>, <<"running", "completed">>,
                             <<"running", "error">>}
           \/ t = st /\ st \in {"running", "completed", "error"},
           NEW lost, NEW p, Known(b, a, t, p)
    PROVE  Known(ToolEvent(b, a, st, lost), a, st, p)
<1> DEFINE c == ToolEvent(b, a, st, lost)
           d == Draft(a, "tool", Ending(st))
<1>1. st \in {"running", "completed", "error"}
  OBVIOUS
<1>2. /\ Follows(b, c) /\ c.coll.pending = b.coll.pending
      /\ Says(c, a, "permission") = Says(b, a, "permission")
      /\ a \in b.coll.settled => c = b
      /\ a \notin b.coll.settled /\ st # "running" =>
           /\ a \notin ToSet(c.coll.open) /\ a \in c.coll.settled
           /\ c.coll.dropped[a] > 0 \/ Says(c, a, "tool") = Append(Says(b, a, "tool"), d)
      /\ a \notin b.coll.settled /\ st = "running" =>
           /\ a \in ToSet(c.coll.open) /\ a \notin c.coll.settled
           /\ Says(c, a, "tool") = Says(b, a, "tool")
  BY <1>1, ToolEventSays DEF Ending
<1> HIDE DEF c
<1>3. b.coll.dropped[a] \in Nat /\ c.coll.dropped[a] \in Nat
  <2>1. b.coll.dropped \in [Agents -> Nat] /\ c.coll.dropped \in [Agents -> Nat]
    BY <1>2, ShapesKept DEF Follows, Books, Collectors
  <2> QED
    BY <2>1
<1>4. Lossy(b, a) => Lossy(c, a)
  BY <1>2, <1>3 DEF Lossy, Follows
<1>5. RequestKnown(b, a, p) => RequestKnown(c, a, p)
  BY <1>2 DEF RequestKnown
<1>6. ASSUME ~Lossy(c, a), CallKnown(b, a, t)
      PROVE  CallKnown(c, a, st)
  <2>1. CASE a \in b.coll.settled
    <3>1. t \in Settled
      BY <1>6, <2>1 DEF CallKnown
    <3>2. t = st
      BY <3>1 DEF Settled
    <3> QED
      BY <1>2, <1>6, <2>1, <3>2
  <2>2. CASE a \notin b.coll.settled /\ st = "running"
    <3>1. Says(b, a, "tool") = <<>>
      BY <1>6, <2>2 DEF CallKnown
    <3> QED
      BY <1>2, <2>2, <3>1 DEF CallKnown
  <2>3. CASE a \notin b.coll.settled /\ st # "running"
    <3>1. Says(b, a, "tool") = <<>>
      BY <1>6, <2>3 DEF CallKnown
    <3>2. Says(c, a, "tool") = <<d>>
      <4>1. ~(c.coll.dropped[a] > 0)
        BY <1>6 DEF Lossy
      <4>2. Says(c, a, "tool") = Append(<<>>, d)
        BY <1>2, <2>3, <3>1, <4>1
      <4> HIDE DEF d
      <4> QED
        BY <4>2
    <3>3. st \in Settled
      BY <1>1, <2>3 DEF Settled
    <3> QED
      BY <1>2, <2>3, <3>2, <3>3 DEF CallKnown
  <2> QED
    BY <2>1, <2>2, <2>3
<1> QED
  BY <1>4, <1>5, <1>6 DEF Known, c

LEMMA RequestMoves ==
    ASSUME NEW b \in Books, ~b.coll.frozen, NEW a \in Agents, NEW p, NEW st,
           <<p, st>> \in {<<"none", "asked">>, <<"asked", "allowed">>, <<"asked", "denied">>},
           NEW lost, NEW t, Known(b, a, t, p)
    PROVE  Known(PermissionEvent(b, a, st, lost), a, t, st)
<1> DEFINE c == PermissionEvent(b, a, st, lost)
           d == Draft(a, "permission", st)
<1>1. st \in {"asked", "allowed", "denied"}
  OBVIOUS
<1>2. /\ Follows(b, c) /\ c.coll.open = b.coll.open /\ c.coll.settled = b.coll.settled
      /\ Says(c, a, "tool") = Says(b, a, "tool")
      /\ st # "asked" =>
           /\ a \notin ToSet(c.coll.pending)
           /\ c.coll.dropped[a] > 0 \/ Says(c, a, "permission") = Append(Says(b, a, "permission"), d)
      /\ st = "asked" =>
           a \in ToSet(c.coll.pending) /\ Says(c, a, "permission") = Says(b, a, "permission")
  BY <1>1, PermissionEventSays
<1> HIDE DEF c
<1>3. b.coll.dropped[a] \in Nat /\ c.coll.dropped[a] \in Nat
  <2>1. b.coll.dropped \in [Agents -> Nat] /\ c.coll.dropped \in [Agents -> Nat]
    BY <1>2, ShapesKept DEF Follows, Books, Collectors
  <2> QED
    BY <2>1
<1>4. Lossy(b, a) => Lossy(c, a)
  BY <1>2, <1>3 DEF Lossy, Follows
<1>5. CallKnown(b, a, t) => CallKnown(c, a, t)
  BY <1>2 DEF CallKnown
<1>6. ASSUME ~Lossy(c, a), RequestKnown(b, a, p)
      PROVE  RequestKnown(c, a, st)
  <2>1. Says(b, a, "permission") = <<>>
    BY <1>6 DEF RequestKnown
  <2>2. CASE st = "asked"
    BY <1>2, <2>1, <2>2 DEF RequestKnown
  <2>3. CASE st # "asked"
    <3>1. Says(c, a, "permission") = <<d>>
      <4>1. ~(c.coll.dropped[a] > 0)
        BY <1>6 DEF Lossy
      <4>2. Says(c, a, "permission") = Append(<<>>, d)
        BY <1>2, <2>1, <2>3, <4>1
      <4> HIDE DEF d
      <4> QED
        BY <4>2
    <3> QED
      BY <1>1, <1>2, <2>3, <3>1 DEF RequestKnown
  <2> QED
    BY <2>2, <2>3
<1>7. Known(c, a, t, st)
  BY <1>4, <1>5, <1>6 DEF Known
<1> QED
  BY <1>7 DEF c

\* A record of another kind, or of a run, leaves what is known.
LEMMA OtherRecords ==
    ASSUME NEW b \in Books, NEW d \in Drafts, d.what \notin {"tool", "permission"}, NEW lost,
           NEW a \in Agents, NEW t, NEW p, Known(b, a, t, p)
    PROVE  Known(Persist(b, d, lost), a, t, p)
<1> DEFINE c == Persist(b, d, lost)
<1>1. /\ Carries(b, c) /\ c \in Books
      /\ \A x \in Agents, what \in Whats :
           x # d.agent \/ what # d.what => Says(c, x, what) = Says(b, x, what)
  BY PersistSays
<1> HIDE DEF c
<1>2. Follows(b, c)
  BY <1>1 DEF Carries, Grows, Follows
<1>3. \A what \in {"tool", "permission"} : Says(c, a, what) = Says(b, a, what)
  BY <1>1 DEF Whats
<1>4. /\ c.coll.open = b.coll.open /\ c.coll.settled = b.coll.settled
      /\ c.coll.pending = b.coll.pending
  BY <1>1 DEF Carries
<1>5. Known(c, a, t, p)
  BY <1>2, <1>3, <1>4, KnownStays
<1> QED
  BY <1>5 DEF c

\* While acts are collected, whatever the book does not know of is counted or was not announced.
Accounted ==
    /\ ~coll.frozen
    /\ stream # "up" => blind \/ coll.streamGaps > 0
    /\ blind \/ \A a \in Agents : Known(Book, a, tool[a], permission[a])
AccountInv == phase = "collecting" /\ audited => Accounted

LEMMA CallReported ==
    ASSUME NEW b \in Books, ~b.coll.frozen, NEW t \in [Agents -> ToolStates], NEW p,
           \A x \in Agents : Known(b, x, t[x], p[x]), NEW a \in Agents, NEW st,
           \/ <<t[a], st>> \in {<<"none", "running">>, <<"running", "completed">>,
                                <<"running", "error">>}
           \/ t[a] = st /\ st \in {"running", "completed", "error"},
           NEW lost
    PROVE  LET c == ToolEvent(b, a, st, lost)
           IN  /\ Follows(b, c)
               /\ \A x \in Agents : Known(c, x, [t EXCEPT ![a] = st][x], p[x])
<1> DEFINE c == ToolEvent(b, a, st, lost)
           u == [t EXCEPT ![a] = st]
<1>1. st \in {"running", "completed", "error"}
  OBVIOUS
<1>2. /\ Follows(b, c) /\ c.coll.pending = b.coll.pending
      /\ \A x \in Agents :
           /\ Says(c, x, "permission") = Says(b, x, "permission")
           /\ x # a => /\ Says(c, x, "tool") = Says(b, x, "tool")
                       /\ x \in ToSet(c.coll.open) <=> x \in ToSet(b.coll.open)
                       /\ x \in c.coll.settled <=> x \in b.coll.settled
  BY <1>1, ToolEventSays
<1>3. Known(c, a, st, p[a])
  <2> DEFINE ta == t[a]
             pa == p[a]
  <2>1. /\ Known(b, a, ta, pa)
        /\ \/ <<ta, st>> \in {<<"none", "running">>, <<"running", "completed">>,
                              <<"running", "error">>}
           \/ ta = st /\ st \in {"running", "completed", "error"}
    OBVIOUS
  <2> HIDE DEF ta, pa
  <2>2. Known(c, a, st, pa)
    BY <2>1, CallMoves
  <2> QED
    BY <2>2 DEF pa
<1>4. u[a] = st /\ \A x \in Agents : x # a => u[x] = t[x]
  OBVIOUS
<1> HIDE DEF c, u
<1>5. ASSUME NEW x \in Agents, x # a
      PROVE  Known(c, x, t[x], p[x])
  <2> DEFINE tx == t[x]
             px == p[x]
  <2>1. Known(b, x, tx, px)
    OBVIOUS
  <2>2. /\ \A what \in {"tool", "permission"} : Says(c, x, what) = Says(b, x, what)
        /\ x \in ToSet(c.coll.open) <=> x \in ToSet(b.coll.open)
        /\ x \in c.coll.settled <=> x \in b.coll.settled
        /\ x \in ToSet(c.coll.pending) <=> x \in ToSet(b.coll.pending)
    BY <1>2, <1>5
  <2> HIDE DEF tx, px
  <2>3. Known(c, x, tx, px)
    BY <1>2, <2>1, <2>2, KnownStays
  <2> QED
    BY <2>3 DEF tx, px
<1>6. \A x \in Agents : Known(c, x, u[x], p[x])
  BY <1>3, <1>4, <1>5
<1> QED
  BY <1>2, <1>6 DEF c, u

LEMMA RequestReported ==
    ASSUME NEW b \in Books, ~b.coll.frozen, NEW t, NEW p \in [Agents -> PermissionStates],
           \A x \in Agents : Known(b, x, t[x], p[x]), NEW a \in Agents, NEW st,
           <<p[a], st>> \in {<<"none", "asked">>, <<"asked", "allowed">>, <<"asked", "denied">>},
           NEW lost
    PROVE  LET c == PermissionEvent(b, a, st, lost)
           IN  /\ Follows(b, c)
               /\ \A x \in Agents : Known(c, x, t[x], [p EXCEPT ![a] = st][x])
<1> DEFINE c == PermissionEvent(b, a, st, lost)
           u == [p EXCEPT ![a] = st]
<1>1. st \in {"asked", "allowed", "denied"}
  OBVIOUS
<1>2. /\ Follows(b, c) /\ c.coll.open = b.coll.open /\ c.coll.settled = b.coll.settled
      /\ \A x \in Agents :
           /\ Says(c, x, "tool") = Says(b, x, "tool")
           /\ x # a => /\ Says(c, x, "permission") = Says(b, x, "permission")
                       /\ x \in ToSet(c.coll.pending) <=> x \in ToSet(b.coll.pending)
  BY <1>1, PermissionEventSays
<1>3. Known(c, a, t[a], st)
  <2> DEFINE ta == t[a]
             pa == p[a]
  <2>1. /\ Known(b, a, ta, pa)
        /\ <<pa, st>> \in {<<"none", "asked">>, <<"asked", "allowed">>, <<"asked", "denied">>}
    OBVIOUS
  <2> HIDE DEF ta, pa
  <2>2. Known(c, a, ta, st)
    BY <2>1, RequestMoves
  <2> QED
    BY <2>2 DEF ta
<1>4. u[a] = st /\ \A x \in Agents : x # a => u[x] = p[x]
  OBVIOUS
<1> HIDE DEF c, u
<1>5. ASSUME NEW x \in Agents, x # a
      PROVE  Known(c, x, t[x], p[x])
  <2> DEFINE tx == t[x]
             px == p[x]
  <2>1. Known(b, x, tx, px)
    OBVIOUS
  <2>2. /\ \A what \in {"tool", "permission"} : Says(c, x, what) = Says(b, x, what)
        /\ x \in ToSet(c.coll.open) <=> x \in ToSet(b.coll.open)
        /\ x \in c.coll.settled <=> x \in b.coll.settled
        /\ x \in ToSet(c.coll.pending) <=> x \in ToSet(b.coll.pending)
    BY <1>2, <1>5
  <2> HIDE DEF tx, px
  <2>3. Known(c, x, tx, px)
    BY <1>2, <2>1, <2>2, KnownStays
  <2> QED
    BY <2>3 DEF tx, px
<1>6. \A x \in Agents : Known(c, x, t[x], u[x])
  BY <1>3, <1>4, <1>5
<1> QED
  BY <1>2, <1>6 DEF c, u

\* The book after a step, when it was noted and is of the same round.
LEMMA BookMoves ==
    ASSUME AuditInv, coll.round # 0, Accounted, UNCHANGED <<stream, blind>>,
           NEW b, Recorded(b), Follows(Book, b),
           blind \/ \A x \in Agents : Known(b, x, tool'[x], permission'[x])
    PROVE  Accounted'
<1>1. Book.coll = coll /\ Book.rows = rows
  BY BookFacts
<1>2. b \in Books /\ b.coll.frozen = coll.frozen /\ b.coll.streamGaps = coll.streamGaps
  BY <1>1 DEF Follows
<1>3. coll' = b.coll /\ rows' = b.rows
  BY DEF Recorded, Note
<1>4. [coll |-> b.coll, rows |-> b.rows] = b
  BY <1>2 DEF Books
<1>5. Book' = b
  BY <1>3, <1>4 DEF Book
<1>6. ~coll'.frozen /\ (stream' # "up" => blind' \/ coll'.streamGaps > 0)
  BY <1>2, <1>3 DEF Accounted
<1>7. blind' \/ \A x \in Agents : Known(Book', x, tool'[x], permission'[x])
  BY <1>5
<1> QED
  BY <1>6, <1>7 DEF Accounted

\* What happens while the stream is down is not reported, and that is known.
LEMMA UnreportedMoves ==
    ASSUME AuditInv, coll.round # 0, Accounted, stream # "up",
           UNCHANGED <<stream, blind, coll, rows>>
    PROVE  Accounted'
<1>1. Book' = Book /\ Book.coll = coll
  BY BookFacts DEF Book
<1>2. blind \/ coll.streamGaps > 0
  BY DEF Accounted
<1>3. ASSUME ~blind, NEW a \in Agents
      PROVE  Known(Book', a, tool'[a], permission'[a])
  <2>1. Lossy(Book, a)
    BY <1>1, <1>2, <1>3 DEF Lossy
  <2> QED
    BY <1>1, <2>1 DEF Known
<1> QED
  BY <1>2, <1>3 DEF Accounted

\* An event of the engine or the stream that is noted at once.
LEMMA RecordedAccounts ==
    ASSUME AuditInv, coll.round # 0, Accounted, UNCHANGED <<stream, blind>>,
           NEW b, Recorded(b), Follows(Book, b),
           ~blind => \A x \in Agents : Known(b, x, tool'[x], permission'[x])
    PROVE  Accounted'
BY BookMoves

LEMMA ObservedAccounts ==
    ASSUME AuditInv, coll.round # 0, Accounted, UNCHANGED <<stream, blind>>,
           NEW kept, NEW unwritten, Observe(kept, unwritten),
           \A b \in {kept, unwritten} :
             /\ Follows(Book, b)
             /\ ~blind => \A x \in Agents : Known(b, x, tool'[x], permission'[x])
    PROVE  Accounted'
<1>1. PICK b \in {kept, unwritten} : Recorded(b)
  BY DEF Observe
<1>2. Follows(Book, b)
  BY <1>1
<1>3. ~blind => \A x \in Agents : Known(b, x, tool'[x], permission'[x])
  BY <1>1
<1> QED
  BY <1>1, <1>2, <1>3, RecordedAccounts

LEMMA ReportedAccounts ==
    ASSUME AuditInv, coll.round # 0, Accounted, UNCHANGED <<stream, blind>>,
           NEW kept, NEW unwritten, Reported(kept, unwritten),
           \A b \in {kept, unwritten} :
             /\ Follows(Book, b)
             /\ ~blind => \A x \in Agents : Known(b, x, tool'[x], permission'[x])
    PROVE  Accounted'
<1>1. CASE stream = "up"
  BY <1>1, ObservedAccounts DEF Reported
<1>2. CASE stream # "up"
  <2>1. UNCHANGED <<coll, rows>>
    BY <1>2 DEF Reported
  <2> QED
    BY <1>2, <2>1, UnreportedMoves
<1> QED
  BY <1>1, <1>2

\* What Accounted says of the book.
LEMMA AccountedBook ==
    ASSUME AuditInv, coll.round # 0, Accounted
    PROVE  /\ Book \in Books /\ ~Book.coll.frozen
           /\ ~blind => \A x \in Agents : Known(Book, x, tool[x], permission[x])
           /\ tool \in [Agents -> ToolStates] /\ permission \in [Agents -> PermissionStates]
<1>1. Book \in Books /\ Book.coll = coll
  BY BookFacts
<1>2. tool \in [Agents -> ToolStates] /\ permission \in [Agents -> PermissionStates]
  BY DEF AuditInv
<1> QED
  BY <1>1, <1>2 DEF Accounted

LEMMA ToolMoveAccounts ==
    ASSUME AuditInv, coll.round # 0, Accounted, NEW a \in Agents, NEW to, ToolMoves(a, to)
    PROVE  Accounted'
<1> DEFINE d == Draft(a, "tool", IF to = "completed" THEN "completed" ELSE "failed")
<1>1. /\ <<tool[a], to>> \in {<<"none", "running">>, <<"running", "completed">>,
                              <<"running", "error">>}
      /\ tool' = [tool EXCEPT ![a] = to] /\ permission' = permission
      /\ Reported(ToolEvent(Book, a, to, {}), ToolEvent(Book, a, to, {d}))
      /\ UNCHANGED <<stream, blind>>
  BY DEF ToolMoves
<1> HIDE DEF d
<1>2. /\ Book \in Books /\ ~Book.coll.frozen
      /\ ~blind => \A x \in Agents : Known(Book, x, tool[x], permission[x])
      /\ tool \in [Agents -> ToolStates]
  BY AccountedBook
<1>3. ASSUME NEW lost
      PROVE  /\ Follows(Book, ToolEvent(Book, a, to, lost))
             /\ ~blind => \A x \in Agents :
                            Known(ToolEvent(Book, a, to, lost), x, tool'[x], permission'[x])
  <2> DEFINE b == Book
             t == tool
             p == permission
             c == ToolEvent(b, a, to, lost)
  <2>1. to \in {"running", "completed", "error"}
    BY <1>1
  <2>2. b \in Books /\ ~b.coll.frozen /\ t \in [Agents -> ToolStates]
    BY <1>2
  <2>3. <<t[a], to>> \in {<<"none", "running">>, <<"running", "completed">>, <<"running", "error">>}
    BY <1>1
  <2>4. ~blind => \A x \in Agents : Known(b, x, t[x], p[x])
    BY <1>2
  <2> HIDE DEF b, t, p
  <2>5. Follows(b, c)
    BY <2>1, <2>2, ToolEventSays
  <2>6. ASSUME ~blind
        PROVE  \A x \in Agents : Known(c, x, [t EXCEPT ![a] = to][x], p[x])
    <3>1. \A x \in Agents : Known(b, x, t[x], p[x])
      BY <2>4, <2>6
    <3> QED
      BY <2>2, <2>3, <3>1, CallReported
  <2> HIDE DEF c
  <2>7. tool' = [t EXCEPT ![a] = to] /\ permission' = p
    BY <1>1 DEF t, p
  <2>8. Follows(b, c) /\ (~blind => \A x \in Agents : Known(c, x, tool'[x], permission'[x]))
    BY <2>5, <2>6, <2>7
  <2> QED
    BY <2>8 DEF b, c
<1> DEFINE kept == ToolEvent(Book, a, to, {})
           unwritten == ToolEvent(Book, a, to, {d})
<1>4. /\ Follows(Book, kept)
      /\ ~blind => \A x \in Agents : Known(kept, x, tool'[x], permission'[x])
  BY <1>3
<1>5. /\ Follows(Book, unwritten)
      /\ ~blind => \A x \in Agents : Known(unwritten, x, tool'[x], permission'[x])
  BY <1>3
<1>6. Reported(kept, unwritten)
  BY <1>1
<1> HIDE DEF kept, unwritten
<1> QED
  BY <1>1, <1>4, <1>5, <1>6, ReportedAccounts

LEMMA PermissionMoveAccounts ==
    ASSUME AuditInv, coll.round # 0, Accounted, NEW a \in Agents, NEW to, PermissionMoves(a, to)
    PROVE  Accounted'
<1> DEFINE d == Draft(a, "permission", to)
<1>1. /\ <<permission[a], to>> \in {<<"none", "asked">>, <<"asked", "allowed">>,
                                    <<"asked", "denied">>}
      /\ permission' = [permission EXCEPT ![a] = to] /\ tool' = tool
      /\ Reported(PermissionEvent(Book, a, to, {}), PermissionEvent(Book, a, to, {d}))
      /\ UNCHANGED <<stream, blind>>
  BY DEF PermissionMoves
<1> HIDE DEF d
<1>2. /\ Book \in Books /\ ~Book.coll.frozen
      /\ ~blind => \A x \in Agents : Known(Book, x, tool[x], permission[x])
      /\ permission \in [Agents -> PermissionStates]
  BY AccountedBook
<1>3. ASSUME NEW lost
      PROVE  /\ Follows(Book, PermissionEvent(Book, a, to, lost))
             /\ ~blind => \A x \in Agents :
                            Known(PermissionEvent(Book, a, to, lost), x, tool'[x], permission'[x])
  <2> DEFINE b == Book
             t == tool
             p == permission
             c == PermissionEvent(b, a, to, lost)
  <2>1. to \in {"asked", "allowed", "denied"}
    BY <1>1
  <2>2. b \in Books /\ ~b.coll.frozen /\ p \in [Agents -> PermissionStates]
    BY <1>2
  <2>3. <<p[a], to>> \in {<<"none", "asked">>, <<"asked", "allowed">>, <<"asked", "denied">>}
    BY <1>1
  <2>4. ~blind => \A x \in Agents : Known(b, x, t[x], p[x])
    BY <1>2
  <2> HIDE DEF b, t, p
  <2>5. Follows(b, c)
    BY <2>1, <2>2, PermissionEventSays
  <2>6. ASSUME ~blind
        PROVE  \A x \in Agents : Known(c, x, t[x], [p EXCEPT ![a] = to][x])
    <3>1. \A x \in Agents : Known(b, x, t[x], p[x])
      BY <2>4, <2>6
    <3> QED
      BY <2>2, <2>3, <3>1, RequestReported
  <2> HIDE DEF c
  <2>7. permission' = [p EXCEPT ![a] = to] /\ tool' = t
    BY <1>1 DEF t, p
  <2>8. Follows(b, c) /\ (~blind => \A x \in Agents : Known(c, x, tool'[x], permission'[x]))
    BY <2>5, <2>6, <2>7
  <2> QED
    BY <2>8 DEF b, c
<1> DEFINE kept == PermissionEvent(Book, a, to, {})
           unwritten == PermissionEvent(Book, a, to, {d})
<1>4. /\ Follows(Book, kept)
      /\ ~blind => \A x \in Agents : Known(kept, x, tool'[x], permission'[x])
  BY <1>3
<1>5. /\ Follows(Book, unwritten)
      /\ ~blind => \A x \in Agents : Known(unwritten, x, tool'[x], permission'[x])
  BY <1>3
<1>6. Reported(kept, unwritten)
  BY <1>1
<1> HIDE DEF kept, unwritten
<1> QED
  BY <1>1, <1>4, <1>5, <1>6, ReportedAccounts

\* The same state of a call, reported once more, says nothing new.
LEMMA ReportedAgainAccounts ==
    ASSUME AuditInv, coll.round # 0, Accounted, NEW a \in Agents, ToolReportedAgain(a)
    PROVE  Accounted'
<1> DEFINE b == Book
           t == tool
           p == permission
           st == tool[a]
           c == ToolEvent(b, a, st, {})
<1>1. /\ b \in Books /\ ~b.coll.frozen
      /\ ~blind => \A x \in Agents : Known(b, x, t[x], p[x])
      /\ t \in [Agents -> ToolStates]
  BY AccountedBook
<1>2. /\ st # "none" /\ Recorded(c) /\ UNCHANGED <<stream, blind>>
      /\ tool' = t /\ permission' = p
  BY DEF ToolReportedAgain, Recorded, world
<1>3. st \in {"running", "completed", "error"} /\ t[a] = st /\ [t EXCEPT ![a] = st] = t
  BY <1>1, <1>2 DEF ToolStates
<1> HIDE DEF b, t, p, st
<1>4. Follows(b, c)
  BY <1>1, <1>3, ToolEventSays
<1>5. ASSUME ~blind
      PROVE  \A x \in Agents : Known(c, x, [t EXCEPT ![a] = st][x], p[x])
  <2>1. \A x \in Agents : Known(b, x, t[x], p[x])
    BY <1>1, <1>5
  <2> QED
    BY <1>1, <1>3, <2>1, CallReported
<1> HIDE DEF c
<1>6. ~blind => \A x \in Agents : Known(c, x, tool'[x], permission'[x])
  BY <1>2, <1>3, <1>5
<1>7. Follows(Book, c)
  BY <1>4 DEF b
<1> QED
  BY <1>2, <1>6, <1>7, RecordedAccounts

\* A record of another kind.
LEMMA OtherRecordAccounts ==
    ASSUME AuditInv, coll.round # 0, Accounted, NEW d \in Drafts, d.what \in {"file", "failure"},
           UNCHANGED <<tool, permission, stream, blind>>,
           \/ Reported(Persist(Book, d, {}), Persist(Book, d, {d}))
           \/ Observe(Persist(Book, d, {}), Persist(Book, d, {d}))
    PROVE  Accounted'
<1>1. /\ Book \in Books /\ ~Book.coll.frozen
      /\ ~blind => \A x \in Agents : Known(Book, x, tool[x], permission[x])
  BY AccountedBook
<1>2. ASSUME NEW lost
      PROVE  /\ Follows(Book, Persist(Book, d, lost))
             /\ ~blind => \A x \in Agents :
                            Known(Persist(Book, d, lost), x, tool'[x], permission'[x])
  <2> DEFINE b == Book
             c == Persist(b, d, lost)
  <2>1. b \in Books
    BY <1>1
  <2>2. ~blind => \A x \in Agents : Known(b, x, tool[x], permission[x])
    BY <1>1
  <2> HIDE DEF b
  <2>3. Carries(b, c) /\ c \in Books
    BY <2>1, PersistSays
  <2>4. Follows(b, c)
    BY <2>3 DEF Carries, Grows, Follows
  <2>5. ASSUME ~blind, NEW x \in Agents
        PROVE  Known(c, x, tool[x], permission[x])
    <3> DEFINE tx == tool[x]
               px == permission[x]
    <3>1. Known(b, x, tx, px)
      BY <2>2, <2>5
    <3> HIDE DEF tx, px
    <3>2. Known(c, x, tx, px)
      BY <2>1, <3>1, OtherRecords
    <3> QED
      BY <3>2 DEF tx, px
  <2> HIDE DEF c
  <2>6. Follows(b, c) /\ (~blind => \A x \in Agents : Known(c, x, tool'[x], permission'[x]))
    BY <2>4, <2>5
  <2> QED
    BY <2>6 DEF b, c
<1> DEFINE kept == Persist(Book, d, {})
           unwritten == Persist(Book, d, {d})
<1>3. /\ Follows(Book, kept)
      /\ ~blind => \A x \in Agents : Known(kept, x, tool'[x], permission'[x])
  BY <1>2
<1>4. /\ Follows(Book, unwritten)
      /\ ~blind => \A x \in Agents : Known(unwritten, x, tool'[x], permission'[x])
  BY <1>2
<1>5. Reported(kept, unwritten) \/ Observe(kept, unwritten)
  OBVIOUS
<1> HIDE DEF kept, unwritten
<1>6. CASE Reported(kept, unwritten)
  BY <1>3, <1>4, <1>6, ReportedAccounts
<1>7. CASE Observe(kept, unwritten)
  BY <1>3, <1>4, <1>7, ObservedAccounts
<1> QED
  BY <1>5, <1>6, <1>7

LEMMA GapFacts ==
    ASSUME NEW b \in Books
    PROVE  Gap(b).coll.frozen = b.coll.frozen /\ Gap(b).coll.streamGaps > 0
<1> DEFINE c == b.coll
           n == c.streamGaps + 1
           e == [c EXCEPT !.streamGaps = n]
           d == Draft(Run, "gap", "unknown")
           x == [coll |-> e, rows |-> b.rows]
<1>1. c \in Shapes /\ Counted(c) /\ IsInjective(c.open) /\ IsInjective(c.pending)
  BY DEF Books, Collectors
<1>2. n \in Nat /\ n > 0
  BY <1>1 DEF Shapes
<1>3. Gap(b) = Persist(x, d, {})
  BY DEF Gap, Books
<1>4. d \in Drafts
  BY DEF Draft, Drafts, Owners, Whats, Outcomes
<1> HIDE DEF n
<1>5. e \in Shapes
  BY <1>1, <1>2, ShapesKept
<1>6. /\ e.round = c.round /\ e.kept = c.kept /\ e.total = c.total /\ e.open = c.open
      /\ e.pending = c.pending /\ e.frozen = c.frozen /\ e.streamGaps = n
  BY <1>1 DEF Shapes
<1> HIDE DEF e, d
<1>7. e \in Collectors
  BY <1>1, <1>5, <1>6 DEF Collectors, Counted
<1>8. Grows(b, x) /\ x.coll = e
  BY <1>6, <1>7, CollectorChanges
<1> HIDE DEF x
<1>9. x \in Books
  BY <1>8 DEF Grows
<1> DEFINE y == Persist(x, d, {})
<1>10. Carries(x, y)
  BY <1>4, <1>9, PersistSays
<1> HIDE DEF y
<1>11. y.coll.frozen = x.coll.frozen /\ y.coll.streamGaps = x.coll.streamGaps
  BY <1>10 DEF Carries
<1>12. y.coll.frozen = c.frozen /\ y.coll.streamGaps > 0
  BY <1>2, <1>6, <1>8, <1>11
<1> QED
  BY <1>3, <1>12 DEF y

LEMMA StreamAccounts ==
    ASSUME AuditInv, coll.round # 0, Accounted, Stream
    PROVE  Accounted'
<1>1. Book \in Books /\ Book.coll = coll
  BY BookFacts
<1>2. CASE StreamRefused
  <2>1. /\ coll' = Gap(Book).coll /\ UNCHANGED <<tool, permission, blind>>
    BY <1>2 DEF StreamRefused, Recorded, Note, world
  <2>2. coll'.streamGaps > 0 /\ coll'.frozen = coll.frozen
    <3> DEFINE g == Gap(Book)
    <3>1. g.coll.frozen = Book.coll.frozen /\ g.coll.streamGaps > 0
      BY <1>1, GapFacts
    <3>2. coll' = g.coll
      BY <2>1
    <3> HIDE DEF g
    <3> QED
      BY <1>1, <3>1, <3>2
  <2>3. ASSUME NEW a \in Agents
        PROVE  Known(Book', a, tool'[a], permission'[a])
    <3>1. Book'.coll = coll'
      BY DEF Book
    <3> QED
      BY <2>2, <3>1 DEF Known, Lossy
  <2> QED
    BY <2>2, <2>3 DEF Accounted
<1>3. CASE StreamClosed
  <2>1. blind' = TRUE /\ coll' = coll
    BY <1>3 DEF StreamClosed
  <2> QED
    BY <2>1 DEF Accounted
<1>4. CASE Resubscribed
  <2>1. stream' = "up" /\ UNCHANGED <<tool, permission, blind, coll, rows>>
    BY <1>4 DEF Resubscribed, world
  <2>2. Book' = Book
    BY <2>1 DEF Book
  <2> QED
    BY <2>1, <2>2 DEF Accounted
<1> QED
  BY <1>2, <1>3, <1>4 DEF Stream

LEMMA ActsAccount ==
    ASSUME AuditInv, coll.round # 0, Accounted, Acts \/ Stream
    PROVE  Accounted'
<1>1. CASE Acts
  <2>1. PICK a \in Actors : \/ \E to \in ToolStates : ToolMoves(a, to)
                            \/ ToolReportedAgain(a)
                            \/ \E to \in PermissionStates : PermissionMoves(a, to)
                            \/ FileEdited(a)
                            \/ AttemptFailed(a, round)
    BY <1>1 DEF Acts
  <2>2. a \in Agents
    BY AgentsAssumption
  <2>3. CASE \E to \in ToolStates : ToolMoves(a, to)
    BY <2>2, <2>3, ToolMoveAccounts
  <2>4. CASE ToolReportedAgain(a)
    BY <2>2, <2>4, ReportedAgainAccounts
  <2>5. CASE \E to \in PermissionStates : PermissionMoves(a, to)
    BY <2>2, <2>5, PermissionMoveAccounts
  <2>6. CASE FileEdited(a)
    <3> DEFINE d == Draft(a, "file", "completed")
    <3>1. /\ Reported(Persist(Book, d, {}), Persist(Book, d, {d}))
          /\ UNCHANGED <<tool, permission, stream, blind>>
      BY <2>6 DEF FileEdited
    <3>2. d \in Drafts /\ d.what \in {"file", "failure"}
      BY <2>2 DEF Draft, Drafts, Owners, Whats, Outcomes
    <3> HIDE DEF d
    <3> QED
      BY <3>1, <3>2, OtherRecordAccounts
  <2>7. CASE AttemptFailed(a, round)
    <3> DEFINE d == Draft(a, "failure", "failed")
    <3>1. /\ Observe(Persist(Book, d, {}), Persist(Book, d, {d}))
          /\ UNCHANGED <<tool, permission, stream, blind>>
      BY <2>7 DEF AttemptFailed, world
    <3>2. d \in Drafts /\ d.what \in {"file", "failure"}
      BY <2>2 DEF Draft, Drafts, Owners, Whats, Outcomes
    <3> HIDE DEF d
    <3> QED
      BY <3>1, <3>2, OtherRecordAccounts
  <2> QED
    BY <2>1, <2>3, <2>4, <2>5, <2>6, <2>7
<1>2. CASE Stream
  BY <1>2, StreamAccounts
<1> QED
  BY <1>1, <1>2

LEMMA RoundBeginsAccounted ==
    ASSUME AuditInv, audited, StartRound
    PROVE  Accounted'
<1>1. /\ coll' = Fresh(round + 1) /\ rows' = rows /\ stream' = stream /\ blind' = (stream # "up")
      /\ tool' = [a \in Agents |-> "none"] /\ permission' = [a \in Agents |-> "none"]
      /\ round < MaxRounds
  BY DEF StartRound, BeginRound
<1>2. /\ coll'.round = round + 1 /\ coll'.open = <<>> /\ coll'.pending = <<>>
      /\ coll'.settled = {} /\ coll'.frozen = FALSE
  BY <1>1 DEF Fresh
<1>3. ASSUME NEW a \in Agents
      PROVE  Known(Book', a, "none", "none")
  <2> DEFINE b == Book'
  <2>1. b.coll = coll' /\ b.rows = rows
    BY <1>1 DEF Book
  <2>2. rows \in Seq(Rows) /\ \A i \in 1..Len(rows) : rows[i].round # round + 1
    <3>1. rows \in Seq(Rows) /\ round \in Nat /\ \A i \in 1..Len(rows) : rows[i].round <= round
      BY DEF AuditInv
    <3>2. ASSUME NEW i \in 1..Len(rows), rows[i].round = round + 1
          PROVE  FALSE
      BY <3>1, <3>2
    <3> QED
      BY <3>1, <3>2
  <2>3. \A what : Said(rows, round + 1, a, what) = <<>>
    BY <2>2, SaidNothing
  <2>4. \A what : Says(b, a, what) = <<>>
    BY <1>2, <2>1, <2>3 DEF Says
  <2>5. ToSet(b.coll.open) = {} /\ ToSet(b.coll.pending) = {} /\ b.coll.settled = {}
    BY <1>2, <2>1 DEF ToSet
  <2> HIDE DEF b
  <2>6. CallKnown(b, a, "none") /\ RequestKnown(b, a, "none")
    BY <2>4, <2>5 DEF CallKnown, RequestKnown
  <2> QED
    BY <2>6 DEF Known, b
<1>4. \A a \in Agents : Known(Book', a, tool'[a], permission'[a])
  BY <1>1, <1>3
<1> QED
  BY <1>1, <1>2, <1>4 DEF Accounted

LEMMA StepKeepsAccounts ==
    ASSUME AuditInv, SealInv, AccountInv, [Next]_vars
    PROVE  AccountInv'
<1> SUFFICES ASSUME phase' = "collecting", audited'
             PROVE  Accounted'
  BY DEF AccountInv
<1>1. CASE StartRound
  <2>1. audited
    BY <1>1 DEF StartRound, BeginRound
  <2> QED
    BY <1>1, <2>1, RoundBeginsAccounted
<1>2. CASE Observing
  <2>1. phase = "collecting" /\ (Acts \/ Stream)
    BY <1>2 DEF Observing
  <2>2. audited
    BY <2>1, ObservingKeepsAudit
  <2>3. coll.round # 0
    BY <2>1, <2>2 DEF SealInv
  <2> QED
    BY <2>1, <2>2, <2>3, ActsAccount DEF AccountInv
<1>3. CASE Freeze
  BY <1>3 DEF Freeze, StartReview
<1>4. CASE ReviewFailed \/ ReviewsDone \/ ScoreSingleCall \/ ScoreBatch \/ ScoreFinals \/ CallFails
  <2>1. Deliberates
    BY <1>4, JudgingDeliberates
  <2> QED
    BY <2>1 DEF Deliberates
<1>5. CASE Rejudge
  BY <1>5 DEF Rejudge, StartReview
<1>6. CASE Crash
  BY <1>6 DEF Crash
<1>7. CASE UNCHANGED vars
  <2>1. UNCHANGED <<audited, tool, permission, stream, blind, coll, rows, phase>>
    BY <1>7 DEF vars, auditVars, world
  <2>2. Book' = Book
    BY <2>1 DEF Book
  <2> QED
    BY <2>1, <2>2 DEF AccountInv, Accounted
<1> QED
  BY <1>1, <1>2, <1>3, <1>4, <1>5, <1>6, <1>7 DEF Next, Deciding

\* What is read back of a round that has just been sealed.
LEMMA SealedView ==
    ASSUME NEW b \in Books, NEW capture \in [Agents -> Captures], NEW r, b.coll.round = r,
           SealedAs(Append(b.rows, Frozen(b, r, capture)), r,
                    Included(b.rows, r, LastOf(b.rows, r, "evidence"))),
           Frozen(b, r, capture) \in FrozenRows, NEW a \in Agents
    PROVE  LET ev == EvidenceOf(Read(Append(b.rows, Frozen(b, r, capture)), r), a)
           IN  /\ ev.dropped = b.coll.dropped[a] /\ ev.streamGaps = b.coll.streamGaps
               /\ ev.records = RecordsOf(Told(b.rows, r), a)
<1> DEFINE s == b.rows
           row == Frozen(b, r, capture)
           table == Append(s, row)
           view == Read(table, r)
           at == LastOf(table, r, "frozen")
<1>1. s \in Seq(Rows) /\ row \in Rows /\ row.type = "frozen" /\ row.round = r
  BY DEF Books, Rows, FrozenRows, Frozen
<1>2. row.dropped = b.coll.dropped /\ row.streamGaps = b.coll.streamGaps
  BY DEF Frozen
<1>3. SealedAs(table, r, Told(s, r))
  BY <1>1, ToldUpToLast
<1> HIDE DEF s, row
<1>4. /\ table \in Seq(Rows) /\ Len(table) = Len(s) + 1 /\ Len(s) \in Nat
      /\ table[Len(s) + 1] = row
  BY <1>1
<1> HIDE DEF table
<1>5. at = Len(s) + 1
  <2>1. /\ at \in 0..Len(table)
        /\ \A i \in 1..Len(table) : table[i].round = r /\ table[i].type = "frozen" => i <= at
    BY <1>4, LastOfFacts
  <2>2. Len(s) + 1 \in 1..Len(table)
    BY <1>4
  <2>3. Len(s) + 1 <= at
    BY <1>1, <1>4, <2>1, <2>2
  <2> HIDE DEF at
  <2> QED
    BY <1>4, <2>1, <2>3
<1>6. view.frozen /\ view.records = Told(s, r)
  BY <1>3, SealReads
<1>7. view.row = row
  <2>1. at # 0
    BY <1>4, <1>5
  <2>2. view.row = table[at]
    BY <2>1 DEF Read
  <2> QED
    BY <1>4, <1>5, <2>2
<1> HIDE DEF view
<1>8. EvidenceOf(view, a) =
        [recorded |-> TRUE, records |-> RecordsOf(view.records, a),
         dropped |-> view.row.dropped[a], capture |-> view.row.capture[a],
         streamGaps |-> view.row.streamGaps]
  BY <1>6 DEF EvidenceOf
<1> DEFINE ev == EvidenceOf(view, a)
<1>9. /\ ev.dropped = b.coll.dropped[a] /\ ev.streamGaps = b.coll.streamGaps
      /\ ev.records = RecordsOf(Told(s, r), a)
  BY <1>2, <1>6, <1>7, <1>8
<1> QED
  BY <1>9 DEF view, table, row, s

\* What becomes of an agent's act while the round is sealed.
Tells(b, a, what, state) ==
    \/ b.coll.dropped[a] > 0 \/ b.coll.streamGaps > 0
    \/ state = "none" /\ Says(b, a, what) = <<>>
    \/ \E o \in Truth(state) : Says(b, a, what) = <<Draft(a, what, o)>>

LEMMA SettledSays ==
    ASSUME NEW b \in Books, ~b.coll.frozen, NEW lost, NEW capture, NEW a \in Agents,
           NEW call \in ToolStates, NEW request \in PermissionStates, Known(b, a, call, request)
    PROVE  LET c == AddCoverage(SettleOpen(b, lost), capture, lost)
           IN  /\ c \in Books /\ c.coll.round = b.coll.round
               /\ Tells(c, a, "tool", call) /\ Tells(c, a, "permission", request)
<1> DEFINE e == SettleOpen(b, lost)
           c == AddCoverage(e, capture, lost)
<1>1. /\ e \in Books /\ e.coll.round = b.coll.round
      /\ e.coll.streamGaps = b.coll.streamGaps
      /\ e.coll.dropped[a] >= b.coll.dropped[a]
      /\ \/ e.coll.dropped[a] > 0
         \/ /\ Says(e, a, "tool") = Ended(b, a, "tool", b.coll.open)
            /\ Says(e, a, "permission") = Ended(b, a, "permission", b.coll.pending)
  BY SettleOpenSays
<1> HIDE DEF e
<1>2. Leaves(e, c)
  BY <1>1, AddCoverageLeaves
<1> HIDE DEF c
<1>3. /\ c \in Books /\ c.coll.round = b.coll.round
      /\ c.coll.streamGaps = b.coll.streamGaps
      /\ c.coll.dropped[a] >= e.coll.dropped[a]
      /\ Says(c, a, "tool") = Says(e, a, "tool")
      /\ Says(c, a, "permission") = Says(e, a, "permission")
  BY <1>1, <1>2 DEF Leaves, Carries, Grows
<1>4. /\ b.coll.dropped[a] \in Nat /\ c.coll.dropped[a] \in Nat /\ e.coll.dropped[a] \in Nat
  <2>1. /\ b.coll.dropped \in [Agents -> Nat] /\ c.coll.dropped \in [Agents -> Nat]
        /\ e.coll.dropped \in [Agents -> Nat]
    BY <1>1, <1>3, ShapesKept DEF Books, Collectors
  <2> QED
    BY <2>1
<1>5. CASE Lossy(b, a)
  <2>1. c.coll.dropped[a] > 0 \/ c.coll.streamGaps > 0
    BY <1>1, <1>3, <1>4, <1>5 DEF Lossy
  <2> QED
    BY <1>3, <2>1 DEF c, e, Tells
<1>6. CASE e.coll.dropped[a] > 0
  <2>1. c.coll.dropped[a] > 0
    BY <1>3, <1>4, <1>6
  <2> QED
    BY <1>3, <2>1 DEF c, e, Tells
<1>7. CASE ~Lossy(b, a) /\ ~(e.coll.dropped[a] > 0)
  <2>1. /\ Says(c, a, "tool") = Ended(b, a, "tool", b.coll.open)
        /\ Says(c, a, "permission") = Ended(b, a, "permission", b.coll.pending)
        /\ CallKnown(b, a, call) /\ RequestKnown(b, a, request)
    BY <1>1, <1>3, <1>7 DEF Known
  <2>2. \/ call = "none" /\ Says(c, a, "tool") = <<>>
        \/ \E o \in Truth(call) : Says(c, a, "tool") = <<Draft(a, "tool", o)>>
    <3>1. CASE call = "none"
      BY <2>1, <3>1 DEF CallKnown, Ended, Settled
    <3>2. CASE call = "running"
      <4> DEFINE d == Draft(a, "tool", "unknown")
      <4>1. Says(c, a, "tool") = Append(<<>>, d)
        BY <2>1, <3>2 DEF CallKnown, Ended, Settled
      <4> HIDE DEF d
      <4>2. Says(c, a, "tool") = <<d>>
        BY <4>1
      <4>3. "unknown" \in Truth(call)
        BY <3>2 DEF Truth
      <4> QED
        BY <4>2, <4>3 DEF d
    <3>3. CASE call \in Settled
      <4>1. Says(c, a, "tool") = <<Draft(a, "tool", Ending(call))>>
        BY <2>1, <3>3 DEF CallKnown, Ended, Settled
      <4>2. Ending(call) \in Truth(call)
        BY <3>3 DEF Truth, Ending, Settled
      <4> QED
        BY <4>1, <4>2
    <3> QED
      BY <3>1, <3>2, <3>3 DEF ToolStates, Settled
  <2>3. \/ request = "none" /\ Says(c, a, "permission") = <<>>
        \/ \E o \in Truth(request) : Says(c, a, "permission") = <<Draft(a, "permission", o)>>
    <3>1. CASE request = "none"
      BY <2>1, <3>1 DEF RequestKnown, Ended
    <3>2. CASE request = "asked"
      <4> DEFINE d == Draft(a, "permission", "unknown")
      <4>1. Says(c, a, "permission") = Append(<<>>, d)
        BY <2>1, <3>2 DEF RequestKnown, Ended
      <4> HIDE DEF d
      <4>2. Says(c, a, "permission") = <<d>>
        BY <4>1
      <4>3. "unknown" \in Truth(request)
        BY <3>2 DEF Truth
      <4> QED
        BY <4>2, <4>3 DEF d
    <3>3. CASE request \in {"allowed", "denied"}
      <4>1. Says(c, a, "permission") = <<Draft(a, "permission", request)>>
        BY <2>1, <3>3 DEF RequestKnown, Ended
      <4>2. request \in Truth(request)
        BY <3>3 DEF Truth
      <4> QED
        BY <4>1, <4>2
    <3> QED
      BY <3>1, <3>2, <3>3 DEF PermissionStates
  <2> QED
    BY <1>3, <2>2, <2>3 DEF c, e, Tells
<1> QED
  BY <1>5, <1>6, <1>7

\* Evidence that holds what a book says accounts for an act.
LEMMA SaidAccounts ==
    ASSUME NEW b \in Books, NEW a \in Agents, NEW ev, NEW what \in Whats, NEW state,
           ev.dropped = b.coll.dropped[a], ev.streamGaps = b.coll.streamGaps,
           ev.records = RecordsOf(Told(b.rows, b.coll.round), a), Tells(b, a, what, state)
    PROVE  AccountsFor(ev, what, state)
<1>1. Among(ev.records, {d \in Drafts : d.what = what}) = Says(b, a, what)
  BY DEF Says, Said
<1> DEFINE kept == Says(b, a, what)
<1>2. AccountsFor(ev, what, state) <=>
        \/ ev.dropped > 0 \/ ev.streamGaps > 0 \/ blind
        \/ state = "none" /\ kept = <<>>
        \/ Len(kept) = 1 /\ kept[1].outcome \in Truth(state)
  BY <1>1, Zenon DEF AccountsFor
<1>3. ASSUME NEW o \in Truth(state), kept = <<Draft(a, what, o)>>
      PROVE  Len(kept) = 1 /\ kept[1].outcome \in Truth(state)
  <2>1. Len(kept) = 1 /\ kept[1] = Draft(a, what, o)
    BY <1>3
  <2> QED
    BY <2>1 DEF Draft
<1> QED
  BY <1>2, <1>3 DEF Tells

LEMMA FreezeAccounts ==
    ASSUME AuditInv, SealInv, phase = "collecting", audited, Accounted, NEW a \in Agents,
           NEW capture \in [Agents -> Captures], NEW lost
    PROVE  LET ev == EvidenceOf(Read(SealBook(Book, capture, lost).rows, round), a)
           IN  AccountsFor(ev, "tool", tool[a]) /\ AccountsFor(ev, "permission", permission[a])
<1>1. CASE blind
  BY <1>1 DEF AccountsFor
<1>2. CASE ~blind
  <2> DEFINE b == Book
             c == AddCoverage(SettleOpen(b, lost), capture, lost)
             t == tool[a]
             p == permission[a]
             ev == EvidenceOf(Read(SealBook(b, capture, lost).rows, round), a)
  <2>1. coll.round = round /\ coll.round # 0
    BY DEF SealInv
  <2>2. b \in Books /\ ~b.coll.frozen /\ Known(b, a, t, p) /\ b.coll.round = round
    BY <1>2, <2>1, AccountedBook, BookFacts
  <2>3. t \in ToolStates /\ p \in PermissionStates
    BY DEF AuditInv
  <2>4. SealBook(b, capture, lost).rows = Append(c.rows, Frozen(c, b.coll.round, capture))
    BY DEF SealBook
  <2> HIDE DEF b, t, p
  <2>5. /\ c \in Books /\ c.coll.round = b.coll.round
        /\ Tells(c, a, "tool", t) /\ Tells(c, a, "permission", p)
    BY <2>2, <2>3, SettledSays
  <2> HIDE DEF c
  <2>6. /\ Frozen(c, round, capture) \in FrozenRows
        /\ SealedAs(Append(c.rows, Frozen(c, round, capture)), round,
                    Included(c.rows, round, LastOf(c.rows, round, "evidence")))
    BY <2>2, <2>5, SealBookFacts
  <2>7. /\ ev.dropped = c.coll.dropped[a] /\ ev.streamGaps = c.coll.streamGaps
        /\ ev.records = RecordsOf(Told(c.rows, c.coll.round), a)
    BY <2>2, <2>4, <2>5, <2>6, SealedView
  <2> HIDE DEF ev
  <2>8. {"tool", "permission"} \subseteq Whats
    BY DEF Whats
  <2>9. AccountsFor(ev, "tool", t)
    BY <2>5, <2>7, <2>8, SaidAccounts
  <2>10. AccountsFor(ev, "permission", p)
    BY <2>5, <2>7, <2>8, SaidAccounts
  <2> QED
    BY <2>9, <2>10 DEF ev, b, t, p
<1> QED
  BY <1>1, <1>2

LEMMA SealingStepAccounts ==
    ASSUME AuditInv, SealInv, AccountInv, [Next]_vars,
           phase = "collecting", phase' = "reviewing", audited, NEW a \in Agents
    PROVE  AccountsFor(evidence'[a], "tool", tool[a])
           /\ AccountsFor(evidence'[a], "permission", permission[a])
<1>1. Freeze
  <2>1. ~StartRound /\ ~Rejudge /\ ~Crash
    BY DEF StartRound, Rejudge, Crash, SealInv
  <2>2. ~Observing /\ vars' # vars
    BY DEF Observing, vars
  <2>3. ~(ReviewFailed \/ ReviewsDone \/ ScoreSingleCall \/ ScoreBatch \/ ScoreFinals \/ CallFails)
    BY JudgingDeliberates DEF Deliberates
  <2> QED
    BY <2>1, <2>2, <2>3 DEF Next, Deciding
<1>2. PICK st \in [Agents -> {"ok", "failed"}] :
        \/ ~audited
        \/ \E capture \in {CaptureOf(st)} \cup
                          {[CaptureOf(st) EXCEPT ![x] = c] : x \in Agents, c \in Captures},
              lost \in {{}} \cup {{Draft(x, what, "unknown")} :
                                    x \in Actors, what \in {"tool", "permission"}} :
             StartReview(st, [x \in Agents |->
                                EvidenceOf(Read(SealBook(Book, capture, lost).rows, round), x)])
  BY <1>1 DEF Freeze
<1> DEFINE Sealed(capture, lost) == [x \in Agents |->
                       EvidenceOf(Read(SealBook(Book, capture, lost).rows, round), x)]
<1>3. PICK capture \in {CaptureOf(st)} \cup
                       {[CaptureOf(st) EXCEPT ![x] = c] : x \in Agents, c \in Captures},
           lost \in {{}} \cup {{Draft(x, what, "unknown")} :
                                 x \in Actors, what \in {"tool", "permission"}} :
        StartReview(st, Sealed(capture, lost))
  BY <1>2
<1>4. capture \in [Agents -> Captures]
  <2>1. CaptureOf(st) \in [Agents -> Captures]
    BY DEF CaptureOf, Captures
  <2> QED
    BY <2>1
<1>5. evidence'[a] = EvidenceOf(Read(SealBook(Book, capture, lost).rows, round), a)
  <2>1. evidence' = Sealed(capture, lost)
    BY <1>3 DEF StartReview
  <2> QED
    BY <2>1
<1>6. Accounted
  BY DEF AccountInv
<1> QED
  BY <1>4, <1>5, <1>6, FreezeAccounts

(* While a round is collected, whatever its book does not know of an act is  *)
(* counted, or was lost while the stream was down unannounced.               *)
THEOREM ActsAreKnown == Spec => [](AuditInv /\ SealInv /\ AccountInv)
<1>1. Init => AuditInv /\ SealInv /\ AccountInv
  BY InitSeals DEF Init, AccountInv
<1>2. AuditInv /\ SealInv /\ AccountInv /\ [Next]_vars => (AuditInv /\ SealInv /\ AccountInv)'
  BY StepKeepsSeals, StepKeepsAccounts
<1> QED
  BY <1>1, <1>2, PTL DEF Spec

(* Sealing accounts for every tool call and permission request of the round, *)
(* once, by its outcome or as unknown, or counts what was lost.              *)
THEOREM ActsAreAccounted == Spec => SealingAccounts
<1>1. AuditInv /\ SealInv /\ AccountInv /\ [Next]_vars =>
        [phase = "collecting" /\ phase' = "reviewing" /\ audited =>
           \A a \in Agents : /\ AccountsFor(evidence'[a], "tool", tool[a])
                             /\ AccountsFor(evidence'[a], "permission", permission[a])]_vars
  BY SealingStepAccounts
<1> QED
  BY <1>1, ActsAreKnown, PTL DEF Spec, SealingAccounts
=============================================================================
