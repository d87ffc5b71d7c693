---------------------------- MODULE LineageProofs ----------------------------
(***************************************************************************)
(* What Lineage promises for any founders, settings, number of children,   *)
(* rounds, requests and ends of the process.  First what planSelection     *)
(* makes of any ranking; then an invariant of the population that breed    *)
(* keeps statement by statement, wherever the process may die; then what   *)
(* the two give together.                                                  *)
(***************************************************************************)
EXTENDS Lineage, FiniteSetTheorems, SequenceTheorems, WellFoundedInduction, TLAPS

-----------------------------------------------------------------------------
(* What planSelection makes of a ranking. *)

\* A share of n is a number of them.
LEMMA ShareBounds ==
    ASSUME NEW n \in Nat, NEW pct \in 0..100
    PROVE  Share(n, pct) \in 0..n
<1>1. n * pct \in Nat /\ n * (100 - pct) \in Nat
  OBVIOUS
<1>2. n * pct + n * (100 - pct) = n * 100
  OBVIOUS
<1>3. n * pct <= n * 100
  BY <1>1, <1>2
<1> QED
  BY <1>1, <1>3 DEF Share

\* No multiple of more than one is one.
LEMMA Product ==
    ASSUME NEW L \in Nat, L > 1, NEW d \in Int
    PROVE  L * d # 1
<1>1. CASE d <= 0
  <2>1. L * (0 - d) >= 0
    BY <1>1
  <2> QED
    BY <2>1
<1>2. CASE d >= 1
  <2>1. L * (d - 1) >= 0 /\ L * d = L * (d - 1) + L
    BY <1>2
  <2> QED
    BY <2>1
<1> QED
  BY <1>1, <1>2

\* A number is its quotient and its remainder.
LEMMA Division ==
    ASSUME NEW L \in Nat, L > 1, NEW m \in Nat, NEW d \in Int, d = m \div L, NEW r \in Int,
           r = m % L
    PROVE  m = L * d + r /\ r \in 0..(L - 1)
OBVIOUS

\* Two places in turn around a band of two or more are not the same.
LEMMA Turns ==
    ASSUME NEW L \in Nat, L > 1, NEW k \in Nat
    PROVE  k % L # (k + 1) % L
<1> SUFFICES ASSUME k % L = (k + 1) % L PROVE FALSE
  OBVIOUS
<1> DEFINE q == k \div L
           p == (k + 1) \div L
           r == k % L
           t == (k + 1) % L
<1>0. q \in Int /\ p \in Int /\ r \in Int /\ t \in Int /\ t = r
  OBVIOUS
<1>1. k = L * q + r
  BY <1>0, Division
<1>2. k + 1 = L * p + t
  BY <1>0, Division
<1> HIDE DEF q, p, r, t
<1>3. L * (p - q) = L * p - L * q /\ L * p \in Int /\ L * q \in Int
  BY <1>0
<1>4. L * (p - q) # 1
  BY <1>0, Product
<1> QED
  BY <1>0, <1>1, <1>2, <1>3, <1>4

\* The bands fit: the top one has somebody, and the bottom one stays below it.
LEMMA BandSizes ==
    ASSUME NEW n \in Nat \ {0}, NEW cfg \in SelectionConfig
    PROVE  /\ TopCount(n, cfg) \in 1..n
           /\ BottomCount(n, cfg) \in 0..(n - TopCount(n, cfg))
<1>1. cfg.top \in 0..100 /\ cfg.bottom \in 0..100
  BY DEF SelectionConfig
<1>2. Share(n, cfg.top) \in 0..n /\ Share(n, cfg.bottom) \in 0..n
  BY <1>1, ShareBounds
<1>3. TopCount(n, cfg) \in 1..n
  BY <1>2 DEF TopCount, Greatest
<1> QED
  BY <1>2, <1>3 DEF BottomCount, Least, Greatest

\* A share does not shrink with the number it is of.
LEMMA ShareGrows ==
    ASSUME NEW n \in Nat, NEW m \in Nat, n <= m, NEW pct \in 0..100
    PROVE  Share(n, pct) <= Share(m, pct)
<1>1. n * pct \in Nat /\ m * pct \in Nat /\ (m - n) * pct \in Nat
  OBVIOUS
<1>2. n * pct + (m - n) * pct = m * pct
  OBVIOUS
<1> QED
  BY <1>1, <1>2 DEF Share

\* Settings accepted for a population are accepted for a larger one.
LEMMA AcceptsLarger ==
    ASSUME NEW n \in Nat, NEW m \in Nat, n <= m, NEW cfg \in SelectionConfig, Accepts(n, cfg)
    PROVE  Accepts(m, cfg)
<1>1. cfg.top \in 0..100 /\ cfg.elite \in Nat
  BY DEF SelectionConfig
<1>2. Share(n, cfg.top) <= Share(m, cfg.top)
  BY <1>1, ShareGrows
<1>3. Share(n, cfg.top) \in Int /\ Share(m, cfg.top) \in Int
  <2>1. Share(n, cfg.top) \in 0..n /\ Share(m, cfg.top) \in 0..m
    BY <1>1, ShareBounds
  <2> QED
    BY <2>1
<1> QED
  BY <1>1, <1>2, <1>3 DEF Accepts, TopCount, Greatest

\* What a list over a set holds is in the set.
LEMMA MemberOf == \A T : \A s \in Seq(T) : \A x \in ToSet(s) : x \in T
BY DEF ToSet

\* What is left of a list when the element at a place is taken out.
LEMMA RemoveAtIs ==
    ASSUME NEW T, NEW s \in Seq(T), NEW i \in DOMAIN s
    PROVE  /\ RemoveAt(s, i) \in Seq(T) /\ Len(RemoveAt(s, i)) = Len(s) - 1
           /\ \A j \in 1..(Len(s) - 1) : RemoveAt(s, i)[j] = IF j < i THEN s[j] ELSE s[j + 1]
<1>1. Len(s) \in Nat /\ i \in 1..Len(s)
  OBVIOUS
<1> DEFINE u == SubSeq(s, 1, i - 1)
           v == SubSeq(s, i + 1, Len(s))
<1>2. /\ u \in Seq(T) /\ Len(u) = i - 1 /\ v \in Seq(T) /\ Len(v) = Len(s) - i
      /\ \A j \in 1..(i - 1) : u[j] = s[j]
      /\ \A j \in 1..(Len(s) - i) : v[j] = s[i + j]
  BY <1>1
<1> HIDE DEF u, v
<1>3. /\ u \o v \in Seq(T) /\ Len(u \o v) = Len(s) - 1
      /\ \A j \in 1..(Len(s) - 1) : (u \o v)[j] = IF j < i THEN u[j] ELSE v[j - (i - 1)]
  BY <1>1, <1>2
<1>4. ASSUME NEW j \in 1..(Len(s) - 1)
      PROVE  (u \o v)[j] = IF j < i THEN s[j] ELSE s[j + 1]
  <2>1. CASE j < i
    <3>1. j \in 1..(i - 1)
      BY <1>1, <2>1
    <3> QED
      BY <1>2, <1>3, <2>1, <3>1
  <2>2. CASE ~(j < i)
    <3>1. j - (i - 1) \in 1..(Len(s) - i) /\ i + (j - (i - 1)) = j + 1
      BY <1>1, <2>2
    <3>2. v[j - (i - 1)] = s[j + 1]
      BY <1>2, <3>1
    <3> QED
      BY <1>3, <2>2, <3>2
  <2> QED
    BY <2>1, <2>2
<1> QED
  BY <1>3, <1>4 DEF RemoveAt, u, v

\* What a list has with one more at its end.
LEMMA AppendIs ==
    ASSUME NEW T, NEW s \in Seq(T), NEW e \in T
    PROVE  /\ Append(s, e) \in Seq(T) /\ Len(Append(s, e)) = Len(s) + 1
           /\ ToSet(Append(s, e)) = ToSet(s) \cup {e}
           /\ IsInjective(s) /\ e \notin ToSet(s) => IsInjective(Append(s, e))
<1>1. /\ Append(s, e) \in Seq(T) /\ Len(Append(s, e)) = Len(s) + 1
      /\ \A i \in 1..Len(s) : Append(s, e)[i] = s[i]
      /\ Append(s, e)[Len(s) + 1] = e
      /\ DOMAIN s = 1..Len(s) /\ DOMAIN Append(s, e) = 1..(Len(s) + 1) /\ Len(s) \in Nat
  OBVIOUS
<1>2. ToSet(Append(s, e)) = ToSet(s) \cup {e}
  BY <1>1 DEF ToSet
<1>3. ASSUME IsInjective(s), e \notin ToSet(s) PROVE IsInjective(Append(s, e))
  BY <1>1, <1>3 DEF ToSet, IsInjective
<1> QED
  BY <1>1, <1>2, <1>3

\* Taking one out of a list without repetitions takes that one out of its set.
LEMMA RemoveAtSet ==
    ASSUME NEW T, NEW s \in Seq(T), NEW i \in DOMAIN s, IsInjective(s)
    PROVE  /\ ToSet(RemoveAt(s, i)) = ToSet(s) \ {s[i]}
           /\ IsInjective(RemoveAt(s, i))
<1> DEFINE t == RemoveAt(s, i)
<1>1. /\ t \in Seq(T) /\ Len(t) = Len(s) - 1 /\ DOMAIN t = 1..(Len(s) - 1)
      /\ \A j \in 1..(Len(s) - 1) : t[j] = IF j < i THEN s[j] ELSE s[j + 1]
      /\ Len(s) \in Nat /\ i \in 1..Len(s) /\ DOMAIN s = 1..Len(s)
  BY RemoveAtIs
<1> HIDE DEF t
<1>2. ToSet(t) \subseteq ToSet(s) \ {s[i]}
  BY <1>1 DEF ToSet, IsInjective
<1>3. ASSUME NEW j \in DOMAIN s, s[j] # s[i] PROVE s[j] \in ToSet(t)
  <2>1. CASE j < i
    <3>1. t[j] = s[j] /\ j \in DOMAIN t
      BY <1>1, <2>1
    <3> QED
      BY <3>1 DEF ToSet
  <2>2. CASE j > i
    <3>1. t[j - 1] = s[j] /\ j - 1 \in DOMAIN t
      BY <1>1, <2>2
    <3> QED
      BY <3>1 DEF ToSet
  <2> QED
    BY <1>1, <1>3, <2>1, <2>2
<1>4. ToSet(s) \ {s[i]} \subseteq ToSet(t)
  BY <1>3 DEF ToSet
<1>5. IsInjective(t)
  <2> SUFFICES ASSUME NEW j \in 1..(Len(s) - 1), NEW k \in 1..(Len(s) - 1), t[j] = t[k]
               PROVE  j = k
    BY <1>1 DEF IsInjective
  <2>1. ASSUME NEW l \in 1..(Len(s) - 1)
        PROVE  /\ l < i => t[l] = s[l] /\ l \in DOMAIN s
               /\ l >= i => t[l] = s[l + 1] /\ l + 1 \in DOMAIN s
    BY <1>1
  <2>2. \A p, q \in DOMAIN s : s[p] = s[q] => p = q
    BY DEF IsInjective
  <2>3. CASE j < i /\ k < i
    <3>1. s[j] = s[k] /\ j \in DOMAIN s /\ k \in DOMAIN s
      BY <2>1, <2>3
    <3> QED
      BY <2>2, <3>1
  <2>4. CASE j >= i /\ k >= i
    <3>1. s[j + 1] = s[k + 1] /\ j + 1 \in DOMAIN s /\ k + 1 \in DOMAIN s
      BY <2>1, <2>4
    <3>2. j + 1 = k + 1
      BY <2>2, <3>1
    <3> QED
      BY <3>2
  <2>5. CASE j < i /\ k >= i
    <3>1. s[j] = s[k + 1] /\ j \in DOMAIN s /\ k + 1 \in DOMAIN s
      BY <2>1, <2>5
    <3>2. j = k + 1
      BY <2>2, <3>1
    <3> QED
      BY <1>1, <2>5, <3>2
  <2>6. CASE j >= i /\ k < i
    <3>1. s[j + 1] = s[k] /\ j + 1 \in DOMAIN s /\ k \in DOMAIN s
      BY <2>1, <2>6
    <3>2. j + 1 = k
      BY <2>2, <3>1
    <3> QED
      BY <1>1, <2>6, <3>2
  <2> QED
    BY <1>1, <2>3, <2>4, <2>5, <2>6
<1> QED
  BY <1>2, <1>4, <1>5 DEF t

\* The places from a to b of a sequence without repetitions.
LEMMA SubSeqIs ==
    ASSUME NEW T, NEW s \in Seq(T), NEW a \in 1..(Len(s) + 1), NEW b \in (a - 1)..Len(s),
           IsInjective(s)
    PROVE  /\ SubSeq(s, a, b) \in Seq(T) /\ Len(SubSeq(s, a, b)) = b - a + 1
           /\ ToSet(SubSeq(s, a, b)) = {s[i] : i \in a..b}
           /\ IsInjective(SubSeq(s, a, b))
           /\ \A i \in 1..(b - a + 1) : SubSeq(s, a, b)[i] = s[a + i - 1]
<1> DEFINE t == SubSeq(s, a, b)
<1>1. /\ t \in Seq(T) /\ Len(t) = b - a + 1 /\ DOMAIN t = 1..(b - a + 1)
      /\ \A i \in 1..(b - a + 1) : t[i] = s[a + i - 1]
      /\ DOMAIN s = 1..Len(s) /\ Len(s) \in Nat
  OBVIOUS
<1> HIDE DEF t
<1>2. ToSet(t) \subseteq {s[i] : i \in a..b}
  BY <1>1 DEF ToSet
<1>3. ASSUME NEW i \in a..b PROVE s[i] \in ToSet(t)
  <2>1. i - a + 1 \in 1..(b - a + 1) /\ a + (i - a + 1) - 1 = i
    OBVIOUS
  <2> QED
    BY <1>1, <2>1 DEF ToSet
<1>4. IsInjective(t)
  <2> SUFFICES ASSUME NEW i \in DOMAIN t, NEW j \in DOMAIN t, t[i] = t[j] PROVE i = j
    BY DEF IsInjective
  <2>1. a + i - 1 \in DOMAIN s /\ a + j - 1 \in DOMAIN s /\ s[a + i - 1] = s[a + j - 1]
    <3>1. i \in 1..(b - a + 1) /\ j \in 1..(b - a + 1)
      BY <1>1
    <3>2. t[i] = s[a + i - 1] /\ t[j] = s[a + j - 1]
      BY <1>1, <3>1
    <3>3. a + i - 1 \in 1..Len(s) /\ a + j - 1 \in 1..Len(s)
      BY <3>1
    <3> QED
      BY <1>1, <3>2, <3>3
  <2>2. a + i - 1 = a + j - 1
    BY <2>1 DEF IsInjective
  <2> QED
    BY <1>1, <2>2
<1> QED
  BY <1>1, <1>2, <1>3, <1>4 DEF t

\* What makes a ranking usable, and the bands of one: nobody is in two of them, and the
\* culled are fewer than all.
Ranking(ranked, cfg) ==
    /\ cfg \in SelectionConfig
    /\ ranked \in Seq(ToSet(ranked)) /\ Len(ranked) > 0 /\ IsInjective(ranked)
    /\ Accepts(Len(ranked), cfg)

\* Three bands that share a ranking out, the first of them its best.
Partition(b, ranked, cfg) ==
    /\ b \in [elite : Seq(ToSet(ranked)), survivors : Seq(ToSet(ranked)),
              culled : Seq(ToSet(ranked))]
    /\ b.elite = SubSeq(ranked, 1, cfg.elite)
    /\ Len(b.elite) + Len(b.survivors) + Len(b.culled) = Len(ranked)
    /\ Len(b.culled) < Len(ranked)
    /\ IsInjective(b.survivors) /\ IsInjective(b.culled)
    /\ ToSet(b.elite) \cap ToSet(b.survivors) = {}
    /\ ToSet(b.elite) \cap ToSet(b.culled) = {}
    /\ ToSet(b.survivors) \cap ToSet(b.culled) = {}
    /\ ToSet(b.elite) \cup ToSet(b.survivors) \cup ToSet(b.culled) = ToSet(ranked)

\* Places apart in a list without repetitions hold different members.
LEMMA PlacesApart ==
    ASSUME NEW s, IsInjective(s), NEW I \in SUBSET DOMAIN s, NEW J \in SUBSET DOMAIN s,
           I \cap J = {}
    PROVE  {s[i] : i \in I} \cap {s[j] : j \in J} = {}
BY DEF IsInjective

\* The three bands share the ranking out, and the bottom one has nobody of the top.
LEMMA BandsPartition ==
    ASSUME NEW ranked, NEW cfg, Ranking(ranked, cfg)
    PROVE  /\ Partition(Bands(ranked, cfg), ranked, cfg)
           /\ ToSet(Bands(ranked, cfg).culled) \cap ToSet(TopBand(ranked, cfg)) = {}
<1> DEFINE n == Len(ranked)
           e == cfg.elite
           t == TopCount(n, cfg)
           k == n - BottomCount(n, cfg)
           A == SubSeq(ranked, 1, e)
           B == SubSeq(ranked, e + 1, k)
           C == SubSeq(ranked, k + 1, n)
           R == ToSet(ranked)
<1>1. /\ n \in Nat \ {0} /\ e \in Nat /\ t \in 1..n /\ e <= t /\ k \in t..n
      /\ ranked \in Seq(R) /\ IsInjective(ranked) /\ DOMAIN ranked = 1..n
  <2>1. n \in Nat \ {0} /\ e \in Nat /\ cfg \in SelectionConfig /\ e <= t
    BY DEF Ranking, SelectionConfig, Accepts
  <2>2. t \in 1..n /\ BottomCount(n, cfg) \in 0..(n - t)
    BY <2>1, BandSizes
  <2> QED
    BY <2>1, <2>2 DEF Ranking
<1>2. Bands(ranked, cfg) = [elite |-> A, survivors |-> B, culled |-> C]
  <2>1. Least(cfg.elite, Len(ranked)) = cfg.elite
    BY <1>1 DEF Least
  <2> QED
    BY <2>1, Zenon DEF Bands
<1> HIDE DEF n, e, t, k, R
<1>3. /\ A \in Seq(R) /\ Len(A) = e /\ ToSet(A) = {ranked[i] : i \in 1..e}
  <2>1. 1 \in 1..(Len(ranked) + 1) /\ e \in (1 - 1)..Len(ranked) /\ e - 1 + 1 = e
    BY <1>1 DEF n
  <2> QED
    BY <1>1, <2>1, SubSeqIs
<1>4. /\ B \in Seq(R) /\ Len(B) = k - e /\ ToSet(B) = {ranked[i] : i \in (e + 1)..k}
      /\ IsInjective(B)
  <2>1. e + 1 \in 1..(Len(ranked) + 1) /\ k \in (e + 1 - 1)..Len(ranked)
        /\ k - (e + 1) + 1 = k - e
    BY <1>1 DEF n
  <2> QED
    BY <1>1, <2>1, SubSeqIs
<1>5. /\ C \in Seq(R) /\ Len(C) = n - k /\ ToSet(C) = {ranked[i] : i \in (k + 1)..n}
      /\ IsInjective(C)
  <2>1. k + 1 \in 1..(Len(ranked) + 1) /\ n \in (k + 1 - 1)..Len(ranked)
        /\ n - (k + 1) + 1 = n - k
    BY <1>1 DEF n
  <2> QED
    BY <1>1, <2>1, SubSeqIs
<1>6. ToSet(TopBand(ranked, cfg)) = {ranked[i] : i \in 1..t}
  <2>1. 1 \in 1..(Len(ranked) + 1) /\ t \in (1 - 1)..Len(ranked)
    BY <1>1 DEF n
  <2>2. TopBand(ranked, cfg) = SubSeq(ranked, 1, t)
    BY DEF TopBand, t, n
  <2>3. ToSet(SubSeq(ranked, 1, t)) = {ranked[i] : i \in 1..t}
    <3>1. ranked \in Seq(R) /\ IsInjective(ranked)
      BY <1>1
    <3> QED
      BY <2>1, <3>1, SubSeqIs
  <2> QED
    BY <2>2, <2>3
<1>7. /\ ToSet(A) \cap ToSet(B) = {} /\ ToSet(A) \cap ToSet(C) = {}
      /\ ToSet(B) \cap ToSet(C) = {} /\ ToSet(C) \cap ToSet(TopBand(ranked, cfg)) = {}
  <2>1. /\ 1..e \subseteq 1..n /\ (e + 1)..k \subseteq 1..n /\ (k + 1)..n \subseteq 1..n
        /\ 1..t \subseteq 1..n
        /\ 1..e \cap (e + 1)..k = {} /\ 1..e \cap (k + 1)..n = {}
        /\ (e + 1)..k \cap (k + 1)..n = {} /\ (k + 1)..n \cap 1..t = {}
    BY <1>1
  <2> QED
    BY <1>1, <1>3, <1>4, <1>5, <1>6, <2>1, PlacesApart
<1>8. ToSet(A) \cup ToSet(B) \cup ToSet(C) = R
  <2>1. R = {ranked[i] : i \in 1..n}
    BY <1>1 DEF R, ToSet
  <2>2. \A i \in 1..n : i \in 1..e \/ i \in (e + 1)..k \/ i \in (k + 1)..n
    BY <1>1
  <2>3. \A i \in 1..e \cup (e + 1)..k \cup (k + 1)..n : i \in 1..n
    BY <1>1
  <2> QED
    BY <1>3, <1>4, <1>5, <2>1, <2>2, <2>3
<1>9. Len(A) + Len(B) + Len(C) = n /\ Len(C) < n
  BY <1>1, <1>3, <1>4, <1>5
<1> HIDE DEF A, B, C
<1>10. Partition([elite |-> A, survivors |-> B, culled |-> C], ranked, cfg)
  BY <1>3, <1>4, <1>5, <1>7, <1>8, <1>9 DEF Partition, A, e, n, R
<1> QED
  BY <1>2, <1>7, <1>10

\* A list without its last.
LEMMA FrontIs ==
    ASSUME NEW T, NEW s \in Seq(T), s # <<>>, IsInjective(s)
    PROVE  /\ Front(s) \in Seq(T) /\ Len(Front(s)) = Len(s) - 1 /\ IsInjective(Front(s))
           /\ Last(s) \in ToSet(s) /\ Last(s) \in T
           /\ ToSet(Front(s)) = ToSet(s) \ {Last(s)}
<1> DEFINE n == Len(s)
<1>1. n \in Nat \ {0} /\ DOMAIN s = 1..n
  OBVIOUS
<1>2. 1 \in 1..(n + 1) /\ n - 1 \in (1 - 1)..n /\ n - 1 - 1 + 1 = n - 1
  BY <1>1
<1> HIDE DEF n
<1>3. /\ Front(s) \in Seq(T) /\ Len(Front(s)) = n - 1 /\ IsInjective(Front(s))
      /\ ToSet(Front(s)) = {s[i] : i \in 1..(n - 1)}
  BY <1>2, SubSeqIs DEF Front, n
<1>4. Last(s) = s[n] /\ n \in DOMAIN s /\ s[n] \in T
  BY <1>1 DEF Last, n
<1>5. ToSet(Front(s)) = ToSet(s) \ {Last(s)}
  <2>1. ToSet(s) = {s[i] : i \in 1..n}
    BY <1>1 DEF ToSet
  <2>2. {s[i] : i \in 1..(n - 1)} \cap {s[i] : i \in {n}} = {}
    <3>1. 1..(n - 1) \subseteq 1..n /\ {n} \subseteq 1..n /\ 1..(n - 1) \cap {n} = {}
      BY <1>1
    <3> QED
      BY <1>1, <3>1, PlacesApart
  <2>3. \A i \in 1..n : i = n \/ i \in 1..(n - 1)
    BY <1>1
  <2>4. 1..(n - 1) \subseteq 1..n
    BY <1>1
  <2> QED
    BY <1>3, <1>4, <2>1, <2>2, <2>3, <2>4
<1> QED
  BY <1>3, <1>4, <1>5 DEF ToSet, n

\* The rescue swaps two members between bands that still share the ranking out.
LEMMA RescuePartition ==
    ASSUME NEW ranked, NEW cfg, NEW b, Partition(b, ranked, cfg),
           b.survivors # <<>>, NEW i \in DOMAIN b.culled
    PROVE  Partition(Rescue(b, i), ranked, cfg)
<1> DEFINE R == ToSet(ranked)
           S == b.survivors
           C == b.culled
           x == C[i]
           y == Last(S)
           S2 == Append(Front(S), x)
           C2 == Append(RemoveAt(C, i), y)
<1>1. /\ S \in Seq(R) /\ C \in Seq(R) /\ b.elite \in Seq(R) /\ IsInjective(S) /\ IsInjective(C)
      /\ S # <<>> /\ x \in ToSet(C) /\ x \in R
      /\ b = [elite |-> b.elite, survivors |-> S, culled |-> C]
      /\ ToSet(S) \cap ToSet(C) = {}
  BY DEF Partition, ToSet
<1>2. Rescue(b, i) = [elite |-> b.elite, survivors |-> S2, culled |-> C2]
  <2> DEFINE c == [elite |-> b.elite, survivors |-> S2, culled |-> C]
  <2>1. [b EXCEPT !.survivors = S2] = c
    <3>1. b \in [elite : Seq(R), survivors : Seq(R), culled : Seq(R)]
      BY DEF Partition
    <3> HIDE DEF S2, R
    <3> QED
      BY <3>1 DEF C
  <2>2. [c EXCEPT !.culled = C2] = [elite |-> b.elite, survivors |-> S2, culled |-> C2]
    <3>1. c \in [elite : Seq(R), survivors : {S2}, culled : Seq(R)]
      BY DEF Partition
    <3>2. c.elite = b.elite /\ c.survivors = S2
      OBVIOUS
    <3> HIDE DEF c, S2, C2, R
    <3> QED
      BY <3>1, <3>2
  <2>3. Rescue(b, i) = [[b EXCEPT !.survivors = S2] EXCEPT !.culled = C2]
    BY DEF Rescue, Partition
  <2> QED
    BY <2>1, <2>2, <2>3
<1> HIDE DEF S, C, x, y, R
<1>3. /\ Front(S) \in Seq(R) /\ Len(Front(S)) = Len(S) - 1 /\ IsInjective(Front(S))
      /\ y \in ToSet(S) /\ y \in R /\ ToSet(Front(S)) = ToSet(S) \ {y}
  BY <1>1, FrontIs DEF y
<1>4. /\ RemoveAt(C, i) \in Seq(R) /\ Len(RemoveAt(C, i)) = Len(C) - 1
      /\ ToSet(RemoveAt(C, i)) = ToSet(C) \ {x} /\ IsInjective(RemoveAt(C, i))
  BY <1>1, RemoveAtIs, RemoveAtSet DEF x, C
<1>5. /\ S2 \in Seq(R) /\ Len(S2) = Len(S) /\ ToSet(S2) = (ToSet(S) \ {y}) \cup {x}
      /\ IsInjective(S2)
  <2>1. x \notin ToSet(Front(S))
    BY <1>1, <1>3
  <2>2. /\ S2 \in Seq(R) /\ Len(S2) = Len(Front(S)) + 1 /\ ToSet(S2) = ToSet(Front(S)) \cup {x}
        /\ IsInjective(S2)
    BY <1>1, <1>3, <2>1, AppendIs
  <2> QED
    BY <1>1, <1>3, <2>2
<1>6. /\ C2 \in Seq(R) /\ Len(C2) = Len(C) /\ ToSet(C2) = (ToSet(C) \ {x}) \cup {y}
      /\ IsInjective(C2)
  <2>1. y \notin ToSet(RemoveAt(C, i))
    BY <1>1, <1>3, <1>4
  <2>2. /\ C2 \in Seq(R) /\ Len(C2) = Len(RemoveAt(C, i)) + 1
        /\ ToSet(C2) = ToSet(RemoveAt(C, i)) \cup {y} /\ IsInjective(C2)
    BY <1>3, <1>4, <2>1, AppendIs
  <2> QED
    BY <1>1, <1>4, <2>2
<1> HIDE DEF S2, C2
<1>7. /\ b.elite = SubSeq(ranked, 1, cfg.elite)
      /\ Len(b.elite) + Len(S2) + Len(C2) = Len(ranked) /\ Len(C2) < Len(ranked)
  BY <1>5, <1>6 DEF Partition, S, C
<1>8. /\ ToSet(b.elite) \cap ToSet(S2) = {} /\ ToSet(b.elite) \cap ToSet(C2) = {}
      /\ ToSet(S2) \cap ToSet(C2) = {}
      /\ ToSet(b.elite) \cup ToSet(S2) \cup ToSet(C2) = ToSet(ranked)
  BY <1>1, <1>3, <1>5, <1>6 DEF Partition, S, C
<1> DEFINE r == [elite |-> b.elite, survivors |-> S2, culled |-> C2]
<1>9. /\ r \in [elite : Seq(ToSet(ranked)), survivors : Seq(ToSet(ranked)),
                culled : Seq(ToSet(ranked))]
      /\ r.elite = b.elite /\ r.survivors = S2 /\ r.culled = C2
  BY <1>1, <1>5, <1>6 DEF R
<1> HIDE DEF r
<1>10. Partition(r, ranked, cfg)
  BY <1>5, <1>6, <1>7, <1>8, <1>9 DEF Partition
<1> QED
  BY <1>2, <1>10 DEF r

\* Lists over a set are lists over a larger one.
LEMMA SeqGrows == ASSUME NEW S, NEW T, S \subseteq T PROVE Seq(S) \subseteq Seq(T)
BY SeqMonotonic

\* The plans over a set of agents.
PlanRecord(R) ==
    [elite : Seq(R), survivors : Seq(R), culled : Seq(R),
     clones : Seq([parent : R, replaces : R]), crossovers : Seq([a : R, b : R, replaces : R]),
     rescued : SUBSET R]

\* A plan over those bands: a clone or a crossover for each of the culled, from parents in
\* the top band.
Replaces(p, ranked, cfg) ==
    LET top == ToSet(TopBand(ranked, cfg))
    IN  /\ Partition([elite |-> p.elite, survivors |-> p.survivors, culled |-> p.culled],
                     ranked, cfg)
        /\ p.clones \in Seq([parent : top, replaces : ToSet(p.culled)])
        /\ p.crossovers \in Seq([a : top, b : top, replaces : ToSet(p.culled)])
        /\ \A x \in ToSet(p.crossovers) : x.a # x.b
        /\ {x.replaces : x \in ToSet(p.clones) \cup ToSet(p.crossovers)} = ToSet(p.culled)
        /\ Len(p.clones) + Len(p.crossovers) = Len(p.culled)

\* The plan made of such bands replaces each of the culled once.
LEMMA PlanReplaces ==
    ASSUME NEW ranked, NEW cfg, Ranking(ranked, cfg), NEW b, Partition(b, ranked, cfg),
           NEW rescued \in SUBSET ToSet(ranked)
    PROVE  /\ Plan(b, ranked, cfg, rescued) \in PlanRecord(ToSet(ranked))
           /\ Replaces(Plan(b, ranked, cfg, rescued), ranked, cfg)
           /\ Plan(b, ranked, cfg, rescued).culled = b.culled
           /\ Plan(b, ranked, cfg, rescued).rescued = rescued
<1> DEFINE parents == TopBand(ranked, cfg)
           L == Len(parents)
           parent(k) == parents[(k % L) + 1]
           C == b.culled
           m == Len(C)
           top == ToSet(parents)
           crossed == IF L < 2 THEN 0 ELSE Share(m, cfg.cross)
           X == [i \in 1..crossed |->
                    [a |-> parent(2 * (i - 1)), b |-> parent(2 * (i - 1) + 1), replaces |-> C[i]]]
           K == [i \in 1..(m - crossed) |->
                    [parent |-> parent(crossed + i - 1), replaces |-> C[crossed + i]]]
           p == [elite |-> b.elite, survivors |-> b.survivors, culled |-> C,
                 crossovers |-> X, clones |-> K, rescued |-> rescued]
<1>1. Plan(b, ranked, cfg, rescued) = p
  BY Zenon DEF Plan
<1>2. /\ parents \in Seq(ToSet(ranked)) /\ L \in Nat \ {0} /\ IsInjective(parents)
      /\ DOMAIN parents = 1..L
  <2>1. /\ Len(ranked) \in Nat \ {0} /\ cfg \in SelectionConfig
        /\ ranked \in Seq(ToSet(ranked)) /\ IsInjective(ranked)
    BY DEF Ranking
  <2>2. TopCount(Len(ranked), cfg) \in 1..Len(ranked)
    BY <2>1, BandSizes
  <2>3. /\ 1 \in 1..(Len(ranked) + 1)
        /\ TopCount(Len(ranked), cfg) \in (1 - 1)..Len(ranked)
        /\ TopCount(Len(ranked), cfg) - 1 + 1 = TopCount(Len(ranked), cfg)
    BY <2>1, <2>2
  <2>4. /\ parents \in Seq(ToSet(ranked)) /\ L = TopCount(Len(ranked), cfg)
        /\ IsInjective(parents)
    <3> DEFINE t == TopCount(Len(ranked), cfg)
    <3>1. parents = SubSeq(ranked, 1, t)
      BY DEF TopBand
    <3> HIDE DEF t, parents
    <3> QED
      BY <2>1, <2>3, <3>1, SubSeqIs DEF t
  <2> QED
    BY <2>2, <2>4
<1>3. C \in Seq(ToSet(ranked)) /\ m \in Nat /\ DOMAIN C = 1..m
  BY DEF Partition
<1>4. crossed \in 0..m
  <2>1. cfg.cross \in 0..100
    BY DEF Ranking, SelectionConfig
  <2> HIDE DEF m, L
  <2>2. Share(m, cfg.cross) \in 0..m
    BY <1>3, <2>1, ShareBounds
  <2> QED
    BY <1>3, <2>2
<1> HIDE DEF parents, L, C, m, crossed
<1>5. ASSUME NEW k \in Nat PROVE parent(k) \in top
  <2>1. (k % L) + 1 \in 1..L
    BY <1>2
  <2> QED
    BY <1>2, <2>1 DEF ToSet
<1>6. ASSUME NEW k \in Nat, L > 1 PROVE parent(k) # parent(k + 1)
  <2>1. (k % L) + 1 \in 1..L /\ ((k + 1) % L) + 1 \in 1..L
    BY <1>2
  <2>2. k % L # (k + 1) % L
    BY <1>2, <1>6, Turns
  <2>3. (k % L) + 1 # ((k + 1) % L) + 1
    BY <1>2, <2>2
  <2> QED
    BY <1>2, <2>1, <2>3 DEF IsInjective
<1> HIDE DEF parent, top
<1>7. ASSUME NEW i \in 1..m PROVE C[i] \in ToSet(C)
  BY <1>3 DEF ToSet
<1>8. X \in Seq([a : top, b : top, replaces : ToSet(C)]) /\ Len(X) = crossed
  <2>1. ASSUME NEW i \in 1..crossed PROVE X[i] \in [a : top, b : top, replaces : ToSet(C)]
    <3>1. 2 * (i - 1) \in Nat /\ 2 * (i - 1) + 1 \in Nat /\ i \in 1..m
      BY <1>3, <1>4
    <3> QED
      BY <1>5, <1>7, <3>1
  <2> QED
    BY <1>3, <1>4, <2>1
<1>9. K \in Seq([parent : top, replaces : ToSet(C)]) /\ Len(K) = m - crossed
  <2>1. ASSUME NEW i \in 1..(m - crossed) PROVE K[i] \in [parent : top, replaces : ToSet(C)]
    <3>1. crossed + i - 1 \in Nat /\ crossed + i \in 1..m
      BY <1>3, <1>4
    <3> QED
      BY <1>5, <1>7, <3>1
  <2> QED
    BY <1>3, <1>4, <2>1
<1>10. \A x \in ToSet(X) : x.a # x.b
  <2> SUFFICES ASSUME NEW i \in 1..crossed PROVE X[i].a # X[i].b
    BY DEF ToSet
  <2>1. L > 1 /\ 2 * (i - 1) \in Nat
    BY <1>2, <1>3, <1>4 DEF crossed
  <2> QED
    BY <1>6, <2>1
<1>11. {x.replaces : x \in ToSet(K) \cup ToSet(X)} = ToSet(C)
  <2>1. \A x \in ToSet(X) : x.replaces \in ToSet(C)
    <3> SUFFICES ASSUME NEW i \in 1..crossed PROVE X[i].replaces \in ToSet(C)
      BY DEF ToSet
    <3>1. i \in 1..m
      BY <1>3, <1>4
    <3> QED
      BY <1>7, <3>1
  <2>2. \A x \in ToSet(K) : x.replaces \in ToSet(C)
    <3> SUFFICES ASSUME NEW i \in 1..(m - crossed) PROVE K[i].replaces \in ToSet(C)
      BY DEF ToSet
    <3>1. crossed + i \in 1..m
      BY <1>3, <1>4
    <3> QED
      BY <1>7, <3>1
  <2>3. ASSUME NEW i \in 1..m PROVE \E x \in ToSet(K) \cup ToSet(X) : x.replaces = C[i]
    <3>1. CASE i <= crossed
      <4>1. X[i] \in ToSet(X) /\ X[i].replaces = C[i]
        BY <1>4, <3>1 DEF ToSet
      <4> QED
        BY <4>1
    <3>2. CASE i > crossed
      <4> DEFINE j == i - crossed
      <4>1. j \in 1..(m - crossed) /\ crossed + j = i
        BY <1>3, <1>4, <3>2
      <4> HIDE DEF j
      <4>2. K[j] \in ToSet(K) /\ K[j].replaces = C[i]
        BY <4>1 DEF ToSet
      <4> QED
        BY <4>2
    <3>3. i <= crossed \/ i > crossed
      BY <1>3, <1>4
    <3> HIDE DEF X, K
    <3> QED
      BY <3>1, <3>2, <3>3
  <2>4. ToSet(C) = {C[i] : i \in 1..m}
    BY <1>3 DEF ToSet
  <2> HIDE DEF X, K
  <2> QED
    BY <2>1, <2>2, <2>3, <2>4
<1>12. [elite |-> b.elite, survivors |-> b.survivors, culled |-> C] = b
  BY DEF Partition, C
<1> HIDE DEF X, K
<1>13. Replaces(p, ranked, cfg)
  <2>1. Len(K) + Len(X) = Len(C)
    BY <1>3, <1>4, <1>8, <1>9 DEF m
  <2> QED
    BY <1>8, <1>9, <1>10, <1>11, <1>12, <2>1 DEF Replaces, top, parents
<1>14. p \in PlanRecord(ToSet(ranked))
  <2> DEFINE R == ToSet(ranked)
  <2>1. top \subseteq R /\ ToSet(C) \subseteq R
    BY <1>2, <1>3 DEF top, ToSet
  <2> HIDE DEF R
  <2>2. X \in Seq([a : R, b : R, replaces : R])
    <3> DEFINE T == [a : top, b : top, replaces : ToSet(C)]
               U == [a : R, b : R, replaces : R]
    <3>1. T \subseteq U /\ X \in Seq(T)
      BY <1>8, <2>1
    <3> HIDE DEF T, U
    <3>2. X \in Seq(U)
      BY <3>1, SeqGrows
    <3> QED
      BY <3>2 DEF U
  <2>3. K \in Seq([parent : R, replaces : R])
    <3> DEFINE T == [parent : top, replaces : ToSet(C)]
               U == [parent : R, replaces : R]
    <3>1. T \subseteq U /\ K \in Seq(T)
      BY <1>9, <2>1
    <3> HIDE DEF T, U
    <3>2. K \in Seq(U)
      BY <3>1, SeqGrows
    <3> QED
      BY <3>2 DEF U
  <2>4. b.elite \in Seq(R) /\ b.survivors \in Seq(R) /\ C \in Seq(R) /\ rescued \in SUBSET R
    BY DEF Partition, C, R
  <2>5. p \in PlanRecord(R)
    BY <2>2, <2>3, <2>4 DEF PlanRecord
  <2> QED
    BY <2>5 DEF R
<1> QED
  BY <1>1, <1>13, <1>14 DEF C

\* What planSelection may make of a ranking: a plan that replaces each of the culled, and
\* takes nobody of the top band but for a rescue.
LEMMA PlansReplace ==
    ASSUME NEW ranked, NEW cfg, Ranking(ranked, cfg), NEW p \in Plans(ranked, cfg)
    PROVE  /\ p \in PlanRecord(ToSet(ranked)) /\ Replaces(p, ranked, cfg)
           /\ ToSet(p.culled) \cap ToSet(TopBand(ranked, cfg)) # {} => p.rescued # {}
<1> DEFINE b == Bands(ranked, cfg)
<1>1. Partition(b, ranked, cfg) /\ ToSet(b.culled) \cap ToSet(TopBand(ranked, cfg)) = {}
  BY BandsPartition
<1>2. CASE p = Plan(b, ranked, cfg, {})
  BY <1>1, <1>2, PlanReplaces
<1>3. ASSUME NEW i \in Rescuable(b, cfg),
             p = Plan(Rescue(b, i), ranked, cfg, {b.culled[i]})
      PROVE  /\ p \in PlanRecord(ToSet(ranked)) /\ Replaces(p, ranked, cfg)
             /\ ToSet(p.culled) \cap ToSet(TopBand(ranked, cfg)) # {} => p.rescued # {}
  <2>1. b.survivors # <<>> /\ i \in DOMAIN b.culled
    BY <1>3 DEF Rescuable
  <2>2. Partition(Rescue(b, i), ranked, cfg)
    BY <1>1, <2>1, RescuePartition
  <2>3. {b.culled[i]} \in SUBSET ToSet(ranked)
    BY <1>1, <2>1 DEF Partition
  <2> QED
    BY <1>3, <2>2, <2>3, PlanReplaces
<1> QED
  BY <1>2, <1>3 DEF Plans

\* A list is its head and its tail.
LEMMA TailIs ==
    ASSUME NEW T, NEW s \in Seq(T), s # <<>>
    PROVE  /\ Head(s) \in T /\ Tail(s) \in Seq(T) /\ Len(Tail(s)) = Len(s) - 1
           /\ Len(s) \in Nat \ {0}
           /\ ToSet(s) = {Head(s)} \cup ToSet(Tail(s))
           /\ IsInjective(s) => IsInjective(Tail(s)) /\ Head(s) \notin ToSet(Tail(s))
<1> DEFINE t == Tail(s)
<1>1. /\ Head(s) \in T /\ t \in Seq(T) /\ Len(t) = Len(s) - 1 /\ Head(s) = s[1]
      /\ \A i \in 1..Len(t) : t[i] = s[i + 1]
  BY HeadTailProperties
<1>2. /\ Len(s) \in Nat \ {0} /\ DOMAIN s = 1..Len(s) /\ DOMAIN t = 1..(Len(s) - 1)
  BY <1>1
<1> HIDE DEF t
<1>3. ToSet(s) = {Head(s)} \cup ToSet(t)
  <2>1. ASSUME NEW i \in 1..Len(s) PROVE s[i] \in {Head(s)} \cup ToSet(t)
    <3>1. CASE i = 1
      BY <1>1, <3>1
    <3>2. CASE i # 1
      <4>1. i - 1 \in 1..(Len(s) - 1) /\ t[i - 1] = s[i]
        BY <1>1, <1>2, <3>2
      <4> QED
        BY <1>2, <4>1 DEF ToSet
    <3> QED
      BY <3>1, <3>2
  <2>2. \A i \in 1..(Len(s) - 1) : t[i] \in ToSet(s)
    BY <1>1, <1>2 DEF ToSet
  <2>3. Head(s) \in ToSet(s)
    BY <1>1, <1>2 DEF ToSet
  <2> QED
    BY <1>2, <2>1, <2>2, <2>3 DEF ToSet
<1>4. ASSUME IsInjective(s) PROVE IsInjective(t) /\ Head(s) \notin ToSet(t)
  <2>1. \A i, j \in 1..Len(s) : s[i] = s[j] => i = j
    BY <1>2, <1>4 DEF IsInjective
  <2>2. \A i \in 1..(Len(s) - 1) : t[i] = s[i + 1] /\ i + 1 \in 1..Len(s) /\ i + 1 # 1
    BY <1>1, <1>2
  <2>3. \A i \in 1..(Len(s) - 1) : t[i] # Head(s)
    BY <1>1, <1>2, <2>1, <2>2
  <2>4. \A i, j \in 1..(Len(s) - 1) : t[i] = t[j] => i = j
    <3> SUFFICES ASSUME NEW i \in 1..(Len(s) - 1), NEW j \in 1..(Len(s) - 1), t[i] = t[j]
                 PROVE  i = j
      OBVIOUS
    <3>1. i + 1 = j + 1
      BY <2>1, <2>2
    <3> QED
      BY <3>1
  <2> QED
    BY <1>2, <2>3, <2>4 DEF IsInjective, ToSet
<1> QED
  BY <1>1, <1>2, <1>3, <1>4 DEF t

-----------------------------------------------------------------------------
(* The population, the genomes and what a round is still to do. *)

\* Written by PREPARE, which carries an agent's own genome forward.
Carried(a, g) == g.origin = "clone" /\ g.from # <<>> /\ g.from[1] = a

\* The rows of the genomes table.
GenomeRecord ==
    [text : Keys, from : Keys \cup {<<>>},
     origin : {"seed", "elite", "mutation", "clone", "crossover", "manual"}]

\* Agents are numbered in turn, somebody is always active, and the settings are ones that
\* the founders' number allows.
Peopled ==
    /\ \E n \in 0..MaxChildren : Made = Founders \cup (1..n)
    /\ Range(status) \subseteq Statuses /\ Active # {}
    /\ config \in Configs /\ Accepts(Cardinality(Founders), config)
    /\ mutated \subseteq Made /\ cut \subseteq Made
    /\ ranking \in Seq(Made) /\ IsInjective(ranking)

\* Where the run stands; a genome is pending only between two statements of breed or of a
\* request.
Placed ==
    /\ round \in 0..MaxRounds /\ events \in 0..MaxEvents
    /\ phase \in {"idle", "preparing", "running", "reflecting", "breeding"}
    /\ result \in {"none", "complete", "failed"}
    /\ result = "complete" => phase = "idle" /\ birth = NoBirth
    /\ birth # NoBirth =>
         /\ phase \in {"idle", "breeding"}
         /\ birth.agent \in Made /\ birth.key = <<birth.agent, round + 1>>
         /\ birth.genome \in GenomeRecord /\ ~Carried(birth.agent, birth.genome)

\* The last round a genome can be of by now: until breeding, none is of the next.
Horizon == IF phase \in {"preparing", "running", "reflecting"} THEN round ELSE round + 1

\* A genome is of an agent there is, and of a round that has begun or is being bred for.
Dated ==
    \A k \in DOMAIN genomes :
        /\ k \in Keys /\ genomes[k] \in GenomeRecord /\ k[1] \in Made
        /\ k[2] <= Horizon

\* A genome has the text of the last one its agent was given by then.
Follows ==
    \A k \in DOMAIN genomes : \E g \in RoundsOf(k[1]) :
        /\ g <= k[2] /\ Given(k[1], g) /\ genomes[<<k[1], g>>].text = genomes[k].text
        /\ \A q \in RoundsOf(k[1]) : g < q /\ q <= k[2] => ~Given(k[1], q)

\* Whoever runs, or is ranked, has a genome of the round; a plan is over its ranking.
Equipped ==
    /\ phase = "running" => Unprepared = {}
    /\ phase \in {"reflecting", "breeding"} =>
         /\ \A a \in ToSet(ranking) : <<a, round>> \in DOMAIN genomes
         /\ plan \in PlanRecord(ToSet(ranking))

\* Until breed begins, the ranking and the plan are what the planner made.
Reflecting ==
    phase = "reflecting" =>
        /\ Ranking(ranking, config) /\ ToSet(ranking) = Active
        /\ Len(ranking) = Cardinality(Active)
        /\ Replaces(plan, ranking, config)
        /\ ToSet(plan.culled) \cap ToSet(TopBand(ranking, config)) # {} => plan.rescued # {}

\* Breeding owes what is left of the plan: as many children as are missing, nobody's
\* removal twice, a genome to whoever has none.
Owed ==
    phase = "breeding" =>
        /\ IsInjective(plan.culled) /\ ToSet(plan.culled) \subseteq Active
        /\ Len(plan.culled) < Cardinality(Active)
        /\ Cardinality(Active) + (Len(plan.clones) + Len(plan.crossovers))
             = Len(ranking) + Len(plan.culled)
        /\ \A a \in Active :
             \/ <<a, round + 1>> \in DOMAIN genomes \/ birth.agent = a
             \/ a \in ToSet(plan.elite) \cup ToSet(plan.survivors) \cup ToSet(plan.culled)

\* The next round has it as it was.
Copied(a) ==
    <<a, round + 1>> \in DOMAIN genomes
        /\ genomes[<<a, round + 1>>].text = genomes[<<a, round>>].text

\* The best are safe from the rest of the plan, and copied or to be copied.
ElitePending ==
    phase = "breeding" =>
        \A i \in 1..Least(config.elite, Len(ranking)) :
            LET a == ranking[i]
            IN  a \in Active \ ToSet(plan.culled) /\ (a \in ToSet(plan.elite) \/ Copied(a))

\* Nobody is ranked before the judge has.
Unranked == phase \in {"preparing", "running"} => ranking = <<>>

\* What every statement keeps.
LineageInv ==
    /\ Peopled /\ Placed /\ Unranked /\ Dated /\ Follows /\ Equipped
    /\ Reflecting /\ Owed /\ ElitePending /\ PopulationKept /\ EliteStands

-----------------------------------------------------------------------------
(* Who there is, and where the run stands. *)

\* There are finitely many agents.
LEMMA MadeFinite == Peopled => IsFiniteSet(Made) /\ IsFiniteSet(Active)
<1> SUFFICES ASSUME Peopled PROVE IsFiniteSet(Made) /\ IsFiniteSet(Active)
  OBVIOUS
<1>1. PICK n \in 0..MaxChildren : Made = Founders \cup (1..n)
  BY DEF Peopled
<1>2. IsFiniteSet(1..n)
  BY BoundsAssumption, FS_Interval
<1>3. IsFiniteSet(Made)
  BY <1>1, <1>2, FoundersAssumption, FS_Union
<1>4. Active \subseteq Made
  BY DEF Active
<1> QED
  BY <1>3, <1>4, FS_Subset

\* The next child is nobody yet.
LEMMA NextChildIs ==
    ASSUME Peopled
    PROVE  /\ NextChild \in Nat \ {0} /\ NextChild \notin Made
           /\ NextChild \in Ids => \E n \in 0..MaxChildren :
                                        Made \cup {NextChild} = Founders \cup (1..n)
<1>1. PICK n \in 0..MaxChildren : Made = Founders \cup (1..n)
  BY DEF Peopled
<1>2. n \in Nat /\ n + 1 \in 0..(MaxChildren + 1)
  BY BoundsAssumption
<1>3. Made \ Founders = 1..n
  <2>1. 1..n \subseteq 0..(MaxChildren + 1)
    BY <1>2, BoundsAssumption
  <2> QED
    BY <1>1, <2>1, FoundersAssumption
<1>4. NextChild = n + 1
  <2>1. Cardinality(1..n) = IF 1 > n THEN 0 ELSE n - 1 + 1
    BY <1>2, FS_Interval
  <2>2. Cardinality(1..n) = n
    BY <1>2, <2>1
  <2>3. Cardinality(Made \ Founders) = n
    BY <1>3, <2>2, Zenon
  <2> QED
    BY <2>3 DEF NextChild
<1>5. n + 1 \notin Made
  BY <1>1, <1>2, FoundersAssumption
<1>6. ASSUME NextChild \in Ids PROVE Made \cup {NextChild} = Founders \cup (1..(n + 1))
                                     /\ n + 1 \in 0..MaxChildren
  <2>1. n + 1 \in 1..MaxChildren
    BY <1>2, <1>4, <1>6, FoundersAssumption DEF Ids
  <2>2. 1..(n + 1) = 1..n \cup {n + 1}
    BY <1>2
  <2> QED
    BY <1>1, <1>4, <2>1, <2>2
<1> QED
  BY <1>2, <1>4, <1>5, <1>6

\* What the row of a new agent changes.
LEMMA BearDoes ==
    ASSUME Peopled, NEW key, NEW genome, Bear(NextChild, key, genome)
    PROVE  /\ Made' = Made \cup {NextChild} /\ Active' = Active \cup {NextChild}
           /\ NextChild \notin Made /\ NextChild \notin Active /\ NextChild # 0
           /\ Range(status') \subseteq Statuses
           /\ \E n \in 0..MaxChildren : Made' = Founders \cup (1..n)
           /\ Cardinality(Active') = Cardinality(Active) + 1
           /\ birth' = [agent |-> NextChild, key |-> key, genome |-> genome]
<1> DEFINE c == NextChild
<1>1. c \in Nat \ {0} /\ c \notin Made
  BY NextChildIs
<1>2. c \in Ids => \E n \in 0..MaxChildren : Made \cup {c} = Founders \cup (1..n)
  BY NextChildIs
<1> HIDE DEF c
<1>3. /\ c \in Ids /\ birth' = [agent |-> c, key |-> key, genome |-> genome]
      /\ status' = [a \in Made \cup {c} |-> IF a = c THEN "active" ELSE status[a]]
  BY DEF Bear, c
<1>4. Made' = Made \cup {c} /\ \A a \in Made : status'[a] = status[a]
  BY <1>1, <1>3 DEF Made
<1>5. status'[c] = "active"
  BY <1>3
<1>6. Active' = Active \cup {c}
  BY <1>4, <1>5 DEF Active
<1>7. Range(status') \subseteq Statuses
  BY <1>4, <1>5 DEF Peopled, Range, Made, Statuses
<1>8. c \notin Active
  BY <1>1 DEF Active
<1>9. Cardinality(Active') = Cardinality(Active) + 1
  BY <1>6, <1>8, MadeFinite, FS_AddElement
<1> QED
  BY <1>1, <1>2, <1>3, <1>4, <1>6, <1>7, <1>8, <1>9 DEF c

\* What retiring an agent changes.
LEMMA LeaveDoes ==
    ASSUME Peopled, NEW a \in Active, NEW s \in {"culled", "retired"},
           status' = [status EXCEPT ![a] = s]
    PROVE  /\ Made' = Made /\ Active' = Active \ {a} /\ Range(status') \subseteq Statuses
           /\ Cardinality(Active') = Cardinality(Active) - 1 /\ Cardinality(Active) \in Nat
<1>1. Made' = Made /\ a \in Made /\ \A b \in Made \ {a} : status'[b] = status[b]
  BY DEF Made, Active
<1>2. status'[a] = s
  BY <1>1 DEF Made
<1>3. Active' = Active \ {a}
  BY <1>1, <1>2 DEF Active
<1>4. Range(status') \subseteq Statuses
  BY <1>1, <1>2 DEF Peopled, Range, Made, Statuses
<1> QED
  BY <1>1, <1>3, <1>4, MadeFinite, FS_RemoveElement, FS_CardinalityType

\* A ranking that the judge may return lists the active agents.
LEMMA RankingsAre ==
    ASSUME Peopled, NEW r \in Rankings
    PROVE  /\ r \in Seq(Active) /\ IsInjective(r) /\ ToSet(r) = Active
           /\ Len(r) = Cardinality(Active) /\ Len(r) > 0
<1> DEFINE n == Cardinality(Active)
<1>1. n \in Nat /\ IsFiniteSet(Active)
  BY MadeFinite, FS_CardinalityType
<1>2. n # 0
  BY <1>1, FS_EmptySet DEF Peopled
<1>3. r \in [1..n -> Active] /\ \A i, j \in 1..n : i # j => r[i] # r[j]
  BY DEF Rankings, SetToSeqs
<1> HIDE DEF n
<1>4. r \in Seq(Active) /\ Len(r) = n /\ DOMAIN r = 1..n
  BY <1>1, <1>3
<1>5. IsInjective(r)
  BY <1>3, <1>4 DEF IsInjective
<1>6. r \in Injection(1..n, Active)
  BY <1>3, <1>5 DEF Injection
<1>7. Cardinality(1..n) = n
  BY <1>1, <1>2, FS_Interval
<1>8. r \in Surjection(1..n, Active)
  BY <1>1, <1>6, <1>7, FS_Injection DEF n
<1>9. ToSet(r) = Active
  BY <1>3, <1>4, <1>8 DEF Surjection, ToSet
<1> QED
  BY <1>1, <1>2, <1>4, <1>5, <1>9 DEF n

\* The ranking of nobody.
LEMMA NobodyRanked == \A S : <<>> \in Seq(S) /\ IsInjective(<<>>) /\ ToSet(<<>>) = {}
BY DEF IsInjective, ToSet

\* Statements that touch no agent and no setting keep who there is.
LEMMA PeopledKeeps ==
    ASSUME Peopled, UNCHANGED <<status, config>>, mutated' \subseteq Made, cut' \subseteq Made,
           ranking' \in Seq(Made), IsInjective(ranking')
    PROVE  Peopled'
BY DEF Peopled, Made, Active

\* Statements that make somebody leave the rest of it alone.
LEMMA BearPeopled ==
    ASSUME Peopled, NEW key, NEW genome, Bear(NextChild, key, genome), UNCHANGED config,
           cut' = cut, mutated' \in {mutated, {}}, ranking' \in {ranking, <<>>}
    PROVE  Peopled'
<1>1. /\ Made \subseteq Made' /\ Active # {} /\ Active \subseteq Active'
      /\ Range(status') \subseteq Statuses
      /\ \E n \in 0..MaxChildren : Made' = Founders \cup (1..n)
  BY BearDoes DEF Peopled
<1>2. ranking' \in Seq(Made') /\ IsInjective(ranking')
  BY <1>1, SeqGrows, NobodyRanked DEF Peopled
<1>3. mutated' \subseteq Made' /\ cut' \subseteq Made'
  BY <1>1 DEF Peopled
<1>4. config' \in Configs /\ Accepts(Cardinality(Founders), config')
  BY DEF Peopled
<1> QED
  BY <1>1, <1>2, <1>3, <1>4 DEF Peopled

\* Statements that retire somebody leave the rest of it alone.
LEMMA LeavePeopled ==
    ASSUME Peopled, NEW a \in Active, NEW s \in {"culled", "retired"},
           status' = [status EXCEPT ![a] = s], Cardinality(Active) > 1, UNCHANGED config,
           cut' = cut, mutated' \in {mutated, {}}, ranking' \in {ranking, <<>>}
    PROVE  Peopled'
<1>1. /\ Made' = Made /\ Active' = Active \ {a} /\ Range(status') \subseteq Statuses
      /\ Cardinality(Active') = Cardinality(Active) - 1 /\ Cardinality(Active) \in Nat
  BY LeaveDoes
<1>2. Active' # {}
  <2>1. Cardinality(Active') # 0
    BY <1>1
  <2> QED
    BY <2>1, FS_EmptySet
<1>3. ranking' \in Seq(Made') /\ IsInjective(ranking')
  BY <1>1, NobodyRanked DEF Peopled
<1> QED
  BY <1>1, <1>2, <1>3 DEF Peopled

\* Every step keeps who there is.
LEMMA PeopledStep == LineageInv /\ [Next]_vars => Peopled'
<1> SUFFICES ASSUME LineageInv, [Next]_vars PROVE Peopled'
  OBVIOUS
<1> USE NobodyRanked
<1>0. Peopled /\ Equipped /\ Owed /\ Placed /\ ranking \in Seq(Made) /\ IsInjective(ranking)
      /\ mutated \subseteq Made /\ cut \subseteq Made
  BY DEF LineageInv, Peopled
<1>1. ASSUME StartRound PROVE Peopled'
  BY <1>0, <1>1, PeopledKeeps DEF StartRound, Forget, table
<1>2. ASSUME NEW a \in Active, CarryForward(a) PROVE Peopled'
  BY <1>0, <1>2, PeopledKeeps DEF CarryForward, working
<1>3. ASSUME NEW a \in Active, NoHistory(a) PROVE Peopled'
  BY <1>0, <1>3, PeopledKeeps DEF NoHistory, Fail, Forget, table
<1>4. ASSUME Prepared PROVE Peopled'
  BY <1>0, <1>4, PeopledKeeps DEF Prepared, working, table
<1>5. ASSUME RoundFails PROVE Peopled'
  BY <1>0, <1>5, PeopledKeeps DEF RoundFails, Fail, Forget, table
<1>6. ASSUME Evolve PROVE Peopled'
  <2>1. UNCHANGED <<status, config, cut, mutated>> /\ ranking' \in Rankings
    BY <1>6 DEF Evolve, Fail, table
  <2>2. ranking' \in Seq(Made) /\ IsInjective(ranking')
    BY <1>0, <2>1, RankingsAre, SeqGrows DEF Active
  <2> QED
    BY <1>0, <2>1, <2>2, PeopledKeeps
<1>7. ASSUME Reflect PROVE Peopled'
  <2>1. UNCHANGED <<status, config, cut, ranking>> /\ mutated' \subseteq ToSet(plan.survivors)
    BY <1>7 DEF Reflect, Reflections, table
  <2>2. plan.survivors \in Seq(ToSet(ranking))
    BY <1>0, <1>7 DEF Equipped, Reflect, PlanRecord
  <2>3. ToSet(plan.survivors) \subseteq ToSet(ranking) /\ ToSet(ranking) \subseteq Made
    BY <1>0, <2>2 DEF ToSet
  <2> QED
    BY <1>0, <2>1, <2>3, PeopledKeeps
<1>8. ASSUME CopyElite PROVE Peopled'
  BY <1>0, <1>8, PeopledKeeps DEF CopyElite
<1>9. ASSUME Mutate PROVE Peopled'
  BY <1>0, <1>9, PeopledKeeps DEF Mutate
<1>10. ASSUME Cull PROVE Peopled'
  <2>1. /\ phase = "breeding" /\ plan.culled # <<>>
        /\ status' = [status EXCEPT ![Head(plan.culled)] = "culled"]
        /\ UNCHANGED <<config, cut, mutated, ranking>>
    BY <1>10 DEF Cull, Breeding
  <2>2. /\ plan.culled \in Seq(ToSet(ranking)) /\ ToSet(plan.culled) \subseteq Active
        /\ Len(plan.culled) < Cardinality(Active)
    BY <1>0, <2>1 DEF Equipped, PlanRecord, Owed
  <2>3. Head(plan.culled) \in Active /\ Len(plan.culled) >= 1
    BY <2>1, <2>2 DEF ToSet
  <2>4. Cardinality(Active) \in Nat
    BY <1>0, MadeFinite, FS_CardinalityType
  <2>5. Cardinality(Active) > 1
    BY <2>2, <2>3, <2>4
  <2> QED
    BY <1>0, <2>1, <2>3, <2>5, LeavePeopled
<1>11. ASSUME BearClone PROVE Peopled'
  BY <1>0, <1>11, BearPeopled DEF BearClone
<1>12. ASSUME BearCrossover PROVE Peopled'
  BY <1>0, <1>12, BearPeopled DEF BearCrossover
<1>13. ASSUME Complete PROVE Peopled'
  BY <1>0, <1>13, PeopledKeeps DEF Complete, table
<1>14. ASSUME WriteGenome PROVE Peopled'
  BY <1>0, <1>14, PeopledKeeps DEF WriteGenome, working
<1>15. ASSUME AddAgent PROVE Peopled'
  BY <1>0, <1>15, BearPeopled DEF AddAgent, Request, Forget
<1>16. ASSUME NEW a \in Active, RemoveAgent(a) PROVE Peopled'
  BY <1>0, <1>16, LeavePeopled DEF RemoveAgent, Request, Forget
<1>17. ASSUME Patch PROVE Peopled'
  BY <1>0, <1>17 DEF Patch, Request, Forget, Peopled, table, Made, Active
<1>18. ASSUME Crash PROVE Peopled'
  BY <1>0, <1>18, PeopledKeeps DEF Crash, Forget, table, Placed
<1>19. ASSUME UNCHANGED vars PROVE Peopled'
  BY <1>0, <1>19, PeopledKeeps DEF vars, table, working
<1> QED
  BY <1>1, <1>2, <1>3, <1>4, <1>5, <1>6, <1>7, <1>8, <1>9, <1>10, <1>11, <1>12, <1>13,
     <1>14, <1>15, <1>16, <1>17, <1>18, <1>19 DEF Next, Breed

\* A set of numbers that has a bound has a largest.
LEMMA Largest ==
    ASSUME NEW n \in Nat, NEW S \in SUBSET (0..n), S # {}
    PROVE  LatestIn(S) \in S /\ \A q \in S : q <= LatestIn(S)
<1> DEFINE T == {n - s : s \in S}
<1>1. T \in SUBSET Nat /\ T # {}
  <2>1. \A s \in S : n - s \in Nat
    OBVIOUS
  <2> QED
    BY <2>1
<1>2. PICK t \in T : \A u \in T : ~(u < t)
  <2>1. IsWellFoundedOn(OpToRel(<, Nat), Nat)
    BY NatLessThanWellFounded, Zenon
  <2>2. \E t \in T : \A u \in T : ~(<<u, t>> \in OpToRel(<, Nat))
    BY <1>1, <2>1, WFMin, Zenon
  <2> QED
    BY <1>1, <2>2 DEF OpToRel
<1>3. PICK s \in S : t = n - s
  OBVIOUS
<1>4. \A q \in S : q <= s
  <2> SUFFICES ASSUME NEW q \in S PROVE q <= s
    OBVIOUS
  <2>1. n - q \in T
    OBVIOUS
  <2>2. ~(n - q < n - s)
    BY <1>2, <1>3, <2>1
  <2> QED
    BY <2>2
<1> QED
  BY <1>3, <1>4 DEF LatestIn

\* The last genome an agent has is one it has.
LEMMA LatestWritten ==
    ASSUME LineageInv, NEW a, Written(a) # {}
    PROVE  <<a, LatestIn(RoundsOf(a))>> \in DOMAIN genomes
<1>1. MaxRounds + 1 \in Nat /\ Keys = Ids \X (1..(MaxRounds + 1))
  BY BoundsAssumption DEF Keys
<1>2. \A r \in RoundsOf(a) : <<a, r>> \in DOMAIN genomes /\ r \in 0..(MaxRounds + 1)
  BY <1>1 DEF LineageInv, Dated, RoundsOf, Written
<1>3. RoundsOf(a) # {}
  BY DEF RoundsOf
<1>4. LatestIn(RoundsOf(a)) \in RoundsOf(a)
  BY <1>1, <1>2, <1>3, Largest
<1> QED
  BY <1>2, <1>4

\* The keys of this round and the next.
LEMMA KeysOf ==
    ASSUME LineageInv, NEW a \in Made
    PROVE  /\ <<a, round + 1>> \in Keys /\ round + 1 # round
           /\ round >= 1 => <<a, round>> \in Keys
<1>1. a \in Ids
  BY BoundsAssumption DEF LineageInv, Peopled, Ids
<1>2. round \in Nat /\ round <= MaxRounds /\ MaxRounds \in Nat
  BY BoundsAssumption DEF LineageInv, Placed
<1>3. round + 1 \in 1..(MaxRounds + 1) /\ (round >= 1 => round \in 1..(MaxRounds + 1))
  BY <1>2
<1> QED
  BY <1>1, <1>2, <1>3 DEF Keys

\* What breed reads is there to be read.
LEMMA RankedCurrent ==
    ASSUME LineageInv, phase \in {"reflecting", "breeding"}, NEW a \in ToSet(ranking)
    PROVE  /\ a \in Made /\ <<a, round>> \in DOMAIN genomes /\ <<a, round>> \in Keys
           /\ Current(a) \in GenomeRecord /\ Current(a).text \in Keys
<1>1. <<a, round>> \in DOMAIN genomes /\ a \in Made
  BY DEF LineageInv, Equipped, Peopled, ToSet
<1>2. Current(a) \in GenomeRecord /\ <<a, round>> \in Keys
  BY <1>1 DEF LineageInv, Dated, Current
<1> QED
  BY <1>1, <1>2 DEF GenomeRecord

\* An agent is born with its genome pending.
LEMMA PlacedBear ==
    ASSUME LineageInv, NEW genome \in GenomeRecord, ~Carried(NextChild, genome),
           Bear(NextChild, <<NextChild, round + 1>>, genome),
           UNCHANGED <<round, phase>>, phase \in {"idle", "breeding"},
           events' \in 0..MaxEvents, result' \in {"none", "complete", "failed"},
           result' # "complete"
    PROVE  Placed'
<1>1. /\ NextChild \in Made'
      /\ birth' = [agent |-> NextChild, key |-> <<NextChild, round + 1>>, genome |-> genome]
  BY BearDoes DEF LineageInv
<1> QED
  BY <1>1 DEF LineageInv, Placed

\* Every step keeps where the run stands.
LEMMA PlacedStep == LineageInv /\ [Next]_vars => Placed'
<1> SUFFICES ASSUME LineageInv, [Next]_vars PROVE Placed'
  OBVIOUS
<1>0. Placed /\ Peopled /\ MaxRounds \in Nat /\ MaxEvents \in Nat
  BY BoundsAssumption DEF LineageInv
<1>1. ASSUME StartRound PROVE Placed'
  BY <1>0, <1>1 DEF StartRound, Placed
<1>2. ASSUME NEW a \in Active, CarryForward(a) PROVE Placed'
  BY <1>0, <1>2 DEF CarryForward, Placed, Made
<1>3. ASSUME NEW a \in Active, NoHistory(a) PROVE Placed'
  BY <1>0, <1>3 DEF NoHistory, Fail, table, Placed, Made
<1>4. ASSUME Prepared PROVE Placed'
  BY <1>0, <1>4 DEF Prepared, table, Placed, Made
<1>5. ASSUME RoundFails PROVE Placed'
  BY <1>0, <1>5 DEF RoundFails, Fail, table, Placed, Made
<1>6. ASSUME Evolve PROVE Placed'
  BY <1>0, <1>6 DEF Evolve, Fail, table, Placed, Made
<1>7. ASSUME Reflect PROVE Placed'
  BY <1>0, <1>7 DEF Reflect, table, Placed, Made
<1>8. ASSUME CopyElite PROVE Placed'
  BY <1>0, <1>8 DEF CopyElite, Placed, Made
<1>9. ASSUME Mutate PROVE Placed'
  BY <1>0, <1>9 DEF Mutate, Placed, Made
<1>10. ASSUME Cull PROVE Placed'
  BY <1>0, <1>10 DEF Cull, Placed, Made
<1>11. ASSUME BearClone PROVE Placed'
  <2> DEFINE parent == Head(plan.clones).parent
             genome == Genome(Current(parent).text, <<parent, round>>, "clone")
  <2>1. /\ phase = "breeding" /\ plan.clones # <<>>
        /\ Bear(NextChild, <<NextChild, round + 1>>, genome)
        /\ UNCHANGED <<round, phase, events, result>>
    BY <1>11 DEF BearClone, Replacing, Breeding
  <2>2. parent \in ToSet(ranking)
    <3>1. plan.clones \in Seq([parent : ToSet(ranking), replaces : ToSet(ranking)])
      BY <2>1 DEF LineageInv, Equipped, PlanRecord
    <3>2. Head(plan.clones) \in [parent : ToSet(ranking), replaces : ToSet(ranking)]
      BY <2>1, <3>1, HeadTailProperties
    <3> QED
      BY <3>2
  <2>3. parent \in Made /\ <<parent, round>> \in Keys /\ Current(parent).text \in Keys
    BY <2>1, <2>2, RankedCurrent
  <2> HIDE DEF parent
  <2>4. genome \in GenomeRecord /\ genome.from[1] = parent
    BY <2>3 DEF GenomeRecord, Genome
  <2>5. NextChild # parent
    BY <1>0, <2>3, NextChildIs
  <2>6. ~Carried(NextChild, genome)
    BY <2>4, <2>5 DEF Carried
  <2>7. /\ result' \in {"none", "complete", "failed"} /\ result' # "complete"
        /\ events' \in 0..MaxEvents
    BY <1>0, <2>1 DEF Placed
  <2> HIDE DEF genome
  <2> QED
    BY <2>1, <2>4, <2>6, <2>7, PlacedBear
<1>12. ASSUME BearCrossover PROVE Placed'
  <2> DEFINE a == Head(plan.crossovers).a
             key == <<NextChild, round + 1>>
             genome == Recombined(key, <<a, round>>)
  <2>1. /\ phase = "breeding" /\ plan.crossovers # <<>>
        /\ Bear(NextChild, key, genome) /\ UNCHANGED <<round, phase, events, result>>
    BY <1>12 DEF BearCrossover, Replacing, Breeding
  <2>2. a \in ToSet(ranking)
    <3> DEFINE R == ToSet(ranking)
    <3>1. plan.crossovers \in Seq([a : R, b : R, replaces : R])
      BY <2>1 DEF LineageInv, Equipped, PlanRecord
    <3>2. Head(plan.crossovers) \in [a : R, b : R, replaces : R]
      BY <2>1, <3>1, HeadTailProperties
    <3> QED
      BY <3>2
  <2>3. <<a, round>> \in Keys
    BY <2>1, <2>2, RankedCurrent
  <2>4. key \in Keys
    BY <1>0, <2>1 DEF Bear, Keys, Placed
  <2> HIDE DEF a, key
  <2>5. genome \in GenomeRecord /\ genome.origin = "crossover"
    BY <2>3, <2>4 DEF GenomeRecord, Genome, Recombined
  <2>6. ~Carried(NextChild, genome)
    BY <2>5 DEF Carried
  <2>7. /\ result' \in {"none", "complete", "failed"} /\ result' # "complete"
        /\ events' \in 0..MaxEvents
    BY <1>0, <2>1 DEF Placed
  <2> HIDE DEF genome
  <2> QED
    BY <2>1, <2>5, <2>6, <2>7, PlacedBear DEF key
<1>13. ASSUME Complete PROVE Placed'
  BY <1>0, <1>13 DEF Complete, Replacing, Breeding, table, Placed, Made
<1>14. ASSUME WriteGenome PROVE Placed'
  BY <1>0, <1>14 DEF WriteGenome, Placed
<1>15. ASSUME AddAgent PROVE Placed'
  <2> DEFINE key == <<NextChild, round + 1>>
  <2>1. /\ phase = "idle" /\ birth = NoBirth /\ events' \in 0..MaxEvents /\ result' = "none"
        /\ UNCHANGED <<round, phase>> /\ NextChild \in Ids
    BY <1>0, <1>15 DEF AddAgent, Request, Idle, Placed
  <2>2. key \in Keys
    BY <1>0, <2>1 DEF Keys, Placed
  <2>3. ASSUME NEW text \in Keys, NEW from \in Keys \cup {<<>>}
        PROVE  Genome(text, from, "manual") \in GenomeRecord
               /\ ~Carried(NextChild, Genome(text, from, "manual"))
    BY DEF GenomeRecord, Genome, Carried
  <2>4. ASSUME Bear(NextChild, key, Genome(key, <<>>, "manual")) PROVE Placed'
    <3>1. /\ Genome(key, <<>>, "manual") \in GenomeRecord
          /\ ~Carried(NextChild, Genome(key, <<>>, "manual"))
      BY <2>2, <2>3
    <3> QED
      BY <2>1, <2>4, <3>1, PlacedBear
  <2>5. ASSUME NEW b \in Made, Written(b) # {},
               Bear(NextChild, key, Genome(genomes[<<b, LatestIn(RoundsOf(b))>>].text,
                                           <<b, LatestIn(RoundsOf(b))>>, "manual"))
        PROVE  Placed'
    <3> DEFINE latest == <<b, LatestIn(RoundsOf(b))>>
               genome == Genome(genomes[latest].text, latest, "manual")
    <3>1. latest \in DOMAIN genomes
      BY <2>5, LatestWritten
    <3>2. latest \in Keys /\ genomes[latest].text \in Keys
      BY <3>1 DEF LineageInv, Dated, GenomeRecord
    <3>3. genome \in GenomeRecord /\ ~Carried(NextChild, genome)
      BY <2>3, <3>2
    <3> QED
      BY <2>1, <2>5, <3>3, PlacedBear
  <2> QED
    BY <1>15, <2>4, <2>5 DEF AddAgent
<1>16. ASSUME NEW a \in Active, RemoveAgent(a) PROVE Placed'
  BY <1>0, <1>16 DEF RemoveAgent, Request, Idle, Placed
<1>17. ASSUME Patch PROVE Placed'
  BY <1>0, <1>17 DEF Patch, Request, Idle, Placed
<1>18. ASSUME Crash PROVE Placed'
  BY <1>0, <1>18 DEF Crash, Placed
<1>19. ASSUME UNCHANGED vars PROVE Placed'
  BY <1>0, <1>19 DEF vars, table, Placed, Made
<1> QED
  BY <1>1, <1>2, <1>3, <1>4, <1>5, <1>6, <1>7, <1>8, <1>9, <1>10, <1>11, <1>12, <1>13,
     <1>14, <1>15, <1>16, <1>17, <1>18, <1>19 DEF Next, Breed

\* Every step leaves the ranking empty until the judge has ranked.
LEMMA UnrankedStep == LineageInv /\ [Next]_vars => Unranked'
<1> SUFFICES ASSUME LineageInv, [Next]_vars, phase' \in {"preparing", "running"}
             PROVE  ranking' = <<>>
  BY DEF Unranked
<1>0. phase \in {"preparing", "running"} => ranking = <<>>
  BY DEF LineageInv, Unranked
<1>1. StartRound => ranking' = <<>>
  BY DEF StartRound, Forget
<1>2. (\E a \in Active : CarryForward(a)) \/ Prepared \/ UNCHANGED vars
        => ranking' = ranking /\ phase \in {"preparing", "running"}
  BY DEF CarryForward, Prepared, vars, working
<1>3. ~RoundFails /\ ~Evolve /\ ~Reflect /\ ~AddAgent /\ ~Patch /\ ~Crash
  BY DEF RoundFails, Fail, Evolve, Reflect, AddAgent, Patch, Request, Idle, Crash
<1>4. \A a \in Active : ~NoHistory(a) /\ ~RemoveAgent(a)
  BY DEF NoHistory, Fail, RemoveAgent, Request, Idle
<1>5. ~CopyElite /\ ~Mutate /\ ~Cull /\ ~BearClone /\ ~BearCrossover /\ ~WriteGenome /\ ~Complete
  BY DEF CopyElite, Mutate, Cull, BearClone, BearCrossover, Replacing, Breeding, Complete,
     WriteGenome, LineageInv, Placed
<1> QED
  BY <1>0, <1>1, <1>2, <1>3, <1>4, <1>5 DEF Next, Breed

-----------------------------------------------------------------------------
(* Which genomes there are, and whose text they have. *)

\* The genomes stay in their rounds while none is written.
LEMMA DatedKeeps ==
    ASSUME Dated, UNCHANGED genomes, Made \subseteq Made', Horizon \in Int, Horizon' \in Int,
           Horizon <= Horizon'
    PROVE  Dated'
<1> SUFFICES ASSUME NEW k \in DOMAIN genomes
             PROVE  /\ k \in Keys /\ genomes[k] \in GenomeRecord /\ k[1] \in Made'
                    /\ k[2] <= Horizon'
  BY DEF Dated
<1>1. k \in Keys /\ k[2] \in Int /\ k[2] <= Horizon
  BY BoundsAssumption DEF Dated, Keys
<1> QED
  BY <1>1 DEF Dated

\* What writing a genome changes.
LEMMA InsertDoes ==
    ASSUME NEW key, NEW genome, Insert(key, genome)
    PROVE  /\ DOMAIN genomes' = DOMAIN genomes \cup {key} /\ key \notin DOMAIN genomes
           /\ genomes'[key] = genome /\ \A k \in DOMAIN genomes : genomes'[k] = genomes[k]
BY DEF Insert

\* A genome that is written for a round that is open is in it.
LEMMA DatedInsert ==
    ASSUME Dated, NEW a \in Made, NEW r, <<a, r>> \in Keys, NEW genome \in GenomeRecord,
           Insert(<<a, r>>, genome), r <= Horizon, Made' = Made, Horizon' = Horizon
    PROVE  Dated'
<1>1. /\ DOMAIN genomes' = DOMAIN genomes \cup {<<a, r>>}
      /\ genomes'[<<a, r>>] = genome /\ \A k \in DOMAIN genomes : genomes'[k] = genomes[k]
  BY InsertDoes
<1> QED
  BY <1>1 DEF Dated

\* A genome is given unless it was carried forward.
LEMMA GivenIs == \A a, r : Given(a, r) <=> ~Carried(a, genomes[<<a, r>>])
BY DEF Given, Carried

\* The rounds of an agent's genomes.
LEMMA RoundsAre ==
    ASSUME Dated, NEW a
    PROVE  /\ \A r : r \in RoundsOf(a) <=> <<a, r>> \in DOMAIN genomes
           /\ RoundsOf(a) \subseteq 0..(MaxRounds + 1) /\ MaxRounds + 1 \in Nat
           /\ \A k \in DOMAIN genomes : k = <<k[1], k[2]>> /\ k[2] \in 0..(MaxRounds + 1)
<1>1. \A k \in DOMAIN genomes : k = <<k[1], k[2]>> /\ k[2] \in 0..(MaxRounds + 1)
  BY BoundsAssumption DEF Dated, Keys
<1>2. ASSUME NEW r PROVE r \in RoundsOf(a) <=> <<a, r>> \in DOMAIN genomes
  <2>1. ASSUME r \in RoundsOf(a) PROVE <<a, r>> \in DOMAIN genomes
    BY <1>1, <2>1 DEF RoundsOf, Written
  <2>2. ASSUME <<a, r>> \in DOMAIN genomes PROVE r \in RoundsOf(a)
    <3>1. <<a, r>> \in Written(a) /\ <<a, r>>[2] = r
      BY <2>2 DEF Written
    <3> QED
      BY <3>1 DEF RoundsOf
  <2> QED
    BY <2>1, <2>2
<1>3. ASSUME NEW r \in RoundsOf(a) PROVE r \in 0..(MaxRounds + 1)
  <2>1. <<a, r>> \in DOMAIN genomes /\ <<a, r>>[2] = r
    BY <1>2
  <2> QED
    BY <1>1, <2>1
<1> QED
  BY <1>1, <1>2, <1>3, BoundsAssumption

\* Texts follow on while none is written.
LEMMA FollowsKeeps == Follows /\ UNCHANGED genomes => Follows'
<1> SUFFICES ASSUME Follows, UNCHANGED genomes PROVE Follows'
  OBVIOUS
<1>1. \A a : RoundsOf(a)' = RoundsOf(a)
  BY DEF RoundsOf, Written
<1>2. \A a, r : Given(a, r)' <=> Given(a, r)
  BY DEF Given
<1> QED
  BY <1>1, <1>2 DEF Follows

\* A genome that is added after all its agent has is followed, or follows the last.
LEMMA FollowsInsert ==
    ASSUME Dated, Dated', Follows, NEW a, NEW r \in Int, NEW genome, Insert(<<a, r>>, genome),
           \A q \in RoundsOf(a) : q < r,
           \/ ~Carried(a, genome)
           \/ \E s \in RoundsOf(a) : /\ genome.text = genomes[<<a, s>>].text
                                     /\ \A q \in RoundsOf(a) : q <= s
    PROVE  Follows'
<1>1. /\ DOMAIN genomes' = DOMAIN genomes \cup {<<a, r>>} /\ <<a, r>> \notin DOMAIN genomes
      /\ genomes'[<<a, r>>] = genome /\ \A k \in DOMAIN genomes : genomes'[k] = genomes[k]
  BY InsertDoes
<1>2. ASSUME NEW b
      PROVE  /\ \A q : q \in RoundsOf(b) <=> <<b, q>> \in DOMAIN genomes
             /\ \A q : q \in RoundsOf(b)' <=> <<b, q>> \in DOMAIN genomes'
             /\ RoundsOf(b) \subseteq Int /\ RoundsOf(b)' \subseteq Int
  <2>1. /\ \A q : q \in RoundsOf(b) <=> <<b, q>> \in DOMAIN genomes
        /\ RoundsOf(b) \subseteq 0..(MaxRounds + 1)
    BY RoundsAre
  <2>2. \A q : q \in RoundsOf(b)' <=> <<b, q>> \in DOMAIN genomes'
    <3>1. \A k \in DOMAIN genomes' : k = <<k[1], k[2]>>
      BY DEF Dated, Keys
    <3>2. ASSUME NEW q, <<b, q>> \in DOMAIN genomes' PROVE q \in RoundsOf(b)'
      <4>1. <<b, q>> \in Written(b)' /\ <<b, q>>[2] = q
        BY <3>2 DEF Written
      <4> QED
        BY <4>1 DEF RoundsOf
    <3> QED
      BY <3>1, <3>2 DEF RoundsOf, Written
  <2>3. ASSUME NEW q \in RoundsOf(b)' PROVE q \in Int
    <3>1. <<b, q>> \in DOMAIN genomes \/ <<b, q>> = <<a, r>>
      BY <1>1, <2>2
    <3> QED
      BY <2>1, <3>1
  <2> QED
    BY <2>1, <2>2, <2>3
<1>3. \A b, q : <<b, q>> \in DOMAIN genomes => (Given(b, q)' <=> Given(b, q))
  BY <1>1, GivenIs DEF Given, Carried
<1>4. ASSUME NEW k \in DOMAIN genomes
      PROVE  \E g \in RoundsOf(k[1])' :
                /\ g <= k[2] /\ Given(k[1], g)' /\ genomes'[<<k[1], g>>].text = genomes'[k].text
                /\ \A q \in RoundsOf(k[1])' : g < q /\ q <= k[2] => ~Given(k[1], q)'
  <2>1. PICK g \in RoundsOf(k[1]) :
                /\ g <= k[2] /\ Given(k[1], g) /\ genomes[<<k[1], g>>].text = genomes[k].text
                /\ \A q \in RoundsOf(k[1]) : g < q /\ q <= k[2] => ~Given(k[1], q)
    BY DEF Follows
  <2>2. k = <<k[1], k[2]>> /\ k[2] \in RoundsOf(k[1]) /\ k[2] \in Int
    BY <1>2, RoundsAre
  <2>3. <<k[1], g>> \in DOMAIN genomes /\ g \in RoundsOf(k[1])' /\ Given(k[1], g)'
    BY <1>1, <1>2, <1>3, <2>1
  <2>4. ASSUME NEW q \in RoundsOf(k[1])', g < q, q <= k[2] PROVE ~Given(k[1], q)'
    <3>1. <<k[1], q>> # <<a, r>>
      <4> SUFFICES ASSUME k[1] = a, q = r PROVE FALSE
        OBVIOUS
      <4>1. k[2] < r
        BY <2>2
      <4> QED
        BY <2>2, <2>4, <4>1
    <3>2. <<k[1], q>> \in DOMAIN genomes
      BY <1>1, <1>2, <3>1
    <3> QED
      BY <1>2, <1>3, <2>1, <2>4, <3>2
  <2>5. genomes'[<<k[1], g>>].text = genomes'[k].text
    BY <1>1, <2>1, <2>3
  <2> QED
    BY <2>1, <2>3, <2>4, <2>5
<1> DEFINE Sourced ==
        \E g \in RoundsOf(a)' :
            /\ g <= r /\ Given(a, g)' /\ genomes'[<<a, g>>].text = genome.text
            /\ \A q \in RoundsOf(a)' : g < q /\ q <= r => ~Given(a, q)'
<1>5. Sourced
  <2>1. CASE ~Carried(a, genome)
    <3>1. r \in RoundsOf(a)' /\ r <= r /\ \A q \in RoundsOf(a)' : ~(r < q /\ q <= r)
      BY <1>1, <1>2
    <3>2. Given(a, r)'
      BY <1>1, <2>1 DEF Given, Carried
    <3> QED
      BY <1>1, <3>1, <3>2
  <2>2. ASSUME NEW s \in RoundsOf(a), genome.text = genomes[<<a, s>>].text, Carried(a, genome),
               \A q \in RoundsOf(a) : q <= s
        PROVE  Sourced
    <3>1. <<a, s>> \in DOMAIN genomes /\ s < r /\ s \in Int
      BY <1>2
    <3>2. PICK g \in RoundsOf(a) :
                /\ g <= s /\ Given(a, g) /\ genomes[<<a, g>>].text = genomes[<<a, s>>].text
                /\ \A q \in RoundsOf(a) : g < q /\ q <= s => ~Given(a, q)
      BY <3>1 DEF Follows
    <3>3. g \in RoundsOf(a)' /\ Given(a, g)' /\ g <= r /\ genomes'[<<a, g>>].text = genome.text
      BY <1>1, <1>2, <1>3, <2>2, <3>1, <3>2
    <3>4. ASSUME NEW q \in RoundsOf(a)', g < q, q <= r PROVE ~Given(a, q)'
      <4>1. CASE q = r
        BY <1>1, <2>2, <4>1 DEF Given, Carried
      <4>2. CASE q # r
        BY <1>1, <1>2, <1>3, <2>2, <3>2, <3>4, <4>2
      <4> QED
        BY <4>1, <4>2
    <3> QED
      BY <3>3, <3>4
  <2> HIDE DEF Sourced
  <2> QED
    BY <2>1, <2>2
<1>6. ASSUME NEW k \in DOMAIN genomes'
      PROVE  \E g \in RoundsOf(k[1])' :
                /\ g <= k[2] /\ Given(k[1], g)' /\ genomes'[<<k[1], g>>].text = genomes'[k].text
                /\ \A q \in RoundsOf(k[1])' : g < q /\ q <= k[2] => ~Given(k[1], q)'
  <2>1. CASE k \in DOMAIN genomes
    BY <1>4, <2>1
  <2>2. CASE k = <<a, r>>
    <3>1. k[1] = a /\ k[2] = r /\ genomes'[k] = genome
      BY <1>1, <2>2
    <3> QED
      BY <1>5, <3>1
  <2> QED
    BY <1>1, <2>1, <2>2
<1> QED
  BY <1>6 DEF Follows

\* A genome not yet there is later than all its agent has.
LEMMA Latest ==
    ASSUME LineageInv, NEW a, Horizon = round + 1, <<a, round + 1>> \notin DOMAIN genomes
    PROVE  \A q \in RoundsOf(a) : q < round + 1
<1> SUFFICES ASSUME NEW q \in RoundsOf(a) PROVE q < round + 1
  OBVIOUS
<1>1. <<a, q>> \in DOMAIN genomes /\ q \in 0..(MaxRounds + 1)
  BY RoundsAre DEF LineageInv
<1>2. q <= round + 1 /\ q # round + 1
  BY <1>1 DEF LineageInv, Dated
<1> QED
  BY <1>1, <1>2 DEF LineageInv, Placed

\* The statements that write a genome, and what they leave alone.
LEMMA BreedInserts ==
    ASSUME LineageInv, NEW a \in ToSet(ranking), NEW genome \in GenomeRecord,
           phase = "breeding", Insert(<<a, round + 1>>, genome), ~Carried(a, genome),
           UNCHANGED <<status, round, phase>>
    PROVE  Dated' /\ Follows'
<1>1. a \in Made /\ <<a, round + 1>> \in Keys
  BY RankedCurrent, KeysOf
<1>2. Dated /\ Follows /\ Horizon = round + 1 /\ round \in Nat
  BY BoundsAssumption DEF LineageInv, Placed, Horizon
<1>3. Dated'
  BY <1>1, <1>2, DatedInsert DEF Horizon, Made
<1>4. \A q \in RoundsOf(a) : q < round + 1
  BY <1>2, Latest DEF Insert
<1> QED
  BY <1>2, <1>3, <1>4, FollowsInsert

\* Every step keeps the genomes in their rounds and their texts following on.
LEMMA DatedFollows == LineageInv /\ [Next]_vars => Dated' /\ Follows'
<1> SUFFICES ASSUME LineageInv, [Next]_vars PROVE Dated' /\ Follows'
  OBVIOUS
<1>0. /\ Dated /\ Follows /\ Placed /\ Peopled
      /\ round \in Nat /\ round <= MaxRounds /\ MaxRounds \in Nat
  BY BoundsAssumption DEF LineageInv, Placed
<1> DEFINE Later == UNCHANGED genomes /\ Made \subseteq Made' /\ Horizon <= Horizon'
                    /\ Horizon \in Int /\ Horizon' \in Int
<1>a. ASSUME Later PROVE Dated' /\ Follows'
  BY <1>0, <1>a, DatedKeeps, FollowsKeeps
<1>1. ASSUME StartRound PROVE Later
  BY <1>0, <1>1 DEF StartRound, table, Horizon, Made
<1>2. ASSUME NEW a \in Active, CarryForward(a) PROVE Dated' /\ Follows'
  <2> DEFINE s == Source(a)
             genome == Genome(genomes[<<a, s>>].text, <<a, s>>, "clone")
  <2>1. /\ phase = "preparing" /\ a \in Made /\ <<a, round>> \notin DOMAIN genomes
        /\ Sources(a) # {} /\ Insert(<<a, round>>, genome)
        /\ UNCHANGED <<status, round, phase>>
    BY <1>2 DEF CarryForward, Unprepared, Active
  <2>2. Horizon = round /\ Horizon' = round
    BY <2>1 DEF Horizon
  <2>3. \A q \in RoundsOf(a) : q \in 0..(MaxRounds + 1) /\ q < round
    <3> SUFFICES ASSUME NEW q \in RoundsOf(a) PROVE q \in 0..(MaxRounds + 1) /\ q < round
      OBVIOUS
    <3>1. <<a, q>> \in DOMAIN genomes /\ q \in 0..(MaxRounds + 1)
      BY <1>0, RoundsAre
    <3>2. q <= round
      BY <1>0, <2>2, <3>1 DEF Dated
    <3>3. q # round
      BY <2>1, <3>1
    <3> QED
      BY <1>0, <3>1, <3>2, <3>3
  <2>4. Sources(a) = RoundsOf(a)
    BY <2>3 DEF Sources
  <2>5. s \in RoundsOf(a) /\ \A q \in RoundsOf(a) : q <= s
    <3>1. Sources(a) \in SUBSET (0..(MaxRounds + 1)) /\ MaxRounds + 1 \in Nat
      BY <1>0, <2>3, <2>4
    <3> QED
      BY <2>1, <2>4, <3>1, Largest DEF Source
  <2> HIDE DEF s
  <2>6. <<a, s>> \in DOMAIN genomes
    BY <1>0, <2>5, RoundsAre
  <2>7. <<a, s>> \in Keys /\ genomes[<<a, s>>].text \in Keys
    BY <1>0, <2>6 DEF Dated, GenomeRecord
  <2>8. genome \in GenomeRecord /\ genome.text = genomes[<<a, s>>].text
    BY <2>7 DEF GenomeRecord, Genome
  <2>9. <<a, round>> \in Keys
    <3>1. s < round /\ s \in Nat
      BY <2>3, <2>5
    <3>2. round >= 1
      BY <1>0, <3>1
    <3> QED
      BY <2>1, <3>2, KeysOf
  <2> HIDE DEF genome
  <2>10. Dated'
    BY <1>0, <2>1, <2>2, <2>8, <2>9, DatedInsert DEF Made
  <2>11. \A q \in RoundsOf(a) : q < round
    BY <2>3
  <2>12. Follows'
    BY <1>0, <2>1, <2>5, <2>8, <2>10, <2>11, FollowsInsert
  <2> QED
    BY <2>10, <2>12
<1>3. ASSUME NEW a \in Active, NoHistory(a) PROVE Later
  BY <1>0, <1>3 DEF NoHistory, Fail, table, Horizon, Made
<1>4. ASSUME Prepared PROVE Later
  BY <1>0, <1>4 DEF Prepared, table, Horizon, Made
<1>5. ASSUME RoundFails PROVE Later
  BY <1>0, <1>5 DEF RoundFails, Fail, table, Horizon, Made
<1>6. ASSUME Evolve PROVE Later
  BY <1>0, <1>6 DEF Evolve, Fail, table, Horizon, Made
<1>7. ASSUME Reflect PROVE Later
  BY <1>0, <1>7 DEF Reflect, table, Horizon, Made
<1>8. ASSUME CopyElite PROVE Dated' /\ Follows'
  <2> DEFINE a == Head(plan.elite)
             genome == Genome(Current(a).text, <<a, round>>, "elite")
  <2>1. /\ phase = "breeding" /\ plan.elite # <<>> /\ Insert(<<a, round + 1>>, genome)
        /\ UNCHANGED <<status, round, phase>>
    BY <1>8 DEF CopyElite, Breeding
  <2>2. a \in ToSet(ranking)
    BY <2>1 DEF LineageInv, Equipped, PlanRecord
  <2> HIDE DEF a
  <2>3. <<a, round>> \in Keys /\ Current(a).text \in Keys
    BY <2>1, <2>2, RankedCurrent
  <2>4. genome \in GenomeRecord /\ ~Carried(a, genome)
    BY <2>3 DEF GenomeRecord, Genome, Carried
  <2> HIDE DEF genome
  <2> QED
    BY <2>1, <2>2, <2>4, BreedInserts
<1>9. ASSUME Mutate PROVE Dated' /\ Follows'
  <2> DEFINE a == Head(plan.survivors)
             text == IF a \in mutated THEN <<a, round + 1>> ELSE Current(a).text
             genome == Genome(text, <<a, round>>, "mutation")
  <2>1. /\ phase = "breeding" /\ plan.survivors # <<>> /\ Insert(<<a, round + 1>>, genome)
        /\ UNCHANGED <<status, round, phase>>
    BY <1>9 DEF Mutate, Breeding
  <2>2. a \in ToSet(ranking)
    BY <2>1 DEF LineageInv, Equipped, PlanRecord
  <2> HIDE DEF a
  <2>3. <<a, round>> \in Keys /\ Current(a).text \in Keys /\ <<a, round + 1>> \in Keys
    BY <2>1, <2>2, RankedCurrent, KeysOf
  <2>4. genome \in GenomeRecord /\ ~Carried(a, genome)
    BY <2>3 DEF GenomeRecord, Genome, Carried
  <2> HIDE DEF genome
  <2> QED
    BY <2>1, <2>2, <2>4, BreedInserts
<1>10. ASSUME Cull PROVE Later
  BY <1>0, <1>10 DEF Cull, table, Horizon, Made
<1>11. ASSUME BearClone PROVE Later
  BY <1>0, <1>11, BearDoes DEF BearClone, Horizon
<1>12. ASSUME BearCrossover PROVE Later
  BY <1>0, <1>12, BearDoes DEF BearCrossover, Horizon
<1>13. ASSUME Complete PROVE Later
  BY <1>0, <1>13 DEF Complete, Replacing, Breeding, table, Horizon, Made
<1>14. ASSUME WriteGenome PROVE Dated' /\ Follows'
  <2> DEFINE a == birth.agent
  <2>1. /\ a \in Made /\ birth.key = <<a, round + 1>> /\ birth.genome \in GenomeRecord
        /\ ~Carried(a, birth.genome) /\ phase \in {"idle", "breeding"}
        /\ Insert(<<a, round + 1>>, birth.genome) /\ UNCHANGED <<status, round, phase>>
    BY <1>0, <1>14 DEF WriteGenome, Placed
  <2> HIDE DEF a
  <2>2. Horizon = round + 1 /\ Horizon' = Horizon /\ <<a, round + 1>> \in Keys
    BY <2>1, KeysOf DEF Horizon
  <2>3. Dated'
    BY <1>0, <2>1, <2>2, DatedInsert DEF Made
  <2>4. \A q \in RoundsOf(a) : q < round + 1
    BY <1>0, <2>1, <2>2, Latest DEF Insert
  <2> QED
    BY <1>0, <2>1, <2>3, <2>4, FollowsInsert
<1>15. ASSUME AddAgent PROVE Later
  <2>1. /\ UNCHANGED <<genomes, round, phase>>
        /\ \E genome : Bear(NextChild, <<NextChild, round + 1>>, genome)
    BY <1>15 DEF AddAgent
  <2>2. Made \subseteq Made'
    BY <1>0, <2>1, BearDoes
  <2> QED
    BY <1>0, <2>1, <2>2 DEF Horizon
<1>16. ASSUME NEW a \in Active, RemoveAgent(a) PROVE Later
  BY <1>0, <1>16 DEF RemoveAgent, table, Horizon, Made
<1>17. ASSUME Patch PROVE Later
  BY <1>0, <1>17 DEF Patch, table, Horizon, Made
<1>18. ASSUME Crash PROVE Later
  BY <1>0, <1>18 DEF Crash, table, Horizon, Made
<1>19. ASSUME UNCHANGED vars PROVE Later
  BY <1>0, <1>19 DEF vars, table, Horizon, Made
<1> HIDE DEF Later
<1> QED
  BY <1>a, <1>1, <1>2, <1>3, <1>4, <1>5, <1>6, <1>7, <1>8, <1>9, <1>10, <1>11, <1>12, <1>13,
     <1>14, <1>15, <1>16, <1>17, <1>18, <1>19 DEF Next, Breed

-----------------------------------------------------------------------------
(* The plan, from the ranking to the last child. *)

\* What the judge's ranking and the plan made of it hold when a round begins to evolve.
LEMMA EvolvePlans ==
    ASSUME LineageInv, Evolve, phase' # "idle"
    PROVE  /\ phase = "running" /\ phase' = "reflecting"
           /\ Ranking(ranking', config) /\ ToSet(ranking') = Active
           /\ Len(ranking') = Cardinality(Active)
           /\ plan' \in PlanRecord(ToSet(ranking')) /\ Replaces(plan', ranking', config)
           /\ ToSet(plan'.culled) \cap ToSet(TopBand(ranking', config)) # {}
                => plan'.rescued # {}
           /\ UNCHANGED <<config, status, genomes, round>>
<1>1. /\ phase = "running" /\ phase' = "reflecting" /\ ranking' \in Rankings
      /\ Accepts(Cardinality(Active), config) /\ plan' \in Plans(ranking', config)
      /\ UNCHANGED <<config, status, genomes, round>>
  BY DEF Evolve, Fail, table
<1>2. /\ ranking' \in Seq(Active) /\ IsInjective(ranking') /\ ToSet(ranking') = Active
      /\ Len(ranking') = Cardinality(Active) /\ Len(ranking') > 0
  BY <1>1, RankingsAre DEF LineageInv
<1>3. config \in SelectionConfig
  BY ConfigsAssumption DEF LineageInv, Peopled
<1>4. Ranking(ranking', config)
  BY <1>1, <1>2, <1>3 DEF Ranking
<1>5. /\ plan' \in PlanRecord(ToSet(ranking')) /\ Replaces(plan', ranking', config)
      /\ ToSet(plan'.culled) \cap ToSet(TopBand(ranking', config)) # {}
           => plan'.rescued # {}
  BY <1>1, <1>4, PlansReplace
<1> QED
  BY <1>1, <1>2, <1>4, <1>5

\* Only the planner enters the phase, and reflection leaves it.
LEMMA Leaves ==
    LineageInv /\ [Next]_vars =>
        \/ phase' \notin {"reflecting", "breeding"}
        \/ phase = "running" /\ phase' = "reflecting" /\ Evolve
        \/ Reflect
        \/ phase = "breeding" /\ phase' = "breeding"
             /\ (CopyElite \/ Mutate \/ Cull \/ BearClone \/ BearCrossover \/ WriteGenome)
        \/ UNCHANGED vars
<1> SUFFICES ASSUME LineageInv, [Next]_vars, phase' \in {"reflecting", "breeding"}
             PROVE  \/ phase = "running" /\ phase' = "reflecting" /\ Evolve
                    \/ Reflect
                    \/ phase = "breeding" /\ phase' = "breeding"
                         /\ (CopyElite \/ Mutate \/ Cull \/ BearClone \/ BearCrossover
                             \/ WriteGenome)
                    \/ UNCHANGED vars
  OBVIOUS
<1>1. ~StartRound /\ ~Prepared /\ ~RoundFails /\ ~Complete /\ ~Patch /\ ~Crash /\ ~AddAgent
  BY DEF StartRound, Prepared, RoundFails, Fail, Complete, Patch, Crash, AddAgent, Request, Idle
<1>2. \A a \in Active : ~CarryForward(a) /\ ~NoHistory(a) /\ ~RemoveAgent(a)
  BY DEF CarryForward, NoHistory, Fail, RemoveAgent, Request, Idle
<1>3. Evolve => phase = "running" /\ phase' = "reflecting"
  BY DEF Evolve, Fail
<1>4. WriteGenome => phase = "breeding" /\ phase' = "breeding"
  BY DEF WriteGenome, LineageInv, Placed
<1>5. CopyElite \/ Mutate \/ Cull \/ BearClone \/ BearCrossover
        => phase = "breeding" /\ phase' = "breeding"
  BY DEF CopyElite, Mutate, Cull, BearClone, BearCrossover, Replacing, Breeding
<1> QED
  BY <1>1, <1>2, <1>3, <1>4, <1>5 DEF Next, Breed

\* What the planner hands over: everybody of the round has a genome of it.
LEMMA EquippedKeeps ==
    ASSUME LineageInv, phase = "breeding", phase' \in {"breeding", "idle"},
           UNCHANGED <<round, ranking>>, DOMAIN genomes \subseteq DOMAIN genomes',
           plan' \in PlanRecord(ToSet(ranking))
    PROVE  Equipped'
BY DEF LineageInv, Equipped

\* Every step keeps a genome for whoever is in the round, and the plan over its ranking.
LEMMA EquippedStep == LineageInv /\ [Next]_vars => Equipped'
<1> SUFFICES ASSUME LineageInv, [Next]_vars PROVE Equipped'
  OBVIOUS
<1>0. Equipped /\ Peopled
  BY DEF LineageInv
<1> DEFINE Elsewhere == phase' \in {"idle", "preparing"}
           R == ToSet(ranking)
<1>a. ASSUME Elsewhere PROVE Equipped'
  BY <1>a DEF Equipped
<1>b. ASSUME phase = "breeding"
      PROVE  /\ plan \in PlanRecord(R) /\ plan.elite \in Seq(R) /\ plan.survivors \in Seq(R)
             /\ plan.culled \in Seq(R)
             /\ plan.clones \in Seq([parent : R, replaces : R])
             /\ plan.crossovers \in Seq([a : R, b : R, replaces : R])
  BY <1>0, <1>b DEF Equipped, PlanRecord
<1>1. ASSUME StartRound PROVE Elsewhere
  BY <1>1 DEF StartRound
<1>2. ASSUME NEW a \in Active, CarryForward(a) PROVE Elsewhere
  BY <1>2 DEF CarryForward
<1>3. ASSUME NEW a \in Active, NoHistory(a) PROVE Elsewhere
  BY <1>3 DEF NoHistory, Fail
<1>4. ASSUME Prepared PROVE Equipped'
  BY <1>4 DEF Prepared, Equipped, table, Unprepared, Active, Made
<1>5. ASSUME RoundFails PROVE Elsewhere
  BY <1>5 DEF RoundFails, Fail
<1>6. ASSUME Evolve PROVE Equipped'
  <2>1. CASE phase' = "idle"
    BY <2>1 DEF Equipped
  <2>2. CASE phase' # "idle"
    <3>1. /\ phase = "running" /\ phase' = "reflecting" /\ ToSet(ranking') = Active
          /\ plan' \in PlanRecord(ToSet(ranking')) /\ UNCHANGED <<genomes, round>>
      BY <1>6, <2>2, EvolvePlans
    <3>2. \A a \in Active : <<a, round>> \in DOMAIN genomes
      BY <1>0, <3>1 DEF Equipped, Unprepared
    <3> QED
      BY <3>1, <3>2 DEF Equipped
  <2> QED
    BY <2>1, <2>2
<1>7. ASSUME Reflect PROVE Equipped'
  BY <1>0, <1>7 DEF Reflect, Equipped, table
<1>8. ASSUME CopyElite PROVE Equipped'
  <2>1. /\ phase = "breeding" /\ plan.elite # <<>> /\ plan' = [plan EXCEPT !.elite = Tail(@)]
        /\ UNCHANGED <<phase, round, ranking>> /\ DOMAIN genomes \subseteq DOMAIN genomes'
    BY <1>8 DEF CopyElite, Breeding, Insert
  <2>2. Tail(plan.elite) \in Seq(R)
    BY <1>b, <2>1, HeadTailProperties
  <2>3. plan' \in PlanRecord(R)
    BY <1>b, <2>1, <2>2 DEF PlanRecord
  <2> QED
    BY <2>1, <2>3, EquippedKeeps
<1>9. ASSUME Mutate PROVE Equipped'
  <2>1. /\ phase = "breeding" /\ plan.survivors # <<>>
        /\ plan' = [plan EXCEPT !.survivors = Tail(@)]
        /\ UNCHANGED <<phase, round, ranking>> /\ DOMAIN genomes \subseteq DOMAIN genomes'
    BY <1>9 DEF Mutate, Breeding, Insert
  <2>2. Tail(plan.survivors) \in Seq(R)
    BY <1>b, <2>1, HeadTailProperties
  <2>3. plan' \in PlanRecord(R)
    BY <1>b, <2>1, <2>2 DEF PlanRecord
  <2> QED
    BY <2>1, <2>3, EquippedKeeps
<1>10. ASSUME Cull PROVE Equipped'
  <2>1. /\ phase = "breeding" /\ plan.culled # <<>> /\ plan' = [plan EXCEPT !.culled = Tail(@)]
        /\ UNCHANGED <<phase, round, ranking, genomes>>
    BY <1>10 DEF Cull, Breeding
  <2>2. Tail(plan.culled) \in Seq(R)
    BY <1>b, <2>1, HeadTailProperties
  <2>3. plan' \in PlanRecord(R)
    BY <1>b, <2>1, <2>2 DEF PlanRecord
  <2> QED
    BY <2>1, <2>3, EquippedKeeps
<1>11. ASSUME BearClone PROVE Equipped'
  <2>1. /\ phase = "breeding" /\ plan.clones # <<>> /\ plan' = [plan EXCEPT !.clones = Tail(@)]
        /\ UNCHANGED <<phase, round, ranking, genomes>>
    BY <1>11 DEF BearClone, Replacing, Breeding
  <2>2. Tail(plan.clones) \in Seq([parent : R, replaces : R])
    BY <1>b, <2>1, HeadTailProperties
  <2>3. plan' \in PlanRecord(R)
    BY <1>b, <2>1, <2>2 DEF PlanRecord
  <2> QED
    BY <2>1, <2>3, EquippedKeeps
<1>12. ASSUME BearCrossover PROVE Equipped'
  <2>1. /\ phase = "breeding" /\ plan.crossovers # <<>>
        /\ plan' = [plan EXCEPT !.crossovers = Tail(@)]
        /\ UNCHANGED <<phase, round, ranking, genomes>>
    BY <1>12 DEF BearCrossover, Replacing, Breeding
  <2>2. Tail(plan.crossovers) \in Seq([a : R, b : R, replaces : R])
    BY <1>b, <2>1, HeadTailProperties
  <2>3. plan' \in PlanRecord(R)
    BY <1>b, <2>1, <2>2 DEF PlanRecord
  <2> QED
    BY <2>1, <2>3, EquippedKeeps
<1>13. ASSUME Complete PROVE Elsewhere
  BY <1>13 DEF Complete
<1>14. ASSUME WriteGenome PROVE Equipped'
  <2>1. /\ phase \in {"idle", "breeding"} /\ UNCHANGED <<phase, round, ranking, plan>>
        /\ DOMAIN genomes \subseteq DOMAIN genomes'
    BY <1>14 DEF WriteGenome, working, LineageInv, Placed, Insert
  <2> QED
    BY <1>a, <1>b, <2>1, EquippedKeeps
<1>15. ASSUME AddAgent PROVE Elsewhere
  BY <1>15 DEF AddAgent, Request, Idle
<1>16. ASSUME NEW a \in Active, RemoveAgent(a) PROVE Elsewhere
  BY <1>16 DEF RemoveAgent, Request, Idle
<1>17. ASSUME Patch PROVE Elsewhere
  BY <1>17 DEF Patch, Request, Idle
<1>18. ASSUME Crash PROVE Elsewhere
  BY <1>18 DEF Crash
<1>19. ASSUME UNCHANGED vars PROVE Equipped'
  BY <1>0, <1>19 DEF vars, table, working, Equipped, Unprepared, Active, Made
<1> HIDE DEF Elsewhere
<1> QED
  BY <1>a, <1>1, <1>2, <1>3, <1>4, <1>5, <1>6, <1>7, <1>8, <1>9, <1>10, <1>11, <1>12, <1>13,
     <1>14, <1>15, <1>16, <1>17, <1>18, <1>19 DEF Next, Breed

\* Every step keeps the plan one that replaces the culled until breed begins.
LEMMA ReflectingStep == LineageInv /\ [Next]_vars => Reflecting'
<1> SUFFICES ASSUME LineageInv, [Next]_vars, phase' = "reflecting" PROVE Reflecting'
  BY DEF Reflecting
<1>1. ASSUME Evolve PROVE Reflecting'
  BY <1>1, EvolvePlans DEF Reflecting, Active, Made
<1>2. ~Reflect
  BY DEF Reflect
<1>3. ASSUME UNCHANGED vars PROVE Reflecting'
  BY <1>3 DEF LineageInv, Reflecting, vars, table, working, Active, Made
<1> QED
  BY <1>1, <1>2, <1>3, Leaves

\* Two numbers make a number.
LEMMA SumNat == \A a, b \in Nat : a + b \in Nat
OBVIOUS

\* What breed finds when it starts on a plan.
LEMMA PlanOwes ==
    ASSUME LineageInv, phase \in {"reflecting", "breeding"}
    PROVE  LET R == ToSet(ranking)
           IN  /\ R \subseteq Made /\ Len(ranking) \in Nat /\ Cardinality(Active) \in Nat
               /\ plan \in PlanRecord(R)
               /\ plan.elite \in Seq(R) /\ plan.survivors \in Seq(R) /\ plan.culled \in Seq(R)
               /\ plan.clones \in Seq([parent : R, replaces : R])
               /\ plan.crossovers \in Seq([a : R, b : R, replaces : R])
               /\ Len(plan.culled) \in Nat /\ Len(plan.clones) \in Nat
               /\ Len(plan.crossovers) \in Nat
<1> DEFINE R == ToSet(ranking)
<1>1. R \subseteq Made /\ Len(ranking) \in Nat /\ Cardinality(Active) \in Nat
  BY MadeFinite, FS_CardinalityType DEF LineageInv, Peopled, ToSet
<1>2. plan \in PlanRecord(R)
  BY DEF LineageInv, Equipped
<1> HIDE DEF R
<1>3. /\ plan.elite \in Seq(R) /\ plan.survivors \in Seq(R) /\ plan.culled \in Seq(R)
      /\ plan.clones \in Seq([parent : R, replaces : R])
      /\ plan.crossovers \in Seq([a : R, b : R, replaces : R])
  BY <1>2 DEF PlanRecord
<1> QED
  BY <1>1, <1>2, <1>3 DEF R

\* A genome written by breed leaves what is owed to everybody else.
LEMMA OwedWrites ==
    ASSUME LineageInv, phase = "breeding", NEW a, NEW genome,
           Insert(<<a, round + 1>>, genome), UNCHANGED <<status, round, ranking>>,
           UNCHANGED <<plan.culled, plan.clones, plan.crossovers>>,
           \A b \in Active \ {a} :
               \/ birth.agent # b \/ birth'.agent = b,
           \A b \in Active \ {a} :
               b \in ToSet(plan.elite) \cup ToSet(plan.survivors)
                 => b \in ToSet(plan'.elite) \cup ToSet(plan'.survivors)
    PROVE  Owed'
<1>1. /\ <<a, round + 1>> \in DOMAIN genomes' /\ DOMAIN genomes \subseteq DOMAIN genomes'
  BY DEF Insert
<1>2. Active' = Active
  BY DEF Active, Made
<1>3. /\ Owed /\ phase = "breeding"
  BY DEF LineageInv
<1>4. ASSUME NEW b \in Active
      PROVE  \/ <<b, round + 1>> \in DOMAIN genomes' \/ birth'.agent = b
             \/ b \in ToSet(plan'.elite) \cup ToSet(plan'.survivors) \cup ToSet(plan'.culled)
  BY <1>1, <1>3 DEF Owed
<1> QED
  BY <1>2, <1>3, <1>4 DEF Owed

\* A child that is born is one that was owed.
LEMMA OwedBears ==
    ASSUME LineageInv, phase = "breeding", birth = NoBirth,
           plan.elite = <<>>, plan.survivors = <<>>, plan.culled = <<>>,
           NEW key, NEW genome, Bear(NextChild, key, genome),
           UNCHANGED <<genomes, round, ranking>>, plan'.culled = <<>>,
           Len(plan'.clones) + Len(plan'.crossovers) + 1
             = Len(plan.clones) + Len(plan.crossovers),
           Len(plan'.clones) \in Nat, Len(plan'.crossovers) \in Nat
    PROVE  Owed'
<1>1. /\ Active' = Active \cup {NextChild} /\ birth'.agent = NextChild
      /\ Cardinality(Active') = Cardinality(Active) + 1
  BY BearDoes DEF LineageInv
<1>2. /\ Owed /\ Len(ranking) \in Nat /\ Cardinality(Active) \in Nat
      /\ Len(plan.clones) \in Nat /\ Len(plan.crossovers) \in Nat
  BY PlanOwes DEF LineageInv
<1>3. Len(<<>>) = 0 /\ ToSet(<<>>) = {} /\ IsInjective(<<>>)
  BY NobodyRanked
<1>4. ASSUME NEW b \in Active' PROVE <<b, round + 1>> \in DOMAIN genomes \/ birth'.agent = b
  <2>1. CASE b = NextChild
    BY <1>1, <2>1
  <2>2. CASE b \in Active
    <3>1. b # 0
      BY <2>2, BoundsAssumption, FoundersAssumption DEF LineageInv, Peopled, Active
    <3> QED
      BY <1>2, <1>3, <2>2, <3>1 DEF Owed, NoBirth
  <2> QED
    BY <1>1, <2>1, <2>2
<1>5. Len(plan'.culled) < Cardinality(Active')
  BY <1>1, <1>2, <1>3
<1>6. Cardinality(Active') + (Len(plan'.clones) + Len(plan'.crossovers))
        = Len(ranking') + Len(plan'.culled)
  <2> DEFINE owed == Len(plan.clones) + Len(plan.crossovers)
             left == Len(plan'.clones) + Len(plan'.crossovers)
  <2>1. Cardinality(Active) + owed = Len(ranking) + Len(plan.culled)
    BY <1>2 DEF Owed
  <2>2. /\ Cardinality(Active') = Cardinality(Active) + 1 /\ Cardinality(Active) \in Nat
        /\ owed \in Nat /\ left \in Nat /\ left + 1 = owed /\ Len(ranking) \in Nat
    <3>1. Len(plan.clones) \in Nat /\ Len(plan.crossovers) \in Nat
      BY <1>2
    <3>2. owed \in Nat /\ left \in Nat /\ left + 1 = owed
      BY <3>1, SumNat
    <3> HIDE DEF owed, left
    <3> QED
      BY <1>1, <1>2, <3>2
  <2>3. Len(plan.culled) = 0 /\ Len(plan'.culled) = 0 /\ Len(ranking') = Len(ranking)
    BY <1>3
  <2> HIDE DEF owed, left
  <2>4. Cardinality(Active') + left = Len(ranking') + Len(plan'.culled)
    BY <2>1, <2>2, <2>3
  <2> QED
    BY <2>4 DEF left
<1> QED
  BY <1>3, <1>4, <1>5, <1>6 DEF Owed

\* Every step of breed leaves as much owed as it has not paid.
LEMMA OwedStep == LineageInv /\ [Next]_vars => Owed'
<1> SUFFICES ASSUME LineageInv, [Next]_vars, phase' = "breeding" PROVE Owed'
  BY DEF Owed
<1>0. Owed /\ Reflecting /\ Peopled
  BY DEF LineageInv
<1>1. ASSUME Reflect PROVE Owed'
  <2>1. /\ phase = "reflecting"
        /\ UNCHANGED <<status, genomes, round, ranking, plan, birth>>
    BY <1>1 DEF Reflect, table
  <2>2. /\ Replaces(plan, ranking, config) /\ ToSet(ranking) = Active
        /\ Len(ranking) = Cardinality(Active)
    BY <1>0, <2>1 DEF Reflecting
  <2>3. /\ IsInjective(plan.culled) /\ Len(plan.culled) < Len(ranking)
        /\ ToSet(plan.elite) \cup ToSet(plan.survivors) \cup ToSet(plan.culled) = Active
        /\ Len(plan.clones) + Len(plan.crossovers) = Len(plan.culled)
    BY <2>2 DEF Replaces, Partition
  <2>4. Cardinality(Active) + (Len(plan.clones) + Len(plan.crossovers))
          = Len(ranking) + Len(plan.culled)
    <3>1. /\ Len(ranking) \in Nat /\ Len(plan.culled) \in Nat /\ Len(plan.clones) \in Nat
          /\ Len(plan.crossovers) \in Nat
      BY <2>1, PlanOwes
    <3>2. Len(ranking) = Cardinality(Active)
      BY <2>2
    <3>3. Len(plan.clones) + Len(plan.crossovers) = Len(plan.culled)
      BY <2>3
    <3> QED
      BY <3>1, <3>2, <3>3
  <2>5. Active' = Active
    BY <2>1 DEF Active, Made
  <2> QED
    BY <2>1, <2>2, <2>3, <2>4, <2>5 DEF Owed
<1>2. ASSUME CopyElite, phase = "breeding" PROVE Owed'
  <2> DEFINE a == Head(plan.elite)
  <2>1. /\ plan.elite # <<>> /\ plan' = [plan EXCEPT !.elite = Tail(@)]
        /\ \E genome : Insert(<<a, round + 1>>, genome)
        /\ UNCHANGED <<status, round, ranking, birth>>
    BY <1>2 DEF CopyElite, Breeding
  <2>2. ToSet(plan.elite) = {a} \cup ToSet(Tail(plan.elite))
    BY <1>2, <2>1, PlanOwes, TailIs
  <2>3. /\ plan'.elite = Tail(plan.elite) /\ plan'.survivors = plan.survivors
        /\ UNCHANGED <<plan.culled, plan.clones, plan.crossovers>>
    BY <1>2, <2>1, PlanOwes DEF PlanRecord
  <2> HIDE DEF a
  <2> QED
    BY <1>2, <2>1, <2>2, <2>3, OwedWrites
<1>3. ASSUME Mutate, phase = "breeding" PROVE Owed'
  <2> DEFINE a == Head(plan.survivors)
  <2>1. /\ plan.survivors # <<>> /\ plan' = [plan EXCEPT !.survivors = Tail(@)]
        /\ \E genome : Insert(<<a, round + 1>>, genome)
        /\ UNCHANGED <<status, round, ranking, birth>>
    BY <1>3 DEF Mutate, Breeding
  <2>2. ToSet(plan.survivors) = {a} \cup ToSet(Tail(plan.survivors))
    BY <1>3, <2>1, PlanOwes, TailIs
  <2>3. /\ plan'.survivors = Tail(plan.survivors) /\ plan'.elite = plan.elite
        /\ UNCHANGED <<plan.culled, plan.clones, plan.crossovers>>
    BY <1>3, <2>1, PlanOwes DEF PlanRecord
  <2> HIDE DEF a
  <2> QED
    BY <1>3, <2>1, <2>2, <2>3, OwedWrites
<1>4. ASSUME Cull, phase = "breeding" PROVE Owed'
  <2> DEFINE a == Head(plan.culled)
             rest == Tail(plan.culled)
  <2>1. /\ plan.culled # <<>> /\ plan' = [plan EXCEPT !.culled = Tail(@)]
        /\ plan.elite = <<>> /\ plan.survivors = <<>>
        /\ status' = [status EXCEPT ![a] = "culled"]
        /\ UNCHANGED <<genomes, round, ranking, birth>>
    BY <1>4 DEF Cull, Breeding
  <2>2. /\ ToSet(plan.culled) = {a} \cup ToSet(rest) /\ Len(rest) = Len(plan.culled) - 1
        /\ IsInjective(rest) /\ a \notin ToSet(rest) /\ a \in Active
    BY <1>0, <1>4, <2>1, PlanOwes, TailIs DEF Owed
  <2>3. /\ plan'.culled = rest
        /\ UNCHANGED <<plan.elite, plan.survivors, plan.clones, plan.crossovers>>
    BY <1>4, <2>1, PlanOwes DEF PlanRecord
  <2> HIDE DEF a, rest
  <2>4. Active' = Active \ {a} /\ Cardinality(Active') = Cardinality(Active) - 1
    BY <1>0, <2>1, <2>2, LeaveDoes
  <2>5. /\ Len(ranking) \in Nat /\ Cardinality(Active) \in Nat /\ Len(plan.culled) \in Nat
        /\ Len(plan.clones) \in Nat /\ Len(plan.crossovers) \in Nat
    BY <1>4, PlanOwes
  <2>6. /\ ToSet(plan'.culled) \subseteq Active' /\ Len(plan'.culled) < Cardinality(Active')
        /\ Cardinality(Active') + (Len(plan'.clones) + Len(plan'.crossovers))
             = Len(ranking') + Len(plan'.culled)
    <3> DEFINE owed == Len(plan.clones) + Len(plan.crossovers)
               left == Len(plan'.clones) + Len(plan'.crossovers)
    <3>1. /\ Len(plan.culled) < Cardinality(Active) /\ ToSet(plan.culled) \subseteq Active
          /\ Cardinality(Active) + owed = Len(ranking) + Len(plan.culled)
      BY <1>0, <1>4 DEF Owed
    <3>2. /\ Len(plan'.culled) = Len(plan.culled) - 1 /\ Len(ranking') = Len(ranking)
          /\ left = owed
      BY <2>1, <2>2, <2>3
    <3>3. ToSet(plan'.culled) \subseteq Active'
      BY <2>2, <2>3, <2>4, <3>1
    <3>4. Cardinality(Active') = Cardinality(Active) - 1
      BY <2>4
    <3>5. owed \in Nat
      <4>1. Len(plan.clones) \in Nat /\ Len(plan.crossovers) \in Nat
        BY <2>5
      <4> QED
        BY <4>1, SumNat
    <3> HIDE DEF owed, left
    <3>6. Len(plan'.culled) < Cardinality(Active')
      BY <2>5, <3>1, <3>2, <3>4
    <3>7. Cardinality(Active') + left = Len(ranking') + Len(plan'.culled)
      <4>1. Cardinality(Active) + owed = Len(ranking) + Len(plan.culled)
        BY <3>1
      <4> QED
        <5>1. Len(plan'.culled) = Len(plan.culled) - 1 /\ left = owed
          BY <3>2
        <5>2. Len(ranking') = Len(ranking)
          BY <3>2
        <5>3. /\ Len(ranking) \in Int /\ Cardinality(Active) \in Int
              /\ Len(plan.culled) \in Int
          BY <2>5
        <5> QED
          BY <3>4, <3>5, <4>1, <5>1, <5>2, <5>3
    <3> QED
      BY <3>3, <3>6, <3>7 DEF left
  <2>7. \A b \in Active' :
             \/ <<b, round + 1>> \in DOMAIN genomes \/ birth.agent = b
             \/ b \in ToSet(plan'.elite) \cup ToSet(plan'.survivors) \cup ToSet(plan'.culled)
    BY <1>0, <1>4, <2>2, <2>3, <2>4 DEF Owed
  <2> QED
    BY <2>1, <2>2, <2>3, <2>6, <2>7 DEF Owed
<1>5. ASSUME BearClone, phase = "breeding" PROVE Owed'
  <2>1. /\ birth = NoBirth /\ plan.elite = <<>> /\ plan.survivors = <<>> /\ plan.culled = <<>>
        /\ plan.clones # <<>> /\ plan' = [plan EXCEPT !.clones = Tail(@)]
        /\ \E genome : Bear(NextChild, <<NextChild, round + 1>>, genome)
        /\ UNCHANGED <<genomes, round, ranking>>
    BY <1>5 DEF BearClone, Replacing, Breeding
  <2>2. /\ Len(Tail(plan.clones)) = Len(plan.clones) - 1 /\ Len(plan.clones) \in Nat \ {0}
        /\ Len(plan.crossovers) \in Nat
    BY <1>5, <2>1, PlanOwes, TailIs
  <2>3. /\ plan'.clones = Tail(plan.clones) /\ UNCHANGED <<plan.culled, plan.crossovers>>
    BY <1>5, <2>1, PlanOwes DEF PlanRecord
  <2>4. /\ Len(plan'.clones) + Len(plan'.crossovers) + 1
             = Len(plan.clones) + Len(plan.crossovers)
        /\ Len(plan'.clones) \in Nat /\ Len(plan'.crossovers) \in Nat /\ plan'.culled = <<>>
    <3>1. /\ Len(plan'.clones) = Len(plan.clones) - 1
          /\ Len(plan'.crossovers) = Len(plan.crossovers) /\ plan'.culled = <<>>
      BY <2>1, <2>2, <2>3
    <3> QED
      BY <2>2, <3>1
  <2> QED
    BY <1>5, <2>1, <2>4, OwedBears
<1>6. ASSUME BearCrossover, phase = "breeding" PROVE Owed'
  <2>1. /\ birth = NoBirth /\ plan.elite = <<>> /\ plan.survivors = <<>> /\ plan.culled = <<>>
        /\ plan.crossovers # <<>> /\ plan' = [plan EXCEPT !.crossovers = Tail(@)]
        /\ \E genome : Bear(NextChild, <<NextChild, round + 1>>, genome)
        /\ UNCHANGED <<genomes, round, ranking>>
    BY <1>6 DEF BearCrossover, Replacing, Breeding
  <2>2. /\ Len(Tail(plan.crossovers)) = Len(plan.crossovers) - 1
        /\ Len(plan.crossovers) \in Nat \ {0} /\ Len(plan.clones) \in Nat
    BY <1>6, <2>1, PlanOwes, TailIs
  <2>3. /\ plan'.crossovers = Tail(plan.crossovers) /\ UNCHANGED <<plan.culled, plan.clones>>
    BY <1>6, <2>1, PlanOwes DEF PlanRecord
  <2>4. /\ Len(plan'.clones) + Len(plan'.crossovers) + 1
             = Len(plan.clones) + Len(plan.crossovers)
        /\ Len(plan'.clones) \in Nat /\ Len(plan'.crossovers) \in Nat /\ plan'.culled = <<>>
    <3>1. /\ Len(plan'.crossovers) = Len(plan.crossovers) - 1
          /\ Len(plan'.clones) = Len(plan.clones) /\ plan'.culled = <<>>
      BY <2>1, <2>2, <2>3
    <3> QED
      BY <2>2, <3>1
  <2> QED
    BY <1>6, <2>1, <2>4, OwedBears
<1>7. ASSUME WriteGenome, phase = "breeding" PROVE Owed'
  <2>1. /\ birth.key = <<birth.agent, round + 1>> /\ Insert(birth.key, birth.genome)
        /\ UNCHANGED <<status, round, ranking, plan>>
    BY <1>7 DEF WriteGenome, working, LineageInv, Placed
  <2> QED
    BY <1>7, <2>1, OwedWrites
<1>8. ASSUME UNCHANGED vars PROVE Owed'
  BY <1>0, <1>8 DEF Owed, vars, table, working, Active, Made
<1> QED
  BY <1>1, <1>2, <1>3, <1>4, <1>5, <1>6, <1>7, <1>8, Leaves

\* The best stay as they are while others are changed, retired and born.
LEMMA ElitePendingKeeps ==
    ASSUME LineageInv, phase = "breeding", UNCHANGED <<config, round, ranking>>,
           ToSet(plan'.culled) \subseteq ToSet(plan.culled),
           \A b \in Active \ ToSet(plan.culled) : b \in Active',
           DOMAIN genomes \subseteq DOMAIN genomes',
           \A k \in DOMAIN genomes : genomes'[k] = genomes[k],
           \A b \in ToSet(plan.elite) :
               b \in ToSet(plan'.elite) \/ Copied(b)'
    PROVE  ElitePending'
<1>1. ElitePending /\ Equipped
  BY DEF LineageInv
<1>2. ASSUME NEW i \in 1..Least(config.elite, Len(ranking))
      PROVE  LET a == ranking[i]
             IN  /\ a \in Active' \ ToSet(plan'.culled)
                 /\ a \in ToSet(plan'.elite) \/ Copied(a)'
  <2> DEFINE a == ranking[i]
  <2>1. a \in Active \ ToSet(plan.culled) /\ (a \in ToSet(plan.elite) \/ Copied(a))
    BY <1>1 DEF ElitePending
  <2>2. a \in ToSet(ranking)
    <3>1. Len(ranking) \in Nat /\ DOMAIN ranking = 1..Len(ranking)
      BY DEF LineageInv, Peopled
    <3>2. config.elite \in Nat
      BY ConfigsAssumption DEF LineageInv, Peopled, SelectionConfig
    <3>3. i \in 1..Len(ranking)
      BY <3>1, <3>2 DEF Least
    <3> QED
      BY <3>1, <3>3 DEF ToSet
  <2>3. <<a, round>> \in DOMAIN genomes
    BY <1>1, <2>2 DEF Equipped
  <2>4. Copied(a) => Copied(a)'
    BY <2>3 DEF Copied
  <2> QED
    BY <2>1, <2>4
<1> QED
  BY <1>2 DEF ElitePending

\* Every step of breed keeps the best among the population, unchanged.
LEMMA ElitePendingStep == LineageInv /\ [Next]_vars => ElitePending'
<1> SUFFICES ASSUME LineageInv, [Next]_vars, phase' = "breeding" PROVE ElitePending'
  BY DEF ElitePending
<1>0. ElitePending /\ Reflecting /\ Peopled /\ Equipped
  BY DEF LineageInv
<1>1. ASSUME Reflect PROVE ElitePending'
  <2>1. /\ phase = "reflecting"
        /\ UNCHANGED <<config, status, genomes, round, ranking, plan>>
    BY <1>1 DEF Reflect, table
  <2>2. Replaces(plan, ranking, config) /\ ToSet(ranking) = Active /\ Ranking(ranking, config)
    BY <1>0, <2>1 DEF Reflecting
  <2>3. /\ plan.elite = SubSeq(ranking, 1, config.elite)
        /\ ToSet(plan.elite) \cap ToSet(plan.culled) = {}
    BY <2>2 DEF Replaces, Partition
  <2>4. /\ ranking \in Seq(Made) /\ Len(ranking) \in Nat \ {0} /\ IsInjective(ranking)
        /\ config.elite \in Nat /\ config.elite <= Len(ranking)
    <3>1. /\ ranking \in Seq(Made) /\ Len(ranking) \in Nat \ {0} /\ IsInjective(ranking)
          /\ config \in SelectionConfig /\ Accepts(Len(ranking), config)
      BY <1>0, <2>2 DEF Ranking, Peopled
    <3>2. TopCount(Len(ranking), config) \in 1..Len(ranking) /\ config.elite \in Nat
      BY <3>1, BandSizes DEF SelectionConfig
    <3> QED
      BY <3>1, <3>2 DEF Accepts
  <2>5. \A i \in 1..Least(config.elite, Len(ranking)) :
             /\ ranking[i] \in ToSet(plan.elite) /\ ranking[i] \in ToSet(ranking)
    <3> SUFFICES ASSUME NEW i \in 1..config.elite
                 PROVE  ranking[i] \in ToSet(plan.elite) /\ ranking[i] \in ToSet(ranking)
      BY <2>4 DEF Least
    <3>1. /\ Len(plan.elite) = config.elite /\ plan.elite[i] = ranking[i]
          /\ i \in DOMAIN plan.elite /\ i \in DOMAIN ranking
      BY <2>3, <2>4
    <3> QED
      BY <3>1 DEF ToSet
  <2>6. Active' = Active
    BY <2>1 DEF Active, Made
  <2> QED
    BY <2>1, <2>2, <2>3, <2>5, <2>6 DEF ElitePending
<1>2. ASSUME CopyElite, phase = "breeding" PROVE ElitePending'
  <2> PICK a : a = Head(plan.elite)
    OBVIOUS
  <2> DEFINE genome == Genome(Current(a).text, <<a, round>>, "elite")
  <2>1. /\ plan.elite # <<>> /\ plan' = [plan EXCEPT !.elite = Tail(@)]
        /\ Insert(<<a, round + 1>>, genome) /\ UNCHANGED <<config, status, round, ranking>>
    BY <1>2 DEF CopyElite, Breeding
  <2>2. ToSet(plan.elite) = {a} \cup ToSet(Tail(plan.elite)) /\ a \in ToSet(ranking)
    BY <1>2, <2>1, PlanOwes, TailIs
  <2>3. plan'.elite = Tail(plan.elite) /\ plan'.culled = plan.culled
    BY <1>2, <2>1, PlanOwes DEF PlanRecord
  <2>4. genome.text = genomes[<<a, round>>].text
    BY DEF Genome, Current
  <2> HIDE DEF genome
  <2>5. /\ DOMAIN genomes' = DOMAIN genomes \cup {<<a, round + 1>>}
        /\ genomes'[<<a, round + 1>>] = genome
        /\ \A k \in DOMAIN genomes : genomes'[k] = genomes[k]
    BY <2>1 DEF Insert
  <2>6. <<a, round>> \in DOMAIN genomes
    BY <1>0, <1>2, <2>2 DEF Equipped
  <2>7. Copied(a)'
    BY <2>1, <2>4, <2>5, <2>6 DEF Copied
  <2>8. Active' = Active
    BY <2>1 DEF Active, Made
  <2> QED
    BY <1>2, <2>1, <2>2, <2>3, <2>5, <2>7, <2>8, ElitePendingKeeps
<1>3. ASSUME Mutate, phase = "breeding" PROVE ElitePending'
  <2> DEFINE key == <<Head(plan.survivors), round + 1>>
  <2>1. /\ plan.survivors # <<>> /\ plan' = [plan EXCEPT !.survivors = Tail(@)]
        /\ \E genome : Insert(key, genome) /\ UNCHANGED <<config, status, round, ranking>>
    BY <1>3 DEF Mutate, Breeding
  <2>2. plan'.elite = plan.elite /\ plan'.culled = plan.culled
    BY <1>3, <2>1, PlanOwes DEF PlanRecord
  <2> HIDE DEF key
  <2>3. /\ DOMAIN genomes \subseteq DOMAIN genomes'
        /\ \A k \in DOMAIN genomes : genomes'[k] = genomes[k]
    BY <2>1 DEF Insert
  <2>4. Active' = Active
    BY <2>1 DEF Active, Made
  <2> QED
    BY <1>3, <2>1, <2>2, <2>3, <2>4, ElitePendingKeeps
<1>4. ASSUME Cull, phase = "breeding" PROVE ElitePending'
  <2> DEFINE a == Head(plan.culled)
  <2>1. /\ plan.culled # <<>> /\ plan' = [plan EXCEPT !.culled = Tail(@)]
        /\ status' = [status EXCEPT ![a] = "culled"]
        /\ UNCHANGED <<config, genomes, round, ranking>>
    BY <1>4 DEF Cull, Breeding
  <2>2. ToSet(plan.culled) = {a} \cup ToSet(Tail(plan.culled))
    BY <1>4, <2>1, PlanOwes, TailIs
  <2>3. plan'.elite = plan.elite /\ plan'.culled = Tail(plan.culled)
    BY <1>4, <2>1, PlanOwes DEF PlanRecord
  <2> HIDE DEF a
  <2>4. \A b \in Active \ ToSet(plan.culled) : b \in Active'
    BY <2>1, <2>2 DEF Active, Made
  <2> QED
    BY <1>4, <2>1, <2>2, <2>3, <2>4, ElitePendingKeeps
<1>5. ASSUME BearClone, phase = "breeding" PROVE ElitePending'
  <2>1. /\ plan' = [plan EXCEPT !.clones = Tail(@)]
        /\ \E key, genome : Bear(NextChild, key, genome)
        /\ UNCHANGED <<config, genomes, round, ranking>>
    BY <1>5 DEF BearClone
  <2>2. plan'.elite = plan.elite /\ plan'.culled = plan.culled
    BY <1>5, <2>1, PlanOwes DEF PlanRecord
  <2>3. Active \subseteq Active'
    BY <1>0, <2>1, BearDoes
  <2> QED
    BY <1>5, <2>1, <2>2, <2>3, ElitePendingKeeps
<1>6. ASSUME BearCrossover, phase = "breeding" PROVE ElitePending'
  <2>1. /\ plan' = [plan EXCEPT !.crossovers = Tail(@)]
        /\ \E key, genome : Bear(NextChild, key, genome)
        /\ UNCHANGED <<config, genomes, round, ranking>>
    BY <1>6 DEF BearCrossover
  <2>2. plan'.elite = plan.elite /\ plan'.culled = plan.culled
    BY <1>6, <2>1, PlanOwes DEF PlanRecord
  <2>3. Active \subseteq Active'
    BY <1>0, <2>1, BearDoes
  <2> QED
    BY <1>6, <2>1, <2>2, <2>3, ElitePendingKeeps
<1>7. ASSUME WriteGenome, phase = "breeding" PROVE ElitePending'
  <2>1. /\ \E key, genome : Insert(key, genome)
        /\ UNCHANGED <<config, status, round, ranking, plan>>
    BY <1>7 DEF WriteGenome, working
  <2>2. /\ DOMAIN genomes \subseteq DOMAIN genomes'
        /\ \A k \in DOMAIN genomes : genomes'[k] = genomes[k]
    BY <2>1 DEF Insert
  <2>3. Active' = Active
    BY <2>1 DEF Active, Made
  <2> QED
    BY <1>7, <2>1, <2>2, <2>3, ElitePendingKeeps
<1>8. ASSUME UNCHANGED vars PROVE ElitePending'
  BY <1>0, <1>8 DEF ElitePending, Copied, vars, table, working, Active, Made
<1> QED
  BY <1>1, <1>2, <1>3, <1>4, <1>5, <1>6, <1>7, <1>8, Leaves

\* Nothing but the end of breed completes a round, and nothing but an operator's request
\* or the next round follows it.
LEMMA OnlyBreedCompletes ==
    LineageInv /\ [Next]_vars => result' # "complete" \/ Complete \/ UNCHANGED vars
<1> SUFFICES ASSUME LineageInv, [Next]_vars, result' = "complete"
             PROVE  Complete \/ UNCHANGED vars
  OBVIOUS
<1>0. result = "complete" => phase = "idle" /\ birth = NoBirth
  BY DEF LineageInv, Placed
<1>1. ~StartRound /\ ~RoundFails /\ ~Evolve /\ ~Prepared /\ ~Reflect /\ ~Patch /\ ~AddAgent
  BY <1>0 DEF StartRound, Prepared, RoundFails, Fail, Patch, AddAgent, Request, Evolve, Reflect
<1>2. \A a \in Active : ~CarryForward(a) /\ ~NoHistory(a) /\ ~RemoveAgent(a)
  BY <1>0 DEF CarryForward, NoHistory, Fail, RemoveAgent, Request
<1>3. ~CopyElite /\ ~Mutate /\ ~Cull /\ ~BearClone /\ ~BearCrossover /\ ~WriteGenome /\ ~Crash
  BY <1>0 DEF CopyElite, Mutate, Cull, BearClone, BearCrossover, Replacing, Breeding,
     WriteGenome, Crash
<1> QED
  BY <1>1, <1>2, <1>3 DEF Next, Breed

\* A completed round has paid all it owed.
LEMMA CompletedStep == LineageInv /\ [Next]_vars => PopulationKept' /\ EliteStands'
<1> SUFFICES ASSUME LineageInv, [Next]_vars PROVE PopulationKept' /\ EliteStands'
  OBVIOUS
<1>1. ASSUME Complete PROVE PopulationKept' /\ EliteStands'
  <2>1. /\ phase = "breeding" /\ birth = NoBirth
        /\ plan.elite = <<>> /\ plan.survivors = <<>> /\ plan.culled = <<>>
        /\ plan.clones = <<>> /\ plan.crossovers = <<>>
        /\ UNCHANGED <<config, status, genomes, round, ranking>>
    BY <1>1 DEF Complete, Replacing, Breeding, table
  <2>2. Active' = Active /\ ToSet(<<>>) = {} /\ Len(<<>>) = 0
    BY <2>1, NobodyRanked DEF Active, Made
  <2>3. Cardinality(Active) = Len(ranking)
    <3>1. Len(ranking) \in Nat /\ Cardinality(Active) \in Nat
      BY <2>1, PlanOwes
    <3>2. Cardinality(Active) + (Len(plan.clones) + Len(plan.crossovers))
            = Len(ranking) + Len(plan.culled)
      BY <2>1 DEF LineageInv, Owed
    <3> QED
      BY <2>1, <2>2, <3>1, <3>2
  <2>4. \A a \in Active : <<a, round + 1>> \in DOMAIN genomes
    <3>1. 0 \notin Active
      BY BoundsAssumption, FoundersAssumption DEF LineageInv, Peopled, Active
    <3> QED
      BY <2>1, <2>2, <3>1 DEF LineageInv, Owed, NoBirth
  <2>5. \A i \in 1..Least(config.elite, Len(ranking)) :
             ranking[i] \in Active /\ Copied(ranking[i])
    BY <2>1, <2>2 DEF LineageInv, ElitePending
  <2>6. PopulationKept'
    BY <2>1, <2>2, <2>3, <2>4 DEF PopulationKept
  <2> QED
    BY <2>1, <2>2, <2>5, <2>6 DEF EliteStands, Copied
<1>2. ASSUME result' # "complete" PROVE PopulationKept' /\ EliteStands'
  BY <1>2 DEF PopulationKept, EliteStands
<1>3. ASSUME UNCHANGED vars PROVE PopulationKept' /\ EliteStands'
  BY <1>3 DEF LineageInv, PopulationKept, EliteStands, vars, table, working, Active, Made
<1> QED
  BY <1>1, <1>2, <1>3, OnlyBreedCompletes

-----------------------------------------------------------------------------
(* What it comes to. *)

\* createRun establishes it.
LEMMA LineageInit == Init => LineageInv
<1> SUFFICES ASSUME Init PROVE LineageInv
  OBVIOUS
<1>0. MaxChildren \in Nat /\ MaxRounds \in Nat /\ MaxEvents \in Nat
  BY BoundsAssumption
<1>1. /\ Made = Founders /\ Active = Founders
      /\ \A a \in Founders : <<a, 1>> \in Keys
  BY <1>0 DEF Init, Made, Active, Keys, Ids
<1>2. /\ DOMAIN genomes = Founders \X {1}
      /\ \A k \in DOMAIN genomes :
            /\ k \in Keys /\ k = <<k[1], 1>> /\ k[1] \in Founders
            /\ genomes[k] = [text |-> k, from |-> <<>>, origin |-> "seed"]
  BY <1>1 DEF Init, Genome
<1>3. Peopled
  <2>1. 0 \in 0..MaxChildren /\ Made = Founders \cup (1..0)
    BY <1>0, <1>1
  <2>2. Range(status) \subseteq Statuses
    BY DEF Init, Range, Statuses
  <2> QED
    BY <1>1, <2>1, <2>2, NobodyRanked, FoundersAssumption DEF Init, Peopled
<1>4. Placed
  BY <1>0 DEF Init, Placed
<1>5. Dated
  BY <1>1, <1>2 DEF Init, Dated, GenomeRecord, Horizon
<1>6. Follows
  <2> SUFFICES ASSUME NEW k \in DOMAIN genomes
               PROVE  \E g \in RoundsOf(k[1]) :
                         /\ g <= k[2] /\ Given(k[1], g)
                         /\ genomes[<<k[1], g>>].text = genomes[k].text
                         /\ \A q \in RoundsOf(k[1]) : g < q /\ q <= k[2] => ~Given(k[1], q)
    BY DEF Follows
  <2>1. k = <<k[1], 1>> /\ k[2] = 1
    BY <1>2
  <2>2. \A q \in RoundsOf(k[1]) : q = 1
    BY <1>2 DEF RoundsOf, Written
  <2>3. 1 \in RoundsOf(k[1])
    BY <2>1 DEF RoundsOf, Written
  <2>4. Given(k[1], 1)
    BY <1>2, <2>1 DEF Given
  <2> QED
    BY <2>1, <2>2, <2>3, <2>4
<1>7. Equipped /\ Reflecting /\ Owed /\ ElitePending /\ PopulationKept /\ EliteStands /\ Unranked
  BY DEF Init, Equipped, Reflecting, Owed, ElitePending, PopulationKept, EliteStands, Unranked
<1> QED
  BY <1>3, <1>4, <1>5, <1>6, <1>7 DEF LineageInv

\* The invariant holds of every run.
THEOREM LineageHolds == Spec => []LineageInv
<1>1. LineageInv /\ [Next]_vars => LineageInv'
  BY PeopledStep, PlacedStep, UnrankedStep, DatedFollows, EquippedStep, ReflectingStep,
     OwedStep, ElitePendingStep, CompletedStep DEF LineageInv
<1> QED
  BY <1>1, LineageInit, PTL DEF Spec

\* The invariant gives the types.
LEMMA InvTypeOK == LineageInv => TypeOK
<1> SUFFICES ASSUME LineageInv PROVE TypeOK
  OBVIOUS
<1>1. Made \subseteq Ids
  BY BoundsAssumption DEF LineageInv, Peopled, Ids
<1>2. /\ DOMAIN genomes \subseteq Keys
      /\ \A k \in DOMAIN genomes :
           /\ genomes[k].text \in Keys
           /\ genomes[k].from \in Keys \cup {<<>>}
           /\ genomes[k].origin \in {"seed", "elite", "mutation", "clone", "crossover", "manual"}
  BY DEF LineageInv, Dated, GenomeRecord
<1>3. ToSet(ranking) \subseteq Made /\ IsInjective(ranking)
  BY DEF LineageInv, Peopled, ToSet
<1>4. birth.agent \in Made \cup {0}
  BY DEF LineageInv, Placed, NoBirth
<1> QED
  BY <1>1, <1>2, <1>3, <1>4 DEF LineageInv, Peopled, Placed, TypeOK

\* The invariant gives the plan its shape.
LEMMA InvReplaces == LineageInv => PlanReplacesTheCulled
<1> SUFFICES ASSUME LineageInv, phase = "reflecting" PROVE PlanReplacesTheCulled
  BY DEF PlanReplacesTheCulled
<1> DEFINE top == ToSet(TopBand(ranking, config))
           gone == ToSet(plan.culled)
<1>1. /\ Replaces(plan, ranking, config)
      /\ gone \cap top # {} => plan.rescued # {}
  BY DEF LineageInv, Reflecting
<1>2. /\ Len(plan.elite) + Len(plan.survivors) + Len(plan.culled) = Len(ranking)
      /\ ToSet(plan.elite) \cup ToSet(plan.survivors) \cup gone = ToSet(ranking)
  BY <1>1 DEF Replaces, Partition
<1>3. /\ plan.clones \in Seq([parent : top, replaces : gone])
      /\ plan.crossovers \in Seq([a : top, b : top, replaces : gone])
      /\ \A x \in ToSet(plan.crossovers) : x.a # x.b
      /\ {x.replaces : x \in ToSet(plan.clones) \cup ToSet(plan.crossovers)} = gone
      /\ Len(plan.clones) + Len(plan.crossovers) = Len(plan.culled)
  BY <1>1 DEF Replaces
<1> HIDE DEF top, gone
<1>4. ASSUME NEW x \in ToSet(plan.crossovers) PROVE {x.a, x.b} \subseteq top
  <2>1. x \in [a : top, b : top, replaces : gone]
    BY <1>3, MemberOf
  <2> QED
    BY <2>1
<1>5. ASSUME NEW x \in ToSet(plan.clones) PROVE x.parent \in top
  <2>1. x \in [parent : top, replaces : gone]
    BY <1>3, MemberOf
  <2> QED
    BY <2>1
<1> QED
  BY <1>1, <1>2, <1>3, <1>4, <1>5 DEF PlanReplacesTheCulled, top, gone

\* The invariant gives the text an agent runs with.
LEMMA InvLatest == LineageInv => RunsWithItsLatest
<1> SUFFICES ASSUME LineageInv, phase = "running", NEW a \in Active
             PROVE  LET given == {r \in RoundsOf(a) : r <= round /\ Given(a, r)}
                    IN  Current(a).text = genomes[<<a, LatestIn(given)>>].text
  BY DEF RunsWithItsLatest
<1> DEFINE given == {r \in RoundsOf(a) : r <= round /\ Given(a, r)}
<1>1. <<a, round>> \in DOMAIN genomes
  BY DEF LineageInv, Equipped, Unprepared
<1>2. PICK g \in RoundsOf(a) :
            /\ g <= round /\ Given(a, g)
            /\ genomes[<<a, g>>].text = genomes[<<a, round>>].text
            /\ \A q \in RoundsOf(a) : g < q /\ q <= round => ~Given(a, q)
  BY <1>1 DEF LineageInv, Follows
<1>3. MaxRounds + 1 \in Nat /\ given \in SUBSET (0..(MaxRounds + 1)) /\ g \in given
  <2>1. RoundsOf(a) \subseteq 0..(MaxRounds + 1) /\ MaxRounds + 1 \in Nat
    BY RoundsAre DEF LineageInv
  <2> QED
    BY <1>2, <2>1
<1>4. \A q \in given : q <= g
  BY <1>2, <1>3
<1> HIDE DEF given
<1>5. LatestIn(given) \in given /\ \A q \in given : q <= LatestIn(given)
  BY <1>3, Largest
<1>6. LatestIn(given) = g
  <2>1. LatestIn(given) <= g /\ g <= LatestIn(given)
    BY <1>3, <1>4, <1>5
  <2>2. \A q \in given : q \in Int
    BY <1>3
  <2>3. LatestIn(given) \in Int /\ g \in Int
    BY <1>3, <1>5, <2>2
  <2> QED
    BY <2>1, <2>3
<1> QED
  BY <1>2, <1>6 DEF Current, given

\* Every variable keeps its type: no statement of a round, a request or a recovery writes
\* a row out of its table.
THEOREM TypeCorrect == Spec => []TypeOK
BY LineageHolds, InvTypeOK, PTL

\* planSelection shares the whole ranking out, replaces each culled agent once by children
\* of the top band, and culls of the top band only by a rescue, whatever the settings.
THEOREM TheCulledAreReplaced == Spec => []PlanReplacesTheCulled
BY LineageHolds, InvReplaces, PTL

\* A completed round leaves as many active agents as it ranked, each with a genome for the
\* next round, wherever earlier rounds and requests were cut short.
THEOREM PopulationIsKept == Spec => []PopulationKept
<1>1. LineageInv => PopulationKept
  BY DEF LineageInv
<1> QED
  BY <1>1, LineageHolds, PTL

\* The best of a completed round are active and unchanged after it.
THEOREM TheBestStand == Spec => []EliteStands
<1>1. LineageInv => EliteStands
  BY DEF LineageInv
<1> QED
  BY <1>1, LineageHolds, PTL

\* Whatever rounds failed in between, an agent runs with the text it was last given.
THEOREM RunsWithTheLatest == Spec => []RunsWithItsLatest
BY LineageHolds, InvLatest, PTL

\* Once ranked, a round is lost only with the process, or to settings that the population
\* has become too small for.
THEOREM EvolutionIsCompleted == Spec => EvolutionCompletes
<1> DEFINE A == /\ phase \in {"reflecting", "breeding"} /\ phase' = "idle"
                     => result' = "complete" \/ Crash
                /\ phase = "running" /\ ranking' # ranking /\ phase' = "idle"
                     => Cardinality(Active) < Cardinality(Founders)
<1>1. ASSUME LineageInv, [Next]_vars PROVE [A]_vars
  <2>1. ASSUME phase \in {"reflecting", "breeding"}, phase' = "idle", Next
        PROVE  result' = "complete" \/ Crash
    <3>1. Complete => result' = "complete"
      BY DEF Complete
    <3>2. ~StartRound /\ ~Prepared /\ ~RoundFails /\ ~Evolve /\ ~Reflect /\ ~Patch /\ ~AddAgent
      BY <2>1 DEF StartRound, Prepared, RoundFails, Evolve, Reflect, Patch, AddAgent, Request,
         Idle
    <3>3. \A a \in Active : ~CarryForward(a) /\ ~NoHistory(a) /\ ~RemoveAgent(a)
      BY <2>1 DEF CarryForward, NoHistory, RemoveAgent, Request, Idle
    <3>4. ~CopyElite /\ ~Mutate /\ ~Cull /\ ~BearClone /\ ~BearCrossover /\ ~WriteGenome
      BY <2>1 DEF CopyElite, Mutate, Cull, BearClone, BearCrossover, Replacing, Breeding,
         WriteGenome
    <3> QED
      BY <2>1, <3>1, <3>2, <3>3, <3>4 DEF Next, Breed
  <2>2. ASSUME phase = "running", ranking' # ranking, phase' = "idle", Next
        PROVE  Cardinality(Active) < Cardinality(Founders)
    <3>1. ranking = <<>>
      BY <1>1, <2>2 DEF LineageInv, Unranked
    <3>2. ~RoundFails /\ ~Crash
      BY <2>2, <3>1 DEF RoundFails, Crash, Forget
    <3>3. ~StartRound /\ ~Prepared /\ ~Reflect /\ ~Patch /\ ~AddAgent /\ ~Complete
      BY <2>2 DEF StartRound, Prepared, Reflect, Patch, AddAgent, Request, Idle, Complete,
         Replacing, Breeding
    <3>4. \A a \in Active : ~CarryForward(a) /\ ~NoHistory(a) /\ ~RemoveAgent(a)
      BY <2>2 DEF CarryForward, NoHistory, RemoveAgent, Request, Idle
    <3>5. ~CopyElite /\ ~Mutate /\ ~Cull /\ ~BearClone /\ ~BearCrossover /\ ~WriteGenome
      BY <2>2 DEF CopyElite, Mutate, Cull, BearClone, BearCrossover, Replacing, Breeding,
         WriteGenome
    <3>6. Evolve
      BY <2>2, <3>2, <3>3, <3>4, <3>5 DEF Next, Breed
    <3>7. ~Accepts(Cardinality(Active), config)
      BY <2>2, <3>6 DEF Evolve
    <3>8. /\ config \in SelectionConfig /\ Accepts(Cardinality(Founders), config)
          /\ Cardinality(Active) \in Nat /\ Cardinality(Founders) \in Nat
      BY <1>1, ConfigsAssumption, FoundersAssumption, MadeFinite, FS_CardinalityType
         DEF LineageInv, Peopled
    <3>9. ~(Cardinality(Founders) <= Cardinality(Active))
      BY <3>7, <3>8, AcceptsLarger
    <3> QED
      BY <3>8, <3>9
  <2> QED
    BY <1>1, <2>1, <2>2
<1> QED
  BY <1>1, LineageHolds, PTL DEF Spec, EvolutionCompletes

-----------------------------------------------------------------------------
(* Histories, which need less. *)

\* A genome that is still to be written is the one of the agent being born, for a round
\* that is not over.
BirthPending ==
    birth # NoBirth =>
        birth.agent # 0 /\ birth.key[1] = birth.agent /\ birth.key[2] \in 0..(round + 1)

\* An active agent whose birth is over, and was not cut short, has a genome.
Histories ==
    \A a \in Active \ cut :
        birth.agent # a => \E k \in DOMAIN genomes : k[1] = a /\ k[2] \in 0..(round + 1)

\* What every statement keeps of that.
HistoryInv ==
    /\ round \in Nat /\ Made \subseteq Ids /\ 0 \notin Ids
    /\ BirthPending /\ Histories

\* A genome that is added takes nobody's away.
LEMMA InsertKeeps ==
    ASSUME HistoryInv, NEW key, NEW genome, Insert(key, genome),
           UNCHANGED <<status, round, birth, cut>>
    PROVE  HistoryInv'
<1>1. DOMAIN genomes' = DOMAIN genomes \cup {key}
  BY DEF Insert
<1>2. Active' = Active /\ Made' = Made /\ BirthPending'
  BY DEF HistoryInv, Active, Made, BirthPending, NoBirth
<1>3. Histories'
  BY <1>1, <1>2 DEF HistoryInv, Histories
<1> QED
  BY <1>2, <1>3 DEF HistoryInv, Made

\* An agent is born with its genome still to be written.
LEMMA BearKeeps ==
    ASSUME HistoryInv, birth = NoBirth, NEW agent, NEW genome,
           Bear(agent, <<agent, round + 1>>, genome), UNCHANGED <<genomes, round, cut>>
    PROVE  HistoryInv'
<1>1. /\ agent \in Ids /\ agent # 0
      /\ birth' = [agent |-> agent, key |-> <<agent, round + 1>>, genome |-> genome]
  BY DEF Bear, HistoryInv
<1>2. BirthPending'
  BY <1>1 DEF BirthPending, HistoryInv
<1>3. Made' = Made \cup {agent} /\ Active' \subseteq Active \cup {agent}
  BY DEF Bear, Made, Active
<1>4. \A a \in Active : birth.agent # a
  BY DEF HistoryInv, Active, NoBirth
<1>5. Histories'
  BY <1>1, <1>3, <1>4 DEF HistoryInv, Histories
<1> QED
  BY <1>1, <1>2, <1>3, <1>5 DEF HistoryInv

\* Each statement of the rounds, the operator and the process keeps it.
LEMMA HistoryStep == HistoryInv /\ [Next]_vars => HistoryInv'
<1> SUFFICES ASSUME HistoryInv, [Next]_vars PROVE HistoryInv'
  OBVIOUS
<1>1. ASSUME StartRound PROVE HistoryInv'
  BY <1>1 DEF HistoryInv, BirthPending, Histories, NoBirth, Made, Active, StartRound,
     Forget, table
<1>2. ASSUME NEW a \in Active, CarryForward(a) PROVE HistoryInv'
  BY <1>2, InsertKeeps DEF CarryForward
<1>3. ASSUME NEW a \in Active, NoHistory(a) PROVE HistoryInv'
  BY <1>3 DEF HistoryInv, BirthPending, Histories, NoBirth, Made, Active, NoHistory, Fail,
     Forget, table
<1>4. ASSUME Prepared PROVE HistoryInv'
  BY <1>4 DEF HistoryInv, BirthPending, Histories, NoBirth, Made, Active, Prepared, working,
     table
<1>5. ASSUME RoundFails PROVE HistoryInv'
  BY <1>5 DEF HistoryInv, BirthPending, Histories, NoBirth, Made, Active, RoundFails, Fail,
     Forget, table
<1>6. ASSUME Evolve PROVE HistoryInv'
  BY <1>6 DEF HistoryInv, BirthPending, Histories, NoBirth, Made, Active, Evolve, Fail,
     table
<1>7. ASSUME Reflect PROVE HistoryInv'
  BY <1>7 DEF HistoryInv, BirthPending, Histories, NoBirth, Made, Active, Reflect, table
<1>8. ASSUME CopyElite PROVE HistoryInv'
  BY <1>8, InsertKeeps DEF CopyElite
<1>9. ASSUME Mutate PROVE HistoryInv'
  BY <1>9, InsertKeeps DEF Mutate
<1>10. ASSUME Cull PROVE HistoryInv'
  BY <1>10 DEF HistoryInv, BirthPending, Histories, NoBirth, Made, Active, Cull, Breeding
<1>11. ASSUME BearClone PROVE HistoryInv'
  BY <1>11, BearKeeps DEF BearClone, Replacing, Breeding
<1>12. ASSUME BearCrossover PROVE HistoryInv'
  BY <1>12, BearKeeps DEF BearCrossover, Replacing, Breeding
<1>13. ASSUME Complete PROVE HistoryInv'
  BY <1>13 DEF HistoryInv, BirthPending, Histories, NoBirth, Made, Active, Complete, table
<1>14. ASSUME WriteGenome PROVE HistoryInv'
  <2>1. DOMAIN genomes' = DOMAIN genomes \cup {birth.key} /\ birth' = NoBirth
    BY <1>14 DEF WriteGenome, Insert
  <2>2. Active' = Active /\ Made' = Made /\ UNCHANGED <<round, cut>>
    BY <1>14 DEF WriteGenome, Active, Made
  <2> QED
    BY <1>14, <2>1, <2>2 DEF HistoryInv, BirthPending, Histories, WriteGenome
<1>15. ASSUME AddAgent PROVE HistoryInv'
  BY <1>15, BearKeeps DEF AddAgent, Request, Idle
<1>16. ASSUME NEW a \in Active, RemoveAgent(a) PROVE HistoryInv'
  BY <1>16 DEF HistoryInv, BirthPending, Histories, NoBirth, Made, Active, RemoveAgent,
     Request, Idle, Forget
<1>17. ASSUME Patch PROVE HistoryInv'
  BY <1>17 DEF HistoryInv, BirthPending, Histories, NoBirth, Made, Active, Patch, Request,
     Idle, Forget, table
<1>18. ASSUME Crash PROVE HistoryInv'
  BY <1>18 DEF HistoryInv, BirthPending, Histories, NoBirth, Made, Active, Crash, Forget,
     table
<1>19. ASSUME UNCHANGED vars PROVE HistoryInv'
  BY <1>19 DEF HistoryInv, BirthPending, Histories, NoBirth, Made, Active, vars, table,
     working
<1> QED
  BY <1>1, <1>2, <1>3, <1>4, <1>5, <1>6, <1>7, <1>8, <1>9, <1>10, <1>11, <1>12, <1>13,
     <1>14, <1>15, <1>16, <1>17, <1>18, <1>19 DEF Next, Breed

\* Whatever a failed round, a partial evolution and the operator leave behind, every active
\* agent has a genome that PREPARE of the next round can carry forward, or was being born
\* when the process died.
THEOREM HistoriesAreKept == Spec => []EveryAgentHasHistory
<1>1. Init => HistoryInv
  <2> SUFFICES ASSUME Init PROVE HistoryInv
    OBVIOUS
  <2>1. 0 \notin Ids
    BY FoundersAssumption, BoundsAssumption DEF Ids
  <2>2. Made = Founders /\ DOMAIN genomes = Founders \X {1} /\ round = 0 /\ birth = NoBirth
    BY DEF Init, Made
  <2>3. Histories
    <3> SUFFICES ASSUME NEW a \in Founders
                 PROVE  \E k \in DOMAIN genomes : k[1] = a /\ k[2] \in 0..(round + 1)
      BY <2>2 DEF Histories, Active
    <3>1. <<a, 1>> \in DOMAIN genomes
      BY <2>2
    <3> QED
      BY <2>2, <3>1
  <2> QED
    BY <2>1, <2>2, <2>3 DEF HistoryInv, BirthPending, NoBirth, Ids
<1>2. HistoryInv => EveryAgentHasHistory
  BY DEF HistoryInv, Histories, EveryAgentHasHistory, RoundsOf, Written
<1> QED
  BY <1>1, <1>2, HistoryStep, PTL DEF Spec

=============================================================================
