------------------------- MODULE TransformV2Proofs --------------------------
(***************************************************************************)
(* What an answer shows follows from what TransformEventV2 makes of each   *)
(* event, which the teams of the page and the catalogue determine: once    *)
(* events are transformed, neither changes.  The first parts are about the *)
(* operators the page is built from: At, Length, the common prefixes and   *)
(* suffixes of logos, the exchanges that sort markets.                     *)
(***************************************************************************)
EXTENDS TransformV2, TeamResolveProofs

-----------------------------------------------------------------------------
(* Counting up to n, and functions defined by it.                          *)

\* What holds of 0 and of the successor of each number up to n holds up to n.
LEMMA Counting ==
  ASSUME NEW n \in Nat, NEW S, 0 \in S, \A k \in 1..n : k - 1 \in S => k \in S
  PROVE  0..n \subseteq S
<1> DEFINE missing == (0..n) \ S
<1> SUFFICES ASSUME missing # {}
             PROVE  FALSE
  OBVIOUS
<1>0. missing \subseteq Nat
  OBVIOUS
<1>1. PICK k \in missing : \A m \in missing : k <= m
  <2> HIDE DEF missing
  <2> QED
    BY <1>0, LeastNumber
<1>2. k \in 1..n /\ k - 1 \in 0..n
  BY <1>1
<1>3. k - 1 \notin missing
  BY <1>1, <1>2
<1> QED
  BY <1>1, <1>2, <1>3

\* From base, f takes the steps of g.
Takes(f, n, base, g) == f[0] = base /\ \A k \in 1..n : f[k] = g[k][f[k - 1]]

\* A function over 0..n can be defined by its steps.
LEMMA Recursion ==
  ASSUME NEW X, NEW n \in Nat, NEW base \in X,
         NEW g, \A k \in 1..n : g[k] \in [X -> X]
  PROVE  \E f \in [0..n -> X] : Takes(f, n, base, g)
<1> DEFINE S == {m \in 0..n : \E f \in [0..m -> X] : Takes(f, m, base, g)}
<1>1. 0 \in S
  <2> DEFINE f == [k \in 0..0 |-> base]
  <2>1. f \in [0..0 -> X] /\ f[0] = base /\ 1..0 = {}
    OBVIOUS
  <2> HIDE DEF f
  <2>2. Takes(f, 0, base, g)
    BY <2>1 DEF Takes
  <2> QED
    BY <2>1, <2>2
<1>2. ASSUME NEW m \in 1..n, m - 1 \in S
      PROVE  m \in S
  <2>1. PICK f \in [0..(m - 1) -> X] : Takes(f, m - 1, base, g)
    BY <1>2
  <2> DEFINE h == [k \in 0..m |-> IF k = m THEN g[m][f[m - 1]] ELSE f[k]]
  <2>2. f[m - 1] \in X /\ g[m][f[m - 1]] \in X
    OBVIOUS
  <2>3. h \in [0..m -> X]
    BY <2>2
  <2>4. h[0] = base
    BY <2>1 DEF Takes
  <2>5. ASSUME NEW k \in 1..m
        PROVE  h[k] = g[k][h[k - 1]]
    <3>1. k - 1 \in 0..(m - 1) /\ h[k - 1] = f[k - 1]
      OBVIOUS
    <3>2. k = m => h[k] = g[k][f[k - 1]]
      OBVIOUS
    <3>3. k # m => h[k] = f[k] /\ k \in 1..(m - 1)
      OBVIOUS
    <3> QED
      BY <2>1, <3>1, <3>2, <3>3 DEF Takes
  <2> HIDE DEF h
  <2>6. Takes(h, m, base, g)
    BY <2>4, <2>5 DEF Takes
  <2>7. m \in 0..n
    OBVIOUS
  <2> QED
    BY <2>3, <2>6, <2>7
<1>3. n \in S
  <2> HIDE DEF S
  <2>1. 0..n \subseteq S
    BY <1>1, <1>2, Counting
  <2> QED
    BY <2>1
<1> QED
  BY <1>3

-----------------------------------------------------------------------------
(* At.                                                                     *)

\* 1..n has n members.
LEMMA IntervalSize ==
  ASSUME NEW n \in Nat
  PROVE  IsFiniteSet(1..n) /\ Cardinality(1..n) = n
BY FS_Interval

\* Positions of a sequence are finitely many.
LEMMA DomainFinite ==
  ASSUME NEW S, NEW s \in Seq(S), NEW I \in SUBSET DOMAIN s
  PROVE  /\ I \subseteq 1..Len(s) /\ I \subseteq Nat
         /\ IsFiniteSet(I) /\ Cardinality(I) \in Nat /\ Cardinality(I) <= Len(s)
<1>1. DOMAIN s = 1..Len(s) /\ Len(s) \in Nat
  OBVIOUS
<1>2. IsFiniteSet(1..Len(s)) /\ Cardinality(1..Len(s)) = Len(s)
  BY <1>1, IntervalSize
<1> QED
  BY <1>1, <1>2, FS_Subset, FS_CardinalityType

\* p numbers the members of I from 1 to n.
Numbers(p, n, I) == /\ \A i \in 1..n : p[i] \in I
                    /\ \A i, j \in 1..n : p[i] = p[j] => i = j
                    /\ \A k \in I : \E i \in 1..n : p[i] = k

\* t lists what s has at the numbers p.
Lists(t, n, s, p) == t = [i \in 1..n |-> s[p[i]]]

\* A sequence lists what its members are, one by one.
LEMMA ListsEach ==
  ASSUME NEW S, NEW t \in Seq(S), NEW n, n = Len(t), NEW s, NEW p,
         \A i \in 1..n : t[i] = s[p[i]]
  PROVE  Lists(t, n, s, p)
<1>1. t = [i \in 1..n |-> t[i]]
  OBVIOUS
<1>2. [i \in 1..n |-> t[i]] = [i \in 1..n |-> s[p[i]]]
  BY Zenon
<1> QED
  BY <1>1, <1>2 DEF Lists

\* At lists the positions in I, the least one first.
LEMMA AtSelects ==
  ASSUME NEW S, NEW s \in Seq(S), NEW I \in SUBSET DOMAIN s, NEW c, c = Cardinality(I)
  PROVE  \E p : /\ Numbers(p, c, I) /\ Lists(At(s, I), c, s, p)
                /\ \A n \in I : (\A m \in I : n <= m) => p[1] = n
<1> DEFINE Below(n) == {m \in I : m <= n}
           rank == [n \in I |-> Cardinality(Below(n))]
<1>1. I \subseteq Nat /\ IsFiniteSet(I) /\ c \in Nat
  BY DomainFinite
<1>2. \A n \in I : IsFiniteSet(Below(n)) /\ Cardinality(Below(n)) \in Nat /\ Cardinality(Below(n)) <= c
  <2> TAKE n \in I
  <2>1. Below(n) \in SUBSET I
    OBVIOUS
  <2> QED
    BY <1>1, <2>1, FS_Subset, FS_CardinalityType
<1>3. \A n \in I : Cardinality(Below(n)) # 0
  <2> TAKE n \in I
  <2>1. n \in Below(n)
    BY <1>1
  <2> QED
    BY <1>2, <2>1, FS_EmptySet
<1>4. rank \in [I -> 1..c]
  <2> HIDE DEF Below
  <2>1. \A n \in I : Cardinality(Below(n)) \in 1..c
    BY <1>1, <1>2, <1>3
  <2> QED
    BY <2>1
<1>5. ASSUME NEW m \in I, NEW n \in I, m < n
      PROVE  rank[m] # rank[n]
  <2>1. Below(m) \in SUBSET Below(n) /\ Below(m) # Below(n)
    BY <1>1, <1>5
  <2> QED
    BY <1>2, <2>1, FS_Subset
<1>6. rank \in Injection(I, 1..c)
  <2> HIDE DEF rank
  <2>1. \A m, n \in I : rank[m] = rank[n] => ~(m < n) /\ ~(n < m)
    BY <1>5
  <2>2. \A m, n \in I : rank[m] = rank[n] => m = n
    BY <1>1, <2>1
  <2> QED
    BY <1>4, <2>2 DEF Injection, IsInjective
<1>7. rank \in Surjection(I, 1..c)
  <2>1. IsFiniteSet(1..c) /\ Cardinality(1..c) = c
    BY <1>1, IntervalSize
  <2> QED
    BY <1>6, <2>1, FS_Injection
<1> DEFINE pos == [i \in 1..c |-> CHOOSE n \in I : Cardinality(Below(n)) = i]
<1>8. \A i \in 1..c : pos[i] \in I /\ rank[pos[i]] = i
  BY <1>7 DEF Surjection
<1>9. Numbers(pos, c, I)
  <2>1. \A n \in I : rank[n] \in 1..c /\ pos[rank[n]] = n
    BY <1>4, <1>6, <1>8 DEF Injection, IsInjective
  <2>2. \A i, j \in 1..c : pos[i] = pos[j] => i = j
    BY <1>8
  <2> QED
    BY <1>8, <2>1, <2>2 DEF Numbers
<1>10. ASSUME NEW n \in I, \A m \in I : n <= m
       PROVE  pos[1] = n
  <2>1. Below(n) = {n}
    BY <1>1, <1>10
  <2>2. rank[n] = 1
    BY <2>1, FS_Singleton
  <2>3. 1 \in 1..c
    BY <1>4, <2>2
  <2> QED
    BY <1>6, <1>8, <2>2, <2>3 DEF Injection, IsInjective
<1> HIDE DEF pos
<1>11. Lists(At(s, I), c, s, pos)
  BY DEF At, Lists, pos
<1> QED
  BY <1>9, <1>10, <1>11

-----------------------------------------------------------------------------
(* Length.                                                                 *)

\* The length of a URL is the sum of the widths of its parts.
LEMMA LengthSums ==
  ASSUME NEW u \in Seq(Parts)
  PROVE  \E f \in [0..Len(u) -> Nat] :
           /\ f[0] = 0
           /\ \A k \in 1..Len(u) : f[k] = f[k - 1] + Width[u[k]]
           /\ Length(u) = f[Len(u)]
<1> DEFINE n == Len(u)
           g == [i \in 1..n |-> [x \in Nat |-> x + Width[u[i]]]]
           F == CHOOSE f : f = [i \in 0..n |-> IF i = 0 THEN 0 ELSE f[i - 1] + Width[u[i]]]
<1>1. n \in Nat /\ \A i \in 1..n : Width[u[i]] \in Nat
  BY PartsAssumption
<1>2. \A i \in 1..n : g[i] \in [Nat -> Nat]
  BY <1>1
<1>3. PICK f \in [0..n -> Nat] : Takes(f, n, 0, g)
  <2> HIDE DEF g, n
  <2>1. 0 \in Nat
    OBVIOUS
  <2> QED
    BY <1>1, <1>2, <2>1, Recursion
<1>4. f = [i \in 0..n |-> IF i = 0 THEN 0 ELSE f[i - 1] + Width[u[i]]]
  <2> HIDE DEF n
  <2>1. \A i \in 1..n : f[i - 1] \in Nat /\ g[i][f[i - 1]] = f[i - 1] + Width[u[i]]
    BY <1>1
  <2> HIDE DEF g
  <2>2. \A i \in 0..n : f[i] = IF i = 0 THEN 0 ELSE f[i - 1] + Width[u[i]]
    <3>1. ASSUME NEW i \in 0..n, i # 0
          PROVE  i \in 1..n
      BY <1>1, <3>1
    <3> QED
      BY <1>3, <2>1, <3>1 DEF Takes
  <2> QED
    BY <2>2
<1>5. F = [i \in 0..n |-> IF i = 0 THEN 0 ELSE F[i - 1] + Width[u[i]]]
  BY <1>4
<1>6. Length(u) = F[n]
  BY DEF Length
<1> HIDE DEF F
<1>7. F[0] = 0 /\ \A k \in 1..n : F[k] = F[k - 1] + Width[u[k]]
  BY <1>1, <1>5
<1>8. F \in [0..n -> Nat]
  <2> DEFINE S == {k \in 0..n : F[k] \in Nat}
  <2>1. 0 \in S /\ \A k \in 1..n : k - 1 \in S => k \in S
    BY <1>1, <1>7
  <2>2. 0..n \subseteq S
    <3> HIDE DEF S, n
    <3> QED
      BY <1>1, <2>1, Counting
  <2> QED
    BY <1>5, <2>2
<1> QED
  BY <1>6, <1>7, <1>8

\* The lengths of two URLs add up.
LEMMA LengthAdds ==
  ASSUME NEW u \in Seq(Parts), NEW v \in Seq(Parts)
  PROVE  /\ Length(u) \in Nat
         /\ Length(u \o v) = Length(u) + Length(v)
<1> DEFINE m == Len(u)
           n == Len(v)
<1>1. PICK f \in [0..m -> Nat] : /\ f[0] = 0
                                 /\ \A k \in 1..m : f[k] = f[k - 1] + Width[u[k]]
                                 /\ Length(u) = f[m]
  BY LengthSums
<1>2. PICK g \in [0..n -> Nat] : /\ g[0] = 0
                                 /\ \A k \in 1..n : g[k] = g[k - 1] + Width[v[k]]
                                 /\ Length(v) = g[n]
  BY LengthSums
<1>3. /\ u \o v \in Seq(Parts) /\ Len(u \o v) = m + n /\ m \in Nat /\ n \in Nat
      /\ \A k \in 1..m : (u \o v)[k] = u[k]
      /\ \A k \in 1..n : (u \o v)[m + k] = v[k]
  OBVIOUS
<1>4. PICK h \in [0..(m + n) -> Nat] :
        /\ h[0] = 0
        /\ \A k \in 1..(m + n) : h[k] = h[k - 1] + Width[(u \o v)[k]]
        /\ Length(u \o v) = h[m + n]
  BY <1>3, LengthSums
<1> HIDE DEF m, n
<1> DEFINE S == {k \in 0..m : h[k] = f[k]}
           T == {k \in 0..n : h[m + k] = f[m] + g[k]}
<1>5. 0..m \subseteq S
  <2>1. 0 \in S
    BY <1>1, <1>3, <1>4
  <2>2. ASSUME NEW k \in 1..m, k - 1 \in S
        PROVE  k \in S
    <3>1. k \in 1..(m + n) /\ k \in 0..m
      BY <1>3
    <3>2. h[k] = h[k - 1] + Width[u[k]] /\ f[k] = f[k - 1] + Width[u[k]]
      BY <1>1, <1>3, <1>4, <3>1
    <3> QED
      BY <2>2, <3>1, <3>2
  <2> HIDE DEF S
  <2> QED
    BY <1>3, <2>1, <2>2, Counting
<1>6. 0..n \subseteq T
  <2>1. 0 \in T
    <3>1. m \in S
      BY <1>3, <1>5
    <3> QED
      BY <1>1, <1>2, <1>3, <1>4, <3>1
  <2>2. ASSUME NEW k \in 1..n, k - 1 \in T
        PROVE  k \in T
    <3>1. /\ m + k \in 1..(m + n) /\ (m + k) - 1 = m + (k - 1)
          /\ k - 1 \in 0..n /\ k \in 0..n /\ m \in 0..m
      BY <1>3
    <3>2. h[m + k] = h[m + (k - 1)] + Width[v[k]]
      BY <1>3, <1>4, <3>1
    <3>3. g[k] = g[k - 1] + Width[v[k]] /\ h[m + (k - 1)] = f[m] + g[k - 1]
      BY <1>2, <2>2
    <3>4. Width[v[k]] \in Nat
      BY PartsAssumption DEF n
    <3>5. f[m] \in Nat /\ g[k - 1] \in Nat
      BY <3>1
    <3>6. h[m + k] = f[m] + g[k]
      BY <3>2, <3>3, <3>4, <3>5
    <3> QED
      BY <3>1, <3>6
  <2> HIDE DEF T
  <2> QED
    BY <1>3, <2>1, <2>2, Counting
<1>7. n \in T /\ m \in 0..m
  BY <1>3, <1>6
<1> QED
  BY <1>1, <1>2, <1>4, <1>7

-----------------------------------------------------------------------------
(* Prefixes and suffixes.                                                  *)

\* Sequences that begin with d, two of which part right after it.
LEMMA PrefixFound ==
  ASSUME NEW U, U \subseteq Seq(Parts), NEW d \in Seq(Parts),
         \A u \in U : Len(d) < Len(u) /\ \A i \in 1..Len(d) : u[i] = d[i],
         NEW v \in U, NEW w \in U, v[Len(d) + 1] # w[Len(d) + 1]
  PROVE  LongestCommonPrefix(U) = d
<1> DEFINE n == Len(d)
<1>1. \A u \in U : u \in Seq(Parts) /\ n \in Nat /\ Len(u) \in Nat /\ n < Len(u)
  OBVIOUS
<1>2. ASSUME NEW u \in U
      PROVE  SubSeq(u, 1, n) = d
  <2>1. SubSeq(u, 1, n) \in Seq(Parts) /\ Len(SubSeq(u, 1, n)) = n
    BY <1>1
  <2>2. \A i \in 1..n : SubSeq(u, 1, n)[i] = d[i]
    BY <1>1
  <2> QED
    BY <2>1, <2>2
<1>3. SubSeq(d, 1, n) = d
  OBVIOUS
<1>4. d \in CommonPrefixes(U)
  <2>1. \A u \in U : IsPrefix(d, u)
    BY <1>1, <1>2, <1>3 DEF IsPrefix
  <2>2. n \in 0..Len(v)
    BY <1>1
  <2>3. d \in Prefixes(v)
    BY <1>2, <2>2 DEF Prefixes
  <2>4. d \in UNION {Prefixes(u) : u \in U}
    BY <2>3
  <2> QED
    BY <2>1, <2>4 DEF CommonPrefixes
<1>5. ASSUME NEW q \in CommonPrefixes(U)
      PROVE  q \in Seq(Parts) /\ Len(q) <= n /\ (Len(q) = n => q = d)
  <2>1. PICK s \in U : q \in Prefixes(s)
    BY DEF CommonPrefixes
  <2>2. PICK l \in 0..Len(s) : q = SubSeq(s, 1, l)
    BY <2>1 DEF Prefixes
  <2>3. q \in Seq(Parts) /\ Len(q) = l /\ l \in Nat
    BY <1>1, <2>2
  <2>4. ASSUME NEW u \in U, NEW i \in 1..l
        PROVE  q[i] = u[i]
    <3>1. l <= Len(u) /\ SubSeq(q, 1, l) = SubSeq(u, 1, l)
      BY <2>3 DEF CommonPrefixes, IsPrefix
    <3>2. SubSeq(q, 1, l)[i] = q[i]
      BY <2>3
    <3>3. SubSeq(u, 1, l)[i] = u[i]
      BY <1>1, <2>3, <3>1
    <3> QED
      BY <3>1, <3>2, <3>3
  <2>5. l <= n
    <3> SUFFICES ASSUME n < l
                 PROVE  FALSE
      BY <1>1, <2>3
    <3>1. n + 1 \in 1..l
      BY <1>1, <2>3
    <3> QED
      BY <2>4, <3>1
  <2> QED
    BY <1>2, <2>2, <2>3, <2>5
<1> DEFINE longest == CHOOSE q \in CommonPrefixes(U) :
                        \A other \in CommonPrefixes(U) : Len(other) <= Len(q)
<1>6. \E q \in CommonPrefixes(U) : \A other \in CommonPrefixes(U) : Len(other) <= Len(q)
  BY <1>4, <1>5
<1>7. /\ longest \in CommonPrefixes(U)
      /\ \A other \in CommonPrefixes(U) : Len(other) <= Len(longest)
  BY <1>6
<1>8. LongestCommonPrefix(U) = longest
  BY DEF LongestCommonPrefix
<1> HIDE DEF longest
<1>9. n <= Len(longest) /\ Len(longest) <= n /\ Len(longest) \in Nat
  BY <1>4, <1>5, <1>7
<1> QED
  BY <1>1, <1>5, <1>7, <1>8, <1>9

\* The members of a concatenation.
LEMMA Concatenated ==
  ASSUME NEW S, NEW s \in Seq(S), NEW t \in Seq(S)
  PROVE  /\ s \o t \in Seq(S) /\ Len(s \o t) = Len(s) + Len(t)
         /\ \A i \in 1..Len(s) : (s \o t)[i] = s[i]
         /\ \A i \in 1..Len(t) : (s \o t)[Len(s) + i] = t[i]
OBVIOUS

\* The members of three sequences put together.
LEMMA Joined ==
  ASSUME NEW a \in Seq(Parts), NEW b \in Seq(Parts), NEW c \in Seq(Parts),
         NEW u, u = a \o b \o c
  PROVE  /\ u \in Seq(Parts)
         /\ Len(u) = Len(a) + Len(b) + Len(c)
         /\ \A i \in 1..Len(a) : u[i] = a[i]
         /\ \A i \in 1..Len(b) : u[Len(a) + i] = b[i]
         /\ \A i \in 1..Len(c) : u[Len(a) + Len(b) + i] = c[i]
<1> DEFINE ab == a \o b
<1>1. /\ ab \in Seq(Parts) /\ Len(ab) = Len(a) + Len(b)
      /\ \A i \in 1..Len(a) : ab[i] = a[i]
      /\ \A i \in 1..Len(b) : ab[Len(a) + i] = b[i]
  OBVIOUS
<1>2. u = ab \o c
  OBVIOUS
<1> HIDE DEF ab
<1>3. /\ u \in Seq(Parts) /\ Len(u) = Len(ab) + Len(c)
      /\ \A i \in 1..Len(ab) : u[i] = ab[i]
      /\ \A i \in 1..Len(c) : u[Len(ab) + i] = c[i]
  <2>1. ab \in Seq(Parts)
    BY <1>1
  <2>2. /\ ab \o c \in Seq(Parts) /\ Len(ab \o c) = Len(ab) + Len(c)
        /\ \A i \in 1..Len(ab) : (ab \o c)[i] = ab[i]
        /\ \A i \in 1..Len(c) : (ab \o c)[Len(ab) + i] = c[i]
    BY <2>1, Concatenated
  <2> QED
    BY <1>2, <2>2, Zenon
<1>4. Len(a) \in Nat /\ Len(b) \in Nat
  OBVIOUS
<1>5. \A i \in 1..Len(a) : u[i] = a[i]
  BY <1>1, <1>3, <1>4
<1>6. \A i \in 1..Len(b) : u[Len(a) + i] = b[i]
  BY <1>1, <1>3, <1>4
<1> QED
  BY <1>1, <1>3, <1>5, <1>6

\* The members of a reversed sequence.
LEMMA Reversed ==
  ASSUME NEW s \in Seq(Parts)
  PROVE  /\ Reverse(s) \in Seq(Parts) /\ Len(Reverse(s)) = Len(s)
         /\ \A i \in 1..Len(s) : Reverse(s)[i] = s[Len(s) - i + 1]
         /\ Reverse(Reverse(s)) = s
<1> DEFINE n == Len(s)
<1>1. n \in Nat /\ \A i \in 1..n : s[i] \in Parts /\ n - i + 1 \in 1..n /\ n - (n - i + 1) + 1 = i
  OBVIOUS
<1>2. Reverse(s) = [i \in 1..n |-> s[n - i + 1]]
  BY DEF Reverse
<1>3. Reverse(s) \in Seq(Parts) /\ Len(Reverse(s)) = n
  BY <1>1, <1>2
<1>4. Reverse(Reverse(s)) = [i \in 1..n |-> Reverse(s)[n - i + 1]]
  BY <1>3 DEF Reverse
<1>5. \A i \in 1..n : Reverse(Reverse(s))[i] = s[i]
  BY <1>1, <1>2, <1>4
<1>6. Reverse(Reverse(s)) = s
  <2>1. Reverse(Reverse(s)) \in Seq(Parts) /\ Len(Reverse(Reverse(s))) = n
    <3> DEFINE r == Reverse(s)
    <3>0. r \in Seq(Parts) /\ Len(r) = n /\ Reverse(r) = [i \in 1..n |-> r[n - i + 1]]
      BY <1>3, <1>4
    <3> HIDE DEF r, n
    <3>1. \A j \in 1..n : r[j] \in Parts
      BY <3>0
    <3>2. \A i \in 1..n : r[n - i + 1] \in Parts
      BY <1>1, <3>1
    <3>3. Reverse(r) \in Seq(Parts) /\ Len(Reverse(r)) = n
      BY <1>1, <3>0, <3>2
    <3> QED
      BY <3>3 DEF r
  <2> QED
    BY <1>5, <2>1
<1> QED
  BY <1>1, <1>2, <1>3, <1>6

\* Logos of one league whose abbreviations neither begin nor end alike.
LEMMA PatternFound ==
  ASSUME NEW U, NEW d \in Seq(Parts), NEW x \in Seq(Parts),
         \A u \in U : \E b \in Seq(Parts) : b # <<>> /\ u = d \o b \o x,
         NEW b \in Seq(Parts), NEW c \in Seq(Parts), b # <<>>, c # <<>>,
         d \o b \o x \in U, d \o c \o x \in U,
         Head(b) # Head(c), Last(b) # Last(c)
  PROVE  LongestCommonPrefix(U) = d /\ CommonSuffix(U) = x
<1> DEFINE v == d \o b \o x
           w == d \o c \o x
           R == {Reverse(u) : u \in U}
<1>1. U \subseteq Seq(Parts)
  BY Joined
<1>2. Len(b) \in Nat \ {0} /\ Len(c) \in Nat \ {0} /\ Len(d) \in Nat /\ Len(x) \in Nat
  OBVIOUS
<1>3. LongestCommonPrefix(U) = d
  <2>1. ASSUME NEW u \in U
        PROVE  Len(d) < Len(u) /\ \A i \in 1..Len(d) : u[i] = d[i]
    <3>1. PICK a \in Seq(Parts) : a # <<>> /\ u = d \o a \o x
      OBVIOUS
    <3>2. Len(a) \in Nat \ {0}
      BY <3>1
    <3>3. Len(u) = Len(d) + Len(a) + Len(x) /\ \A i \in 1..Len(d) : u[i] = d[i]
      BY <3>1, Joined
    <3> QED
      BY <1>2, <3>2, <3>3
  <2>2. v[Len(d) + 1] = b[1] /\ w[Len(d) + 1] = c[1]
    <3>1. 1 \in 1..Len(b) /\ 1 \in 1..Len(c)
      BY <1>2
    <3> QED
      BY <3>1, Joined
  <2>3. v[Len(d) + 1] # w[Len(d) + 1]
    BY <1>2, <2>2
  <2>4. v \in U /\ w \in U
    OBVIOUS
  <2> HIDE DEF v, w
  <2> QED
    BY <1>1, <2>1, <2>3, <2>4, PrefixFound
<1>4. LongestCommonPrefix(R) = Reverse(x)
  <2>1. ASSUME NEW u, NEW a \in Seq(Parts), a # <<>>, u = d \o a \o x
        PROVE  /\ Reverse(u) \in Seq(Parts) /\ Len(x) < Len(Reverse(u))
               /\ \A i \in 1..Len(x) : Reverse(u)[i] = Reverse(x)[i]
               /\ Reverse(u)[Len(x) + 1] = Last(a)
    <3>1. /\ u \in Seq(Parts) /\ Len(u) = Len(d) + Len(a) + Len(x)
          /\ \A i \in 1..Len(a) : u[Len(d) + i] = a[i]
          /\ \A i \in 1..Len(x) : u[Len(d) + Len(a) + i] = x[i]
      BY <2>1, Joined
    <3>2. Len(a) \in Nat \ {0}
      BY <2>1
    <3>3. /\ Reverse(u) \in Seq(Parts) /\ Len(Reverse(u)) = Len(u)
          /\ \A i \in 1..Len(u) : Reverse(u)[i] = u[Len(u) - i + 1]
      BY <3>1, Reversed
    <3>4. ASSUME NEW i \in 1..Len(x)
          PROVE  Reverse(u)[i] = Reverse(x)[i]
      <4>1. Reverse(x)[i] = x[Len(x) - i + 1]
        BY Reversed
      <4>2. i \in 1..Len(u) /\ Len(u) - i + 1 = Len(d) + Len(a) + (Len(x) - i + 1)
        BY <1>2, <3>1, <3>2
      <4>3. Len(x) - i + 1 \in 1..Len(x)
        BY <1>2
      <4> QED
        BY <3>1, <3>3, <4>1, <4>2, <4>3
    <3>5. Reverse(u)[Len(x) + 1] = Last(a)
      <4>1. Len(x) + 1 \in 1..Len(u) /\ Len(u) - (Len(x) + 1) + 1 = Len(d) + Len(a)
        BY <1>2, <3>1, <3>2
      <4>2. Len(a) \in 1..Len(a)
        BY <3>2
      <4> QED
        BY <3>1, <3>3, <4>1, <4>2 DEF Last
    <3> QED
      BY <1>2, <3>1, <3>2, <3>3, <3>4, <3>5
  <2>2. Reverse(x) \in Seq(Parts) /\ Len(Reverse(x)) = Len(x)
    BY Reversed
  <2>3. ASSUME NEW r \in R
        PROVE  /\ r \in Seq(Parts) /\ Len(Reverse(x)) < Len(r)
               /\ \A i \in 1..Len(Reverse(x)) : r[i] = Reverse(x)[i]
    <3>1. PICK u \in U : r = Reverse(u)
      OBVIOUS
    <3>2. PICK a \in Seq(Parts) : a # <<>> /\ u = d \o a \o x
      OBVIOUS
    <3> QED
      BY <2>1, <2>2, <3>1, <3>2
  <2>4. /\ Reverse(v) \in R /\ Reverse(w) \in R
        /\ Reverse(v)[Len(Reverse(x)) + 1] # Reverse(w)[Len(Reverse(x)) + 1]
    BY <2>1, <2>2
  <2> HIDE DEF R, v, w
  <2>5. R \subseteq Seq(Parts)
    BY <2>3
  <2> QED
    BY <2>2, <2>3, <2>4, <2>5, PrefixFound
<1>5. CommonSuffix(U) = x
  BY <1>4, Reversed DEF CommonSuffix
<1> QED
  BY <1>3, <1>5

\* A set of two or more has two different members.
LEMMA TwoMembers ==
  ASSUME NEW S, Cardinality(S) >= 2
  PROVE  \E x, y \in S : x # y
<1> SUFFICES ASSUME \A x, y \in S : x = y
             PROVE  FALSE
  OBVIOUS
<1>1. S = {} \/ \E x : S = {x}
  OBVIOUS
<1>2. Cardinality(S) = 0 \/ Cardinality(S) = 1
  BY <1>1, FS_EmptySet, FS_Singleton
<1> QED
  BY <1>2

\* enrich.go:212-265 guesses what peers have, or nothing, and does not panic:
\* two different samples of a league that spells its logos apart part right after
\* the directory and right before the extension.
LEMMA PeersAgree ==
  ASSUME TypeOK, catalog \in Catalogs
  PROVE  PeersGiveTheLogo
<1> SUFFICES ASSUME SpelledApart(catalog),
                    NEW t \in Teams, catalog.abbreviation[t] # <<>>,
                    NEW sample \in Samples(t), Cardinality(sample.logos) >= 2,
                    NEW first \in sample.logos
             PROVE  FromPeers(t, sample, first) \in
                      {NoImage, <<"peers", Dir[league[t]] \o catalog.abbreviation[t] \o Ext[league[t]]>>}
  BY DEF PeersGiveTheLogo
<1> DEFINE U == sample.logos
           d == Dir[league[t]]
           x == Ext[league[t]]
<1>1. /\ catalog.logo \in [Teams -> Seq(Parts)] /\ catalog.abbreviation \in [Teams -> Seq(Parts)]
      /\ d \in Seq(Parts) /\ x \in Seq(Parts)
  BY CatalogsAssumption
<1>2. \A u \in U : \E v \in Teams :
        /\ league[v] = league[t] /\ catalog.logo[v] # <<>> /\ catalog.abbreviation[v] # <<>>
        /\ u = catalog.logo[v]
  <2>1. PICK S \in SUBSET Peers(t) :
          sample = [number |-> Cardinality(S), logos |-> {catalog.logo[teamsMap[k]] : k \in S}]
    BY DEF Samples
  <2>2. U = {catalog.logo[teamsMap[k]] : k \in S}
    BY <2>1
  <2>3. \A k \in S : /\ teamsMap[k] \in Teams /\ league[teamsMap[k]] = league[t]
                     /\ HasLogo(teamsMap[k])
    BY <2>1 DEF Peers, TypeOK
  <2> QED
    BY <2>2, <2>3 DEF HasLogo
<1>3. \A v \in Teams : /\ league[v] = league[t]
                       /\ catalog.logo[v] # <<>> /\ catalog.abbreviation[v] # <<>>
                       => catalog.logo[v] = d \o catalog.abbreviation[v] \o x
  BY DEF SpelledApart
<1>4. \A u \in U : \E b \in Seq(Parts) : b # <<>> /\ u = d \o b \o x
  <2> TAKE u \in U
  <2>1. PICK v \in Teams :
          /\ league[v] = league[t] /\ catalog.logo[v] # <<>> /\ catalog.abbreviation[v] # <<>>
          /\ u = catalog.logo[v]
    BY <1>2
  <2>2. catalog.abbreviation[v] \in Seq(Parts)
    BY <1>1
  <2> QED
    BY <1>3, <2>1, <2>2
<1>5. PICK b \in Seq(Parts), c \in Seq(Parts) :
        /\ b # <<>> /\ c # <<>> /\ d \o b \o x \in U /\ d \o c \o x \in U
        /\ Head(b) # Head(c) /\ Last(b) # Last(c)
  <2>1. PICK u \in U, w \in U : u # w
    BY TwoMembers
  <2>2. PICK p \in Teams :
          /\ league[p] = league[t] /\ catalog.logo[p] # <<>> /\ catalog.abbreviation[p] # <<>>
          /\ u = catalog.logo[p]
    BY <1>2
  <2>3. PICK q \in Teams :
          /\ league[q] = league[t] /\ catalog.logo[q] # <<>> /\ catalog.abbreviation[q] # <<>>
          /\ w = catalog.logo[q]
    BY <1>2
  <2>4. p # q
    BY <2>1, <2>2, <2>3
  <2>5. /\ Head(catalog.abbreviation[p]) # Head(catalog.abbreviation[q])
        /\ Last(catalog.abbreviation[p]) # Last(catalog.abbreviation[q])
    BY <2>2, <2>3, <2>4 DEF SpelledApart
  <2>6. /\ catalog.abbreviation[p] \in Seq(Parts) /\ catalog.abbreviation[q] \in Seq(Parts)
        /\ u = d \o catalog.abbreviation[p] \o x /\ w = d \o catalog.abbreviation[q] \o x
    BY <1>1, <1>3, <2>2, <2>3
  <2> QED
    BY <2>2, <2>3, <2>5, <2>6
<1> HIDE DEF U, d, x
<1>6. LongestCommonPrefix(U) = d /\ CommonSuffix(U) = x
  BY <1>1, <1>4, <1>5, PatternFound
<1>7. PICK a \in Seq(Parts) : first = d \o a \o x
  BY <1>4 DEF U
<1>8. Length(first) - Length(d) - Length(x) \in Nat
  <2>1. d \o a \in Seq(Parts)
    BY <1>1, Concatenated
  <2>2. /\ Length(d) \in Nat /\ Length(a) \in Nat /\ Length(x) \in Nat
        /\ Length(d \o a) = Length(d) + Length(a)
        /\ Length(first) = Length(d \o a) + Length(x)
    BY <1>1, <1>7, <2>1, LengthAdds
  <2> QED
    BY <2>2
<1>9. Spliced(first, d, x, catalog.abbreviation[t]) \in
        {NoImage, <<"peers", d \o catalog.abbreviation[t] \o x>>}
  <2> DEFINE remaining == Length(first) - Length(d) - Length(x)
  <2>1. remaining \in 0..5 \/ (remaining > 5 /\ remaining \notin 0..5)
    BY <1>8
  <2>2. ~(remaining < 0)
    BY <1>8
  <2> HIDE DEF remaining
  <2> QED
    BY <2>1, <2>2 DEF Spliced, remaining
<1> QED
  BY <1>6, <1>9 DEF FromPeers, U, d, x

-----------------------------------------------------------------------------
(* The images.                                                             *)

\* The sequences of n members, one of each set.
Pick(f, sets, i) == IF i = 0 THEN {<<>>} ELSE WithEach(f[i - 1], sets[i])
Picks(f, n, sets) == f = [i \in 0..n |-> Pick(f, sets, i)]

\* The function by which Images goes through the labels exists.
LEMMA PicksExist ==
  ASSUME NEW n \in Nat, NEW sets
  PROVE  \E f : Picks(f, n, sets)
<1> DEFINE Y == UNION {sets[i] : i \in 1..n}
           X == SUBSET Seq(Y)
           g == [i \in 1..n |-> [Z \in X |-> WithEach(Z, sets[i])]]
<1>1. ASSUME NEW i \in 1..n, NEW Z \in X
      PROVE  WithEach(Z, sets[i]) \in X
  <2>1. ASSUME NEW s \in Z, NEW u \in sets[i]
        PROVE  Append(s, u) \in Seq(Y)
    <3>1. s \in Seq(Y) /\ u \in Y
      OBVIOUS
    <3> HIDE DEF Y
    <3> QED
      BY <3>1
  <2> HIDE DEF Y
  <2> QED
    BY <2>1 DEF WithEach
<1>2. {<<>>} \in X
  <2> HIDE DEF Y
  <2> QED
    OBVIOUS
<1> HIDE DEF X
<1>3. \A i \in 1..n : g[i] \in [X -> X]
  BY <1>1
<1>4. PICK f \in [0..n -> X] : Takes(f, n, {<<>>}, g)
  <2> HIDE DEF g
  <2> QED
    BY <1>2, <1>3, Recursion
<1>5. ASSUME NEW i \in 0..n, i # 0
      PROVE  f[i] = WithEach(f[i - 1], sets[i])
  <2>1. i \in 1..n /\ i - 1 \in 0..n
    BY <1>5
  <2>2. f[i - 1] \in X
    BY <2>1
  <2>3. g[i][f[i - 1]] = WithEach(f[i - 1], sets[i])
    BY <2>1, <2>2
  <2> HIDE DEF g
  <2> QED
    BY <1>4, <2>1, <2>3 DEF Takes
<1>6. f[0] = {<<>>}
  BY <1>4 DEF Takes
<1>7. Picks(f, n, sets)
  <2>1. \A i \in 0..n : f[i] = Pick(f, sets, i)
    BY <1>5, <1>6 DEF Pick
  <2> QED
    BY <2>1 DEF Picks
<1> QED
  BY <1>7

\* Its last value has the sequences of one member of each set.
LEMMA PicksPick ==
  ASSUME NEW n \in Nat, NEW sets, NEW f, Picks(f, n, sets), NEW s \in f[n]
  PROVE  s \in Seq(UNION {sets[i] : i \in 1..n}) /\ Len(s) = n /\ \A i \in 1..n : s[i] \in sets[i]
<1> DEFINE Y == UNION {sets[i] : i \in 1..n}
           Good(k) == {q \in Seq(Y) : Len(q) = k /\ \A i \in 1..k : q[i] \in sets[i]}
           K == {k \in 0..n : f[k] \subseteq Good(k)}
<1>1. f[0] = {<<>>} /\ \A i \in 1..n : f[i] = WithEach(f[i - 1], sets[i])
  <2>1. \A i \in 0..n : f[i] = Pick(f, sets, i)
    BY DEF Picks
  <2> QED
    BY <2>1 DEF Pick
<1>2. \A i \in 1..n : sets[i] \subseteq Y
  OBVIOUS
<1> HIDE DEF Y
<1>3. 0 \in K
  <2>1. <<>> \in Good(0)
    OBVIOUS
  <2> HIDE DEF Good
  <2> QED
    BY <1>1, <2>1
<1>4. ASSUME NEW k \in 1..n, k - 1 \in K
      PROVE  k \in K
  <2>1. ASSUME NEW q \in f[k - 1], NEW u \in sets[k]
        PROVE  Append(q, u) \in Good(k)
    <3>1. q \in Seq(Y) /\ Len(q) = k - 1 /\ \A i \in 1..(k - 1) : q[i] \in sets[i]
      BY <1>4
    <3>2. u \in Y /\ k \in Nat
      BY <1>2
    <3>3. /\ Append(q, u) \in Seq(Y) /\ Len(Append(q, u)) = k /\ Append(q, u)[k] = u
          /\ \A i \in 1..(k - 1) : Append(q, u)[i] = q[i]
      BY <3>1, <3>2
    <3>4. \A i \in 1..k : i = k \/ i \in 1..(k - 1)
      BY <3>2
    <3> QED
      BY <3>1, <3>3, <3>4
  <2>2. \A r \in f[k] : r \in Good(k)
    <3>1. f[k] = WithEach(f[k - 1], sets[k])
      BY <1>1
    <3> HIDE DEF Good
    <3>2. ASSUME NEW r \in WithEach(f[k - 1], sets[k])
          PROVE  \E q \in f[k - 1], u \in sets[k] : r = Append(q, u)
      BY DEF WithEach
    <3> TAKE r \in f[k]
    <3>3. PICK q \in f[k - 1], u \in sets[k] : r = Append(q, u)
      BY <3>1, <3>2
    <3> QED
      BY <2>1, <3>3
  <2> QED
    BY <2>2
<1>5. n \in K
  <2> HIDE DEF K
  <2>1. 0..n \subseteq K
    BY <1>3, <1>4, Counting
  <2> QED
    BY <2>1
<1> QED
  BY <1>5 DEF Y

\* transform_v2.go asks once for each label, and shows what it was given.
LEMMA ImagesShow ==
  ASSUME NEW e, NEW S, NEW labels \in Seq(S), NEW images \in Images(e, labels)
  PROVE  /\ DOMAIN images = 1..Len(labels)
         /\ \A i \in 1..Len(labels) : images[i] \in ImagesOf(e, labels[i])
<1> DEFINE n == Len(labels)
           sets == [i \in 1..n |-> ImagesOf(e, labels[i])]
           Shown(f, i) == IF i = 0 THEN {<<>>}
                          ELSE WithEach(f[i - 1], ImagesOf(e, labels[i]))
           F == CHOOSE f : f = [i \in 0..n |-> Shown(f, i)]
<1>1. n \in Nat
  OBVIOUS
<1>2. \E f : Picks(f, n, sets)
  <2> HIDE DEF n, sets
  <2> QED
    BY <1>1, PicksExist
<1>3. ASSUME NEW f
      PROVE  /\ Picks(f, n, sets) => f = [i \in 0..n |-> Shown(f, i)]
             /\ f = [i \in 0..n |-> Shown(f, i)] => Picks(f, n, sets)
  <2>1. \A i \in 0..n : Pick(f, sets, i) = Shown(f, i)
    <3> HIDE DEF n
    <3>1. \A i \in 0..n : i # 0 => sets[i] = ImagesOf(e, labels[i])
      BY <1>1
    <3> HIDE DEF sets
    <3> QED
      BY <3>1 DEF Pick
  <2> HIDE DEF Shown, n, sets
  <2> QED
    BY <2>1, Zenon DEF Picks
<1>4. Picks(F, n, sets)
  <2>1. PICK f : Picks(f, n, sets)
    BY <1>2
  <2> HIDE DEF Shown, sets, n
  <2>2. f = [i \in 0..n |-> Shown(f, i)]
    BY <1>3, <2>1
  <2>3. F = [i \in 0..n |-> Shown(F, i)]
    BY <2>2, Zenon
  <2> HIDE DEF F
  <2> QED
    BY <1>3, <2>3
<1>5. Images(e, labels) = F[n]
  BY DEF Images
<1> HIDE DEF F, n, sets
<1>6. Len(images) = n /\ images \in Seq(UNION {sets[i] : i \in 1..n}) /\ \A i \in 1..n : images[i] \in sets[i]
  <2>1. images \in F[n]
    BY <1>5
  <2> QED
    BY <1>1, <1>4, <2>1, PicksPick
<1>7. DOMAIN images = 1..n
  BY <1>6
<1> QED
  BY <1>6, <1>7 DEF n, sets

-----------------------------------------------------------------------------
(* The markets of an event.                                                *)

\* What At keeps.
LEMMA AtMembers ==
  ASSUME NEW S, NEW s \in Seq(S), NEW I \in SUBSET DOMAIN s, NEW c, c = Cardinality(I)
  PROVE  /\ c \in Nat /\ At(s, I) \in Seq(S) /\ Len(At(s, I)) = c
         /\ \A i \in 1..c : \E n \in I : At(s, I)[i] = s[n]
         /\ \A n \in I : \E i \in 1..c : At(s, I)[i] = s[n]
         /\ \A n \in I : (\A m \in I : n <= m) => 1 \in 1..c /\ At(s, I)[1] = s[n]
<1>1. c \in Nat /\ \A n \in I : s[n] \in S
  BY DomainFinite
<1>2. PICK p : /\ Numbers(p, c, I) /\ Lists(At(s, I), c, s, p)
               /\ \A n \in I : (\A m \in I : n <= m) => p[1] = n
  BY AtSelects
<1>3. (\A i \in 1..c : p[i] \in I) /\ (\A n \in I : \E i \in 1..c : p[i] = n)
  BY <1>2 DEF Numbers
<1>4. At(s, I) = [i \in 1..c |-> s[p[i]]]
  BY <1>2 DEF Lists
<1>5. At(s, I) \in Seq(S) /\ Len(At(s, I)) = c
  BY <1>1, <1>3, <1>4
<1>6. \A n \in I : (\A m \in I : n <= m) => 1 \in 1..c /\ At(s, I)[1] = s[n]
  <2> SUFFICES ASSUME NEW n \in I, \A m \in I : n <= m
               PROVE  1 \in 1..c /\ At(s, I)[1] = s[n]
    OBVIOUS
  <2>1. 1 \in 1..c
    BY <1>1, <1>3
  <2> QED
    BY <1>2, <1>4, <2>1
<1> QED
  BY <1>1, <1>3, <1>4, <1>5, <1>6

\* p numbers first what f does, then what g does.
Follows(p, c, f, d, g) == /\ \A i \in 1..c : p[i] = f[i]
                          /\ \A i \in 1..d : p[c + i] = g[i]

\* The numbers of two parts of 1..n, one after the other.
LEMMA Glued ==
  ASSUME NEW n \in Nat, NEW c \in Nat, NEW d \in Nat, c + d = n,
         NEW I, NEW J, I \cap J = {}, I \cup J = 1..n,
         NEW f, Numbers(f, c, I), NEW g, Numbers(g, d, J)
  PROVE  \E p : Numbers(p, n, 1..n) /\ Follows(p, c, f, d, g)
<1>1. /\ \A i \in 1..c : f[i] \in I
      /\ \A i, j \in 1..c : f[i] = f[j] => i = j
      /\ \A k \in I : \E i \in 1..c : f[i] = k
  BY DEF Numbers
<1>2. /\ \A i \in 1..d : g[i] \in J
      /\ \A i, j \in 1..d : g[i] = g[j] => i = j
      /\ \A k \in J : \E i \in 1..d : g[i] = k
  BY DEF Numbers
<1> DEFINE p == [i \in 1..n |-> IF i <= c THEN f[i] ELSE g[i - c]]
<1>3. \A i \in 1..n : i \notin 1..c => i - c \in 1..d
  OBVIOUS
<1>4. \A i \in 1..c : i \in 1..n /\ p[i] = f[i]
  OBVIOUS
<1>5. \A i \in 1..d : c + i \in 1..n /\ p[c + i] = g[i]
  <2> TAKE i \in 1..d
  <2>1. c + i \in 1..n /\ ~(c + i <= c) /\ (c + i) - c = i
    OBVIOUS
  <2> QED
    BY <2>1
<1>6. \A i \in 1..n : i \notin 1..c => p[i] = g[i - c]
  OBVIOUS
<1>7. ASSUME NEW i \in 1..n
      PROVE  p[i] \in 1..n
  <2> HIDE DEF p
  <2> QED
    BY <1>1, <1>2, <1>3, <1>4, <1>6
<1> HIDE DEF p
<1>9. ASSUME NEW i \in 1..n, NEW j \in 1..n, p[i] = p[j]
      PROVE  i = j
  <2>1. CASE i \in 1..c /\ j \in 1..c
    BY <1>1, <1>4, <1>9, <2>1
  <2>2. CASE i \notin 1..c /\ j \notin 1..c
    <3>1. i - c = j - c
      BY <1>2, <1>3, <1>6, <1>9, <2>2
    <3> QED
      BY <3>1
  <2>3. CASE i \in 1..c /\ j \notin 1..c
    BY <1>1, <1>2, <1>3, <1>4, <1>6, <1>9, <2>3
  <2>4. CASE i \notin 1..c /\ j \in 1..c
    BY <1>1, <1>2, <1>3, <1>4, <1>6, <1>9, <2>4
  <2> QED
    BY <2>1, <2>2, <2>3, <2>4
<1>10. ASSUME NEW k \in 1..n
       PROVE  \E i \in 1..n : p[i] = k
  <2>1. CASE k \in I
    BY <1>1, <1>4, <2>1
  <2>2. CASE k \in J
    <3>1. PICK i \in 1..d : g[i] = k
      BY <1>2, <2>2
    <3> QED
      BY <1>5, <3>1
  <2> QED
    BY <2>1, <2>2
<1>11. Numbers(p, n, 1..n)
  BY <1>7, <1>9, <1>10 DEF Numbers
<1>12. Follows(p, c, f, d, g)
  BY <1>4, <1>5 DEF Follows
<1> QED
  BY <1>11, <1>12

\* First the elements in I, then the others.
LEMMA Rearranged ==
  ASSUME NEW S, NEW s \in Seq(S), NEW n, n = Len(s),
         NEW I \in SUBSET DOMAIN s, NEW J, J = DOMAIN s \ I
  PROVE  \E p : Numbers(p, n, 1..n) /\ Lists(At(s, I) \o At(s, J), n, s, p)
<1>1. n \in Nat /\ DOMAIN s = 1..n
  OBVIOUS
<1>2. J \in SUBSET DOMAIN s /\ I \cap J = {} /\ I \cup J = 1..n
  BY <1>1
<1>3. /\ IsFiniteSet(I) /\ Cardinality(I) \in Nat
      /\ IsFiniteSet(J) /\ Cardinality(J) \in Nat
  BY <1>2, DomainFinite
<1>4. PICK c \in Nat : c = Cardinality(I)
  BY <1>3
<1>5. PICK d \in Nat : d = Cardinality(J)
  BY <1>3
<1>6. c + d = n
  <2>1. Cardinality(I \cup J) = Cardinality(I) + Cardinality(J) - Cardinality(I \cap J)
    BY <1>3, FS_Union
  <2>2. Cardinality(I \cup J) = n /\ Cardinality(I \cap J) = 0
    BY <1>1, <1>2, IntervalSize, FS_EmptySet
  <2> QED
    BY <1>4, <1>5, <2>1, <2>2
<1>7. PICK f : Numbers(f, c, I) /\ Lists(At(s, I), c, s, f)
  BY <1>4, AtSelects
<1>8. PICK g : Numbers(g, d, J) /\ Lists(At(s, J), d, s, g)
  BY <1>2, <1>5, AtSelects
<1>9. PICK p : Numbers(p, n, 1..n) /\ Follows(p, c, f, d, g)
  BY <1>1, <1>2, <1>6, <1>7, <1>8, Glued
<1>10. PICK a \in Seq(S) : a = At(s, I) /\ Len(a) = c
  BY <1>4, AtMembers
<1>11. PICK b \in Seq(S) : b = At(s, J) /\ Len(b) = d
  BY <1>2, <1>5, AtMembers
<1>12. PICK l \in Seq(S) : /\ l = a \o b /\ Len(l) = n
                           /\ \A i \in 1..c : l[i] = a[i]
                           /\ \A i \in 1..d : l[c + i] = b[i]
  <2>1. /\ a \o b \in Seq(S) /\ Len(a \o b) = Len(a) + Len(b)
        /\ \A i \in 1..Len(a) : (a \o b)[i] = a[i]
        /\ \A i \in 1..Len(b) : (a \o b)[Len(a) + i] = b[i]
    BY Concatenated
  <2>2. /\ Len(a \o b) = n
        /\ \A i \in 1..c : (a \o b)[i] = a[i]
        /\ \A i \in 1..d : (a \o b)[c + i] = b[i]
    BY <1>6, <1>10, <1>11, <2>1
  <2> QED
    BY <2>1, <2>2, Zenon
<1>13. ASSUME NEW i \in 1..n
       PROVE  l[i] = s[p[i]]
  <2>1. CASE i \in 1..c
    BY <1>7, <1>9, <1>10, <1>12, <2>1 DEF Lists, Follows
  <2>2. CASE i \notin 1..c
    <3>1. PICK k \in 1..d : i = c + k
      <4>1. i - c \in 1..d /\ i = c + (i - c)
        BY <1>1, <1>6, <2>2
      <4> QED
        BY <4>1
    <3>2. b[k] = s[g[k]]
      BY <1>8, <1>11, <3>1 DEF Lists
    <3> QED
      BY <1>9, <1>12, <3>1, <3>2 DEF Follows
  <2> QED
    BY <2>1, <2>2
<1>14. Lists(l, n, s, p)
  BY <1>12, <1>13, ListsEach
<1> QED
  BY <1>9, <1>10, <1>11, <1>12, <1>14

\* GetEventsV2 reorders the markets.
LEMMA ListedReorders ==
  ASSUME NEW e, e.markets \in Seq(Market), NEW n, n = Len(e.markets)
  PROVE  \E p : Numbers(p, n, 1..n) /\ Lists(Listed(e), n, e.markets, p)
<1>1. CASE ~IsSportsEvent(e)
  <2> DEFINE p == [i \in 1..n |-> i]
  <2>1. Numbers(p, n, 1..n)
    BY DEF Numbers
  <2>2. Lists(Listed(e), n, e.markets, p)
    <3>1. \A i \in 1..n : e.markets[i] = e.markets[p[i]]
      OBVIOUS
    <3>2. Listed(e) = e.markets
      BY <1>1 DEF Listed
    <3> HIDE DEF p
    <3> QED
      BY <3>1, <3>2, ListsEach
  <2> HIDE DEF p
  <2> QED
    BY <2>1, <2>2
<1>2. CASE IsSportsEvent(e)
  <2> DEFINE I == {i \in DOMAIN e.markets : e.markets[i].moneyline}
  <2>1. Listed(e) = At(e.markets, I) \o At(e.markets, DOMAIN e.markets \ I)
    BY <1>2 DEF Listed
  <2>2. I \in SUBSET DOMAIN e.markets
    OBVIOUS
  <2> HIDE DEF I
  <2>3. \E p : /\ Numbers(p, n, 1..n)
               /\ Lists(At(e.markets, I) \o At(e.markets, DOMAIN e.markets \ I), n, e.markets, p)
    BY <2>2, Rearranged
  <2> QED
    BY <2>1, <2>3
<1> QED
  BY <1>1, <1>2

\* The page lists as many markets as came.
LEMMA ListedMarkets ==
  ASSUME NEW e, e.markets \in Seq(Market)
  PROVE  Listed(e) \in Seq(Market) /\ Len(Listed(e)) = Len(e.markets)
<1>1. PICK n \in Nat : n = Len(e.markets)
  OBVIOUS
<1>2. PICK p : Numbers(p, n, 1..n) /\ Lists(Listed(e), n, e.markets, p)
  BY <1>1, ListedReorders
<1>3. \A i \in 1..n : e.markets[p[i]] \in Market
  <2>1. \A i \in 1..n : p[i] \in 1..n
    BY <1>2 DEF Numbers
  <2>2. \A i \in 1..n : e.markets[i] \in Market
    BY <1>1
  <2> QED
    BY <2>1, <2>2
<1>4. Listed(e) = [i \in 1..n |-> e.markets[p[i]]]
  BY <1>2 DEF Lists
<1> QED
  BY <1>1, <1>3, <1>4

\* The fields of a market.
LEMMA MarketFields ==
  ASSUME NEW m \in Market
  PROVE  /\ m.title \in Labels \cup {NoLabel} /\ m.question \in Labels
         /\ m.sides \in Seq(Labels) /\ m.prices \in Seq(Nat)
         /\ m.liquidity \in Nat /\ m.moneyline \in BOOLEAN
BY DEF Market

\* The members of a sequence of markets are markets.
LEMMA MarketsOf ==
  ASSUME NEW ms \in Seq(Market), NEW i \in DOMAIN ms
  PROVE  ms[i] \in Market
OBVIOUS

\* Min takes the least number.
LEMMA MinIsLeast ==
  ASSUME NEW S, S \subseteq Nat, S # {}
  PROVE  Min(S) \in S /\ \A x \in S : Min(S) <= x
BY LeastNumber DEF Min

\* The first moneyline market, if there is one.
LEMMA FirstLine ==
  ASSUME NEW ms \in Seq(Market), NEW k, k = SelectInSeq(ms, LAMBDA m : m.moneyline)
  PROVE  \/ k = 0 /\ \A i \in DOMAIN ms : ~ms[i].moneyline
         \/ /\ k \in DOMAIN ms /\ ms[k].moneyline
            /\ \A i \in DOMAIN ms : ms[i].moneyline => k <= i
<1> DEFINE I == {i \in 1..Len(ms) : ms[i].moneyline}
<1>1. k = IF I # {} THEN Min(I) ELSE 0
  BY DEF SelectInSeq
<1>2. I \subseteq Nat /\ DOMAIN ms = 1..Len(ms)
  OBVIOUS
<1>3. CASE I = {}
  BY <1>1, <1>2, <1>3
<1>4. CASE I # {}
  <2>1. k \in I /\ \A i \in I : k <= i
    <3> HIDE DEF I
    <3> QED
      BY <1>1, <1>2, <1>4, MinIsLeast
  <2> QED
    BY <1>2, <2>1
<1> QED
  BY <1>3, <1>4

\* There is a market of the highest liquidity.
LEMMA HighestIsListed ==
  ASSUME NEW ms \in Seq(Market), ms # <<>>
  PROVE  \E i \in DOMAIN ms : HighestLiquidityMarket(ms) = ms[i]
<1>1. PICK n \in Nat \ {0} : n = Len(ms) /\ DOMAIN ms = 1..n
  OBVIOUS
<1>2. \A i \in 1..n : ms[i].liquidity \in Nat
  BY <1>1, MarketsOf, MarketFields
<1> DEFINE Tops(i, k) == \A j \in 1..k : ms[j].liquidity <= ms[i].liquidity
           K == {k \in 0..n : k = 0 \/ \E i \in 1..k : Tops(i, k)}
<1>3. ASSUME NEW k \in 1..n, k - 1 \in K
      PROVE  k \in K
  <2>1. CASE k = 1
    <3>1. Tops(1, 1)
      BY <1>2, <2>1
    <3> QED
      BY <2>1, <3>1
  <2>2. CASE k # 1
    <3>1. PICK i \in 1..(k - 1) : Tops(i, k - 1)
      BY <1>3, <2>2
    <3>2. i \in 1..k /\ k \in 1..k /\ i \in 1..n /\ \A j \in 1..k : j = k \/ j \in 1..(k - 1)
      OBVIOUS
    <3>3. CASE ms[k].liquidity <= ms[i].liquidity
      <4>1. Tops(i, k)
        BY <3>1, <3>2, <3>3
      <4> QED
        BY <3>2, <4>1
    <3>4. CASE ~(ms[k].liquidity <= ms[i].liquidity)
      <4>1. \A j \in 1..k : j \in 1..n
        OBVIOUS
      <4>2. Tops(k, k)
        BY <1>2, <3>1, <3>2, <3>4, <4>1
      <4> QED
        BY <3>2, <4>2
    <3> QED
      BY <3>3, <3>4
  <2> QED
    BY <2>1, <2>2
<1>4. n \in K
  <2>1. 0 \in K
    OBVIOUS
  <2> HIDE DEF K
  <2>2. 0..n \subseteq K
    BY <1>3, <2>1, Counting
  <2> QED
    BY <2>2
<1> DEFINE T == {i \in 1..n : Tops(i, n)}
<1>5. T # {} /\ T \subseteq Nat
  BY <1>4
<1>6. PICK i \in T : \A j \in T : i <= j
  <2> HIDE DEF T
  <2> QED
    BY <1>5, LeastNumber
<1>7. i \in 1..n /\ Tops(i, n)
  BY <1>6
<1>8. \A j \in 1..(i - 1) : ms[j].liquidity < ms[i].liquidity
  <2> SUFFICES ASSUME NEW j \in 1..(i - 1), ~(ms[j].liquidity < ms[i].liquidity)
               PROVE  FALSE
    OBVIOUS
  <2>1. j \in 1..n /\ ~(i <= j)
    BY <1>7
  <2>2. ms[j].liquidity = ms[i].liquidity
    BY <1>2, <1>7, <2>1
  <2>3. Tops(j, n)
    BY <1>7, <2>2
  <2> QED
    BY <1>6, <2>1, <2>3
<1>9. \E q \in DOMAIN ms : /\ \A j \in DOMAIN ms : ms[j].liquidity <= ms[q].liquidity
                           /\ \A j \in 1..(q - 1) : ms[j].liquidity < ms[q].liquidity
  BY <1>1, <1>7, <1>8
<1> QED
  BY <1>9 DEF HighestLiquidityMarket

\* The main market is one of those listed.
LEMMA PrimaryIsListed ==
  ASSUME NEW ms \in Seq(Market), ms # <<>>
  PROVE  \E i \in DOMAIN ms : PrimarySportsMarket(ms) = ms[i]
<1>1. PICK k : k = SelectInSeq(ms, LAMBDA m : m.moneyline)
  OBVIOUS
<1>2. CASE k = 0
  BY <1>1, <1>2, HighestIsListed DEF PrimarySportsMarket
<1>3. CASE k # 0
  <2>1. k \in DOMAIN ms
    BY <1>1, <1>3, FirstLine
  <2> QED
    BY <1>1, <1>3, <2>1 DEF PrimarySportsMarket
<1> QED
  BY <1>2, <1>3

\* The first moneyline market of a sports event is its first and its main one.
LEMMA LineLeads ==
  ASSUME NEW e, e.markets \in Seq(Market), IsSportsEvent(e),
         NEW k, k = SelectInSeq(e.markets, LAMBDA m : m.moneyline), k # 0
  PROVE  /\ k \in DOMAIN e.markets /\ e.markets[k].moneyline
         /\ Len(Listed(e)) >= 1 /\ Listed(e)[1] = e.markets[k]
         /\ PrimarySportsMarket(Listed(e)) = e.markets[k]
<1> DEFINE I == {i \in DOMAIN e.markets : e.markets[i].moneyline}
           J == DOMAIN e.markets \ I
<1>1. k \in I /\ \A i \in I : k <= i
  BY FirstLine
<1>2. Listed(e) = At(e.markets, I) \o At(e.markets, J)
  BY DEF Listed
<1>3. I \in SUBSET DOMAIN e.markets /\ J \in SUBSET DOMAIN e.markets
  OBVIOUS
<1>4. k \in DOMAIN e.markets /\ e.markets[k].moneyline
  BY <1>1
<1> HIDE DEF I, J
<1>5. PICK a \in Seq(Market) : a = At(e.markets, I) /\ 1 \in 1..Len(a) /\ a[1] = e.markets[k]
  <2>1. /\ At(e.markets, I) \in Seq(Market) /\ Len(At(e.markets, I)) = Cardinality(I)
        /\ 1 \in 1..Cardinality(I) /\ At(e.markets, I)[1] = e.markets[k]
    BY <1>1, <1>3, AtMembers
  <2> QED
    BY <2>1
<1>6. PICK b \in Seq(Market) : b = At(e.markets, J)
  BY <1>3, AtMembers
<1>7. (a \o b)[1] = a[1]
  BY <1>5, Concatenated
<1>8. PICK ms \in Seq(Market) : ms = Listed(e)
  BY ListedMarkets
<1>9. Len(ms) >= 1 /\ ms[1] = e.markets[k]
  <2>1. Len(ms) = Len(e.markets) /\ Len(e.markets) >= 1
    BY <1>4, <1>8, ListedMarkets
  <2> QED
    BY <1>2, <1>5, <1>6, <1>7, <1>8, <2>1
<1>10. SelectInSeq(ms, LAMBDA m : m.moneyline) = 1
  <2>1. PICK j : j = SelectInSeq(ms, LAMBDA m : m.moneyline)
    OBVIOUS
  <2>2. 1 \in DOMAIN ms /\ ms[1].moneyline
    BY <1>4, <1>9
  <2>3. j \in DOMAIN ms /\ j <= 1
    BY <2>1, <2>2, FirstLine
  <2> QED
    BY <2>1, <2>3
<1>11. PrimarySportsMarket(ms) = ms[1]
  BY <1>10 DEF PrimarySportsMarket
<1> QED
  BY <1>4, <1>8, <1>9, <1>11

-----------------------------------------------------------------------------
(* The page.                                                               *)

\* The labels of the participants of an event, and those of its outcomes.
Shown(e) == IF IsSportsEvent(e) THEN Participants(e) ELSE <<>>
OutcomeLabels(o) == [i \in DOMAIN o |-> o[i].label]

\* What an event became is what TransformEventV2 makes of it.
Transformed(e, a) ==
  /\ a.outcomes \in Offers(e)
  /\ a.participants = Shown(e)
  /\ a.images \in Images(e, Shown(e) \o OutcomeLabels(a.outcomes))

\* Nothing is transformed before the teams are read, nor without a market.
PageIInv ==
  /\ IInv
  /\ catalog \in Catalogs
  /\ todo \subseteq {e \in page : e.markets # <<>>}
  /\ DOMAIN answer # {} => step \in {"enrich", "unresolved"}
  /\ \A e \in DOMAIN answer : e \in page /\ e.markets # <<>> /\ Transformed(e, answer[e])

\* The teams found and the images they have depend on what was read only.
LEMMA TeamsStay ==
  ASSUME UNCHANGED <<vars, catalog>>, NEW e, NEW l
  PROVE  /\ EventLeagueSlug(e)' = EventLeagueSlug(e)
         /\ TeamByLabel(EventLeagueSlug(e), l)' = TeamByLabel(EventLeagueSlug(e), l)
<1>1. Known' = Known
  BY DEF vars, Known
<1>2. Templated' = Templated
  BY <1>1 DEF vars, Templated
<1>3. EventLeagueSlug(e)' = EventLeagueSlug(e)
  BY <1>1, <1>2 DEF EventLeagueSlug, Specific
<1>4. TeamByLabel(EventLeagueSlug(e), l)' = TeamByLabel(EventLeagueSlug(e), l)
  BY <1>3 DEF TeamByLabel, vars
<1> QED
  BY <1>3, <1>4

\* The logos guessed for a team, too.
LEMMA GuessesStay ==
  ASSUME UNCHANGED <<vars, catalog>>, NEW t
  PROVE  GuessedLogos(t)' = GuessedLogos(t)
<1>1. Peers(t)' = Peers(t)
  BY DEF Peers, HasLogo, vars
<1>2. Samples(t)' = Samples(t)
  BY <1>1 DEF Samples, vars
<1>3. \A sample, first : FromPeers(t, sample, first)' = FromPeers(t, sample, first)
  BY DEF FromPeers
<1> DEFINE Guess(sample) == IF sample.number < 2 THEN {NoImage}
                            ELSE {FromPeers(t, sample, first) : first \in sample.logos}
           Later(sample) == IF sample.number < 2 THEN {NoImage}
                            ELSE {FromPeers(t, sample, first)' : first \in sample.logos}
<1>4. \A sample : Later(sample) = Guess(sample)
  <2> SUFFICES ASSUME NEW sample
               PROVE  {FromPeers(t, sample, first)' : first \in sample.logos} =
                      {FromPeers(t, sample, first) : first \in sample.logos}
    BY Zenon
  <2> QED
    BY <1>3
<1>5. UNION {Later(sample) : sample \in Samples(t)} = UNION {Guess(sample) : sample \in Samples(t)}
  <2> HIDE DEF Guess, Later
  <2> QED
    BY <1>4
<1>6. GuessedLogos(t) = IF catalog.abbreviation[t] = <<>> THEN {NoImage}
                        ELSE UNION {Guess(sample) : sample \in Samples(t)}
  BY Zenon DEF GuessedLogos
<1>7. GuessedLogos(t)' = IF catalog.abbreviation[t] = <<>> THEN {NoImage}
                         ELSE UNION {Later(sample) : sample \in Samples(t)}
  BY <1>2, Zenon DEF GuessedLogos
<1> QED
  BY <1>5, <1>6, <1>7, Zenon

\* So do the tiers after them.
LEMMA FallbackStays ==
  ASSUME UNCHANGED <<vars, catalog>>, NEW e, NEW g, NEW t, NEW l
  PROVE  Fallback(e, g, t, l)' = Fallback(e, g, t, l)
<1>1. Templated' = Templated
  BY DEF vars, Templated, Known
<1>2. DeriveTeamLogoURL(g, t, e, l)' = DeriveTeamLogoURL(g, t, e, l)
  BY <1>1 DEF DeriveTeamLogoURL, Abbreviated, vars
<1> QED
  BY <1>2 DEF Fallback

\* And so do the images an event may show.
LEMMA ImagesStay ==
  ASSUME UNCHANGED <<vars, catalog>>, NEW e, NEW labels
  PROVE  Images(e, labels)' = Images(e, labels)
<1>1. ASSUME NEW l
      PROVE  ResolveTeamImage(e, l)' = ResolveTeamImage(e, l)
  <2>1. PICK g : g = EventLeagueSlug(e)
    OBVIOUS
  <2>2. PICK t : t = TeamByLabel(g, l)
    OBVIOUS
  <2>3. EventLeagueSlug(e)' = g
    BY <2>1, TeamsStay
  <2>4. TeamByLabel(g, l)' = t
    BY <2>2 DEF TeamByLabel, vars
  <2>5. GuessedLogos(t)' = GuessedLogos(t) /\ Fallback(e, g, t, l)' = Fallback(e, g, t, l)
    BY GuessesStay, FallbackStays
  <2>6. {IF u = NoImage THEN Fallback(e, g, t, l)' ELSE u : u \in GuessedLogos(t)'} =
        {IF u = NoImage THEN Fallback(e, g, t, l) ELSE u : u \in GuessedLogos(t)}
    BY <2>5, Zenon
  <2>7. catalog' = catalog
    OBVIOUS
  <2>8. ResolveTeamImage(e, l) =
          IF t = NoTeam THEN {Fallback(e, g, t, l)}
          ELSE IF catalog.logo[t] # <<>> THEN {<<"logo", t>>}
          ELSE {IF u = NoImage THEN Fallback(e, g, t, l) ELSE u : u \in GuessedLogos(t)}
    BY <2>1, <2>2, Zenon DEF ResolveTeamImage
  <2>9. ResolveTeamImage(e, l)' =
          IF t = NoTeam THEN {Fallback(e, g, t, l)'}
          ELSE IF catalog.logo[t] # <<>> THEN {<<"logo", t>>}
          ELSE {IF u = NoImage THEN Fallback(e, g, t, l)' ELSE u : u \in GuessedLogos(t)'}
    BY <2>3, <2>4, <2>7, Zenon DEF ResolveTeamImage
  <2> QED
    BY <2>5, <2>6, <2>8, <2>9, Zenon
<1>2. \A l : ImagesOf(e, l)' = ImagesOf(e, l)
  BY <1>1, Zenon DEF ImagesOf
<1> DEFINE Step(f, i) == IF i = 0 THEN {<<>>} ELSE WithEach(f[i - 1], ImagesOf(e, labels[i]))
           Later(f, i) == IF i = 0 THEN {<<>>} ELSE WithEach(f[i - 1], ImagesOf(e, labels[i])')
<1>3. \A f, i : Later(f, i) = Step(f, i)
  BY <1>2, Zenon
<1>4. \A f : [i \in 0..Len(labels) |-> Later(f, i)] = [i \in 0..Len(labels) |-> Step(f, i)]
  BY <1>3, Zenon
<1>5. (CHOOSE f : f = [i \in 0..Len(labels) |-> Later(f, i)]) =
      (CHOOSE f : f = [i \in 0..Len(labels) |-> Step(f, i)])
  BY <1>4, Zenon
<1>6. Images(e, labels) = (CHOOSE f : f = [i \in 0..Len(labels) |-> Step(f, i)])[Len(labels)]
  BY Zenon DEF Images
<1>7. Images(e, labels)' = (CHOOSE f : f = [i \in 0..Len(labels) |-> Later(f, i)])[Len(labels)]
  BY Zenon DEF Images
<1> QED
  BY <1>5, <1>6, <1>7, Zenon

\* Nothing is answered at first.
LEMMA PageInitHolds == PageInit => PageIInv
<1> SUFFICES ASSUME PageInit
             PROVE  PageIInv
  OBVIOUS
<1>1. IInv
  BY InitHolds DEF PageInit
<1>2. DOMAIN answer = {}
  BY DEF PageInit
<1> QED
  BY <1>1, <1>2 DEF PageInit, PageIInv

\* TransformEventV2 adds what it makes of an event, Crash drops everything, and
\* the steps of TeamResolve come before any answer.
LEMMA PageNextKeeps == PageIInv /\ [PageNext]_pageVars => PageIInv'
<1> SUFFICES ASSUME PageIInv, [PageNext]_pageVars
             PROVE  PageIInv'
  OBVIOUS
<1> USE DEF PageIInv
<1>1. CASE Resolving
  <2>1. IInv'
    BY <1>1, NextKeeps DEF Resolving
  <2>2. DOMAIN answer = {} /\ page' = page
    BY <1>1 DEF Resolving, Next, QueryAllLeagues, QueryAllLeaguesFails, QueryTeamsResolved,
                MergeRow, Merged, QueryTeamsResolvedFails
  <2> QED
    BY <1>1, <2>1, <2>2 DEF Resolving
<1>2. CASE TransformEventV2
  <2>1. UNCHANGED vars /\ UNCHANGED catalog
    BY <1>2 DEF TransformEventV2
  <2>2. IInv'
    BY <2>1, NextKeeps
  <2>3. PICK e : e = NextEvent
    OBVIOUS
  <2>4. e \in todo /\ step \in {"enrich", "unresolved"}
    BY <1>2, <2>3 DEF TransformEventV2, Transforming, NextEvent
  <2>5. PICK outcomes \in Offers(e) :
          \E images \in Images(e, Shown(e) \o OutcomeLabels(outcomes)) :
            /\ answer' = [x \in DOMAIN answer \cup {e} |-> IF x # e THEN answer[x] ELSE
                 [outcomes |-> outcomes, participants |-> Shown(e), images |-> images]]
            /\ todo' = todo \ {e}
    <3> DEFINE Becomes(f, o, images) ==
          /\ answer' = [x \in DOMAIN answer \cup {f} |-> IF x # f THEN answer[x] ELSE
               [outcomes |-> o, participants |-> Shown(f), images |-> images]]
          /\ todo' = todo \ {f}
    <3>1. \E o \in Offers(NextEvent) :
            \E images \in Images(NextEvent, Shown(NextEvent) \o
                                           [i \in DOMAIN o |-> o[i].label]) :
              Becomes(NextEvent, o, images)
      BY <1>2 DEF TransformEventV2, Shown
    <3> HIDE DEF Becomes
    <3>2. \E o \in Offers(e) : \E images \in Images(e, Shown(e) \o OutcomeLabels(o)) :
            Becomes(e, o, images)
      BY <2>3, <3>1 DEF OutcomeLabels
    <3> QED
      BY <3>2 DEF Becomes
  <2>6. PICK images \in Images(e, Shown(e) \o OutcomeLabels(outcomes)) :
            /\ answer' = [x \in DOMAIN answer \cup {e} |-> IF x # e THEN answer[x] ELSE
                 [outcomes |-> outcomes, participants |-> Shown(e), images |-> images]]
            /\ todo' = todo \ {e}
    BY <2>5
  <2>7. ASSUME NEW x \in DOMAIN answer'
        PROVE  /\ x \in page' /\ x.markets # <<>>
               /\ Transformed(x, answer'[x])
    <3>1. CASE x = e
      <4>1. e \in page /\ e.markets # <<>> /\ page' = page
        BY <2>1, <2>4 DEF vars
      <4>2. answer'[e] = [outcomes |-> outcomes, participants |-> Shown(e), images |-> images]
        BY <2>6
      <4> QED
        BY <3>1, <4>1, <4>2 DEF Transformed
    <3>2. CASE x # e
      <4>1. x \in DOMAIN answer /\ answer'[x] = answer[x]
        BY <2>6, <3>2
      <4> QED
        BY <2>1, <4>1 DEF vars
    <3> QED
      BY <3>1, <3>2
  <2>8. ASSUME NEW x \in DOMAIN answer'
        PROVE  Transformed(x, answer[x])'
    <3>1. PICK a : a = answer'[x]
      OBVIOUS
    <3>2. Images(x, Shown(x) \o OutcomeLabels(a.outcomes))' =
          Images(x, Shown(x) \o OutcomeLabels(a.outcomes))
      <4>1. PICK labels : labels = Shown(x) \o OutcomeLabels(a.outcomes)
        OBVIOUS
      <4>2. Images(x, labels)' = Images(x, labels)
        BY <2>1, ImagesStay
      <4> QED
        BY <4>1, <4>2
    <3> QED
      BY <2>7, <3>1, <3>2 DEF Transformed
  <2> QED
    BY <2>1, <2>2, <2>4, <2>6, <2>7, <2>8 DEF vars
<1>3. CASE Crash
  <2>1. UNCHANGED vars /\ UNCHANGED catalog /\ DOMAIN answer' = {} /\ todo' = {}
    BY <1>3 DEF Crash
  <2>2. IInv'
    BY <2>1, NextKeeps
  <2> QED
    BY <2>1, <2>2
<1>4. CASE UNCHANGED pageVars
  <2>1. UNCHANGED vars /\ UNCHANGED catalog /\ UNCHANGED todo /\ UNCHANGED answer
    BY <1>4 DEF pageVars
  <2>2. IInv'
    BY <2>1, NextKeeps
  <2>3. ASSUME NEW x \in DOMAIN answer
        PROVE  Transformed(x, answer[x])'
    <3>1. PICK a : a = answer[x]
      OBVIOUS
    <3>2. Images(x, Shown(x) \o OutcomeLabels(a.outcomes))' =
          Images(x, Shown(x) \o OutcomeLabels(a.outcomes))
      <4>1. PICK labels : labels = Shown(x) \o OutcomeLabels(a.outcomes)
        OBVIOUS
      <4>2. Images(x, labels)' = Images(x, labels)
        BY <2>1, ImagesStay
      <4> QED
        BY <4>1, <4>2
    <3> QED
      BY <2>1, <3>1, <3>2 DEF Transformed
  <2> QED
    BY <2>1, <2>2, <2>3 DEF vars
<1> QED
  BY <1>1, <1>2, <1>3, <1>4 DEF PageNext

-----------------------------------------------------------------------------
(* The markets of a group by their prices.                                 *)

\* t has the markets of ms in some order.
Arrangement(t, ms) ==
  /\ t \in Seq(Market) /\ Len(t) = Len(ms)
  /\ \E p : Numbers(p, Len(ms), 1..Len(ms)) /\ Lists(t, Len(ms), ms, p)

\* Each of the first i markets is as dear as every later one.
Led(t, i) == \A k \in 1..i, m \in 1..Len(t) : k < m => YesPrice(t[k]) >= YesPrice(t[m])

\* A market without prices has the price 0.
LEMMA PricesAreNumbers ==
  ASSUME NEW m \in Market
  PROVE  YesPrice(m) \in Nat
<1>1. m.prices \in Seq(Nat)
  BY MarketFields
<1>2. m.prices # <<>> => m.prices[1] \in Nat
  BY <1>1
<1> QED
  BY <1>2 DEF YesPrice

\* The markets as they come are in some order.
LEMMA ItselfArranged ==
  ASSUME NEW ms \in Seq(Market)
  PROVE  Arrangement(ms, ms)
<1>1. PICK n \in Nat : n = Len(ms)
  OBVIOUS
<1> DEFINE p == [i \in 1..n |-> i]
<1>2. Numbers(p, n, 1..n) /\ \A i \in 1..n : ms[i] = ms[p[i]]
  BY DEF Numbers
<1> HIDE DEF p
<1>3. Lists(ms, n, ms, p)
  BY <1>1, <1>2, ListsEach
<1> QED
  BY <1>1, <1>2, <1>3 DEF Arrangement

\* q is p but for i and j.
Swaps(q, p, n, i, j) ==
  q[i] = p[j] /\ q[j] = p[i] /\ \A k \in 1..n : k # i /\ k # j => q[k] = p[k]

\* Exchanging two numbers numbers the same set.
LEMMA Transposed ==
  ASSUME NEW n, NEW i \in 1..n, NEW j \in 1..n, i # j, NEW p, Numbers(p, n, 1..n)
  PROVE  \E q : Numbers(q, n, 1..n) /\ Swaps(q, p, n, i, j)
<1> DEFINE q == [k \in 1..n |-> IF k = i THEN p[j] ELSE IF k = j THEN p[i] ELSE p[k]]
<1>1. q[i] = p[j] /\ q[j] = p[i] /\ \A k \in 1..n : k # i /\ k # j => q[k] = p[k]
  OBVIOUS
<1> HIDE DEF q
<1>2. Swaps(q, p, n, i, j)
  BY <1>1 DEF Swaps
<1> DEFINE N == 1..n
<1>3. /\ \A k \in N : p[k] \in N
      /\ \A k, m \in N : p[k] = p[m] => k = m
      /\ \A m \in N : \E k \in N : p[k] = m
      /\ i \in N /\ j \in N
  BY DEF Numbers
<1>4. q[i] = p[j] /\ q[j] = p[i] /\ \A k \in N : k # i /\ k # j => q[k] = p[k]
  BY <1>1
<1> HIDE DEF N
<1>5. \A k \in N : q[k] \in N
  BY <1>3, <1>4, Zenon
<1>6. ASSUME NEW k \in N, NEW m \in N, q[k] = q[m]
      PROVE  k = m
  <2>1. CASE k = i
    <3>1. p[j] = q[m]
      BY <1>4, <1>6, <2>1
    <3>2. m = j => p[j] = p[i]
      BY <1>4, <3>1
    <3>3. m # i /\ m # j => p[j] = p[m]
      BY <1>4, <3>1
    <3> QED
      BY <1>3, <2>1, <3>2, <3>3
  <2>2. CASE k = j
    <3>1. p[i] = q[m]
      BY <1>4, <1>6, <2>2
    <3>2. m = i => p[i] = p[j]
      BY <1>4, <3>1
    <3>3. m # i /\ m # j => p[i] = p[m]
      BY <1>4, <3>1
    <3> QED
      BY <1>3, <2>2, <3>2, <3>3
  <2>3. CASE k # i /\ k # j
    <3>1. p[k] = q[m]
      BY <1>4, <1>6, <2>3
    <3>2. m = i => p[k] = p[j]
      BY <1>4, <3>1
    <3>3. m = j => p[k] = p[i]
      BY <1>4, <3>1
    <3>4. m # i /\ m # j => p[k] = p[m]
      BY <1>4, <3>1
    <3> QED
      BY <1>3, <2>3, <3>2, <3>3, <3>4
  <2> QED
    BY <2>1, <2>2, <2>3
<1>7. \A m \in N : \E k \in N : q[k] = m
  <2> TAKE m \in N
  <2>1. PICK k \in N : p[k] = m
    BY <1>3
  <2>2. k = i => q[j] = m
    BY <1>4, <2>1
  <2>3. k = j => q[i] = m
    BY <1>4, <2>1
  <2>4. k # i /\ k # j => q[k] = m
    BY <1>4, <2>1
  <2> QED
    BY <1>3, <2>2, <2>3, <2>4
<1>8. Numbers(q, n, 1..n)
  BY <1>5, <1>6, <1>7 DEF Numbers, N
<1> QED
  BY <1>2, <1>8

\* enrich.go:481-483: an exchange loses no market.
LEMMA ExchangeArranges ==
  ASSUME NEW ms \in Seq(Market), NEW s, Arrangement(s, ms), NEW n \in Nat, n = Len(ms),
         NEW i \in 1..n, NEW j \in 1..n, NEW r, r = Exchange(s, i, j)
  PROVE  /\ Arrangement(r, ms)
         /\ \/ r = s /\ ~(j > i /\ YesPrice(s[j]) > YesPrice(s[i]))
            \/ /\ j > i /\ YesPrice(s[j]) > YesPrice(s[i])
               /\ r[i] = s[j] /\ r[j] = s[i]
               /\ \A k \in 1..n : k # i /\ k # j => r[k] = s[k]
<1>1. CASE ~(j > i /\ YesPrice(s[j]) > YesPrice(s[i]))
  BY <1>1 DEF Exchange
<1>2. CASE j > i /\ YesPrice(s[j]) > YesPrice(s[i])
  <2>1. r = [s EXCEPT ![i] = s[j], ![j] = s[i]]
    BY <1>2 DEF Exchange
  <2>2. s \in Seq(Market) /\ Len(s) = n
    BY DEF Arrangement
  <2>3. s = [k \in 1..n |-> s[k]] /\ \A k \in 1..n : s[k] \in Market
    BY <2>2
  <2>4. /\ r = [k \in 1..n |-> r[k]]
        /\ r[i] = s[j] /\ r[j] = s[i]
        /\ \A k \in 1..n : k # i /\ k # j => r[k] = s[k]
    BY <1>2, <2>1, <2>3
  <2>5. r \in Seq(Market) /\ Len(r) = n
    BY <2>3, <2>4
  <2>6. PICK p : Numbers(p, n, 1..n) /\ Lists(s, n, ms, p)
    BY DEF Arrangement
  <2>7. /\ \A k \in 1..n : p[k] \in 1..n
        /\ \A k, m \in 1..n : p[k] = p[m] => k = m
        /\ \A m \in 1..n : \E k \in 1..n : p[k] = m
        /\ \A k \in 1..n : s[k] = ms[p[k]]
    BY <2>6 DEF Numbers, Lists
  <2>8. i # j
    BY <1>2
  <2>9. PICK q : Numbers(q, n, 1..n) /\ Swaps(q, p, n, i, j)
    BY <2>6, <2>8, Transposed
  <2>10. \A k \in 1..n : r[k] = ms[q[k]]
    <3>1. q[i] = p[j] /\ q[j] = p[i] /\ \A k \in 1..n : k # i /\ k # j => q[k] = p[k]
      BY <2>9 DEF Swaps
    <3>2. r[i] = ms[q[i]] /\ r[j] = ms[q[j]]
      BY <2>4, <2>7, <3>1
    <3>3. \A k \in 1..n : k # i /\ k # j => r[k] = ms[q[k]]
      BY <2>4, <2>7, <3>1
    <3> QED
      BY <3>2, <3>3
  <2>13. Lists(r, n, ms, q)
    BY <2>5, <2>10, ListsEach
  <2>14. Arrangement(r, ms)
    BY <2>5, <2>9, <2>13 DEF Arrangement
  <2> QED
    BY <1>2, <2>4, <2>14
<1> QED
  BY <1>1, <1>2

\* What a round has done when it has come to position j.
Reached(t, ms, i, j) ==
  /\ Arrangement(t, ms)
  /\ Led(t, i - 1)
  /\ \A m \in 1..j : m > i => YesPrice(t[i]) >= YesPrice(t[m])

\* An exchange brings a round one position further.
LEMMA ExchangeReaches ==
  ASSUME NEW ms \in Seq(Market), NEW n \in Nat, n = Len(ms), NEW i \in 1..n, NEW j \in 1..n,
         NEW s, Reached(s, ms, i, j - 1)
  PROVE  Reached(Exchange(s, i, j), ms, i, j)
<1>1. PICK r : r = Exchange(s, i, j)
  OBVIOUS
<1>2. Arrangement(s, ms) /\ Led(s, i - 1) /\ \A m \in 1..(j - 1) : m > i => YesPrice(s[i]) >= YesPrice(s[m])
  BY DEF Reached
<1>3. /\ Arrangement(r, ms)
      /\ \/ r = s /\ ~(j > i /\ YesPrice(s[j]) > YesPrice(s[i]))
         \/ /\ j > i /\ YesPrice(s[j]) > YesPrice(s[i])
            /\ r[i] = s[j] /\ r[j] = s[i]
            /\ \A k \in 1..n : k # i /\ k # j => r[k] = s[k]
  BY <1>1, <1>2, ExchangeArranges
<1>4. /\ Len(s) = n /\ Len(r) = n
      /\ \A k \in 1..n : YesPrice(s[k]) \in Nat /\ YesPrice(r[k]) \in Nat
  <2>1. \A t : Arrangement(t, ms) => t \in Seq(Market) /\ Len(t) = n
    BY DEF Arrangement
  <2>2. s \in Seq(Market) /\ r \in Seq(Market) /\ Len(s) = n /\ Len(r) = n
    BY <1>2, <1>3, <2>1
  <2>3. \A k \in 1..n : s[k] \in Market /\ r[k] \in Market
    BY <2>2
  <2> QED
    BY <2>2, <2>3, PricesAreNumbers
<1>5. \A k \in 1..(i - 1), m \in 1..n : k < m => YesPrice(s[k]) >= YesPrice(s[m])
  BY <1>2, <1>4 DEF Led
<1>6. CASE r = s /\ ~(j > i /\ YesPrice(s[j]) > YesPrice(s[i]))
  <2>1. ASSUME NEW m \in 1..j, m > i
        PROVE  YesPrice(s[i]) >= YesPrice(s[m])
    <3>1. m = j \/ m \in 1..(j - 1)
      OBVIOUS
    <3> QED
      BY <1>2, <1>4, <1>6, <2>1, <3>1
  <2> QED
    BY <1>1, <1>2, <1>6, <2>1 DEF Reached
<1>7. CASE /\ j > i /\ YesPrice(s[j]) > YesPrice(s[i])
           /\ r[i] = s[j] /\ r[j] = s[i]
           /\ \A k \in 1..n : k # i /\ k # j => r[k] = s[k]
  <2>1. ASSUME NEW m \in 1..j, m > i
        PROVE  YesPrice(r[i]) >= YesPrice(r[m])
    <3>1. CASE m = j
      BY <1>4, <1>7, <3>1
    <3>2. CASE m # j
      <4>1. m \in 1..(j - 1) /\ m \in 1..n /\ m # i
        BY <2>1, <3>2
      <4>2. YesPrice(s[i]) >= YesPrice(s[m]) /\ r[m] = s[m]
        BY <1>2, <1>7, <2>1, <3>2, <4>1
      <4> QED
        BY <1>4, <1>7, <4>1, <4>2
    <3> QED
      BY <3>1, <3>2
  <2>2. ASSUME NEW k \in 1..(i - 1), NEW m \in 1..n, k < m
        PROVE  YesPrice(r[k]) >= YesPrice(r[m])
    <3>1. k \in 1..n /\ k # i /\ k # j /\ k < i /\ k < j
      BY <1>7
    <3>2. r[k] = s[k]
      BY <1>7, <3>1
    <3>3. /\ YesPrice(s[k]) >= YesPrice(s[m]) /\ YesPrice(s[k]) >= YesPrice(s[i])
          /\ YesPrice(s[k]) >= YesPrice(s[j])
      BY <1>5, <2>2, <3>1
    <3>4. r[m] \in {s[m], s[i], s[j]}
      BY <1>7
    <3> QED
      BY <3>2, <3>3, <3>4
  <2>3. Led(r, i - 1)
    BY <1>4, <2>2 DEF Led
  <2> QED
    BY <1>1, <1>3, <2>1, <2>3 DEF Reached
<1> QED
  BY <1>3, <1>6, <1>7

\* A round leaves the dearest market that is left at its position.
LEMMA RoundLeads ==
  ASSUME NEW ms \in Seq(Market), NEW n \in Nat, n = Len(ms), NEW i \in 1..n,
         NEW s, Arrangement(s, ms), Led(s, i - 1)
  PROVE  Arrangement(Round(s, i), ms) /\ Led(Round(s, i), i)
<1> DEFINE X == {t \in Seq(Market) : Arrangement(t, ms)}
           Step(f, j) == IF j = 0 THEN s ELSE Exchange(f[j - 1], i, j)
           g == [j \in 1..n |-> [t \in X |-> Exchange(t, i, j)]]
           F == CHOOSE f : f = [j \in 0..n |-> Step(f, j)]
<1>1. Len(s) = n /\ \A t : Arrangement(t, ms) => t \in X
  BY DEF Arrangement
<1>2. ASSUME NEW j \in 1..n, NEW t \in X
      PROVE  Exchange(t, i, j) \in X
  BY <1>1, ExchangeArranges
<1> HIDE DEF X
<1>3. PICK f \in [0..n -> X] : Takes(f, n, s, g)
  <2>1. \A j \in 1..n : g[j] \in [X -> X]
    BY <1>2
  <2>2. s \in X
    BY <1>1
  <2> HIDE DEF g
  <2> QED
    BY <2>1, <2>2, Recursion
<1>4. f = [j \in 0..n |-> Step(f, j)]
  <2>1. ASSUME NEW j \in 0..n, j # 0
        PROVE  f[j] = Exchange(f[j - 1], i, j)
    <3>1. j \in 1..n /\ j - 1 \in 0..n
      BY <2>1
    <3>2. f[j - 1] \in X
      BY <3>1
    <3>3. g[j][f[j - 1]] = Exchange(f[j - 1], i, j)
      BY <3>1, <3>2
    <3> HIDE DEF g
    <3> QED
      BY <1>3, <3>1, <3>3 DEF Takes
  <2>2. f[0] = s
    BY <1>3 DEF Takes
  <2>3. \A j \in 0..n : f[j] = Step(f, j)
    BY <2>1, <2>2
  <2> HIDE DEF Step
  <2> QED
    BY <2>3
<1>5. F = [j \in 0..n |-> Step(F, j)]
  <2> HIDE DEF Step
  <2> QED
    BY <1>4, Zenon
<1>6. Round(s, i) = F[n]
  BY <1>1, Zenon DEF Round
<1> HIDE DEF F
<1>7. F[0] = s /\ \A j \in 1..n : F[j] = Exchange(F[j - 1], i, j)
  <2>1. \A j \in 0..n : F[j] = Step(F, j)
    <3> HIDE DEF Step
    <3> QED
      BY <1>5
  <2> QED
    BY <2>1
<1> DEFINE K == {j \in 0..n : Reached(F[j], ms, i, j)}
<1>8. 0 \in K
  BY <1>7 DEF Reached
<1>9. ASSUME NEW j \in 1..n, j - 1 \in K
      PROVE  j \in K
  <2>1. Reached(F[j - 1], ms, i, j - 1)
    BY <1>9
  <2>2. Reached(Exchange(F[j - 1], i, j), ms, i, j)
    BY <2>1, ExchangeReaches
  <2> QED
    BY <1>7, <2>2
<1>10. Reached(F[n], ms, i, n)
  <2> HIDE DEF K
  <2>1. 0..n \subseteq K
    BY <1>8, <1>9, Counting
  <2>2. n \in K
    BY <2>1
  <2> QED
    BY <2>2 DEF K
<1>11. PICK t : t = F[n]
  OBVIOUS
<1>12. /\ Arrangement(t, ms) /\ Led(t, i - 1)
       /\ \A m \in 1..n : m > i => YesPrice(t[i]) >= YesPrice(t[m])
  BY <1>10, <1>11 DEF Reached
<1>13. Led(t, i)
  <2>1. Len(t) = n
    BY <1>12 DEF Arrangement
  <2>2. ASSUME NEW k \in 1..i, NEW m \in 1..n, k < m
        PROVE  YesPrice(t[k]) >= YesPrice(t[m])
    <3>1. CASE k = i
      BY <1>12, <2>2, <3>1
    <3>2. CASE k # i
      <4>1. k \in 1..(i - 1)
        BY <3>2
      <4> QED
        BY <1>12, <2>1, <2>2, <4>1 DEF Led
    <3> QED
      BY <3>1, <3>2
  <2> QED
    BY <2>1, <2>2 DEF Led
<1> QED
  BY <1>6, <1>11, <1>12, <1>13

\* enrich.go:479-485: the loops sort the markets, the dearest first.
LEMMA RoundsLead ==
  ASSUME NEW ms \in Seq(Market), NEW n \in Nat, n = Len(ms)
  PROVE  Arrangement(SortedMarketPrices(ms), ms) /\ Led(SortedMarketPrices(ms), n)
<1> DEFINE X == Seq(Market)
           Good(j) == {t \in X : Arrangement(t, ms) /\ Led(t, j)}
           Step(f, j) == IF j = 0 THEN ms ELSE Round(f[j - 1], j)
           g == [j \in 1..n |-> [t \in X |-> IF t \in Good(j - 1) THEN Round(t, j) ELSE ms]]
           F == CHOOSE f : f = [j \in 0..n |-> Step(f, j)]
<1>1. \A t : Arrangement(t, ms) => t \in X
  BY DEF Arrangement
<1>2. ms \in Good(0)
  <2>1. Led(ms, 0)
    BY DEF Led
  <2> QED
    BY <1>1, <2>1, ItselfArranged
<1>3. ASSUME NEW j \in 1..n, NEW t \in Good(j - 1)
      PROVE  Round(t, j) \in Good(j)
  BY <1>1, RoundLeads
<1>4. ms \in X /\ \A j : Good(j) \subseteq X
  OBVIOUS
<1> HIDE DEF X, Good
<1>5. PICK f \in [0..n -> X] : Takes(f, n, ms, g)
  <2>1. \A j \in 1..n : g[j] \in [X -> X]
    BY <1>3, <1>4
  <2> HIDE DEF g
  <2> QED
    BY <1>4, <2>1, Recursion
<1>6. ASSUME NEW j \in 1..n, f[j - 1] \in Good(j - 1)
      PROVE  f[j] = Round(f[j - 1], j)
  <2>1. f[j - 1] \in X
    BY <1>4, <1>6
  <2>2. g[j][f[j - 1]] = Round(f[j - 1], j)
    BY <1>6, <2>1
  <2> HIDE DEF g
  <2> QED
    BY <1>5, <2>2 DEF Takes
<1> DEFINE K == {j \in 0..n : f[j] \in Good(j)}
<1>7. 0 \in K
  BY <1>2, <1>5 DEF Takes
<1>8. ASSUME NEW j \in 1..n, j - 1 \in K
      PROVE  j \in K
  BY <1>3, <1>6, <1>8
<1>9. \A j \in 0..n : f[j] \in Good(j)
  <2> HIDE DEF K
  <2>1. 0..n \subseteq K
    BY <1>7, <1>8, Counting
  <2> QED
    BY <2>1 DEF K
<1>10. f = [j \in 0..n |-> Step(f, j)]
  <2>1. ASSUME NEW j \in 0..n
        PROVE  f[j] = Step(f, j)
    <3>1. CASE j = 0
      BY <1>5, <3>1 DEF Takes
    <3>2. CASE j # 0
      <4>1. j \in 1..n /\ j - 1 \in 0..n
        BY <3>2
      <4> QED
        BY <1>6, <1>9, <3>2, <4>1
    <3> QED
      BY <3>1, <3>2
  <2> HIDE DEF Step
  <2> QED
    BY <2>1
<1>11. F = [j \in 0..n |-> Step(F, j)]
  <2> HIDE DEF Step
  <2> QED
    BY <1>10, Zenon
<1>12. SortedMarketPrices(ms) = F[n]
  BY Zenon DEF SortedMarketPrices, Rounds
<1> HIDE DEF F
<1>13. F[0] = ms /\ \A j \in 1..n : F[j] = Round(F[j - 1], j)
  <2>1. \A j \in 0..n : F[j] = Step(F, j)
    <3> HIDE DEF Step
    <3> QED
      BY <1>11
  <2> QED
    BY <2>1
<1> DEFINE L == {j \in 0..n : F[j] \in Good(j)}
<1>14. 0 \in L
  BY <1>2, <1>13
<1>15. ASSUME NEW j \in 1..n, j - 1 \in L
       PROVE  j \in L
  BY <1>3, <1>13, <1>15
<1>16. F[n] \in Good(n)
  <2> HIDE DEF L
  <2>1. 0..n \subseteq L
    BY <1>14, <1>15, Counting
  <2> QED
    BY <2>1 DEF L
<1> QED
  BY <1>12, <1>16 DEF Good

-----------------------------------------------------------------------------
(* The labels an event shows.                                              *)

\* A label of the database, or Yes or No.
Words == Labels \cup {Yes, No}

\* As many offers, each with a label.
OfferedWords(o, n) == DOMAIN o = 1..n /\ \A i \in 1..n : o[i].label \in Words

\* The least of two numbers.
LEMMA MinOfTwo ==
  ASSUME NEW a \in Nat, NEW b \in Nat
  PROVE  /\ Min({a, b}) \in Nat /\ Min({a, b}) <= a /\ Min({a, b}) <= b
         /\ Min({a, b}) = a \/ Min({a, b}) = b
<1>1. {a, b} \subseteq Nat /\ {a, b} # {}
  OBVIOUS
<1>2. Min({a, b}) \in {a, b} /\ \A x \in {a, b} : Min({a, b}) <= x
  BY <1>1, MinIsLeast
<1> QED
  BY <1>2

\* The label of a market is its title or its question.
LEMMA LabelIsWord ==
  ASSUME NEW m \in Market
  PROVE  Label(m) \in Words
BY MarketFields DEF Label, Words

\* Each side of a market is an outcome.
LEMMA SidesOffered ==
  ASSUME NEW m, NEW sides \in Seq(Words)
  PROVE  /\ OfferedWords(SideOffers(m, sides), Len(sides))
         /\ \A i \in 1..Len(sides) : /\ SideOffers(m, sides)[i].market = m
                                    /\ SideOffers(m, sides)[i].label = sides[i]
<1>1. PICK n \in Nat : n = Len(sides) /\ DOMAIN sides = 1..n /\ \A i \in 1..n : sides[i] \in Words
  OBVIOUS
<1>2. PICK o : o = SideOffers(m, sides)
  OBVIOUS
<1>3. DOMAIN o = 1..n /\ \A i \in 1..n : o[i].market = m /\ o[i].label = sides[i]
  BY <1>1, <1>2 DEF SideOffers, Offer
<1> QED
  BY <1>1, <1>2, <1>3 DEF OfferedWords

\* transform_v2.go:465: each market with a title is an outcome, the first one first.
LEMMA TitlesOffered ==
  ASSUME NEW ms \in Seq(Market), NEW o, o = BuildMoneylineOutcomes(ms)
  PROVE  /\ \E n \in Nat : OfferedWords(o, n)
         /\ \A k \in DOMAIN ms : ms[k].title # NoLabel => \E i \in DOMAIN o : o[i].label = ms[k].title
         /\ 1 \in DOMAIN ms /\ ms[1].title # NoLabel => 1 \in DOMAIN o /\ o[1].market = ms[1]
<1> DEFINE I == {i \in DOMAIN ms : ms[i].title # NoLabel}
<1>1. I \in SUBSET DOMAIN ms /\ I \subseteq Nat /\ DOMAIN ms \subseteq Nat /\ \A i \in I : i >= 1
  OBVIOUS
<1>2. \A i \in I : ms[i] \in Market /\ ms[i].title \in Labels
  BY MarketsOf, MarketFields
<1>3. PICK c : c = Cardinality(I)
  OBVIOUS
<1>4. PICK t : t = At(ms, I)
  OBVIOUS
<1>5. o = [i \in DOMAIN t |-> Offer(t[i], t[i].title, YesPrice(t[i]))]
  BY <1>4 DEF BuildMoneylineOutcomes
<1>6. /\ \A k \in DOMAIN ms : ms[k].title # NoLabel => k \in I
      /\ 1 \in I => \A i \in I : 1 <= i
  BY <1>1
<1> HIDE DEF I
<1>7. /\ c \in Nat /\ t \in Seq(Market) /\ Len(t) = c
      /\ \A i \in 1..c : \E n \in I : t[i] = ms[n]
      /\ \A n \in I : \E i \in 1..c : t[i] = ms[n]
      /\ \A n \in I : (\A m \in I : n <= m) => 1 \in 1..c /\ t[1] = ms[n]
  <2>1. /\ c \in Nat /\ At(ms, I) \in Seq(Market) /\ Len(At(ms, I)) = c
        /\ \A i \in 1..c : \E n \in I : At(ms, I)[i] = ms[n]
        /\ \A n \in I : \E i \in 1..c : At(ms, I)[i] = ms[n]
        /\ \A n \in I : (\A m \in I : n <= m) => 1 \in 1..c /\ At(ms, I)[1] = ms[n]
    BY <1>1, <1>3, AtMembers
  <2> QED
    BY <1>4, <2>1, Zenon
<1>8. DOMAIN o = 1..c /\ \A i \in 1..c : o[i].market = t[i] /\ o[i].label = t[i].title
  BY <1>5, <1>7 DEF Offer
<1>9. OfferedWords(o, c)
  <2>1. ASSUME NEW i \in 1..c
        PROVE  o[i].label \in Labels
    <3>1. PICK n \in I : t[i] = ms[n]
      BY <1>7
    <3> QED
      BY <1>2, <1>8, <3>1
  <2> QED
    BY <1>8, <2>1 DEF OfferedWords, Words
<1>10. ASSUME NEW k \in DOMAIN ms, ms[k].title # NoLabel
       PROVE  \E i \in DOMAIN o : o[i].label = ms[k].title
  <2>1. PICK i \in 1..c : t[i] = ms[k]
    BY <1>6, <1>7, <1>10
  <2> QED
    BY <1>8, <2>1
<1> QED
  BY <1>6, <1>7, <1>8, <1>9, <1>10

\* The outcomes of a match have labels.
LEMMA SportsOffered ==
  ASSUME NEW ms \in Seq(Market), ms # <<>>
  PROVE  \E n \in Nat : OfferedWords(BuildSportsOutcomes(ms), n)
<1>1. PICK main \in Market : main = PrimarySportsMarket(ms)
  BY PrimaryIsListed, MarketsOf
<1>2. main.sides \in Seq(Words)
  BY MarketFields DEF Words
<1>3. \E n \in Nat : OfferedWords(SideOffers(main, main.sides), n)
  <2>1. PICK n \in Nat : n = Len(main.sides)
    BY <1>2
  <2> QED
    BY <1>2, <2>1, SidesOffered
<1>4. \E n \in Nat : OfferedWords(BuildMoneylineOutcomes(ms), n)
  BY TitlesOffered
<1> QED
  BY <1>1, <1>3, <1>4 DEF BuildSportsOutcomes

\* transform_v2.go:132-168: every market of a group is an outcome, the dearest first.
LEMMA GroupOffered ==
  ASSUME NEW ms \in Seq(Market), NEW n \in Nat, n = Len(ms), NEW o \in GroupOffers(ms)
  PROVE  /\ OfferedWords(o, n)
         /\ \E p : /\ Numbers(p, n, 1..n)
                   /\ \A i \in 1..n : /\ o[i].label = Label(ms[p[i]])
                                      /\ o[i].price = YesPrice(ms[p[i]])
                   /\ \A i \in 2..n : YesPrice(ms[p[i - 1]]) >= YesPrice(ms[p[i]])
<1>1. PICK p \in Injection(DOMAIN ms, DOMAIN ms) :
        /\ \A i \in 2..Len(ms) : YesPrice(ms[p[i - 1]]) >= YesPrice(ms[p[i]])
        /\ o = [i \in DOMAIN ms |-> Offer(ms[p[i]], Label(ms[p[i]]), YesPrice(ms[p[i]]))]
  BY DEF GroupOffers
<1>2. DOMAIN ms = 1..n
  OBVIOUS
<1>3. p \in [1..n -> 1..n] /\ \A i, j \in 1..n : p[i] = p[j] => i = j
  BY <1>2 DEF Injection, IsInjective
<1>4. \A k \in 1..n : \E i \in 1..n : p[i] = k
  <2> DEFINE N == 1..n
  <2>1. IsFiniteSet(N)
    BY IntervalSize
  <2>2. p \in Injection(N, N)
    BY <1>2
  <2> HIDE DEF N
  <2>3. p \in Surjection(N, N)
    BY <2>1, <2>2, FS_Injection
  <2> QED
    BY <2>3 DEF Surjection, N
<1>5. Numbers(p, n, 1..n)
  BY <1>3, <1>4 DEF Numbers
<1>6. \A i \in 1..n : o[i].label = Label(ms[p[i]]) /\ o[i].price = YesPrice(ms[p[i]])
  BY <1>1, <1>2 DEF Offer
<1>7. OfferedWords(o, n)
  BY <1>1, <1>2, <1>3, <1>6, LabelIsWord, MarketsOf DEF OfferedWords
<1> QED
  BY <1>1, <1>5, <1>6, <1>7

\* The sides of a market are words.
LEMMA SidesAreWords ==
  ASSUME NEW m \in Market
  PROVE  m.sides \in Seq(Words)
<1>1. m.sides \in Seq(Labels)
  BY MarketFields
<1> QED
  BY <1>1 DEF Words

\* The first k members of a sequence.
LEMMA FirstOnes ==
  ASSUME NEW S, NEW s \in Seq(S), NEW k \in Nat, k <= Len(s)
  PROVE  /\ SubSeq(s, 1, k) \in Seq(S) /\ Len(SubSeq(s, 1, k)) = k
         /\ \A i \in 1..k : SubSeq(s, 1, k)[i] = s[i]
<1>1. SubSeq(s, 1, k) = [i \in 1..k |-> s[i]]
  OBVIOUS
<1>2. \A i \in 1..k : s[i] \in S
  OBVIOUS
<1> QED
  BY <1>1, <1>2

\* The outcomes of an event of one market have labels.
LEMMA BinaryOffered ==
  ASSUME NEW m \in Market
  PROVE  \E n \in Nat : OfferedWords(BuildBinaryOutcomes(m), n)
<1>1. PICK sides \in Seq(Words) : sides = IF m.sides = <<>> THEN <<Yes, No>> ELSE m.sides
  <2>1. m.sides \in Seq(Words) /\ <<Yes, No>> \in Seq(Words)
    BY MarketFields DEF Words
  <2> QED
    BY <2>1
<1>2. PICK n \in Nat : n = Len(sides)
  BY <1>1
<1>3. PICK k \in Nat : k = Min({2, n}) /\ k <= n
  BY MinOfTwo
<1>4. PICK two \in Seq(Words) : two = SubSeq(sides, 1, k) /\ Len(two) = k
  BY <1>2, <1>3, FirstOnes
<1>5. OfferedWords(SideOffers(m, two), k)
  BY <1>4, SidesOffered
<1>6. BuildBinaryOutcomes(m) = SideOffers(m, two)
  BY <1>1, <1>2, <1>3, <1>4 DEF BuildBinaryOutcomes
<1> QED
  BY <1>5, <1>6

\* The outcomes of an event have labels, whatever it is.
LEMMA OffersTyped ==
  ASSUME NEW e, e.markets \in Seq(Market), e.markets # <<>>, NEW o \in Offers(e)
  PROVE  \E n \in Nat : OfferedWords(o, n)
<1>1. PICK ms \in Seq(Market) : ms = Listed(e) /\ ms # <<>>
  BY ListedMarkets
<1>2. CASE IsSportsEvent(e) /\ ~IsSportsGroupEvent(e)
  BY <1>1, <1>2, SportsOffered DEF Offers
<1>3. CASE ~(IsSportsEvent(e) /\ ~IsSportsGroupEvent(e)) /\ Len(ms) > 1
  <2>1. PICK n \in Nat : n = Len(ms)
    OBVIOUS
  <2>2. o \in GroupOffers(ms)
    BY <1>1, <1>3 DEF Offers
  <2> QED
    BY <2>1, <2>2, GroupOffered
<1>4. CASE ~(IsSportsEvent(e) /\ ~IsSportsGroupEvent(e)) /\ ~(Len(ms) > 1)
  <2>1. o = BuildBinaryOutcomes(ms[1])
    BY <1>1, <1>4 DEF Offers
  <2>2. ms[1] \in Market
    BY <1>1
  <2> QED
    BY <2>1, <2>2, BinaryOffered
<1> QED
  BY <1>2, <1>3, <1>4

\* There is a label for each outcome.
LEMMA OutcomeLabelsTyped ==
  ASSUME NEW o, NEW n \in Nat, OfferedWords(o, n)
  PROVE  /\ OutcomeLabels(o) \in Seq(Words) /\ Len(OutcomeLabels(o)) = n
         /\ \A i \in 1..n : OutcomeLabels(o)[i] = o[i].label
<1>1. OutcomeLabels(o) = [i \in 1..n |-> o[i].label]
  BY DEF OutcomeLabels, OfferedWords
<1>2. \A i \in 1..n : o[i].label \in Words
  BY DEF OfferedWords
<1> QED
  BY <1>1, <1>2

\* The positions of the markets that are named for a team.
Named(ms) == {i \in DOMAIN ms : ms[i].title \notin SideBets \cup {NoLabel}}

\* enrich.go:386: the teams found are titles of markets, two at most, and two when two
\* markets are named for teams.
LEMMA NamesOf ==
  ASSUME NEW ms \in Seq(Market)
  PROVE  \E c, k \in Nat :
           /\ c = Cardinality(Named(ms)) /\ c <= Len(ms) /\ k <= 2 /\ (k >= 2 <=> c >= 2)
           /\ ExtractVersusTeamNames(ms) \in Seq(Labels) /\ Len(ExtractVersusTeamNames(ms)) = k
           /\ \A i \in 1..k : \E n \in Named(ms) : ExtractVersusTeamNames(ms)[i] = ms[n].title
<1>1. Named(ms) \in SUBSET DOMAIN ms
  BY DEF Named
<1>2. PICK c \in Nat : c = Cardinality(Named(ms)) /\ c <= Len(ms)
  BY <1>1, DomainFinite
<1>3. PICK k \in Nat : k = Min({2, c}) /\ k <= 2 /\ k <= c /\ (k >= 2 <=> c >= 2)
  BY <1>2, MinOfTwo
<1>4. PICK t \in Seq(Market) :
        /\ t = At(ms, Named(ms)) /\ Len(t) = c
        /\ \A i \in 1..c : \E n \in Named(ms) : t[i] = ms[n]
  BY <1>1, <1>2, AtMembers
<1>5. PICK names : names = ExtractVersusTeamNames(ms)
  OBVIOUS
<1>6. names = [i \in 1..k |-> t[i].title]
  BY <1>3, <1>4, <1>5, Zenon DEF ExtractVersusTeamNames, Named
<1>7. ASSUME NEW i \in 1..k
      PROVE  t[i].title \in Labels /\ \E n \in Named(ms) : t[i].title = ms[n].title
  <2>1. PICK n \in Named(ms) : t[i] = ms[n]
    BY <1>3, <1>4
  <2>2. ms[n] \in Market /\ ms[n].title # NoLabel
    BY <1>1 DEF Named
  <2> QED
    BY <2>1, <2>2, MarketFields
<1>8. names \in Seq(Labels) /\ Len(names) = k
  <2>1. \A i \in 1..k : t[i].title \in Labels
    BY <1>7
  <2> QED
    BY <1>6, <2>1
<1>9. \A i \in 1..k : \E n \in Named(ms) : names[i] = ms[n].title
  BY <1>6, <1>7
<1> QED
  BY <1>2, <1>3, <1>5, <1>8, <1>9

\* The participants of a match are labels.
LEMMA VersusTyped ==
  ASSUME NEW ms \in Seq(Market), ms # <<>>
  PROVE  VersusLabels(ms) \in Seq(Labels)
<1>1. PICK sides \in Seq(Labels) : sides = PrimarySportsMarket(ms).sides
  BY PrimaryIsListed, MarketsOf, MarketFields
<1>2. PICK names \in Seq(Labels) : names = ExtractVersusTeamNames(ms)
  BY NamesOf
<1>3. Len(sides) >= 2 => SubSeq(sides, 1, 2) \in Seq(Labels)
  BY <1>1, FirstOnes
<1> QED
  BY <1>1, <1>2, <1>3 DEF VersusLabels

\* The participants of a group are labels.
LEMMA GroupTyped ==
  ASSUME NEW ms \in Seq(Market)
  PROVE  GroupLabels(ms) \in Seq(Words)
<1>1. PICK n \in Nat : n = Len(ms)
  OBVIOUS
<1>2. PICK sorted \in Seq(Market) : sorted = SortedMarketPrices(ms) /\ Len(sorted) = n
  BY <1>1, RoundsLead DEF Arrangement
<1>3. PICK k \in Nat : k = Min({5, n}) /\ k <= n
  BY MinOfTwo
<1>4. PICK five \in Seq(Market) : five = SubSeq(sorted, 1, k)
  BY <1>2, <1>3, FirstOnes
<1> DEFINE I == {i \in DOMAIN five : YesPrice(five[i]) # 0}
<1>5. I \in SUBSET DOMAIN five
  OBVIOUS
<1>6. GroupLabels(ms) = [i \in DOMAIN At(five, I) |-> Label(At(five, I)[i])]
  BY <1>1, <1>2, <1>3, <1>4, Zenon DEF GroupLabels
<1> HIDE DEF I
<1>7. PICK dear \in Seq(Market) : dear = At(five, I)
  BY <1>5, AtMembers
<1>8. GroupLabels(ms) = [i \in DOMAIN dear |-> Label(dear[i])]
  BY <1>6, <1>7
<1>9. \A i \in DOMAIN dear : Label(dear[i]) \in Words
  BY MarketsOf, LabelIsWord
<1>10. PICK d \in Nat : d = Len(dear) /\ DOMAIN dear = 1..d
  OBVIOUS
<1>11. \A i \in 1..d : Label(dear[i]) \in Words
  BY <1>9, <1>10
<1>12. [i \in 1..d |-> Label(dear[i])] \in Seq(Words)
  BY <1>11
<1> QED
  BY <1>8, <1>10, <1>12

\* The participants of an event are labels.
LEMMA ShownTyped ==
  ASSUME NEW e, e.markets \in Seq(Market), e.markets # <<>>
  PROVE  Shown(e) \in Seq(Words)
<1>1. PICK ms \in Seq(Market) : ms = Listed(e) /\ ms # <<>>
  BY ListedMarkets
<1>2. GroupLabels(ms) \in Seq(Words)
  BY GroupTyped
<1>3. VersusLabels(ms) \in Seq(Words)
  BY <1>1, VersusTyped DEF Words
<1> QED
  BY <1>1, <1>2, <1>3 DEF Shown, Participants

-----------------------------------------------------------------------------
(* What the page shows.                                                    *)

\* When the main market comes first, so does its outcome.
LEMMA MainIsFirst ==
  ASSUME NEW ms \in Seq(Market), ms # <<>>, PrimarySportsMarket(ms) = ms[1],
         ms[1].title # NoLabel \/ ~IsYesNo(ms[1].sides), BuildSportsOutcomes(ms) # <<>>
  PROVE  BuildSportsOutcomes(ms)[1].market = ms[1]
<1>1. PICK o : o = BuildSportsOutcomes(ms)
  OBVIOUS
<1>2. PICK main \in Market : main = ms[1] /\ 1 \in DOMAIN ms
  OBVIOUS
<1>3. CASE IsYesNo(main.sides) /\ Len(ms) > 1
  <2>1. o = BuildMoneylineOutcomes(ms) /\ ms[1].title # NoLabel
    BY <1>1, <1>2, <1>3 DEF BuildSportsOutcomes
  <2> QED
    BY <1>1, <1>2, <2>1, TitlesOffered
<1>4. CASE ~(IsYesNo(main.sides) /\ Len(ms) > 1)
  <2>1. PICK sides \in Seq(Words) : sides = main.sides
    BY <1>2, SidesAreWords
  <2>2. PICK n \in Nat : n = Len(sides)
    OBVIOUS
  <2>3. o = SideOffers(main, sides)
    BY <1>1, <1>2, <1>4, <2>1 DEF BuildSportsOutcomes
  <2>4. \A i \in 1..n : o[i].market = main
    <3>1. \A i \in 1..Len(sides) : SideOffers(main, sides)[i].market = main
      BY SidesOffered
    <3> QED
      BY <2>2, <2>3, <3>1
  <2>5. n # 0
    <3> SUFFICES ASSUME n = 0
                 PROVE  FALSE
      OBVIOUS
    <3>1. sides = <<>>
      BY <2>2
    <3> QED
      BY <1>1, <2>3, <3>1 DEF SideOffers
  <2> QED
    BY <1>1, <1>2, <2>4, <2>5
<1> QED
  BY <1>3, <1>4

\* transform_v2.go:618: the first outcome of a match is of its moneyline market.
LEMMA LineIsFirst ==
  ASSUME NEW e, e.markets \in Seq(Market), IsSportsEvent(e), ~IsSportsGroupEvent(e),
         NEW k, k = SelectInSeq(e.markets, LAMBDA m : m.moneyline), k # 0,
         NEW o \in Offers(e), o # <<>>,
         e.markets[k].title # NoLabel \/ ~IsYesNo(e.markets[k].sides)
  PROVE  o[1].market.moneyline
<1>1. PICK ms \in Seq(Market) : ms = Listed(e)
  BY ListedMarkets
<1>2. /\ e.markets[k].moneyline /\ Len(ms) >= 1 /\ ms[1] = e.markets[k]
      /\ PrimarySportsMarket(ms) = e.markets[k]
  BY <1>1, LineLeads
<1>3. o = BuildSportsOutcomes(ms)
  BY <1>1 DEF Offers
<1>4. ms # <<>>
  BY <1>2
<1> QED
  BY <1>2, <1>3, <1>4, MainIsFirst

\* The invariant has the moneyline lead in every answer.
LEMMA LinesLead == PageIInv => MoneylineLeads
<1> SUFFICES ASSUME PageIInv, NEW e \in DOMAIN answer,
                    IsSportsEvent(e), ~IsSportsGroupEvent(e), answer[e].outcomes # <<>>,
                    NEW k, k = SelectInSeq(e.markets, LAMBDA m : m.moneyline), k # 0,
                    e.markets[k].title # NoLabel \/ ~IsYesNo(e.markets[k].sides)
             PROVE  answer[e].outcomes[1].market.moneyline
  BY DEF MoneylineLeads
<1>1. e.markets \in Seq(Market)
  BY InputsAssumption DEF PageIInv, IInv, TypeOK
<1>2. answer[e].outcomes \in Offers(e)
  BY DEF PageIInv, Transformed
<1> QED
  BY <1>1, <1>2, LineIsFirst

\* The same markets are named for teams, whatever their order.
LEMMA NamedEither ==
  ASSUME NEW e, e.markets \in Seq(Market), Len(ExtractVersusTeamNames(e.markets)) >= 2
  PROVE  Len(ExtractVersusTeamNames(Listed(e))) >= 2
<1>1. PICK n \in Nat : n = Len(e.markets)
  OBVIOUS
<1>2. PICK ms \in Seq(Market) : ms = Listed(e) /\ Len(ms) = n
  BY <1>1, ListedMarkets
<1>3. PICK p : Numbers(p, n, 1..n) /\ Lists(ms, n, e.markets, p)
  BY <1>1, <1>2, ListedReorders
<1>4. Cardinality(Named(e.markets)) >= 2
  <2>1. PICK c, k \in Nat :
          /\ c = Cardinality(Named(e.markets)) /\ (k >= 2 <=> c >= 2)
          /\ Len(ExtractVersusTeamNames(e.markets)) = k
    BY NamesOf
  <2> QED
    BY <2>1
<1>5. PICK a \in Named(e.markets), b \in Named(e.markets) : a # b
  BY <1>4, TwoMembers
<1>6. a \in 1..n /\ b \in 1..n
  BY <1>1 DEF Named
<1>7. PICK x \in 1..n, y \in 1..n : p[x] = a /\ p[y] = b
  BY <1>3, <1>6 DEF Numbers
<1>8. DOMAIN ms = 1..n /\ ms[x] = e.markets[a] /\ ms[y] = e.markets[b]
  BY <1>2, <1>3, <1>7 DEF Lists
<1>9. {x, y} \in SUBSET Named(ms) /\ x # y
  BY <1>5, <1>7, <1>8 DEF Named
<1>10. IsFiniteSet(Named(ms))
  <2>1. Named(ms) \in SUBSET DOMAIN ms
    BY DEF Named
  <2> QED
    BY <2>1, DomainFinite
<1>11. Cardinality(Named(ms)) >= 2
  <2> SUFFICES ASSUME ~(Cardinality(Named(ms)) >= 2)
               PROVE  FALSE
    OBVIOUS
  <2>1. Cardinality(Named(ms)) <= 1
    BY <1>10, FS_CardinalityType
  <2> QED
    BY <1>9, <1>10, <2>1, AtMostOne
<1>12. PICK c, k \in Nat : /\ c = Cardinality(Named(ms)) /\ (k >= 2 <=> c >= 2)
                           /\ Len(ExtractVersusTeamNames(ms)) = k
  BY NamesOf
<1> QED
  BY <1>2, <1>11, <1>12

\* The two sides of a market are labels of its outcomes.
LEMMA SidesTraded ==
  ASSUME NEW m, NEW sides \in Seq(Labels), Len(sides) >= 2
  PROVE  \A l \in Range(SubSeq(sides, 1, 2)) : \E i \in DOMAIN SideOffers(m, sides) :
           SideOffers(m, sides)[i].label = l
<1>1. PICK n \in Nat : n = Len(sides) /\ n >= 2
  OBVIOUS
<1>2. PICK o : o = SideOffers(m, sides)
  OBVIOUS
<1>3. DOMAIN o = 1..n /\ \A i \in 1..n : o[i].label = sides[i]
  <2>1. sides \in Seq(Words)
    BY DEF Words
  <2>2. /\ OfferedWords(SideOffers(m, sides), Len(sides))
        /\ \A i \in 1..Len(sides) : SideOffers(m, sides)[i].label = sides[i]
    BY <2>1, SidesOffered
  <2> QED
    BY <1>1, <1>2, <2>2 DEF OfferedWords
<1>4. PICK two : /\ two = SubSeq(sides, 1, 2) /\ two \in Seq(Labels) /\ Len(two) = 2
                 /\ \A i \in 1..2 : two[i] = sides[i]
  <2>1. 2 \in Nat /\ 2 <= Len(sides)
    BY <1>1
  <2>2. /\ SubSeq(sides, 1, 2) \in Seq(Labels) /\ Len(SubSeq(sides, 1, 2)) = 2
        /\ \A i \in 1..2 : SubSeq(sides, 1, 2)[i] = sides[i]
    BY <2>1, FirstOnes
  <2> QED
    BY <2>2
<1>5. DOMAIN two = 1..2
  BY <1>4
<1>6. \A l \in Range(two) : \E i \in 1..2 : l = sides[i]
  BY <1>4, <1>5 DEF Range
<1> QED
  BY <1>1, <1>2, <1>3, <1>4, <1>6

\* The teams found are labels of outcomes.
LEMMA NamesTraded ==
  ASSUME NEW ms \in Seq(Market)
  PROVE  \A l \in Range(ExtractVersusTeamNames(ms)) : \E i \in DOMAIN BuildMoneylineOutcomes(ms) :
           BuildMoneylineOutcomes(ms)[i].label = l
<1>1. PICK names \in Seq(Labels) :
        /\ names = ExtractVersusTeamNames(ms)
        /\ \A i \in 1..Len(names) : \E n \in Named(ms) : names[i] = ms[n].title
  BY NamesOf
<1>2. \A l \in Range(names) : \E n \in Named(ms) : l = ms[n].title
  BY <1>1 DEF Range
<1>3. \A n \in Named(ms) : n \in DOMAIN ms /\ ms[n].title # NoLabel
  BY DEF Named
<1> QED
  BY <1>1, <1>2, <1>3, TitlesOffered

\* enrich.go:333 and transform_v2.go:465 find the same teams, if there are two.
LEMMA VersusTraded ==
  ASSUME NEW ms \in Seq(Market), ms # <<>>
  PROVE  \/ \A l \in Range(VersusLabels(ms)) : \E i \in DOMAIN BuildSportsOutcomes(ms) :
              BuildSportsOutcomes(ms)[i].label = l
         \/ /\ IsYesNo(PrimarySportsMarket(ms).sides) /\ Len(ms) > 1
            /\ Len(ExtractVersusTeamNames(ms)) < 2
<1>1. PICK main \in Market : main = PrimarySportsMarket(ms)
  BY PrimaryIsListed, MarketsOf
<1>2. PICK sides \in Seq(Labels) : sides = main.sides
  BY MarketFields
<1>3. PICK k \in Nat : k = Len(ExtractVersusTeamNames(ms)) /\ (k >= 2 => Len(ms) >= 2)
  BY NamesOf
<1>4. CASE Len(sides) < 2
  <2>1. VersusLabels(ms) = <<>>
    BY <1>1, <1>2, <1>4 DEF VersusLabels
  <2>2. Range(<<>>) = {}
    BY DEF Range
  <2> QED
    BY <2>1, <2>2
<1>5. CASE IsYesNo(sides) /\ Len(ms) > 1 /\ k >= 2
  <2>1. VersusLabels(ms) = ExtractVersusTeamNames(ms)
    BY <1>1, <1>2, <1>3, <1>5 DEF VersusLabels, IsYesNo
  <2>2. BuildSportsOutcomes(ms) = BuildMoneylineOutcomes(ms)
    BY <1>1, <1>2, <1>5 DEF BuildSportsOutcomes
  <2> QED
    BY <2>1, <2>2, NamesTraded
<1>6. CASE IsYesNo(sides) /\ Len(ms) > 1 /\ ~(k >= 2)
  BY <1>1, <1>2, <1>3, <1>6
<1>7. CASE Len(sides) >= 2 /\ ~(IsYesNo(sides) /\ Len(ms) > 1)
  <2>1. VersusLabels(ms) = SubSeq(sides, 1, 2)
    BY <1>1, <1>2, <1>3, <1>7 DEF VersusLabels
  <2>2. BuildSportsOutcomes(ms) = SideOffers(main, sides)
    BY <1>1, <1>2, <1>7 DEF BuildSportsOutcomes
  <2> QED
    BY <1>7, <2>1, <2>2, SidesTraded
<1> QED
  BY <1>2, <1>4, <1>5, <1>6, <1>7

\* What the invariant says of an event that is answered.
LEMMA EventOf ==
  ASSUME PageIInv, NEW e \in DOMAIN answer
  PROVE  /\ e \in page /\ e.markets \in Seq(Market) /\ e.markets # <<>>
         /\ Transformed(e, answer[e])
BY InputsAssumption DEF PageIInv, IInv, TypeOK

\* The invariant has the participants of every match traded.
LEMMA Traded == PageIInv => ParticipantsAreTraded
<1> SUFFICES ASSUME PageIInv, NEW e \in DOMAIN answer,
                    IsSportsEvent(e), ~IsSportsGroupEvent(e)
             PROVE  LET o == answer[e].outcomes IN
                    \/ \A l \in Range(answer[e].participants) : \E i \in DOMAIN o : o[i].label = l
                    \/ /\ IsYesNo(PrimarySportsMarket(Listed(e)).sides) /\ Len(e.markets) > 1
                       /\ Len(ExtractVersusTeamNames(e.markets)) < 2
  BY DEF ParticipantsAreTraded
<1>1. e.markets \in Seq(Market) /\ e.markets # <<>> /\ Transformed(e, answer[e])
  BY EventOf
<1>2. PICK ms \in Seq(Market) : ms = Listed(e) /\ Len(ms) = Len(e.markets) /\ ms # <<>>
  BY <1>1, ListedMarkets
<1>3. answer[e].outcomes = BuildSportsOutcomes(ms) /\ answer[e].participants = VersusLabels(ms)
  BY <1>1, <1>2 DEF Transformed, Offers, Shown, Participants
<1>4. Len(ExtractVersusTeamNames(ms)) < 2 => Len(ExtractVersusTeamNames(e.markets)) < 2
  <2>1. Len(ExtractVersusTeamNames(ms)) \in Nat /\ Len(ExtractVersusTeamNames(e.markets)) \in Nat
    BY <1>1, NamesOf
  <2> QED
    BY <1>1, <1>2, <2>1, NamedEither
<1> QED
  BY <1>2, <1>3, <1>4, VersusTraded

-----------------------------------------------------------------------------
\* What event e shows at position i.
LEMMA PictureAt ==
  ASSUME PageIInv, NEW e \in DOMAIN answer, IsSportsEvent(e), NEW x \in Pictured(e)
  PROVE  x[2] \in ResolveTeamImage(e, x[1])
<1>1. PICK a : a = answer[e]
  OBVIOUS
<1>2. PICK shown \in Seq(Words), n \in Nat : shown = Shown(e) /\ n = Len(shown)
  BY EventOf, ShownTyped
<1>3. PICK k \in Nat : OfferedWords(a.outcomes, k)
  BY <1>1, EventOf, OffersTyped DEF Transformed
<1>4. PICK offered \in Seq(Words) :
        /\ offered = OutcomeLabels(a.outcomes) /\ Len(offered) = k
        /\ \A i \in 1..k : offered[i] = a.outcomes[i].label
  BY <1>3, OutcomeLabelsTyped
<1>5. PICK labels \in Seq(Words) :
        /\ labels = shown \o offered /\ Len(labels) = n + k
        /\ \A i \in 1..n : labels[i] = shown[i]
        /\ \A i \in 1..k : labels[n + i] = offered[i]
  <2>1. PICK labels : labels = shown \o offered
    OBVIOUS
  <2>2. /\ labels \in Seq(Words) /\ Len(labels) = Len(shown) + Len(offered)
        /\ \A i \in 1..Len(shown) : labels[i] = shown[i]
        /\ \A i \in 1..Len(offered) : labels[Len(shown) + i] = offered[i]
    BY <2>1, Concatenated
  <2> QED
    BY <1>2, <1>4, <2>1, <2>2
<1>6. a.participants = shown /\ a.images \in Images(e, labels)
  BY <1>1, <1>2, <1>4, <1>5, EventOf DEF Transformed
<1>7. PICK images : images = a.images /\ DOMAIN images = 1..(n + k)
                    /\ \A i \in 1..(n + k) : images[i] \in ImagesOf(e, labels[i])
  BY <1>5, <1>6, ImagesShow
<1>8. PICK i \in 1..(n + k) :
        x = <<IF i <= n THEN shown[i] ELSE a.outcomes[i - n].label, images[i]>>
  BY <1>1, <1>2, <1>6, <1>7 DEF Pictured
<1>9. x[1] = labels[i] /\ x[2] = images[i]
  <2>1. CASE i <= n
    BY <1>5, <1>8, <2>1
  <2>2. CASE ~(i <= n)
    <3>1. i - n \in 1..k /\ n + (i - n) = i
      BY <2>2
    <3> QED
      BY <1>4, <1>5, <1>8, <2>2, <3>1
  <2> QED
    BY <2>1, <2>2
<1> QED
  BY <1>7, <1>9 DEF ImagesOf

\* The invariant has own teams shown with their logos: the team that is found is
\* one of the league and of that name, by OwnLeagueWins, and no tag is such a league.
LEMMA OwnLogo == PageIInv => OwnLogoShown
<1> SUFFICES ASSUME PageIInv, step = "enrich", NEW e \in DOMAIN answer \cap SportsEvents,
                    NEW x \in Pictured(e), NEW g, g = EventLeagueSlug(e), g \notin Umbrellas,
                    x[1] \in TeamLabels,
                    NEW own, own = {t \in Teams : league[t] = g /\ match[<<t, x[1]>>] = "exact"},
                    own # {}, \A t \in own : catalog.logo[t] # <<>>
             PROVE  x[2] \in {<<"logo", t>> : t \in own}
  BY DEF OwnLogoShown
<1>1. PICK l : l = x[1]
  OBVIOUS
<1>2. PICK u \in Teams : league[u] = g /\ match[<<u, l>>] = "exact"
  BY <1>1
<1>3. l \in TeamLabels /\ l \in Labels /\ g \in Slugs /\ TypeOK
  BY <1>1, <1>2, LabelsAreLabels, TeamsAssumption DEF PageIInv, IInv
<1>4. PICK t : t = TeamByLabel(g, l)
  OBVIOUS
<1>5. t # NoTeam /\ league[t] \in LeaguesBehind(g) /\ match[<<t, l>>] = "exact"
  <2>1. OwnLeagueWins
    BY OwnLeague DEF PageIInv
  <2>2. <<u, l>> \in Teams \X TeamLabels /\ <<u, l>>[1] = u /\ <<u, l>>[2] = l
    BY <1>3
  <2>3. g \in SureSlugs(league[u]) \ Umbrellas
    BY <1>2 DEF SureSlugs
  <2> QED
    BY <1>2, <1>4, <2>1, <2>2, <2>3 DEF OwnLeagueWins
<1>6. t \in Teams
  <2>1. <<g, l>> \in Keys /\ <<NoSlug, l>> \in Keys
    BY <1>3 DEF Keys
  <2> QED
    BY <1>3, <1>4, <1>5, <2>1 DEF TypeOK, TeamByLabel
<1>7. league[t] = g
  <2>1. g \notin DOMAIN TagToDBLeagues
    BY <1>2, TagsAreNoLeagues
  <2> QED
    BY <1>5, <2>1 DEF LeaguesBehind
<1>8. t \in own
  BY <1>1, <1>5, <1>6, <1>7
<1>9. ResolveTeamImage(e, l) = {<<"logo", t>>}
  BY <1>4, <1>5, <1>8 DEF ResolveTeamImage
<1>10. x[2] \in ResolveTeamImage(e, l)
  BY <1>1, PictureAt DEF SportsEvents
<1> QED
  BY <1>8, <1>9, <1>10

-----------------------------------------------------------------------------
(* The favourites of a group.                                              *)

\* A part of 1..n that has all that comes before its members begins it.
LEMMA StartOfInterval ==
  ASSUME NEW n \in Nat, NEW Z \in SUBSET (1..n), \A i \in Z : \A j \in 1..i : j \in Z
  PROVE  \E z \in 0..n : Z = 1..z
<1> DEFINE Out == {i \in 1..(n + 1) : i \notin Z}
<1>1. n + 1 \in Out /\ Out \subseteq Nat
  OBVIOUS
<1>2. PICK m \in Out : \A j \in Out : m <= j
  <2> HIDE DEF Out
  <2> QED
    BY <1>1, LeastNumber
<1>3. m \in 1..(n + 1) /\ m \notin Z
  OBVIOUS
<1>4. \A i \in 1..(m - 1) : i \in Z
  BY <1>2, <1>3
<1>5. \A i \in Z : i \in 1..(m - 1)
  <2> SUFFICES ASSUME NEW i \in Z, ~(i \in 1..(m - 1))
               PROVE  FALSE
    OBVIOUS
  <2>1. m \in 1..i
    BY <1>3
  <2> QED
    BY <1>3, <2>1
<1>6. PICK z \in 0..n : z = m - 1
  BY <1>3
<1>7. Z = 1..z
  <2> HIDE DEF Out
  <2> QED
    BY <1>4, <1>5, <1>6
<1> QED
  BY <1>7

\* At 1..d takes the first d members.
LEMMA AtStart ==
  ASSUME NEW S, NEW s \in Seq(S), NEW d \in Nat, d <= Len(s)
  PROVE  At(s, 1..d) = [i \in 1..d |-> s[i]]
<1> DEFINE I == 1..d
           Below(n) == {m \in I : m <= n}
<1>1. Cardinality(I) = d
  BY IntervalSize
<1>2. \A n \in I : Cardinality(Below(n)) = n
  <2> TAKE n \in I
  <2>1. Below(n) = 1..n /\ n \in Nat
    OBVIOUS
  <2> HIDE DEF Below
  <2> QED
    BY <2>1, IntervalSize
<1> HIDE DEF Below
<1>3. \A i \in 1..d : (CHOOSE n \in I : Cardinality(Below(n)) = i) = i
  <2> TAKE i \in 1..d
  <2>1. i \in I /\ Cardinality(Below(i)) = i
    BY <1>2
  <2>2. PICK n : n = CHOOSE x \in I : Cardinality(Below(x)) = i
    OBVIOUS
  <2>3. n \in I /\ Cardinality(Below(n)) = i
    BY <2>1, <2>2
  <2> QED
    BY <1>2, <2>2, <2>3
<1>4. At(s, I) = [i \in 1..Cardinality(I) |-> s[CHOOSE n \in I : Cardinality(Below(n)) = i]]
  BY Zenon DEF At, Below
<1>5. [i \in 1..d |-> s[CHOOSE n \in I : Cardinality(Below(n)) = i]] = [i \in 1..d |-> s[i]]
  <2> DEFINE C(i) == CHOOSE n \in I : Cardinality(Below(n)) = i
  <2>1. \A i \in 1..d : C(i) = i
    BY <1>3
  <2> HIDE DEF C
  <2>2. [i \in 1..d |-> s[C(i)]] = [i \in 1..d |-> s[i]]
    BY <2>1
  <2> QED
    BY <2>2, Zenon DEF C
<1> QED
  BY <1>1, <1>4, <1>5

\* The values of f at the numbers p never rise.
Falls(f, p, n) == \A i, j \in 1..n : i <= j => f[p[i]] >= f[p[j]]

\* Two falling orders of the same prices: if one had a dearer i-th price, i prices
\* of the one would have to be among the i - 1 that come first in the other.
LEMMA NotDearer ==
  ASSUME NEW n \in Nat, NEW f, \A k \in 1..n : f[k] \in Nat,
         NEW p, Numbers(p, n, 1..n), Falls(f, p, n),
         NEW q, Numbers(q, n, 1..n), Falls(f, q, n), NEW i \in 1..n
  PROVE  f[p[i]] <= f[q[i]]
<1> SUFFICES ASSUME ~(f[p[i]] <= f[q[i]])
             PROVE  FALSE
  OBVIOUS
<1>1. /\ \A k \in 1..n : p[k] \in 1..n /\ q[k] \in 1..n
      /\ \A k, m \in 1..n : p[k] = p[m] => k = m
      /\ \A m \in 1..n : \E k \in 1..n : q[k] = m
  BY DEF Numbers
<1>2. f[q[i]] < f[p[i]]
  <2>1. p[i] \in 1..n /\ q[i] \in 1..n
    BY <1>1
  <2>2. f[p[i]] \in Nat /\ f[q[i]] \in Nat
    BY <2>1
  <2> QED
    BY <2>2
<1>3. ASSUME NEW k \in 1..i
      PROVE  \E m \in 1..(i - 1) : q[m] = p[k]
  <2>1. k \in 1..n /\ k <= i
    OBVIOUS
  <2>2. f[p[k]] >= f[p[i]]
    BY <2>1 DEF Falls
  <2>3. PICK m \in 1..n : q[m] = p[k]
    BY <1>1, <2>1
  <2>4. ~(i <= m)
    <3> SUFFICES ASSUME i <= m
                 PROVE  FALSE
      OBVIOUS
    <3>1. f[q[i]] >= f[q[m]]
      BY DEF Falls
    <3>2. f[q[i]] \in Nat /\ f[q[m]] \in Nat /\ f[p[i]] \in Nat /\ f[p[k]] \in Nat
      BY <1>1, <2>1
    <3> QED
      BY <1>2, <2>2, <2>3, <3>1, <3>2
  <2>5. m \in 1..(i - 1)
    BY <2>4
  <2> QED
    BY <2>3, <2>5
<1> DEFINE h == [k \in 1..i |-> CHOOSE m \in 1..(i - 1) : q[m] = p[k]]
<1>4. h \in [1..i -> 1..(i - 1)] /\ \A k \in 1..i : q[h[k]] = p[k]
  BY <1>3
<1> HIDE DEF h
<1>5. /\ IsFiniteSet(1..i) /\ Cardinality(1..i) = i
      /\ IsFiniteSet(1..(i - 1)) /\ Cardinality(1..(i - 1)) = i - 1
  <2>1. i \in Nat /\ i - 1 \in Nat
    OBVIOUS
  <2> QED
    BY <2>1, IntervalSize
<1>6. PICK x \in 1..i, y \in 1..i : x # y /\ h[x] = h[y]
  <2> DEFINE A == 1..i
             B == 1..(i - 1)
  <2>1. IsFiniteSet(A) /\ IsFiniteSet(B) /\ Cardinality(B) < Cardinality(A) /\ h \in [A -> B]
    BY <1>4, <1>5
  <2> HIDE DEF A, B
  <2>2. \E x, y \in A : x # y /\ h[x] = h[y]
    BY <2>1, FS_PigeonHole
  <2> QED
    BY <2>2 DEF A
<1>7. p[x] = p[y] /\ x \in 1..n /\ y \in 1..n
  <2>1. q[h[x]] = p[x] /\ q[h[y]] = p[y]
    BY <1>4
  <2>2. x \in 1..n /\ y \in 1..n
    OBVIOUS
  <2> QED
    BY <1>6, <2>1, <2>2
<1> QED
  BY <1>1, <1>6, <1>7

\* What falls from step to step falls.
LEMMA StepsFall ==
  ASSUME NEW n \in Nat, NEW b, \A i \in 1..n : b[i] \in Nat, \A i \in 2..n : b[i - 1] >= b[i]
  PROVE  \A i, j \in 1..n : i <= j => b[i] >= b[j]
<1> DEFINE K == {k \in 0..n : \A i \in 1..k, j \in 1..k : i <= j => b[i] >= b[j]}
<1>1. 0 \in K
  OBVIOUS
<1>2. ASSUME NEW k \in 1..n, k - 1 \in K
      PROVE  k \in K
  <2>1. ASSUME NEW i \in 1..k, NEW j \in 1..k, i <= j
        PROVE  b[i] >= b[j]
    <3>1. CASE j # k
      <4>1. i \in 1..(k - 1) /\ j \in 1..(k - 1)
        BY <2>1, <3>1
      <4> QED
        BY <1>2, <2>1, <4>1
    <3>2. CASE j = k /\ i = k
      BY <3>2
    <3>3. CASE j = k /\ i # k
      <4>1. i \in 1..(k - 1) /\ k - 1 \in 1..(k - 1) /\ k \in 2..n /\ i \in 1..n /\ k - 1 \in 1..n
        BY <3>3
      <4>2. b[i] >= b[k - 1] /\ b[k - 1] >= b[k]
        BY <1>2, <4>1
      <4> QED
        BY <3>3, <4>1, <4>2
    <3> QED
      BY <3>1, <3>2, <3>3
  <2> QED
    BY <2>1
<1>3. n \in K
  <2> HIDE DEF K
  <2>1. 0..n \subseteq K
    BY <1>1, <1>2, Counting
  <2> QED
    BY <2>1
<1> QED
  BY <1>3

\* The markets of a group, sorted.
Sorts(sorted, ms, n) == n = Len(ms) /\ sorted = SortedMarketPrices(ms) /\ Len(sorted) = n

\* The first z of them have a price.
Priced(sorted, n, z) == \A i \in 1..n : YesPrice(sorted[i]) # 0 <=> i <= z

\* The labels of the first d sorted markets.
Labelled(labels, sorted, d) == labels = [i \in 1..d |-> Label(sorted[i])]

\* The first five of n, and those among them that are of the first z.
LEMMA FirstFive ==
  ASSUME NEW n \in Nat, NEW z \in Nat, z <= n
  PROVE  \E k, d \in Nat : /\ k = Min({5, n}) /\ d = Min({5, z})
                           /\ k <= n /\ d <= n /\ d <= k /\ \A i \in 1..k : i <= z <=> i <= d
<1>1. PICK k \in Nat : k = Min({5, n}) /\ k <= n /\ k <= 5 /\ (k = 5 \/ k = n)
  BY MinOfTwo
<1>2. PICK d \in Nat : d = Min({5, z}) /\ d <= z /\ d <= 5 /\ (d = 5 \/ d = z)
  BY MinOfTwo
<1>3. d <= n /\ d <= k
  BY <1>1, <1>2
<1>4. \A i \in 1..k : i <= z <=> i <= d
  BY <1>1, <1>2
<1> QED
  BY <1>1, <1>2, <1>3, <1>4

\* The labels of a group: those of the first d sorted markets, the others of the
\* first five having no price.
LEMMA GroupShows ==
  ASSUME NEW ms \in Seq(Market), NEW n \in Nat, NEW z \in Nat, z <= n,
         NEW sorted \in Seq(Market), Sorts(sorted, ms, n), Priced(sorted, n, z)
  PROVE  \E d \in Nat : d = Min({5, z}) /\ d <= n /\ Labelled(GroupLabels(ms), sorted, d)
<1>1. PICK k \in Nat, d \in Nat :
        /\ k = Min({5, n}) /\ d = Min({5, z})
        /\ k <= n /\ d <= n /\ d <= k /\ \A i \in 1..k : i <= z <=> i <= d
  BY FirstFive
<1>2. PICK five \in Seq(Market) : /\ five = SubSeq(sorted, 1, k) /\ Len(five) = k
                                  /\ \A i \in 1..k : five[i] = sorted[i]
  <2>1. k <= Len(sorted)
    BY <1>1 DEF Sorts
  <2>2. /\ SubSeq(sorted, 1, k) \in Seq(Market) /\ Len(SubSeq(sorted, 1, k)) = k
        /\ \A i \in 1..k : SubSeq(sorted, 1, k)[i] = sorted[i]
    BY <2>1, FirstOnes
  <2> QED
    BY <2>2
<1>3. {i \in DOMAIN five : YesPrice(five[i]) # 0} = 1..d
  <2>1. DOMAIN five = 1..k
    BY <1>2
  <2>2. ASSUME NEW i \in 1..k
        PROVE  YesPrice(five[i]) # 0 <=> i <= d
    <3>1. i \in 1..n /\ five[i] = sorted[i]
      BY <1>1, <1>2
    <3>2. YesPrice(sorted[i]) # 0 <=> i <= z
      BY <3>1 DEF Priced
    <3> QED
      BY <1>1, <3>1, <3>2
  <2>3. \A i \in 1..d : i \in 1..k /\ i <= d
    <3>1. d <= k
      BY <1>1
    <3> QED
      BY <3>1
  <2>4. \A i \in 1..k : i <= d => i \in 1..d
    OBVIOUS
  <2>5. {i \in 1..k : YesPrice(five[i]) # 0} = 1..d
    BY <2>2, <2>3, <2>4
  <2> QED
    BY <2>1, <2>5
<1>4. PICK dear : dear = At(five, 1..d) /\ dear = [i \in 1..d |-> five[i]]
  <2>1. d <= Len(five)
    BY <1>1, <1>2
  <2>2. At(five, 1..d) = [i \in 1..d |-> five[i]]
    BY <2>1, AtStart
  <2> QED
    BY <2>2
<1>5. GroupLabels(ms) = [i \in DOMAIN dear |-> Label(dear[i])]
  <2>1. five = SubSeq(SortedMarketPrices(ms), 1, Min({5, Len(ms)}))
    BY <1>1, <1>2 DEF Sorts
  <2>2. dear = At(five, {i \in DOMAIN five : YesPrice(five[i]) # 0})
    BY <1>3, <1>4
  <2> QED
    BY <2>1, <2>2, Zenon DEF GroupLabels
<1>6. GroupLabels(ms) = [i \in 1..d |-> Label(five[i])]
  BY <1>4, <1>5
<1>7. \A i \in 1..d : five[i] = sorted[i]
  BY <1>1, <1>2
<1>8. Labelled(GroupLabels(ms), sorted, d)
  BY <1>6, <1>7 DEF Labelled
<1> QED
  BY <1>1, <1>8

\* What FavouritesShown says of outcomes o and participants p.
Favoured(o, p) ==
  /\ Len(p) = Min({5, Cardinality({i \in DOMAIN o : o[i].price # 0})})
  /\ \A i \in DOMAIN p : \E j \in DOMAIN o : o[j].label = p[i] /\ o[j].price = o[i].price

\* enrich.go:422-441 and transform_v2.go:132-168 agree on the favourites.
LEMMA GroupFavours ==
  ASSUME NEW ms \in Seq(Market), NEW o \in GroupOffers(ms)
  PROVE  Favoured(o, GroupLabels(ms))
<1>1. PICK n \in Nat : n = Len(ms)
  OBVIOUS
<1>2. PICK sorted, p :
        /\ sorted \in Seq(Market)
        /\ sorted = SortedMarketPrices(ms) /\ Len(sorted) = n /\ Led(sorted, n)
        /\ Numbers(p, n, 1..n) /\ Lists(sorted, n, ms, p)
  BY <1>1, RoundsLead DEF Arrangement
<1>3. PICK q : /\ Numbers(q, n, 1..n)
               /\ \A i \in 1..n : /\ o[i].label = Label(ms[q[i]])
                                  /\ o[i].price = YesPrice(ms[q[i]])
               /\ \A i \in 2..n : YesPrice(ms[q[i - 1]]) >= YesPrice(ms[q[i]])
  BY <1>1, GroupOffered
<1>4. DOMAIN o = 1..n
  BY <1>1, GroupOffered DEF OfferedWords
<1> DEFINE f == [k \in 1..n |-> YesPrice(ms[k])]
<1>5. /\ \A k \in 1..n : f[k] = YesPrice(ms[k]) /\ f[k] \in Nat
      /\ \A k \in 1..n : p[k] \in 1..n /\ q[k] \in 1..n
      /\ \A m \in 1..n : \E k \in 1..n : q[k] = m
  <2>1. \A k \in 1..n : ms[k] \in Market
    BY <1>1
  <2>2. \A k \in 1..n : f[k] = YesPrice(ms[k]) /\ f[k] \in Nat
    BY <2>1, PricesAreNumbers
  <2> QED
    BY <1>2, <1>3, <2>2 DEF Numbers
<1> HIDE DEF f
<1>6. \A i \in 1..n : sorted[i] = ms[p[i]] /\ YesPrice(sorted[i]) = f[p[i]] /\ o[i].price = f[q[i]]
  <2> TAKE i \in 1..n
  <2>1. sorted[i] = ms[p[i]]
    BY <1>2 DEF Lists
  <2>2. f[p[i]] = YesPrice(ms[p[i]]) /\ f[q[i]] = YesPrice(ms[q[i]])
    BY <1>5
  <2> QED
    BY <1>3, <2>1, <2>2
<1>7. Falls(f, p, n)
  <2>1. ASSUME NEW i \in 1..n, NEW j \in 1..n, i <= j
        PROVE  f[p[i]] >= f[p[j]]
    <3>1. i < j => YesPrice(sorted[i]) >= YesPrice(sorted[j])
      BY <1>2 DEF Led
    <3>2. f[p[i]] \in Nat /\ f[p[j]] \in Nat
      BY <1>5
    <3> QED
      BY <1>6, <2>1, <3>1, <3>2
  <2> QED
    BY <2>1 DEF Falls
<1>8. Falls(f, q, n)
  <2> DEFINE b == [i \in 1..n |-> f[q[i]]]
  <2>1. \A i \in 1..n : b[i] = f[q[i]] /\ b[i] \in Nat
    BY <1>5
  <2> HIDE DEF b
  <2>2. \A i \in 2..n : b[i - 1] >= b[i]
    <3> TAKE i \in 2..n
    <3>1. i \in 1..n /\ i - 1 \in 1..n
      OBVIOUS
    <3>2. b[i - 1] = YesPrice(ms[q[i - 1]]) /\ b[i] = YesPrice(ms[q[i]])
      BY <1>5, <2>1, <3>1
    <3> QED
      BY <1>3, <3>2
  <2>3. \A i, j \in 1..n : i <= j => b[i] >= b[j]
    BY <2>1, <2>2, StepsFall
  <2> QED
    BY <2>1, <2>3 DEF Falls
<1>9. \A i \in 1..n : YesPrice(sorted[i]) = o[i].price /\ o[i].price \in Nat
  <2> TAKE i \in 1..n
  <2>1. f[p[i]] <= f[q[i]] /\ f[q[i]] <= f[p[i]]
    BY <1>2, <1>3, <1>5, <1>7, <1>8, NotDearer
  <2>2. f[p[i]] \in Nat /\ f[q[i]] \in Nat
    BY <1>5
  <2> QED
    BY <1>6, <2>1, <2>2
<1> DEFINE Z == {i \in DOMAIN o : o[i].price # 0}
<1>10. PICK z \in 0..n : Z = 1..z
  <2>1. Z \in SUBSET (1..n)
    BY <1>4
  <2>2. ASSUME NEW i \in Z, NEW j \in 1..i
        PROVE  j \in Z
    <3>1. i \in 1..n /\ j \in 1..n /\ j <= i /\ o[i].price # 0
      BY <2>1
    <3>2. o[j].price >= o[i].price
      BY <1>6, <1>8, <3>1 DEF Falls
    <3> QED
      BY <1>4, <1>9, <3>1, <3>2
  <2> HIDE DEF Z
  <2> QED
    BY <2>1, <2>2, StartOfInterval
<1>11. \A i \in 1..n : YesPrice(sorted[i]) # 0 <=> i <= z
  <2> TAKE i \in 1..n
  <2>1. i \in Z <=> i <= z
    BY <1>10
  <2>2. i \in Z <=> o[i].price # 0
    BY <1>4
  <2> QED
    BY <1>9, <2>1, <2>2
<1>12. Cardinality(Z) = z
  <2> HIDE DEF Z
  <2> QED
    BY <1>10, IntervalSize
<1>13. PICK d, labels :
         /\ d \in Nat
         /\ d = Min({5, z}) /\ d <= n
         /\ labels = GroupLabels(ms) /\ labels = [i \in 1..d |-> Label(sorted[i])]
  <2>1. sorted \in Seq(Market) /\ Sorts(sorted, ms, n) /\ z \in Nat /\ z <= n
    BY <1>1, <1>2 DEF Sorts
  <2>2. Priced(sorted, n, z)
    BY <1>11 DEF Priced
  <2>3. PICK d \in Nat : d = Min({5, z}) /\ d <= n /\ Labelled(GroupLabels(ms), sorted, d)
    BY <2>1, <2>2, GroupShows
  <2> WITNESS d, GroupLabels(ms)
  <2> QED
    BY <2>3 DEF Labelled
<1>14. \A i \in 1..d : \E j \in 1..n : o[j].label = labels[i] /\ o[j].price = o[i].price
  <2> TAKE i \in 1..d
  <2>1. i \in 1..n /\ p[i] \in 1..n
    <3>1. i \in 1..n
      BY <1>13
    <3> QED
      BY <1>5, <3>1
  <2>2. PICK j \in 1..n : q[j] = p[i]
    BY <1>5, <2>1
  <2>3. o[j].label = Label(ms[p[i]]) /\ o[j].price = f[p[i]]
    BY <1>3, <1>6, <2>2
  <2>4. labels[i] = Label(ms[p[i]]) /\ o[i].price = f[p[i]]
    <3>1. labels[i] = Label(sorted[i])
      BY <1>13
    <3> QED
      BY <1>6, <1>9, <2>1, <3>1
  <2> QED
    BY <2>3, <2>4
<1>15. DOMAIN labels = 1..d /\ Len(labels) = d
  BY <1>13
<1> QED
  BY <1>4, <1>12, <1>13, <1>14, <1>15 DEF Favoured

\* The invariant has the favourites of every group shown.
LEMMA Favours == PageIInv => FavouritesShown
<1> SUFFICES ASSUME PageIInv, NEW e \in DOMAIN answer, IsSportsGroupEvent(e)
             PROVE  LET o == answer[e].outcomes
                        p == answer[e].participants IN
                    /\ Len(p) = Min({5, Cardinality({i \in DOMAIN o : o[i].price # 0})})
                    /\ \A i \in DOMAIN p : \E j \in DOMAIN o :
                         o[j].label = p[i] /\ o[j].price = o[i].price
  BY DEF FavouritesShown
<1>1. e.markets \in Seq(Market) /\ Transformed(e, answer[e])
  BY EventOf
<1>2. PICK ms \in Seq(Market) : ms = Listed(e) /\ Len(ms) > 1
  BY <1>1, ListedMarkets DEF IsSportsGroupEvent
<1>3. answer[e].participants = GroupLabels(ms)
  BY <1>1, <1>2 DEF Transformed, Shown, Participants, IsSportsGroupEvent
<1>4. answer[e].outcomes \in GroupOffers(ms)
  BY <1>1, <1>2 DEF Transformed, Offers
<1>5. Favoured(answer[e].outcomes, answer[e].participants)
  BY <1>3, <1>4, GroupFavours
<1> QED
  BY <1>5 DEF Favoured

-----------------------------------------------------------------------------
(* The theorems.                                                           *)

\* A page does to the teams what its request does: TransformEventV2 only reads them.
THEOREM PageReadsTeams == PageSpec => Spec
<1>1. PageInit => Init
  BY DEF PageInit
<1>2. [PageNext]_pageVars => [Next]_vars
  BY DEF PageNext, pageVars, Resolving, TransformEventV2, Crash
<1> QED
  BY <1>1, <1>2, PTL DEF PageSpec, Spec

\* At every step of a page, what is answered is what TransformEventV2 makes of each
\* event from the teams that were read.
THEOREM PageInvariance == PageSpec => []PageIInv
BY PageInitHolds, PageNextKeeps, PTL DEF PageSpec

\* What is proved of the teams (db.go:458-622, enrich.go:67-121) holds on the page.
THEOREM PageTeams ==
  PageSpec => [](/\ TypeOK /\ QualifiedKeysStayInLeague /\ OwnLeagueWins
                 /\ MatchedIsFound /\ BestTierOnly /\ LeagueChoicesAgree)
BY PageReadsTeams, TypeCorrect, TeamsStayInLeague, OwnLeaguePrevails,
   MatchesAreFound, BestMatchesOnly, OneLeagueIsChosen, PTL

\* A label that is exactly the name of a team of the event's own league is shown
\* with the logo of such a team, however many namesakes other leagues have and in
\* whatever order tags and rows come (enrich.go:67-121, db.go:606-622).
THEOREM OwnLogosAreShown == PageSpec => []OwnLogoShown
BY PageInvariance, OwnLogo, PTL

\* The logo guessed from peers is spelled like theirs (enrich.go:212-265), for all
\* leagues, spellings and widths, and whichever samples the map yields.
THEOREM PeersSpellTheLogo == PageSpec => []PeersGiveTheLogo
<1>1. PageIInv => PeersGiveTheLogo
  BY PeersAgree DEF PageIInv, IInv
<1> QED
  BY <1>1, PageInvariance, PTL

\* The participants of a group are its favourites, though enrich.go and
\* transform_v2.go sort its markets in two ways, one of them unstable.
THEOREM FavouritesAreShown == PageSpec => []FavouritesShown
BY PageInvariance, Favours, PTL

\* Both displayed participants of a match are outcomes, when there are two teams
\* to be found, though the two files look for them separately.
THEOREM ParticipantsCanBeTraded == PageSpec => []ParticipantsAreTraded
BY PageInvariance, Traded, PTL

\* The first outcome of a match comes from a moneyline market, when the first such
\* market names its sides (transform_v2.go:618).
THEOREM TheMoneylineLeads == PageSpec => []MoneylineLeads
BY PageInvariance, LinesLead, PTL
=============================================================================
