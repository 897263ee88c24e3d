---------------------------- MODULE IngestProofs ----------------------------
(***************************************************************************)
(* The pages the crawl of an ingest job visits and the documents it makes  *)
(* of them (Ingest), for any finite set of pages, any links between them   *)
(* and any limits.                                                         *)
(***************************************************************************)
EXTENDS Ingest, SequenceTheorems, FiniteSetTheorems, WellFoundedInduction, TLAPS

(***************************************************************************)
(* Recursion up to a number.  The library states induction for predicates; *)
(* here it is needed for sets and functions only.                          *)
(***************************************************************************)
\* what holds of 0 and is kept by each step holds up to n
LEMMA UpTo ==
  ASSUME NEW n \in Nat, NEW Good, 0 \in Good,
         \A i \in 1..n : i - 1 \in Good => i \in Good
  PROVE  \A i \in 0..n : i \in Good
<1> DEFINE Bad == (0..n) \ Good
           Below == {0..i : i \in Bad}
<1> SUFFICES ASSUME Bad # {} PROVE FALSE
  OBVIOUS
<1>1. Below \subseteq FiniteSubsetsOf(Nat) /\ Below # {}
  <2>1. \A i \in Bad : IsFiniteSet(0..i) /\ 0..i \in SUBSET Nat
    BY FS_Interval
  <2> QED BY <2>1 DEF FiniteSubsetsOf
<1>2. \E x \in Below : \A y \in Below : ~ (<<y, x>> \in StrictSubsetOrdering(Nat))
  BY <1>1, FS_StrictSubsetOrderingWellFounded, WFMin, Zenon
<1>3. PICK i \in Bad : \A j \in Bad : ~ (<<0..j, 0..i>> \in StrictSubsetOrdering(Nat))
  BY <1>2
<1>4. i \in 1..n /\ i - 1 \in 0..n /\ i - 1 \notin Good
  <2>1. i # 0
    OBVIOUS
  <2> QED BY <2>1
<1>5. i - 1 \in Bad
  BY <1>4
<1>6. 0..(i - 1) \subseteq 0..i /\ i \in 0..i /\ i \notin 0..(i - 1)
  BY <1>4
<1>7. 0..(i - 1) \in SUBSET Nat /\ 0..i \in SUBSET Nat
  BY <1>4
<1> QED BY <1>3, <1>5, <1>6, <1>7 DEF StrictSubsetOrdering

\* what takes a member of S to the next, at each of n steps, and the ways to take them
Steps(n, S) == [(1..n) \X S -> S]
Walks(n, S, start, step) ==
  {f \in [0..n -> S] : f[0] = start /\ \A i \in 1..n : f[i] = step[<<i, f[i - 1]>>]}

\* steps can be taken one after the other
LEMMA Iterates ==
  ASSUME NEW n \in Nat, NEW S, NEW start \in S, NEW step \in Steps(n, S)
  PROVE  \E f : f \in Walks(n, S, start, step)
<1> DEFINE Good == {m \in 0..n : Walks(m, S, start, step) # {}}
<1>1. 0 \in Good
  <2>1. [i \in 0..0 |-> start] \in Walks(0, S, start, step)
    BY DEF Walks
  <2> QED BY <2>1
<1>2. ASSUME NEW m \in 1..n, m - 1 \in Good PROVE m \in Good
  <2>1. PICK f \in Walks(m - 1, S, start, step) : TRUE
    BY <1>2
  <2> DEFINE g == [i \in 0..m |-> IF i = m THEN step[<<m, f[m - 1]>>] ELSE f[i]]
  <2>2. f \in [0..(m - 1) -> S] /\ f[0] = start /\ \A i \in 1..(m - 1) : f[i] = step[<<i, f[i - 1]>>]
    BY <2>1 DEF Walks
  <2>3. step[<<m, f[m - 1]>>] \in S
    BY <2>2 DEF Steps
  <2>4. g \in [0..m -> S]
    BY <2>2, <2>3
  <2>5. g[0] = start
    BY <2>2
  <2>6. ASSUME NEW i \in 1..m PROVE g[i] = step[<<i, g[i - 1]>>]
    <3>1. CASE i = m
      <4>1. g[m] = step[<<m, f[m - 1]>>] /\ g[m - 1] = f[m - 1]
        OBVIOUS
      <4> QED BY <3>1, <4>1
    <3>2. CASE i # m
      <4>1. i \in 1..(m - 1) /\ g[i] = f[i] /\ g[i - 1] = f[i - 1]
        BY <3>2
      <4> QED BY <2>2, <4>1
    <3> QED BY <3>1, <3>2
  <2> HIDE DEF g
  <2>7. g \in Walks(m, S, start, step)
    BY <2>4, <2>5, <2>6 DEF Walks
  <2> QED BY <2>7
<1> HIDE DEF Good
<1>3. n \in Good
  BY <1>1, <1>2, UpTo
<1> QED BY <1>3 DEF Good

-----------------------------------------------------------------------------
(***************************************************************************)
(* The pages within a number of links of the seed.                         *)
(***************************************************************************)
N == Cardinality(Pages)

OneLinkOn(near) == near \cup {q \in inScope : \E p \in near : q \in ToSet(links[p])}

LEMMA NumberOfPages == N \in Nat
BY IngestAssumption, FS_CardinalityType DEF N

\* the recursive definition has a solution
LEMMA WithinSteps ==
  /\ Within = [k \in 0..N |-> IF k = 0 THEN {Seed} ELSE OneLinkOn(Within[k - 1])]
<1> DEFINE S == SUBSET (inScope \cup {Seed})
           step == [x \in (1..N) \X S |-> OneLinkOn(x[2])]
<1>1. step \in Steps(N, S) /\ {Seed} \in S
  BY DEF OneLinkOn, Steps
<1>2. PICK f : f \in [0..N -> S] /\ f[0] = {Seed} /\ \A i \in 1..N : f[i] = step[<<i, f[i - 1]>>]
  <2> HIDE DEF S, step
  <2>1. PICK f : f \in Walks(N, S, {Seed}, step)
    BY <1>1, NumberOfPages, Iterates
  <2> QED BY <2>1 DEF Walks
<1>3. f = [k \in 0..N |-> IF k = 0 THEN {Seed} ELSE OneLinkOn(f[k - 1])]
  <2>1. ASSUME NEW k \in 0..N PROVE f[k] = IF k = 0 THEN {Seed} ELSE OneLinkOn(f[k - 1])
    <3>1. CASE k = 0
      BY <1>2, <3>1
    <3>2. CASE k # 0
      <4>1. k \in 1..N /\ f[k - 1] \in S
        BY <1>2, <3>2, NumberOfPages
      <4> QED BY <1>2, <3>2, <4>1
    <3> QED BY <3>1, <3>2
  <2> QED BY <1>2, <2>1
<1> HIDE DEF step, S
<1>4. \E w : w = [k \in 0..N |-> IF k = 0 THEN {Seed} ELSE OneLinkOn(w[k - 1])]
  BY <1>3
<1> QED BY <1>4, Zenon DEF Within, OneLinkOn, N

LEMMA WithinIs ==
  /\ DOMAIN Within = 0..N /\ Within[0] = {Seed}
  /\ \A k \in 1..N : Within[k] = OneLinkOn(Within[k - 1])
<1>1. /\ DOMAIN Within = 0..N
      /\ \A k \in 0..N : Within[k] = IF k = 0 THEN {Seed} ELSE OneLinkOn(Within[k - 1])
  <2> DEFINE w == Within
  <2>1. w = [k \in 0..N |-> IF k = 0 THEN {Seed} ELSE OneLinkOn(w[k - 1])]
    BY WithinSteps
  <2> HIDE DEF w
  <2>2. /\ DOMAIN w = 0..N
        /\ \A k \in 0..N : w[k] = IF k = 0 THEN {Seed} ELSE OneLinkOn(w[k - 1])
    BY <2>1
  <2> QED BY <2>2 DEF w
<1>2. \A k \in 1..N : k \in 0..N /\ k # 0
  BY NumberOfPages
<1>3. 0 \in 0..N
  BY NumberOfPages
<1> QED BY <1>1, <1>2, <1>3

\* a page within j links is within more
LEMMA WithinGrows ==
  ASSUME NEW j \in 0..N, NEW k \in 0..N, j <= k
  PROVE  Within[j] \subseteq Within[k]
<1> DEFINE Good == {i \in 0..N : j <= i => Within[j] \subseteq Within[i]}
<1>1. 0 \in Good
  BY NumberOfPages
<1>2. ASSUME NEW i \in 1..N, i - 1 \in Good PROVE i \in Good
  <2>1. Within[i - 1] \subseteq Within[i] /\ i \in 0..N
    BY WithinIs, NumberOfPages DEF OneLinkOn
  <2>2. CASE j = i
    BY <2>1, <2>2
  <2>3. CASE j # i
    <3>1. j <= i => j <= i - 1
      BY <2>3, NumberOfPages
    <3> QED BY <1>2, <2>1, <3>1
  <2> QED BY <2>2, <2>3
<1> HIDE DEF Good
<1>3. \A i \in 0..N : i \in Good
  BY <1>1, <1>2, UpTo, NumberOfPages
<1> QED BY <1>3 DEF Good

\* a set of pages that the seed is in and no link of the scope leads out of holds them all
LEMMA WithinClosed ==
  ASSUME NEW P, NEW d \in 0..N, Within[d] \subseteq P,
         \A p \in P, q \in inScope : q \in ToSet(links[p]) => q \in P
  PROVE  \A k \in 0..N : Within[k] \subseteq P
<1> DEFINE Good == {i \in 0..N : Within[i] \subseteq P}
<1>1. 0 \in Good
  <2>1. 0 \in 0..N /\ 0 <= d
    BY NumberOfPages
  <2>2. Within[0] \subseteq Within[d]
    BY <2>1, WithinGrows
  <2> QED BY <2>1, <2>2
<1>2. ASSUME NEW i \in 1..N, i - 1 \in Good PROVE i \in Good
  <2>1. i \in 0..N /\ Within[i] = OneLinkOn(Within[i - 1]) /\ Within[i - 1] \subseteq P
    BY <1>2, WithinIs, NumberOfPages
  <2> QED BY <2>1 DEF OneLinkOn
<1> HIDE DEF Good
<1>3. \A i \in 0..N : i \in Good
  BY <1>1, <1>2, UpTo, NumberOfPages
<1> QED BY <1>3 DEF Good

\* what is within a number of links stays so while the site does
LEMMA WithinStays ==
  ASSUME Fixed
  PROVE  Within' = Within
<1> DEFINE w == Within
           v == Within'
           Good == {i \in 0..N : v[i] = w[i]}
<1>0. /\ w = [k \in 0..N |-> IF k = 0 THEN {Seed} ELSE OneLinkOn(w[k - 1])]
      /\ v = [k \in 0..N |-> IF k = 0 THEN {Seed} ELSE OneLinkOn(v[k - 1])]
  <2>1. (Within = [k \in 0..N |-> IF k = 0 THEN {Seed} ELSE OneLinkOn(Within[k - 1])])'
    BY WithinSteps, PTL
  <2>2. links' = links /\ inScope' = inScope
    BY DEF Fixed
  <2> QED BY <2>1, <2>2, WithinSteps DEF OneLinkOn
<1> HIDE DEF w, v
<1>1. 0 \in Good
  <2>1. 0 \in 0..N
    BY NumberOfPages
  <2> QED BY <1>0, <2>1
<1>2. ASSUME NEW i \in 1..N, i - 1 \in Good PROVE i \in Good
  <2>1. i \in 0..N /\ i # 0
    BY NumberOfPages
  <2>2. w[i] = OneLinkOn(w[i - 1]) /\ v[i] = OneLinkOn(v[i - 1])
    BY <1>0, <2>1
  <2> QED BY <1>2, <2>1, <2>2
<1> HIDE DEF Good
<1>3. \A i \in 0..N : i \in Good
  BY <1>1, <1>2, UpTo, NumberOfPages
<1>4. \A i \in 0..N : v[i] = w[i]
  BY <1>3 DEF Good
<1>5. w = [k \in 0..N |-> w[k]] /\ v = [k \in 0..N |-> v[k]]
  BY <1>0
<1> QED BY <1>4, <1>5 DEF v, w

-----------------------------------------------------------------------------
(***************************************************************************)
(* The links of one page.                                                  *)
(***************************************************************************)
LEMMA ChildrenOf ==
  ASSUME NEW p \in Pages, NEW d \in Nat, links \in [Pages -> Seq(Pages)]
  PROVE  /\ Children(p, d) \in Seq(Pages \X {d + 1})
         /\ ToSet(Children(p, d)) = {<<q, d + 1>> : q \in {r \in ToSet(links[p]) : IsNew(p, r)}}
<1> DEFINE n == Len(links[p])
           T == Pages \X {d + 1}
           S == Seq(T)
           entry(i) == <<links[p][i], d + 1>>
           step == [x \in (1..n) \X S |-> IF IsNew(p, links[p][x[1]]) THEN Append(x[2], entry(x[1])) ELSE x[2]]
           of == CHOOSE f : f = [k \in 0..n |->
                   IF k = 0 THEN <<>>
                   ELSE IF IsNew(p, links[p][k]) THEN Append(f[k - 1], <<links[p][k], d + 1>>) ELSE f[k - 1]]
<1>1. links[p] \in Seq(Pages) /\ n \in Nat /\ DOMAIN links[p] = 1..n /\ \A i \in 1..n : links[p][i] \in Pages
  <2>1. links[p] \in Seq(Pages)
    OBVIOUS
  <2> QED BY <2>1, LenProperties, ElementOfSeq
<1>2. \A i \in 1..n : entry(i) \in T
  BY <1>1
<1>3. <<>> \in S /\ \A s \in S, i \in 1..n : Append(s, entry(i)) \in S
  <2> HIDE DEF n, T, entry
  <2> QED BY <1>2, EmptySeq, AppendProperties
<1>4. step \in Steps(n, S)
  <2> HIDE DEF n, S, entry
  <2> QED BY <1>3 DEF Steps
<1>5. PICK f : /\ f \in [0..n -> S] /\ f[0] = <<>>
               /\ \A i \in 1..n : f[i] = step[<<i, f[i - 1]>>]
  <2> HIDE DEF n, S, step
  <2>1. PICK f : f \in Walks(n, S, <<>>, step)
    BY <1>1, <1>3, <1>4, Iterates
  <2> QED BY <2>1 DEF Walks
<1>6. \A i \in 1..n : f[i - 1] \in S /\ f[i] = IF IsNew(p, links[p][i]) THEN Append(f[i - 1], entry(i)) ELSE f[i - 1]
  <2> SUFFICES ASSUME NEW i \in 1..n
               PROVE  f[i - 1] \in S /\ f[i] = IF IsNew(p, links[p][i]) THEN Append(f[i - 1], entry(i)) ELSE f[i - 1]
    OBVIOUS
  <2>1. i - 1 \in 0..n
    BY <1>1
  <2>2. f[i - 1] \in S
    BY <1>5, <2>1
  <2> HIDE DEF n, S, entry
  <2> QED BY <1>5, <2>2
<1>7. f = [k \in 0..n |-> IF k = 0 THEN <<>>
             ELSE IF IsNew(p, links[p][k]) THEN Append(f[k - 1], <<links[p][k], d + 1>>) ELSE f[k - 1]]
  <2>1. ASSUME NEW k \in 0..n
        PROVE  f[k] = IF k = 0 THEN <<>>
                      ELSE IF IsNew(p, links[p][k]) THEN Append(f[k - 1], <<links[p][k], d + 1>>) ELSE f[k - 1]
    <3>1. k # 0 => k \in 1..n
      BY <1>1
    <3> HIDE DEF n, S
    <3> QED BY <1>5, <1>6, <3>1
  <2> HIDE DEF n, S
  <2> QED BY <1>5, <2>1
<1>8. of = [k \in 0..n |-> IF k = 0 THEN <<>>
             ELSE IF IsNew(p, links[p][k]) THEN Append(of[k - 1], <<links[p][k], d + 1>>) ELSE of[k - 1]]
  <2>1. \E g : g = [k \in 0..n |-> IF k = 0 THEN <<>>
             ELSE IF IsNew(p, links[p][k]) THEN Append(g[k - 1], <<links[p][k], d + 1>>) ELSE g[k - 1]]
    BY <1>7
  <2> HIDE DEF n, S, step
  <2> QED BY <2>1, Zenon
<1>9. Children(p, d) = of[n]
  BY Zenon DEF Children
<1> HIDE DEF of
<1>10. /\ of[0] = <<>>
       /\ \A i \in 1..n : of[i] = IF IsNew(p, links[p][i]) THEN Append(of[i - 1], entry(i)) ELSE of[i - 1]
  <2>1. 0 \in 0..n /\ \A i \in 1..n : i \in 0..n /\ i # 0
    BY <1>1
  <2> HIDE DEF n
  <2> QED BY <1>8, <2>1
<1> DEFINE Fits(i) == /\ of[i] \in S
                      /\ ToSet(of[i]) = {<<links[p][j], d + 1>> : j \in {k \in 1..i : IsNew(p, links[p][k])}}
           Good == {i \in 0..n : Fits(i)}
<1>11. 0 \in Good
  <2>1. ToSet(<<>>) = {} /\ {k \in 1..0 : IsNew(p, links[p][k])} = {}
    BY DEF ToSet
  <2>2. 0 \in 0..n
    BY <1>1
  <2> HIDE DEF n, S
  <2> QED BY <1>3, <1>10, <2>1, <2>2
<1>12. ASSUME NEW i \in 1..n, i - 1 \in Good PROVE i \in Good
  <2> DEFINE s == of[i - 1]
             e == entry(i)
  <2>1. s \in S /\ ToSet(s) = {<<links[p][j], d + 1>> : j \in {k \in 1..(i - 1) : IsNew(p, links[p][k])}}
    BY <1>12
  <2>2. i \in 0..n /\ \A k : k \in 1..i <=> k \in 1..(i - 1) \/ k = i
    BY <1>1
  <2>3. CASE IsNew(p, links[p][i])
    <3>1. of[i] = Append(s, e) /\ e \in T
      BY <1>2, <1>10, <2>3
    <3>2. of[i] \in S /\ ToSet(of[i]) = ToSet(s) \cup {e}
      <4>1. /\ Append(s, e) \in Seq(T) /\ Len(Append(s, e)) = Len(s) + 1 /\ Len(s) \in Nat
            /\ DOMAIN s = 1..Len(s) /\ DOMAIN Append(s, e) = 1..(Len(s) + 1)
            /\ \A k \in 1..Len(s) : Append(s, e)[k] = s[k]
            /\ Append(s, e)[Len(s) + 1] = e
        <5> HIDE DEF s, e, T
        <5> QED BY <2>1, <3>1, AppendProperties, LenProperties
      <4> HIDE DEF s, e, T
      <4>2. \A k : k \in 1..(Len(s) + 1) <=> k \in 1..Len(s) \/ k = Len(s) + 1
        BY <4>1
      <4> QED BY <3>1, <4>1, <4>2 DEF ToSet
    <3> HIDE DEF n, S
    <3> QED BY <2>1, <2>2, <2>3, <3>2
  <2>4. CASE ~IsNew(p, links[p][i])
    <3>1. of[i] = s
      BY <1>10, <2>4
    <3> HIDE DEF n, S
    <3> QED BY <2>1, <2>2, <2>4, <3>1
  <2> QED BY <2>3, <2>4
<1>13. Fits(n)
  <2>1. n \in 0..n
    BY <1>1
  <2> HIDE DEF Good, n
  <2>2. n \in Good
    BY <1>1, <1>11, <1>12, <2>1, UpTo
  <2> QED BY <2>2 DEF Good
<1>14. ToSet(links[p]) = {links[p][i] : i \in 1..n}
  BY <1>1 DEF ToSet
<1> QED
  <2> HIDE DEF n
  <2>1. {<<links[p][j], d + 1>> : j \in {k \in 1..n : IsNew(p, links[p][k])}}
          = {<<q, d + 1>> : q \in {r \in ToSet(links[p]) : IsNew(p, r)}}
    BY <1>14
  <2> QED BY <1>9, <1>13, <2>1
-----------------------------------------------------------------------------
(***************************************************************************)
(* What is in a sequence, and queues sorted by depth.                      *)
(***************************************************************************)
LEMMA InTail ==
  ASSUME NEW T, NEW s \in Seq(T), s # <<>>
  PROVE  /\ Head(s) \in T /\ Tail(s) \in Seq(T)
         /\ ToSet(s) = {Head(s)} \cup ToSet(Tail(s))
<1>1. /\ Head(s) \in T /\ Tail(s) \in Seq(T) /\ Head(s) = s[1]
      /\ Len(s) \in Nat \ {0} /\ Len(Tail(s)) = Len(s) - 1
      /\ \A i \in 1..Len(Tail(s)) : Tail(s)[i] = s[i + 1]
      /\ DOMAIN s = 1..Len(s) /\ DOMAIN Tail(s) = 1..(Len(s) - 1)
  BY EmptySeq, HeadTailProperties, LenProperties
<1> DEFINE m == Len(s)
           t == Tail(s)
<1> HIDE DEF t, m
<1>2. /\ m \in Nat \ {0} /\ DOMAIN s = 1..m /\ DOMAIN t = 1..(m - 1) /\ Head(s) = s[1]
      /\ \A i \in 1..(m - 1) : t[i] = s[i + 1]
  BY <1>1 DEF t, m
<1>3. \A i \in 1..m : i = 1 \/ (i - 1 \in 1..(m - 1) /\ t[i - 1] = s[i])
  <2> SUFFICES ASSUME NEW i \in 1..m, i # 1 PROVE i - 1 \in 1..(m - 1) /\ t[i - 1] = s[i]
    OBVIOUS
  <2>1. i - 1 \in 1..(m - 1) /\ (i - 1) + 1 = i
    BY <1>2
  <2> QED BY <1>2, <2>1
<1>4. 1 \in 1..m /\ \A i \in 1..(m - 1) : i + 1 \in 1..m
  BY <1>2
<1>5. ToSet(s) = {s[1]} \cup ToSet(t)
  <2>1. ASSUME NEW x \in ToSet(s) PROVE x = s[1] \/ x \in ToSet(t)
    <3>1. PICK i \in 1..m : s[i] = x
      BY <1>2 DEF ToSet
    <3> QED BY <1>2, <1>3, <3>1 DEF ToSet
  <2>2. ASSUME NEW x \in ToSet(t) PROVE x \in ToSet(s)
    <3>1. PICK i \in 1..(m - 1) : t[i] = x
      BY <1>2 DEF ToSet
    <3> QED BY <1>2, <1>4, <3>1 DEF ToSet
  <2>3. s[1] \in ToSet(s)
    BY <1>2, <1>4 DEF ToSet
  <2> QED BY <2>1, <2>2, <2>3
<1> QED BY <1>1, <1>2, <1>5 DEF t

LEMMA InConcat ==
  ASSUME NEW T, NEW s \in Seq(T), NEW c \in Seq(T)
  PROVE  s \o c \in Seq(T) /\ ToSet(s \o c) = ToSet(s) \cup ToSet(c)
<1> DEFINE m == Len(s)
           n == Len(c)
           r == s \o c
<1>1. /\ m \in Nat /\ n \in Nat /\ r \in Seq(T)
      /\ DOMAIN s = 1..m /\ DOMAIN c = 1..n /\ DOMAIN r = 1..(m + n)
      /\ \A i \in 1..(m + n) : r[i] = IF i <= m THEN s[i] ELSE c[i - m]
  <2>1. r \in Seq(T) /\ Len(r) = m + n
    BY ConcatProperties
  <2>2. DOMAIN r = 1..Len(r)
    BY <2>1, LenProperties
  <2> QED BY <2>1, <2>2, ConcatProperties, LenProperties
<1> HIDE DEF m, n, r
<1>2. ASSUME NEW i \in 1..m PROVE i \in 1..(m + n) /\ r[i] = s[i]
  BY <1>1
<1>3. ASSUME NEW i \in 1..n PROVE m + i \in 1..(m + n) /\ r[m + i] = c[i]
  <2>1. m + i \in 1..(m + n) /\ ~(m + i <= m) /\ (m + i) - m = i
    BY <1>1
  <2> QED BY <1>1, <2>1
<1>4. ASSUME NEW i \in 1..(m + n)
      PROVE  (i \in 1..m /\ r[i] = s[i]) \/ (i - m \in 1..n /\ r[i] = c[i - m])
  BY <1>1
<1>5. ToSet(r) = ToSet(s) \cup ToSet(c)
  <2>1. ASSUME NEW x \in ToSet(r) PROVE x \in ToSet(s) \/ x \in ToSet(c)
    <3>1. PICK i \in 1..(m + n) : r[i] = x
      BY <1>1 DEF ToSet
    <3>2. (i \in 1..m /\ r[i] = s[i]) \/ (i - m \in 1..n /\ r[i] = c[i - m])
      BY <1>4
    <3> QED BY <1>1, <3>1, <3>2 DEF ToSet
  <2>2. ASSUME NEW x \in ToSet(s) PROVE x \in ToSet(r)
    <3>1. PICK i \in 1..m : s[i] = x
      BY <1>1 DEF ToSet
    <3>2. i \in 1..(m + n) /\ r[i] = x
      BY <1>2, <3>1
    <3> QED BY <1>1, <3>2 DEF ToSet
  <2>3. ASSUME NEW x \in ToSet(c) PROVE x \in ToSet(r)
    <3>1. PICK i \in 1..n : c[i] = x
      BY <1>1 DEF ToSet
    <3>2. m + i \in 1..(m + n) /\ r[m + i] = x
      BY <1>3, <3>1
    <3> QED BY <1>1, <3>2 DEF ToSet
  <2> QED BY <2>1, <2>2, <2>3
<1> QED BY <1>1, <1>5 DEF r

LEMMA InAppend ==
  ASSUME NEW T, NEW s \in Seq(T), NEW x \in T
  PROVE  /\ Append(s, x) \in Seq(T) /\ Len(Append(s, x)) = Len(s) + 1
         /\ ToSet(Append(s, x)) = ToSet(s) \cup {x}
         /\ IsInjective(s) /\ x \notin ToSet(s) => IsInjective(Append(s, x))
<1> DEFINE m == Len(s)
           r == Append(s, x)
<1>1. /\ m \in Nat /\ r \in Seq(T) /\ Len(r) = m + 1
      /\ DOMAIN s = 1..m /\ DOMAIN r = 1..(m + 1)
      /\ \A i \in 1..m : r[i] = s[i]
      /\ r[m + 1] = x
  <2>1. r \in Seq(T) /\ Len(r) = m + 1
    BY AppendProperties
  <2>2. DOMAIN r = 1..Len(r)
    BY <2>1, LenProperties
  <2> QED BY <2>1, <2>2, AppendProperties, LenProperties
<1> HIDE DEF m, r
<1>2. m + 1 \in 1..(m + 1) /\ \A i : i \in 1..(m + 1) <=> i \in 1..m \/ i = m + 1
  BY <1>1
<1>3. ToSet(r) = ToSet(s) \cup {x}
  BY <1>1, <1>2 DEF ToSet
<1>4. IsInjective(s) /\ x \notin ToSet(s) => IsInjective(r)
  <2> SUFFICES ASSUME IsInjective(s), x \notin ToSet(s), NEW i \in 1..(m + 1), NEW j \in 1..(m + 1),
                      r[i] = r[j]
               PROVE  i = j
    BY <1>1 DEF IsInjective
  <2>1. \A k \in 1..m : s[k] # x
    BY <1>1 DEF ToSet
  <2> QED BY <1>1, <1>2, <2>1 DEF IsInjective
<1> QED BY <1>1, <1>3, <1>4 DEF r, m

Sorted(s) == \A i \in DOMAIN s, j \in DOMAIN s : i < j => s[i][2] <= s[j][2]

\* nothing waits before the head of a sorted queue, and the rest is sorted too
LEMMA SortedTail ==
  ASSUME NEW T, NEW s \in Seq(T \X Nat), s # <<>>, Sorted(s)
  PROVE  Sorted(Tail(s)) /\ \A e \in ToSet(s) : Head(s)[2] <= e[2]
<1> DEFINE m == Len(s)
           t == Tail(s)
<1>1. /\ m \in Nat \ {0} /\ DOMAIN s = 1..m /\ DOMAIN t = 1..(m - 1) /\ Head(s) = s[1]
      /\ \A i \in 1..(m - 1) : t[i] = s[i + 1]
      /\ \A i \in 1..m : s[i] \in T \X Nat
  <2>1. Tail(s) \in Seq(T \X Nat)
    BY HeadTailProperties
  <2> QED BY <2>1, EmptySeq, HeadTailProperties, LenProperties, ElementOfSeq
<1> HIDE DEF m, t
<1>2. \A i \in 1..(m - 1) : i + 1 \in 1..m
  BY <1>1
<1>3. Sorted(t)
  <2> SUFFICES ASSUME NEW i \in 1..(m - 1), NEW j \in 1..(m - 1), i < j
               PROVE  t[i][2] <= t[j][2]
    BY <1>1 DEF Sorted
  <2>1. t[i] = s[i + 1] /\ t[j] = s[j + 1]
    BY <1>1
  <2>2. i + 1 \in 1..m /\ j + 1 \in 1..m /\ i + 1 < j + 1
    BY <1>2
  <2>3. s[i + 1][2] <= s[j + 1][2]
    BY <1>1, <2>2 DEF Sorted
  <2> QED BY <2>1, <2>3
<1>4. \A i \in 1..m : s[1][2] <= s[i][2]
  <2> SUFFICES ASSUME NEW i \in 1..m PROVE s[1][2] <= s[i][2]
    OBVIOUS
  <2>1. 1 \in 1..m /\ (i = 1 \/ 1 < i)
    BY <1>1
  <2>2. s[1] \in T \X Nat
    BY <1>1, <2>1
  <2>3. CASE i = 1
    BY <2>2, <2>3
  <2>4. CASE 1 < i
    BY <1>1, <2>1, <2>4 DEF Sorted
  <2> QED BY <2>1, <2>3, <2>4
<1>5. ASSUME NEW e \in ToSet(s) PROVE Head(s)[2] <= e[2]
  <2>1. PICK i \in 1..m : s[i] = e
    BY <1>1 DEF ToSet
  <2> QED BY <1>1, <1>4, <2>1
<1> QED BY <1>3, <1>5 DEF t

LEMMA SortedConcat ==
  ASSUME NEW T, NEW k \in Nat, NEW s \in Seq(T \X Nat), NEW c \in Seq(T \X {k}),
         Sorted(s), \A e \in ToSet(s) : e[2] <= k
  PROVE  Sorted(s \o c)
<1> DEFINE m == Len(s)
           n == Len(c)
           r == s \o c
<1>1. c \in Seq(T \X Nat)
  BY SeqMonotonic
<1>2. /\ m \in Nat /\ n \in Nat
      /\ DOMAIN s = 1..m /\ DOMAIN c = 1..n /\ DOMAIN r = 1..(m + n)
      /\ \A i \in 1..(m + n) : r[i] = IF i <= m THEN s[i] ELSE c[i - m]
      /\ \A i \in 1..n : c[i] \in T \X {k}
  <2>1. r \in Seq(T \X Nat) /\ Len(r) = m + n
    BY <1>1, ConcatProperties
  <2>2. DOMAIN r = 1..Len(r)
    BY <2>1, LenProperties
  <2> QED BY <1>1, <2>1, <2>2, ConcatProperties, LenProperties, ElementOfSeq
<1> HIDE DEF m, n, r
<1>3. \A i \in 1..m : s[i][2] <= k
  BY <1>2 DEF ToSet
<1>4. \A i \in 1..n : c[i][2] = k
  BY <1>2
<1>5. ASSUME NEW i \in 1..(m + n), NEW j \in 1..(m + n), i < j PROVE r[i][2] <= r[j][2]
  <2>1. CASE j <= m
    <3>1. i \in 1..m /\ j \in 1..m
      BY <1>2, <1>5, <2>1
    <3>2. r[i] = s[i] /\ r[j] = s[j]
      BY <1>2, <3>1
    <3> QED BY <1>2, <1>5, <3>1, <3>2 DEF Sorted
  <2>2. CASE ~(j <= m)
    <3>1. j - m \in 1..n /\ r[j][2] = k
      BY <1>2, <1>4, <2>2
    <3>2. CASE i <= m
      <4>1. i \in 1..m /\ r[i] = s[i]
        BY <1>2, <3>2
      <4> QED BY <1>3, <3>1, <4>1
    <3>3. CASE ~(i <= m)
      <4>1. i - m \in 1..n /\ r[i][2] = k
        BY <1>2, <1>4, <3>3
      <4> QED BY <3>1, <4>1
    <3> QED BY <3>2, <3>3
  <2> QED BY <2>1, <2>2
<1> QED BY <1>2, <1>5 DEF Sorted, r

-----------------------------------------------------------------------------
(***************************************************************************)
(* The invariant.                                                          *)
(***************************************************************************)
Queued == ToSet(queue)

\* The discovery is at depth d: everything nearer is visited, what is within d
\* is visited or waits at depth d, and of a page within d the links are visited
\* or wait, unless the greatest depth is reached.
Level(d) ==
  /\ d \in 0..Len(urls) /\ d <= plan.depth
  /\ \A e \in Queued : e[2] \in {d, d + 1} /\ e[2] <= Len(urls) /\ e[1] \in Within[e[2]]
  /\ Sorted(queue)
  /\ ToSet(urls) \subseteq Within[d]
  /\ \A k \in 0..d : k # d => Within[k] \subseteq ToSet(urls)
  /\ \A p \in Within[d] : p \in ToSet(urls) \/ <<p, d>> \in Queued
  /\ cut => d = plan.depth
  /\ ~cut => \A p \in ToSet(urls), q \in inScope :
       q \in ToSet(links[p]) => q \in ToSet(urls) \/ \E e \in Queued : e[1] = q

Discovery ==
  /\ plan.crawl /\ reason = "none" /\ outcomes = <<>>
  /\ \E d \in 0..Len(urls) : Level(d)

AllCounted == Len(outcomes) = Len(urls) /\ (~plan.crawl => Wrote)

IngestInv ==
  /\ IngestTypeOK
  /\ stage = "discover" => Discovery
  /\ stage \in {"write", "translate", "completed"} => AllCounted
  /\ NearestFirst /\ ReasonIsTrue

-----------------------------------------------------------------------------
(***************************************************************************)
(* The depth the discovery is at.                                          *)
(***************************************************************************)
LEMMA InjectiveBound ==
  ASSUME NEW s \in Seq(Pages), IsInjective(s)
  PROVE  Len(s) <= N
<1>1. Len(s) \in Nat /\ s \in Injection(1..Len(s), Pages)
  BY LenProperties DEF Injection, IsInjective
<1>2. Cardinality(1..Len(s)) = Len(s)
  <2>1. 1 \in Int /\ Len(s) \in Int
    BY <1>1
  <2>2. Cardinality(1..Len(s)) = IF 1 > Len(s) THEN 0 ELSE Len(s) - 1 + 1
    BY <2>1, FS_Interval
  <2> QED BY <1>1, <2>2
<1> QED BY <1>1, <1>2, IngestAssumption, FS_Injection DEF N

LEMMA UrlsArePages ==
  ASSUME IngestTypeOK, plan.crawl
  PROVE  /\ Len(urls) \in Nat /\ Len(urls) <= N /\ plan.depth \in Nat
         /\ links \in [Pages -> Seq(Pages)] /\ inScope \subseteq Pages /\ Seed \in inScope
         /\ queue \in Seq(Pages \X Nat)
         /\ \A e \in Queued : e \in Pages \X (0..plan.depth)
<1>1. /\ urls \in Seq(Pages) /\ IsInjective(urls) /\ plan \in Plans
      /\ queue \in Seq(Pages \X (0..plan.depth))
      /\ links \in Sites /\ inScope \in Scopes
  BY DEF IngestTypeOK
<1>2. plan.depth \in Nat
  BY <1>1, IngestAssumption
<1>3. Len(urls) \in Nat /\ Len(urls) <= N
  BY <1>1, LenProperties, InjectiveBound
<1>6. queue \in Seq(Pages \X Nat)
  <2>1. Pages \X (0..plan.depth) \subseteq Pages \X Nat
    BY <1>2
  <2> QED BY <1>1, <2>1, SeqMonotonic
<1>7. \A e \in Queued : e \in Pages \X (0..plan.depth)
  BY <1>1, LenProperties, ElementOfSeq DEF Queued, ToSet
<1>8. links \in [Pages -> Seq(Pages)] /\ inScope \subseteq Pages /\ Seed \in inScope
  BY <1>1, IngestAssumption
<1> QED BY <1>2, <1>3, <1>6, <1>7, <1>8

\* when the page at the head is one deeper, everything within d is visited, and
\* the discovery is at the next depth
LEMMA NextLevel ==
  ASSUME IngestTypeOK, plan.crawl, queue # <<>>,
         NEW d \in 0..Len(urls), Level(d), Head(queue)[2] # d
  PROVE  d + 1 \in 0..Len(urls) /\ Level(d + 1) /\ Head(queue)[2] = d + 1
<1> DEFINE h == Head(queue)
<1>1. /\ Len(urls) \in Nat /\ Len(urls) <= N /\ N \in Nat /\ plan.depth \in Nat
      /\ queue \in Seq(Pages \X Nat)
      /\ \A e \in Queued : e \in Pages \X (0..plan.depth)
  BY UrlsArePages, NumberOfPages
<1>2. h \in Queued /\ \A e \in Queued : h[2] <= e[2]
  BY <1>1, InTail, SortedTail DEF Queued, Level
<1> HIDE DEF h
<1>3. h[2] = d + 1 /\ d + 1 <= Len(urls) /\ d + 1 <= plan.depth
  <2>1. h[2] \in {d, d + 1} /\ h[2] <= Len(urls) /\ h[2] # d
    BY <1>2 DEF Level, h
  <2>2. h[2] \in 0..plan.depth
    BY <1>1, <1>2
  <2> QED BY <1>1, <2>1, <2>2
<1>4. \A e \in Queued : e[2] = d + 1
  <2> SUFFICES ASSUME NEW e \in Queued PROVE e[2] = d + 1
    OBVIOUS
  <2>1. e[2] \in {d, d + 1} /\ d + 1 <= e[2]
    BY <1>2, <1>3 DEF Level
  <2> QED BY <2>1
<1>5. /\ d \in 0..N /\ d + 1 \in 0..N /\ d + 1 \in 1..N /\ d + 1 \in 0..Len(urls) /\ (d + 1) - 1 = d /\ d <= d + 1
  BY <1>1, <1>3
<1>6. Within[d] \subseteq ToSet(urls)
  <2>1. \A p : <<p, d>> \notin Queued
    <3> SUFFICES ASSUME NEW p, <<p, d>> \in Queued PROVE FALSE
      OBVIOUS
    <3>1. <<p, d>>[2] = d + 1
      BY <1>4
    <3> QED BY <3>1, <1>5
  <2> QED BY <2>1 DEF Level
<1>7. ~cut
  BY <1>1, <1>3, <1>5 DEF Level
<1>8. Within[d + 1] = OneLinkOn(Within[d]) /\ Within[d] \subseteq Within[d + 1]
  <2>1. Within[d + 1] = OneLinkOn(Within[(d + 1) - 1])
    BY <1>5, WithinIs
  <2> QED BY <1>5, <2>1 DEF OneLinkOn
<1>9. \A k \in 0..(d + 1) : k # d + 1 => Within[k] \subseteq ToSet(urls)
  <2> SUFFICES ASSUME NEW k \in 0..(d + 1), k # d + 1 PROVE Within[k] \subseteq ToSet(urls)
    OBVIOUS
  <2>1. k \in 0..d
    BY <1>5
  <2> QED BY <2>1, <1>6 DEF Level
<1>10. \A p \in Within[d + 1] : p \in ToSet(urls) \/ <<p, d + 1>> \in Queued
  <2> SUFFICES ASSUME NEW q \in Within[d + 1], q \notin ToSet(urls) PROVE <<q, d + 1>> \in Queued
    OBVIOUS
  <2>1. PICK p \in Within[d] : q \in inScope /\ q \in ToSet(links[p])
    BY <1>6, <1>8 DEF OneLinkOn
  <2>2. PICK e \in Queued : e[1] = q
    BY <1>6, <1>7, <2>1 DEF Level
  <2>3. e = <<e[1], e[2]>>
    BY <1>1, <2>2
  <2> QED BY <1>4, <2>2, <2>3
<1>11. \A e \in Queued : e[2] \in {d + 1, d + 1 + 1} /\ e[2] <= Len(urls) /\ e[1] \in Within[e[2]]
  BY <1>4 DEF Level
<1>12. Level(d + 1)
  BY <1>3, <1>5, <1>7, <1>8, <1>9, <1>10, <1>11 DEF Level
<1> QED BY <1>3, <1>5, <1>12 DEF h

LEMMA AtHead ==
  ASSUME IngestTypeOK, Discovery, queue # <<>>
  PROVE  \E d \in 0..Len(urls) : Level(d) /\ Head(queue)[2] = d
BY NextLevel DEF Discovery

LEMMA LevelIsNearest == IngestTypeOK /\ Discovery => NearestFirst
<1> SUFFICES ASSUME IngestTypeOK, Discovery, NEW k \in 0..N
             PROVE  ToSet(urls) \subseteq Within[k] \/ Within[k] \subseteq ToSet(urls)
  BY DEF NearestFirst, N
<1>1. PICK d \in 0..Len(urls) : Level(d)
  BY DEF Discovery
<1>2. Len(urls) \in Nat /\ Len(urls) <= N /\ N \in Nat
  BY UrlsArePages, NumberOfPages DEF Discovery
<1>3. CASE k < d
  <2>1. k \in 0..d /\ k # d
    BY <1>2, <1>3
  <2> QED BY <1>1, <2>1 DEF Level
<1>4. CASE ~(k < d)
  <2>1. d \in 0..N /\ d <= k
    BY <1>2, <1>4
  <2>2. Within[d] \subseteq Within[k]
    BY <2>1, WithinGrows
  <2> QED BY <1>1, <2>2 DEF Level
<1> QED BY <1>3, <1>4

-----------------------------------------------------------------------------
(***************************************************************************)
(* The steps of the discovery.                                             *)
(***************************************************************************)
\* what the entry at the head of the queue is, and what stays behind it
LEMMA Entry ==
  ASSUME IngestTypeOK, Discovery, Visiting
  PROVE  \E d \in 0..Len(urls) :
           /\ Level(d) /\ d \in 0..plan.depth /\ d \in 0..N /\ Len(urls) \in Nat
           /\ Dequeued = <<Dequeued[1], d>> /\ Dequeued[2] = d
           /\ Dequeued[1] \in Pages /\ Dequeued[1] \in Within[d]
           /\ Queued = {Dequeued} \cup ToSet(Take[2])
           /\ Sorted(Take[2]) /\ Take[2] \in Seq(Pages \X (0..plan.depth))
           /\ Take[2] \in Seq(Pages \X Nat)
           /\ urls \in Seq(Pages) /\ IsInjective(urls)
<1>1. queue # <<>> /\ plan.crawl
  BY DEF Visiting, Discovery
<1>2. PICK d \in 0..Len(urls) : Level(d) /\ Head(queue)[2] = d
  BY <1>1, AtHead
<1>3. /\ Dequeued = Head(queue) /\ Take[2] = Tail(queue)
  BY DEF Dequeued, Take
<1>4. /\ Len(urls) \in Nat /\ Len(urls) <= N /\ N \in Nat /\ plan.depth \in Nat
      /\ queue \in Seq(Pages \X Nat)
      /\ \A e \in Queued : e \in Pages \X (0..plan.depth)
  BY <1>1, UrlsArePages, NumberOfPages
<1>5. queue \in Seq(Pages \X (0..plan.depth)) /\ urls \in Seq(Pages) /\ IsInjective(urls)
  BY <1>1 DEF IngestTypeOK
<1>6. /\ Head(queue) \in Pages \X (0..plan.depth)
      /\ Tail(queue) \in Seq(Pages \X (0..plan.depth))
      /\ Queued = {Head(queue)} \cup ToSet(Tail(queue))
  BY <1>1, <1>5, InTail DEF Queued
<1>7. Tail(queue) \in Seq(Pages \X Nat) /\ Sorted(Tail(queue))
  BY <1>1, <1>2, <1>4, InTail, SortedTail DEF Level
<1>8. Head(queue)[1] \in Within[d] /\ d \in 0..N /\ Head(queue) = <<Head(queue)[1], d>>
      /\ Head(queue)[1] \in Pages /\ d \in 0..plan.depth
  <2>1. Head(queue)[1] \in Within[Head(queue)[2]]
    BY <1>2, <1>6 DEF Level
  <2> QED BY <1>2, <1>4, <1>6, <2>1
<1> QED BY <1>2, <1>3, <1>4, <1>5, <1>6, <1>7, <1>8

\* a page already visited leaves the queue
LEMMA SkipKeeps ==
  ASSUME IngestTypeOK, Discovery, SkipSeen
  PROVE  IngestTypeOK' /\ Discovery'
<1>1. PICK d \in 0..Len(urls) :
           /\ Level(d) /\ d \in 0..plan.depth /\ d \in 0..N /\ Len(urls) \in Nat
           /\ Dequeued = <<Dequeued[1], d>> /\ Dequeued[2] = d
           /\ Dequeued[1] \in Pages /\ Dequeued[1] \in Within[d]
           /\ Queued = {Dequeued} \cup ToSet(Take[2])
           /\ Sorted(Take[2]) /\ Take[2] \in Seq(Pages \X (0..plan.depth))
  BY Entry DEF SkipSeen
<1> DEFINE p == Dequeued[1]
<1>2. /\ queue' = Take[2] /\ Fixed /\ UNCHANGED <<stage, urls, cut, reason, outcomes, failure>>
      /\ p \in ToSet(urls) /\ Dequeued = <<p, d>>
  BY <1>1 DEF SkipSeen, Known
<1>3. Within' = Within /\ UNCHANGED <<links, inScope, plan>>
  BY <1>2, WithinStays DEF Fixed
<1>4. Queued = {<<p, d>>} \cup Queued'
  BY <1>1, <1>2 DEF Queued
<1>5. IngestTypeOK'
  BY <1>1, <1>2, <1>3 DEF IngestTypeOK
<1> HIDE DEF p
<1>6. \A x \in Within[d] : x \in ToSet(urls) \/ <<x, d>> \in Queued'
  <2> SUFFICES ASSUME NEW x \in Within[d], x \notin ToSet(urls) PROVE <<x, d>> \in Queued'
    OBVIOUS
  <2>1. <<x, d>> \in Queued /\ x # p
    BY <1>1, <1>2 DEF Level
  <2> QED BY <1>4, <2>1
<1>7. ~cut => \A x \in ToSet(urls), q \in inScope :
        q \in ToSet(links[x]) => q \in ToSet(urls) \/ \E e \in Queued' : e[1] = q
  <2> SUFFICES ASSUME ~cut, NEW x \in ToSet(urls), NEW q \in inScope,
                      q \in ToSet(links[x]), q \notin ToSet(urls)
               PROVE  \E e \in Queued' : e[1] = q
    OBVIOUS
  <2>1. PICK e \in Queued : e[1] = q
    BY <1>1 DEF Level
  <2>2. e # <<p, d>>
    BY <1>2, <2>1
  <2> QED BY <1>4, <2>1, <2>2
<1>8. \A e \in Queued' : e \in Queued
  BY <1>4
<1>9. Sorted(queue') /\ queue' = Take[2]
  BY <1>1, <1>2
<1>10. Level(d)'
  BY <1>1, <1>2, <1>3, <1>6, <1>7, <1>8, <1>9 DEF Level
<1> QED BY <1>1, <1>2, <1>3, <1>5, <1>10 DEF Discovery

\* a page is visited: what it is to the pages visited before
LEMMA VisitedToo ==
  ASSUME IngestTypeOK, plan.crawl, NEW p \in Pages, p \notin ToSet(urls), Len(urls) < plan.cap
  PROVE  /\ Append(urls, p) \in Seq(Pages) /\ Len(Append(urls, p)) = Len(urls) + 1
         /\ ToSet(Append(urls, p)) = ToSet(urls) \cup {p}
         /\ IsInjective(Append(urls, p)) /\ Len(Append(urls, p)) <= plan.cap
         /\ Len(urls) + 1 <= N
<1>1. urls \in Seq(Pages) /\ IsInjective(urls) /\ Len(urls) \in Nat /\ plan.cap \in Nat
  BY IngestAssumption, LenProperties DEF IngestTypeOK
<1>2. /\ Append(urls, p) \in Seq(Pages) /\ Len(Append(urls, p)) = Len(urls) + 1
      /\ ToSet(Append(urls, p)) = ToSet(urls) \cup {p} /\ IsInjective(Append(urls, p))
  BY <1>1, InAppend
<1>3. Len(urls) + 1 <= N
  BY <1>2, InjectiveBound
<1> QED BY <1>1, <1>2, <1>3

\* a page at the greatest depth is visited: the links behind it are cut
LEMMA VisitAtMaxKeeps ==
  ASSUME IngestTypeOK, Discovery, VisitAtMaxDepth
  PROVE  IngestTypeOK' /\ Discovery'
<1>1. PICK d \in 0..Len(urls) :
           /\ Level(d) /\ d \in 0..plan.depth /\ d \in 0..N /\ Len(urls) \in Nat
           /\ Dequeued = <<Dequeued[1], d>> /\ Dequeued[2] = d
           /\ Dequeued[1] \in Pages /\ Dequeued[1] \in Within[d]
           /\ Queued = {Dequeued} \cup ToSet(Take[2])
           /\ Sorted(Take[2]) /\ Take[2] \in Seq(Pages \X (0..plan.depth))
           /\ Take[2] \in Seq(Pages \X Nat)
           /\ urls \in Seq(Pages) /\ IsInjective(urls)
  BY Entry DEF VisitAtMaxDepth, VisitAndFollow
<1> DEFINE p == Dequeued[1]
<1>2. /\ queue' = Take[2] /\ Fixed /\ urls' = Append(urls, p) /\ cut' = TRUE
      /\ UNCHANGED <<stage, reason, outcomes, failure>>
      /\ p \notin ToSet(urls) /\ Dequeued = <<p, d>> /\ d >= plan.depth /\ p \in Pages /\ p \in Within[d]
      /\ Len(urls) < plan.cap /\ plan.crawl
  BY <1>1 DEF VisitAtMaxDepth, Known, Visiting, Discovery
<1> HIDE DEF p
<1>3. Within' = Within /\ UNCHANGED <<links, inScope, plan>>
  BY <1>2, WithinStays DEF Fixed
<1>4. Queued = {<<p, d>>} \cup Queued'
  BY <1>1, <1>2 DEF Queued
<1>5. /\ urls' \in Seq(Pages) /\ Len(urls') = Len(urls) + 1
      /\ ToSet(urls') = ToSet(urls) \cup {p}
      /\ IsInjective(urls') /\ Len(urls') <= plan.cap
  BY <1>2, VisitedToo
<1>6. IngestTypeOK'
  <2>1. queue' \in Seq(Pages \X (0..plan.depth))
    BY <1>1, <1>2
  <2> QED BY <1>2, <1>3, <1>5, <2>1 DEF IngestTypeOK
<1>7. d = plan.depth /\ plan.depth \in Nat
  <2>1. plan.depth \in Nat
    BY IngestAssumption DEF IngestTypeOK
  <2> QED BY <1>1, <1>2, <2>1
<1>8. \A e \in Queued' : e[2] \in {d, d + 1} /\ e[2] <= Len(urls') /\ e[1] \in Within[e[2]]
  <2> SUFFICES ASSUME NEW e \in Queued'
               PROVE  e[2] \in {d, d + 1} /\ e[2] <= Len(urls') /\ e[1] \in Within[e[2]]
    OBVIOUS
  <2>1. e[2] \in {d, d + 1} /\ e[2] <= Len(urls) /\ e[1] \in Within[e[2]]
    BY <1>1, <1>4 DEF Level
  <2> QED BY <1>1, <1>5, <2>1
<1>9. \A x \in Within[d] : x \in ToSet(urls') \/ <<x, d>> \in Queued'
  <2> SUFFICES ASSUME NEW x \in Within[d], x \notin ToSet(urls') PROVE <<x, d>> \in Queued'
    OBVIOUS
  <2>1. <<x, d>> \in Queued /\ x # p
    BY <1>1, <1>5 DEF Level
  <2> QED BY <1>4, <2>1
<1>10. /\ ToSet(urls') \subseteq Within[d]
       /\ \A k \in 0..d : k # d => Within[k] \subseteq ToSet(urls')
  BY <1>1, <1>2, <1>5 DEF Level
<1>11. d \in 0..Len(urls') /\ d <= plan.depth
  BY <1>1, <1>5, <1>7
<1>12. Sorted(queue')
  BY <1>1, <1>2
<1>13. Level(d)'
  BY <1>2, <1>3, <1>7, <1>8, <1>9, <1>10, <1>11, <1>12 DEF Level
<1> QED BY <1>2, <1>3, <1>6, <1>11, <1>13 DEF Discovery

\* a page is visited and its new links wait behind all others
LEMMA VisitAndFollowKeeps ==
  ASSUME IngestTypeOK, Discovery, VisitAndFollow
  PROVE  IngestTypeOK' /\ Discovery'
<1>1. PICK d \in 0..Len(urls) :
           /\ Level(d) /\ d \in 0..plan.depth /\ d \in 0..N /\ Len(urls) \in Nat
           /\ Dequeued = <<Dequeued[1], d>> /\ Dequeued[2] = d
           /\ Dequeued[1] \in Pages /\ Dequeued[1] \in Within[d]
           /\ Queued = {Dequeued} \cup ToSet(Take[2])
           /\ Sorted(Take[2]) /\ Take[2] \in Seq(Pages \X (0..plan.depth))
           /\ Take[2] \in Seq(Pages \X Nat)
           /\ urls \in Seq(Pages) /\ IsInjective(urls)
  BY Entry DEF VisitAtMaxDepth, VisitAndFollow
<1> DEFINE p == Dequeued[1]
           c == Children(p, d)
<1>2. /\ queue' = Take[2] \o c /\ Fixed /\ urls' = Append(urls, p)
      /\ UNCHANGED <<stage, cut, reason, outcomes, failure>>
      /\ p \notin ToSet(urls) /\ Dequeued = <<p, d>> /\ d < plan.depth /\ p \in Pages /\ p \in Within[d]
      /\ Len(urls) < plan.cap /\ plan.crawl
  BY <1>1 DEF VisitAndFollow, Known, Visiting, Discovery
<1> HIDE DEF p
<1>3. Within' = Within /\ UNCHANGED <<links, inScope, plan>>
  BY <1>2, WithinStays DEF Fixed
<1>4. /\ urls' \in Seq(Pages) /\ Len(urls') = Len(urls) + 1
      /\ ToSet(urls') = ToSet(urls) \cup {p}
      /\ IsInjective(urls') /\ Len(urls') <= plan.cap
      /\ Len(urls) + 1 <= N
  BY <1>2, VisitedToo
<1>5. plan.depth \in Nat /\ links \in [Pages -> Seq(Pages)] /\ N \in Nat
  BY <1>2, UrlsArePages, NumberOfPages
<1>6. /\ c \in Seq(Pages \X {d + 1})
      /\ ToSet(c) = {<<q, d + 1>> : q \in {r \in ToSet(links[p]) : IsNew(p, r)}}
  <2>1. d \in Nat
    BY <1>1, <1>5
  <2>2. p \in Pages
    BY <1>2
  <2> HIDE DEF c
  <2>3. /\ Children(p, d) \in Seq(Pages \X {d + 1})
        /\ ToSet(Children(p, d)) = {<<q, d + 1>> : q \in {r \in ToSet(links[p]) : IsNew(p, r)}}
    BY <1>5, <2>1, <2>2, ChildrenOf, Zenon
  <2> QED BY <2>3, Zenon DEF c
<1> HIDE DEF c
<1>7. c \in Seq(Pages \X (0..plan.depth)) /\ d + 1 \in Nat
  <2>1. Pages \X {d + 1} \subseteq Pages \X (0..plan.depth)
    BY <1>1, <1>2, <1>5
  <2> QED BY <1>1, <1>6, <2>1, SeqMonotonic
<1>8. /\ queue' \in Seq(Pages \X (0..plan.depth))
      /\ Queued' = ToSet(Take[2]) \cup ToSet(c)
  BY <1>1, <1>2, <1>7, InConcat DEF Queued
<1>9. IngestTypeOK'
  BY <1>2, <1>3, <1>4, <1>8 DEF IngestTypeOK
<1>10. Queued = {<<p, d>>} \cup ToSet(Take[2])
  BY <1>1, <1>2
<1>11. Sorted(queue')
  <2>1. \A e \in ToSet(Take[2]) : e[2] <= d + 1
    <3> SUFFICES ASSUME NEW e \in ToSet(Take[2]) PROVE e[2] <= d + 1
      OBVIOUS
    <3>1. e[2] \in {d, d + 1}
      BY <1>1, <1>10 DEF Level
    <3> QED BY <1>1, <3>1
  <2> QED BY <1>1, <1>2, <1>6, <1>7, <2>1, SortedConcat
<1>12. \A q \in inScope : q \in ToSet(links[p]) => q \in Within[d + 1]
  <2>1. d + 1 \in 1..N /\ (d + 1) - 1 = d
    BY <1>1, <1>4, <1>5
  <2>2. Within[d + 1] = OneLinkOn(Within[d])
    BY <2>1, WithinIs
  <2> QED BY <1>2, <2>2 DEF OneLinkOn
<1>13. \A e \in Queued' : e[2] \in {d, d + 1} /\ e[2] <= Len(urls') /\ e[1] \in Within[e[2]]
  <2> SUFFICES ASSUME NEW e \in Queued'
               PROVE  e[2] \in {d, d + 1} /\ e[2] <= Len(urls') /\ e[1] \in Within[e[2]]
    OBVIOUS
  <2>1. CASE e \in ToSet(Take[2])
    <3>1. e[2] \in {d, d + 1} /\ e[2] <= Len(urls) /\ e[1] \in Within[e[2]]
      BY <1>1, <1>10, <2>1 DEF Level
    <3> QED BY <1>1, <1>4, <3>1
  <2>2. CASE e \in ToSet(c)
    <3>1. PICK q \in ToSet(links[p]) : IsNew(p, q) /\ e = <<q, d + 1>>
      BY <1>6, <2>2
    <3>2. q \in Within[d + 1]
      BY <1>12, <3>1 DEF IsNew
    <3>3. d + 1 <= Len(urls')
      BY <1>1, <1>4
    <3> QED BY <3>1, <3>2, <3>3
  <2> QED BY <1>8, <2>1, <2>2
<1>14. \A x \in Within[d] : x \in ToSet(urls') \/ <<x, d>> \in Queued'
  <2> SUFFICES ASSUME NEW x \in Within[d], x \notin ToSet(urls') PROVE <<x, d>> \in Queued'
    OBVIOUS
  <2>1. <<x, d>> \in Queued /\ x # p
    BY <1>1, <1>4 DEF Level
  <2> QED BY <1>8, <1>10, <2>1
<1>15. ~cut => \A x \in ToSet(urls'), q \in inScope :
        q \in ToSet(links[x]) => q \in ToSet(urls') \/ \E e \in Queued' : e[1] = q
  <2> SUFFICES ASSUME ~cut, NEW x \in ToSet(urls'), NEW q \in inScope,
                      q \in ToSet(links[x]), q \notin ToSet(urls')
               PROVE  \E e \in Queued' : e[1] = q
    OBVIOUS
  <2>0. q \notin ToSet(urls) /\ q # p
    BY <1>4
  <2>1. CASE x = p
    <3>1. IsNew(p, q)
      BY <2>0 DEF IsNew, Known
    <3>2. <<q, d + 1>> \in ToSet(c)
      BY <1>6, <2>1, <3>1
    <3> QED BY <1>8, <3>2
  <2>2. CASE x # p
    <3>1. x \in ToSet(urls)
      BY <1>4, <2>2
    <3>2. PICK e \in Queued : e[1] = q
      BY <1>1, <2>0, <3>1 DEF Level
    <3>3. e # <<p, d>>
      BY <2>0, <3>2
    <3> QED BY <1>8, <1>10, <3>2, <3>3
  <2> QED BY <2>1, <2>2
<1>16. /\ ToSet(urls') \subseteq Within[d]
       /\ \A k \in 0..d : k # d => Within[k] \subseteq ToSet(urls')
  BY <1>1, <1>2, <1>4 DEF Level
<1>17. d \in 0..Len(urls') /\ d <= plan.depth /\ (cut => d = plan.depth)
  BY <1>1, <1>2, <1>4, <1>5 DEF Level
<1>18. Level(d)'
  BY <1>2, <1>3, <1>11, <1>13, <1>14, <1>15, <1>16, <1>17 DEF Level
<1> QED BY <1>2, <1>3, <1>9, <1>17, <1>18 DEF Discovery

-----------------------------------------------------------------------------
(***************************************************************************)
(* The other steps.                                                        *)
(***************************************************************************)
LEMMA IngestInitInv == IngestInit => IngestInv
<1> SUFFICES ASSUME IngestInit PROVE IngestInv
  OBVIOUS
<1>1. /\ Seed \in inScope /\ inScope \subseteq Pages /\ plan.depth \in Nat /\ plan.cap \in Nat /\ plan.crawl \in BOOLEAN
      /\ links \in Sites /\ inScope \in Scopes /\ plan \in Plans
  BY IngestAssumption DEF IngestInit
<1>2. cut = FALSE /\ reason = "none" /\ outcomes = <<>> /\ failure = "none"
  BY DEF IngestInit
<1>3. outcomes \in Seq({"batch", "failed"})
  BY <1>2, EmptySeq
<1>4. Len(<<>>) = 0 /\ ToSet(<<>>) = {} /\ IsInjective(<<>>) /\ <<>> \in Seq(Pages)
  BY EmptySeq DEF ToSet, IsInjective
<1>5. CASE plan.crawl
  <2> DEFINE e == <<Seed, 0>>
  <2>1. stage = "discover" /\ queue = <<e>> /\ urls = <<>>
    BY <1>5 DEF IngestInit
  <2>2. <<e>> \in Seq(Pages \X (0..plan.depth)) /\ ToSet(<<e>>) = {e} /\ Sorted(<<e>>)
    <3>1. e \in Pages \X (0..plan.depth)
      BY <1>1
    <3> HIDE DEF e
    <3>2. DOMAIN <<e>> = {1} /\ <<e>>[1] = e
      OBVIOUS
    <3>3. <<e>> \in Seq(Pages \X (0..plan.depth))
      BY <3>1
    <3> QED BY <3>2, <3>3 DEF ToSet, Sorted
  <2>3. IngestTypeOK
    <3>1. urls \in Seq(Pages) /\ IsInjective(urls) /\ Len(urls) <= plan.cap
      BY <1>1, <1>4, <2>1
    <3>2. queue \in Seq(Pages \X (0..plan.depth))
      BY <2>1, <2>2
    <3>3. stage \in Stages /\ reason \in Reasons /\ failure \in Failures /\ cut \in BOOLEAN
      BY <1>2, <2>1 DEF Stages, Reasons, Failures
    <3> QED BY <1>1, <1>3, <3>1, <3>2, <3>3 DEF IngestTypeOK
  <2>4. Within[0] = {Seed}
    BY WithinIs
  <2>5. Level(0)
    <3>1. 0 \in 0..Len(urls) /\ 0 <= plan.depth
      BY <1>1, <1>4, <2>1
    <3>2. Queued = {e} /\ e[2] = 0 /\ e[1] = Seed /\ ToSet(urls) = {} /\ Len(urls) = 0
      BY <1>4, <2>1, <2>2 DEF Queued
    <3>3. \A k \in 0..0 : k = 0
      OBVIOUS
    <3> HIDE DEF e
    <3>4. \A x \in Queued : x[2] \in {0, 0 + 1} /\ x[2] <= Len(urls) /\ x[1] \in Within[x[2]]
      BY <2>4, <3>2
    <3>5. \A p \in Within[0] : p \in ToSet(urls) \/ <<p, 0>> \in Queued
      BY <2>4, <3>2 DEF e
    <3> QED BY <1>2, <2>1, <2>2, <3>1, <3>2, <3>3, <3>4, <3>5 DEF Level
  <2>6. Discovery
    <3>1. 0 \in 0..Len(urls)
      BY <1>4, <2>1
    <3> QED BY <1>2, <1>5, <2>5, <3>1 DEF Discovery
  <2>7. NearestFirst
    BY <2>3, <2>6, LevelIsNearest
  <2> QED BY <1>2, <2>1, <2>3, <2>6, <2>7 DEF IngestInv, ReasonIsTrue
<1>6. CASE ~plan.crawl
  <2>1. stage = "pages" /\ queue = <<>> /\ urls = Given
    BY <1>6 DEF IngestInit
  <2>2. queue \in Seq(Pages \X (0..plan.depth)) /\ urls \in Seq(Pages)
    BY <2>1, IngestAssumption, EmptySeq
  <2>3. IngestTypeOK
    BY <1>1, <1>2, <1>3, <1>6, <2>1, <2>2 DEF IngestTypeOK, Stages, Reasons, Failures
  <2> QED BY <1>2, <1>6, <2>1, <2>3 DEF IngestInv, ReasonIsTrue, NearestFirst
<1> QED BY <1>5, <1>6

\* what a crawl visited and why it stopped stay true while neither changes
LEMMA VisitedStays ==
  ASSUME Fixed, UNCHANGED <<urls, reason>>, NearestFirst, ReasonIsTrue
  PROVE  NearestFirst' /\ ReasonIsTrue'
<1>1. Within' = Within /\ plan' = plan
  BY WithinStays DEF Fixed
<1> QED BY <1>1 DEF NearestFirst, ReasonIsTrue

\* a page that raises takes the pages visited before with it
LEMMA RaisesKeeps ==
  ASSUME IngestInv, VisitRaises
  PROVE  IngestInv'
<1>1. /\ stage' = "failed" /\ failure' = "discovery" /\ urls' = <<>> /\ Fixed
      /\ UNCHANGED <<queue, cut, reason, outcomes>> /\ reason = "none" /\ plan' = plan
  BY DEF VisitRaises, Fail, Visiting, IngestInv, Discovery, Fixed
<1>2. Len(<<>>) = 0 /\ ToSet(<<>>) = {} /\ IsInjective(<<>>) /\ <<>> \in Seq(Pages)
  BY EmptySeq DEF ToSet, IsInjective
<1>3. plan.cap \in Nat
  BY IngestAssumption DEF IngestInv, IngestTypeOK
<1>4. IngestTypeOK'
  BY <1>1, <1>2, <1>3 DEF IngestInv, IngestTypeOK, Fixed, Stages, Failures
<1>5. NearestFirst'
  BY <1>1, <1>2 DEF NearestFirst
<1>6. ReasonIsTrue'
  BY <1>1 DEF ReasonIsTrue
<1> QED BY <1>1, <1>4, <1>5, <1>6 DEF IngestInv

\* the reason given when the discovery stops is true
LEMMA StopKeeps ==
  ASSUME IngestInv, StopDiscovery
  PROVE  IngestInv'
<1>1. /\ stage = "discover" /\ ~Visiting /\ stage' = "pages" /\ Fixed
      /\ UNCHANGED <<queue, urls, cut, outcomes, failure>>
      /\ IngestTypeOK /\ Discovery /\ NearestFirst /\ plan.crawl
  BY DEF StopDiscovery, IngestInv, Discovery
<1>2. /\ reason' \in {"max_pages", "max_depth", "complete"}
      /\ reason' = "complete" => queue = <<>> /\ ~cut
      /\ reason' = "max_depth" => queue = <<>> /\ cut
  <2>1. reason' = IF queue # <<>> THEN "max_pages" ELSE IF cut THEN "max_depth" ELSE "complete"
    BY DEF StopDiscovery
  <2> QED BY <2>1
<1>3. Within' = Within /\ plan' = plan /\ ToSet(urls') = ToSet(urls)
  BY <1>1, WithinStays DEF Fixed
<1>4. IngestTypeOK'
  BY <1>1, <1>2 DEF IngestTypeOK, Fixed, Stages, Reasons
<1>5. NearestFirst'
  BY <1>1, <1>3 DEF NearestFirst
<1>6. PICK d \in 0..Len(urls) : Level(d)
  BY <1>1 DEF Discovery
<1>7. /\ Len(urls) \in Nat /\ Len(urls) <= N /\ N \in Nat /\ plan.depth \in Nat
  BY <1>1, UrlsArePages, NumberOfPages
<1>8. ASSUME queue = <<>>
      PROVE  /\ ToSet(urls) \subseteq Within[d]
             /\ \A k \in 0..d : Within[k] \subseteq ToSet(urls)
  <2>1. Queued = {}
    BY <1>8 DEF Queued, ToSet
  <2> QED BY <1>6, <2>1 DEF Level
<1>9. ASSUME reason' = "complete" PROVE ToSet(urls) = Within[N]
  <2>1. queue = <<>> /\ ~cut /\ Queued = {}
    BY <1>2, <1>9 DEF Queued, ToSet
  <2>2. \A p \in ToSet(urls), q \in inScope : q \in ToSet(links[p]) => q \in ToSet(urls)
    BY <1>6, <2>1 DEF Level
  <2>3. d \in 0..N /\ d \in 0..d /\ N \in 0..N /\ d <= N
    BY <1>7
  <2>4. Within[N] \subseteq ToSet(urls)
    BY <1>8, <2>1, <2>2, <2>3, WithinClosed
  <2>5. Within[d] \subseteq Within[N]
    BY <2>3, WithinGrows
  <2> QED BY <1>8, <2>1, <2>4, <2>5
<1>10. ASSUME reason' = "max_depth", NEW k \in 0..N, k <= plan.depth PROVE Within[k] \subseteq ToSet(urls)
  <2>1. queue = <<>> /\ cut
    BY <1>2, <1>10
  <2>2. d = plan.depth
    BY <1>6, <2>1 DEF Level
  <2>3. k \in 0..d
    BY <1>7, <1>10, <2>2
  <2> QED BY <1>8, <2>1, <2>3
<1>11. ReasonIsTrue'
  BY <1>3, <1>9, <1>10 DEF ReasonIsTrue, N
<1> QED BY <1>1, <1>4, <1>5, <1>11 DEF IngestInv

\* one URL of the job, or its end
LEMMA PageKeeps ==
  ASSUME IngestInv, IngestUrl \/ ScrapeFails \/ EmbedFails
  PROVE  IngestInv'
<1>1. /\ stage = "pages" /\ Fixed /\ UNCHANGED <<queue, urls, cut, reason>>
      /\ IngestTypeOK /\ NearestFirst /\ ReasonIsTrue
  BY DEF IngestUrl, ScrapeFails, EmbedFails, Working, Rest2, IngestInv
<1>2. NearestFirst' /\ ReasonIsTrue'
  BY <1>1, VisitedStays
<1>3. /\ stage' \in {"pages", "failed"} /\ failure' \in Failures
      /\ outcomes' = outcomes \/ \E f \in {"batch", "failed"} : outcomes' = Append(outcomes, f)
  BY <1>1 DEF IngestUrl, ScrapeFails, EmbedFails, Count, Fail, IngestTypeOK, Failures
<1>4. outcomes' \in Seq({"batch", "failed"})
  <2>1. outcomes \in Seq({"batch", "failed"})
    BY <1>1 DEF IngestTypeOK
  <2>2. \A f \in {"batch", "failed"} : Append(outcomes, f) \in Seq({"batch", "failed"})
    BY <2>1, AppendProperties
  <2> QED BY <1>3, <2>1, <2>2
<1>5. IngestTypeOK'
  BY <1>1, <1>3, <1>4 DEF IngestTypeOK, Fixed, Stages
<1> QED BY <1>2, <1>3, <1>5 DEF IngestInv

\* the batches at the end
LEMMA EndKeeps ==
  ASSUME IngestInv, EndOfPages \/ WriteBatch \/ Translate \/ BatchFails
  PROVE  IngestInv'
<1>1. /\ Fixed /\ UNCHANGED <<queue, urls, cut, reason, outcomes>>
      /\ IngestTypeOK /\ NearestFirst /\ ReasonIsTrue
  BY DEF EndOfPages, WriteBatch, Translate, BatchFails, Rest2, IngestInv
<1>2. NearestFirst' /\ ReasonIsTrue'
  BY <1>1, VisitedStays
<1>3. stage' \in {"write", "translate", "completed", "failed"} /\ failure' \in Failures
  BY <1>1 DEF EndOfPages, WriteBatch, Translate, BatchFails, Fail, IngestTypeOK, Failures
<1>4. stage' \in {"write", "translate", "completed"} => AllCounted
  <2>1. CASE EndOfPages
    BY <2>1 DEF EndOfPages, AllCounted, Fail
  <2>2. CASE WriteBatch \/ Translate
    BY <2>2 DEF WriteBatch, Translate, IngestInv
  <2>3. CASE BatchFails
    BY <2>3 DEF BatchFails, Fail
  <2> QED BY <2>1, <2>2, <2>3
<1>5. AllCounted' <=> AllCounted
  BY <1>1 DEF AllCounted, Wrote, Fixed
<1>6. IngestTypeOK'
  BY <1>1, <1>3 DEF IngestTypeOK, Fixed, Stages
<1> QED BY <1>2, <1>3, <1>4, <1>5, <1>6 DEF IngestInv

LEMMA IngestStepInv == IngestInv /\ [IngestNext]_ingestVars => IngestInv'
<1> SUFFICES ASSUME IngestInv, [IngestNext]_ingestVars PROVE IngestInv'
  OBVIOUS
<1>1. ASSUME SkipSeen \/ VisitAtMaxDepth \/ VisitAndFollow PROVE IngestInv'
  <2>1. /\ stage = "discover" /\ stage' = "discover" /\ reason' = reason
        /\ IngestTypeOK /\ Discovery
    BY <1>1 DEF SkipSeen, VisitAtMaxDepth, VisitAndFollow, Visiting, IngestInv
  <2>2. IngestTypeOK' /\ Discovery'
    BY <1>1, <2>1, SkipKeeps, VisitAtMaxKeeps, VisitAndFollowKeeps
  <2>3. NearestFirst'
    <3>1. (IngestTypeOK /\ Discovery => NearestFirst)'
      BY LevelIsNearest, PTL
    <3> QED BY <2>2, <3>1
  <2>4. ReasonIsTrue'
    BY <2>1 DEF ReasonIsTrue, Discovery
  <2> QED BY <2>1, <2>2, <2>3, <2>4 DEF IngestInv
<1>2. ASSUME UNCHANGED ingestVars PROVE IngestInv'
  <2>1. Within' = Within
    BY <1>2, WithinStays DEF ingestVars, Fixed
  <2>2. /\ IngestTypeOK' = IngestTypeOK /\ AllCounted' = AllCounted
        /\ UNCHANGED <<links, inScope, plan, stage, queue, urls, cut, reason, outcomes, failure>>
    BY <1>2 DEF ingestVars, IngestTypeOK, AllCounted, Wrote
  <2>3. NearestFirst' /\ ReasonIsTrue'
    BY <2>2, VisitedStays DEF Fixed, IngestInv
  <2>4. Discovery => Discovery'
    <3> SUFFICES ASSUME Discovery PROVE Discovery'
      OBVIOUS
    <3>1. PICK d \in 0..Len(urls) : Level(d)
      BY DEF Discovery
    <3>2. Level(d)'
      BY <2>1, <2>2, <3>1 DEF Level, Queued
    <3> QED BY <2>2, <3>1, <3>2 DEF Discovery
  <2> QED BY <2>2, <2>3, <2>4 DEF IngestInv
<1>3. CASE VisitRaises
  BY <1>3, RaisesKeeps
<1>4. CASE StopDiscovery
  BY <1>4, StopKeeps
<1>5. CASE IngestUrl \/ ScrapeFails \/ EmbedFails
  BY <1>5, PageKeeps
<1>6. CASE EndOfPages \/ WriteBatch \/ Translate \/ BatchFails
  BY <1>6, EndKeeps
<1> QED BY <1>1, <1>2, <1>3, <1>4, <1>5, <1>6 DEF IngestNext, IngestStep

\* At any time of a discovery one depth is being visited: everything nearer is visited,
\* and what is not visited of this depth waits (crawl.py 120-170, pipeline.py 445-538).
THEOREM IngestInvariant == IngestSpec => []IngestInv
<1> QED BY IngestInitInv, IngestStepInv, PTL DEF IngestSpec

\* A crawl visits near pages first and gives a true reason for stopping, and a completed
\* job has an outcome for each URL, whatever the site, the scope and the limits.
THEOREM IngestKeepsPromise == IngestSpec => []IngestPromise
<1>1. IngestInv => IngestPromise
  BY DEF IngestInv, IngestPromise, CompletedIsAccounted, AllCounted
<1> QED BY <1>1, IngestInvariant, PTL
=============================================================================
