------------------------------ MODULE SeqFacts ------------------------------
(***************************************************************************)
(* Facts about sequences that the proofs of this project share.            *)
(***************************************************************************)
EXTENDS Integers, SequencesExt, SequenceTheorems, TLAPS

(* A pair of elements is a sequence.                                       *)
LEMMA PairIsSeq ==
    ASSUME NEW S, NEW a \in S, NEW b \in S
    PROVE  <<a, b>> \in Seq(S)
  OBVIOUS

(* Which element of a concatenation comes from where.                      *)
LEMMA ConcatIndex ==
    ASSUME NEW S, NEW s \in Seq(S), NEW t \in Seq(S)
    PROVE  /\ s \o t \in Seq(S)
           /\ Len(s) \in Nat /\ Len(t) \in Nat
           /\ Len(s \o t) = Len(s) + Len(t)
           /\ \A i \in 1..Len(s) : (s \o t)[i] = s[i]
           /\ \A i \in 1..Len(t) : (s \o t)[Len(s) + i] = t[i]
           /\ \A k \in 1..Len(s \o t) :
                 \/ k \in 1..Len(s) /\ (s \o t)[k] = s[k]
                 \/ k - Len(s) \in 1..Len(t) /\ (s \o t)[k] = t[k - Len(s)]
<1>1. /\ s \o t \in Seq(S)
      /\ Len(s) \in Nat /\ Len(t) \in Nat
      /\ Len(s \o t) = Len(s) + Len(t)
  OBVIOUS
<1>2. \A i \in 1..Len(s) + Len(t) :
         (s \o t)[i] = IF i <= Len(s) THEN s[i] ELSE t[i - Len(s)]
  BY ConcatProperties
<1>3. ASSUME NEW i \in 1..Len(s) PROVE (s \o t)[i] = s[i]
  BY <1>1, <1>2
<1>4. ASSUME NEW i \in 1..Len(t) PROVE (s \o t)[Len(s) + i] = t[i]
  <2>1. Len(s) + i \in 1..Len(s) + Len(t) /\ ~(Len(s) + i <= Len(s))
    BY <1>1
  <2>2. (Len(s) + i) - Len(s) = i
    BY <1>1
  <2> QED
    BY <1>2, <2>1, <2>2
<1>5. ASSUME NEW k \in 1..Len(s \o t)
      PROVE  \/ k \in 1..Len(s) /\ (s \o t)[k] = s[k]
             \/ k - Len(s) \in 1..Len(t) /\ (s \o t)[k] = t[k - Len(s)]
  BY <1>1, <1>2
<1> QED
  BY <1>1, <1>3, <1>4, <1>5

(* A concatenation contains what its parts contain.                        *)
LEMMA ConcatContains ==
    ASSUME NEW S, NEW s \in Seq(S), NEW t \in Seq(S), NEW x
    PROVE  Contains(s \o t, x) <=> Contains(s, x) \/ Contains(t, x)
<1> DEFINE st == s \o t
<1>1. /\ Len(s) \in Nat /\ Len(t) \in Nat
      /\ Len(st) = Len(s) + Len(t)
      /\ \A i \in 1..Len(s) : st[i] = s[i]
      /\ \A i \in 1..Len(t) : st[Len(s) + i] = t[i]
      /\ \A k \in 1..Len(st) :
            \/ k \in 1..Len(s) /\ st[k] = s[k]
            \/ k - Len(s) \in 1..Len(t) /\ st[k] = t[k - Len(s)]
  BY ConcatIndex
<1> HIDE DEF st
<1>2. ASSUME Contains(st, x) PROVE Contains(s, x) \/ Contains(t, x)
  BY <1>1, <1>2 DEF Contains
<1>3. ASSUME Contains(s, x) PROVE Contains(st, x)
  BY <1>1, <1>3 DEF Contains
<1>4. ASSUME Contains(t, x) PROVE Contains(st, x)
  <2>1. PICK i \in 1..Len(t) : t[i] = x
    BY <1>4 DEF Contains
  <2>2. Len(s) + i \in 1..Len(st)
    BY <1>1
  <2> QED
    BY <1>1, <2>1, <2>2 DEF Contains
<1> QED
  BY <1>2, <1>3, <1>4 DEF st

(* Two sequences without duplicates and without a common element.          *)
LEMMA ConcatInjective ==
    ASSUME NEW S, NEW s \in Seq(S), NEW t \in Seq(S), IsInjective(s), IsInjective(t),
           \A x \in S : ~(Contains(s, x) /\ Contains(t, x))
    PROVE  IsInjective(s \o t)
<1> DEFINE st == s \o t
<1>dom. /\ DOMAIN s = 1..Len(s) /\ DOMAIN t = 1..Len(t)
        /\ DOMAIN st = 1..Len(st)
  BY ConcatIndex
<1>1. /\ Len(s) \in Nat /\ Len(t) \in Nat
      /\ Len(st) = Len(s) + Len(t)
      /\ \A k \in 1..Len(st) :
            \/ k \in 1..Len(s) /\ st[k] = s[k]
            \/ k - Len(s) \in 1..Len(t) /\ st[k] = t[k - Len(s)]
  BY ConcatIndex
<1>2. \A i \in 1..Len(s), j \in 1..Len(t) : s[i] # t[j]
  <2> SUFFICES ASSUME NEW i \in 1..Len(s), NEW j \in 1..Len(t), s[i] = t[j]
               PROVE  FALSE
    OBVIOUS
  <2>1. s[i] \in S
    OBVIOUS
  <2> QED
    BY <2>1 DEF Contains
<1> HIDE DEF st
<1>3. ASSUME NEW i \in 1..Len(st), NEW j \in 1..Len(st), st[i] = st[j] PROVE i = j
  <2>1. CASE i \in 1..Len(s) /\ st[i] = s[i]
    <3>1. CASE j \in 1..Len(s) /\ st[j] = s[j]
      BY <1>dom, <1>3, <2>1, <3>1 DEF IsInjective
    <3>2. CASE j - Len(s) \in 1..Len(t) /\ st[j] = t[j - Len(s)]
      BY <1>2, <1>3, <2>1, <3>2
    <3> QED
      BY <1>1, <3>1, <3>2
  <2>2. CASE i - Len(s) \in 1..Len(t) /\ st[i] = t[i - Len(s)]
    <3>1. CASE j \in 1..Len(s) /\ st[j] = s[j]
      BY <1>2, <1>3, <2>2, <3>1
    <3>2. CASE j - Len(s) \in 1..Len(t) /\ st[j] = t[j - Len(s)]
      <4>1. i - Len(s) = j - Len(s)
        BY <1>dom, <1>3, <2>2, <3>2 DEF IsInjective
      <4> QED
        BY <1>1, <4>1
    <3> QED
      BY <1>1, <3>1, <3>2
  <2> QED
    BY <1>1, <2>1, <2>2
<1> QED
  BY <1>dom, <1>3 DEF IsInjective, st

(* Removing the element i of a sequence.                                   *)
LEMMA RemoveOne ==
    ASSUME NEW S, NEW s \in Seq(S), NEW i \in 1..Len(s)
    PROVE  LET r == SubSeq(s, 1, i - 1) \o SubSeq(s, i + 1, Len(s)) IN
           /\ r \in Seq(S)
           /\ Len(r) = Len(s) - 1
           /\ \A k \in 1..Len(r) : r[k] = IF k < i THEN s[k] ELSE s[k + 1]
<1> DEFINE front == SubSeq(s, 1, i - 1)
           back == SubSeq(s, i + 1, Len(s))
           r == front \o back
<1>1. Len(s) \in Nat /\ i \in Nat /\ i <= Len(s) /\ i >= 1
  OBVIOUS
<1>2. \A j \in 1..Len(s) : s[j] \in S
  OBVIOUS
<1>3. /\ front \in Seq(S) /\ Len(front) = i - 1
      /\ \A k \in 1..(i - 1) : front[k] = s[k]
  <2>1. \A j \in 1..(i - 1) : s[j] \in S
    BY <1>1, <1>2
  <2>2. /\ front \in Seq(S)
        /\ Len(front) = IF 1 <= i - 1 THEN (i - 1) - 1 + 1 ELSE 0
        /\ \A k \in 1..((i - 1) - 1 + 1) : front[k] = s[1 + k - 1]
    BY <1>1, <2>1, SubSeqProperties
  <2> HIDE DEF front
  <2> QED
    BY <1>1, <2>2
<1>4. /\ back \in Seq(S) /\ Len(back) = Len(s) - i
      /\ \A k \in 1..(Len(s) - i) : back[k] = s[k + i]
  <2>1. \A j \in (i + 1)..Len(s) : s[j] \in S
    BY <1>1, <1>2
  <2>2. /\ back \in Seq(S)
        /\ Len(back) = IF i + 1 <= Len(s) THEN Len(s) - (i + 1) + 1 ELSE 0
        /\ \A k \in 1..(Len(s) - (i + 1) + 1) : back[k] = s[(i + 1) + k - 1]
    BY <1>1, <2>1, SubSeqProperties
  <2> HIDE DEF back
  <2> QED
    BY <1>1, <2>2
<1> HIDE DEF front, back
<1>5. /\ r \in Seq(S) /\ Len(r) = Len(front) + Len(back)
      /\ \A k \in 1..Len(front) + Len(back) :
            r[k] = IF k <= Len(front) THEN front[k] ELSE back[k - Len(front)]
  BY <1>3, <1>4, ConcatProperties
<1> HIDE DEF r
<1>6. Len(r) = Len(s) - 1
  BY <1>1, <1>3, <1>4, <1>5
<1>7. ASSUME NEW k \in 1..Len(r) PROVE r[k] = IF k < i THEN s[k] ELSE s[k + 1]
  <2>1. CASE k < i
    BY <1>1, <1>3, <1>4, <1>5, <2>1
  <2>2. CASE ~(k < i)
    <3>1. /\ ~(k <= Len(front)) /\ k - Len(front) \in 1..(Len(s) - i)
          /\ (k - Len(front)) + i = k + 1
      BY <1>1, <1>3, <1>6, <2>2
    <3>2. r[k] = back[k - Len(front)]
      BY <1>1, <1>5, <3>1
    <3> QED
      BY <1>4, <2>2, <3>1, <3>2
  <2> QED
    BY <2>1, <2>2
<1> QED
  BY <1>5, <1>6, <1>7 DEF r, front, back

(* Removing all elements up to i.                                          *)
LEMMA RemoveUpTo ==
    ASSUME NEW S, NEW s \in Seq(S), NEW i \in 1..Len(s)
    PROVE  LET r == SubSeq(s, i + 1, Len(s)) IN
           /\ <<>> \o r = r
           /\ r \in Seq(S)
           /\ Len(r) = Len(s) - i
           /\ \A k \in 1..Len(r) : r[k] = s[k + i]
<1> DEFINE r == SubSeq(s, i + 1, Len(s))
<1>1. Len(s) \in Nat /\ i \in Nat /\ i <= Len(s) /\ i >= 1
  OBVIOUS
<1>2. \A j \in (i + 1)..Len(s) : s[j] \in S
  BY <1>1
<1>3. /\ r \in Seq(S)
      /\ Len(r) = IF i + 1 <= Len(s) THEN Len(s) - (i + 1) + 1 ELSE 0
      /\ \A k \in 1..(Len(s) - (i + 1) + 1) : r[k] = s[(i + 1) + k - 1]
  BY <1>1, <1>2, SubSeqProperties
<1>4. <<>> \o r = r
  BY <1>3, ConcatEmptySeq
<1> HIDE DEF r
<1>5. Len(r) = Len(s) - i /\ \A k \in 1..(Len(s) - i) : r[k] = s[k + i]
  BY <1>1, <1>3
<1> QED
  BY <1>3, <1>4, <1>5 DEF r

(* p is the sequence of the fields msg of s.                               *)
Projects(p, s, T) ==
    p \in Seq(T) /\ Len(p) = Len(s) /\ \A k \in 1..Len(s) : p[k] = s[k].msg

IsConcat(r, s, t) == r = s \o t

(* The projection of a concatenation concatenates the projections.         *)
LEMMA ProjectConcat ==
    ASSUME NEW S, NEW T, NEW s \in Seq(S), NEW t \in Seq(S), NEW r, NEW p, NEW u,
           NEW q, IsConcat(r, s, t), Projects(p, s, T), Projects(u, t, T),
           Projects(q, r, T)
    PROVE  IsConcat(q, p, u)
<1> DEFINE st == s \o t
           pu == p \o u
<1>1. /\ Len(s) \in Nat /\ Len(t) \in Nat /\ Len(st) = Len(s) + Len(t)
      /\ \A k \in 1..Len(s) : st[k] = s[k]
      /\ \A k \in 1..Len(t) : st[Len(s) + k] = t[k]
  BY ConcatIndex
<1>p. /\ p \in Seq(T) /\ u \in Seq(T)
      /\ Len(p) = Len(s) /\ \A k \in 1..Len(s) : p[k] = s[k].msg
      /\ Len(u) = Len(t) /\ \A k \in 1..Len(t) : u[k] = t[k].msg
  BY DEF Projects
<1>2. /\ pu \in Seq(T) /\ Len(pu) = Len(p) + Len(u)
      /\ \A k \in 1..Len(p) : pu[k] = p[k]
      /\ \A k \in 1..Len(u) : pu[Len(p) + k] = u[k]
  <2>1. p \in Seq(T) /\ u \in Seq(T)
    BY <1>p
  <2> QED
    BY <2>1, ConcatIndex
<1>r. Projects(q, st, T)
  BY DEF IsConcat
<1>3. q \in Seq(T) /\ Len(q) = Len(st) /\ \A k \in 1..Len(st) : q[k] = st[k].msg
  BY <1>r DEF Projects
<1> HIDE DEF pu, st
<1>4. Len(q) = Len(pu)
  BY <1>1, <1>2, <1>3, <1>p
<1>5. ASSUME NEW k \in 1..Len(q) PROVE q[k] = pu[k]
  <2>1. CASE k \in 1..Len(s)
    BY <1>1, <1>2, <1>3, <1>p, <2>1
  <2>2. CASE k \notin 1..Len(s)
    <3>1. k - Len(s) \in 1..Len(t) /\ Len(s) + (k - Len(s)) = k
      BY <1>1, <1>3, <2>2
    <3>2. st[k] = t[k - Len(s)]
      BY <1>1, <3>1
    <3>3. pu[k] = u[k - Len(s)]
      BY <1>2, <1>p, <3>1
    <3> QED
      BY <1>3, <1>p, <3>1, <3>2, <3>3
  <2> QED
    BY <2>1, <2>2
<1>6. q = pu
  BY <1>2, <1>3, <1>4, <1>5, SeqEqual
<1> QED
  BY <1>6 DEF pu, IsConcat

(* r is s without its elements lo to hi.                                   *)
Drops(r, s, lo, hi) ==
    /\ Len(r) = Len(s) - (hi - lo + 1)
    /\ \A k \in 1..Len(r) : r[k] = s[IF k < lo THEN k ELSE k + (hi - lo + 1)]

(* Removing one element, or all up to one, drops a range.                  *)
LEMMA RemoveDrops ==
    ASSUME NEW S, NEW s \in Seq(S), NEW i \in 1..Len(s)
    PROVE  /\ Drops(SubSeq(s, 1, i - 1) \o SubSeq(s, i + 1, Len(s)), s, i, i)
           /\ Drops(SubSeq(s, i + 1, Len(s)), s, 1, i)
<1> DEFINE one == SubSeq(s, 1, i - 1) \o SubSeq(s, i + 1, Len(s))
           upTo == SubSeq(s, i + 1, Len(s))
<1>1. Len(s) \in Nat /\ i \in Nat /\ 1 <= i
  OBVIOUS
<1>2. /\ one \in Seq(S) /\ Len(one) = Len(s) - 1
      /\ \A k \in 1..Len(one) : one[k] = IF k < i THEN s[k] ELSE s[k + 1]
  BY RemoveOne
<1>3. /\ upTo \in Seq(S) /\ Len(upTo) = Len(s) - i
      /\ \A k \in 1..Len(upTo) : upTo[k] = s[k + i]
  BY RemoveUpTo
<1> HIDE DEF one, upTo
<1>4. Drops(one, s, i, i)
  BY <1>1, <1>2 DEF Drops
<1>5. Drops(upTo, s, 1, i)
  BY <1>1, <1>3 DEF Drops
<1> QED
  BY <1>4, <1>5, Zenon DEF one, upTo

(* Projection commutes with dropping elements.                             *)
LEMMA DropsProject ==
    ASSUME NEW S, NEW T, NEW s \in Seq(S), NEW hi \in 1..Len(s), NEW lo \in 1..hi,
           NEW r \in Seq(S), NEW p, NEW q,
           Drops(r, s, lo, hi), Projects(p, s, T), Projects(q, r, T)
    PROVE  Drops(q, p, lo, hi)
<1>1. /\ Len(s) \in Nat /\ Len(r) \in Nat /\ hi \in Int /\ lo \in Int
      /\ 1 <= lo /\ lo <= hi /\ hi <= Len(s)
  OBVIOUS
<1>2. /\ Len(r) = Len(s) - (hi - lo + 1)
      /\ \A k \in 1..Len(r) : r[k] = s[IF k < lo THEN k ELSE k + (hi - lo + 1)]
  BY DEF Drops
<1>3. /\ Len(p) = Len(s) /\ \A k \in 1..Len(s) : p[k] = s[k].msg
      /\ Len(q) = Len(r) /\ \A k \in 1..Len(r) : q[k] = r[k].msg
  BY DEF Projects
<1>4. \A k \in 1..Len(r) : (IF k < lo THEN k ELSE k + (hi - lo + 1)) \in 1..Len(s)
  BY <1>1, <1>2
<1> QED
  BY <1>1, <1>2, <1>3, <1>4 DEF Drops

(* What is left of a sequence without duplicates.                          *)
LEMMA DropsContains ==
    ASSUME NEW S, NEW s \in Seq(S), NEW hi \in 1..Len(s), NEW lo \in 1..hi,
           NEW r \in Seq(S), Drops(r, s, lo, hi), IsInjective(s)
    PROVE  /\ IsInjective(r)
           /\ \A x : Contains(r, x) <=> Contains(s, x) /\ \A k \in lo..hi : s[k] # x
<1> DEFINE from(k) == IF k < lo THEN k ELSE k + (hi - lo + 1)
<1>1. /\ Len(s) \in Nat /\ Len(r) \in Nat /\ hi \in Int /\ lo \in Int
      /\ 1 <= lo /\ lo <= hi /\ hi <= Len(s)
      /\ DOMAIN s = 1..Len(s) /\ DOMAIN r = 1..Len(r)
  OBVIOUS
<1>2. Len(r) = Len(s) - (hi - lo + 1) /\ \A k \in 1..Len(r) : r[k] = s[from(k)]
  BY DEF Drops
<1>3. \A k \in 1..Len(r) : from(k) \in 1..Len(s) /\ from(k) \notin lo..hi
  BY <1>1, <1>2
<1>4. \A k, l \in 1..Len(r) : from(k) = from(l) => k = l
  BY <1>1, <1>2
<1>5. \A k \in 1..Len(s) : k \notin lo..hi => \E l \in 1..Len(r) : from(l) = k
  <2> SUFFICES ASSUME NEW k \in 1..Len(s), k \notin lo..hi
               PROVE  \E l \in 1..Len(r) : from(l) = k
    OBVIOUS
  <2>1. CASE k < lo
    <3>1. k \in 1..Len(r) /\ from(k) = k
      BY <1>1, <1>2, <2>1
    <3> QED
      BY <3>1
  <2>2. CASE ~(k < lo)
    <3> DEFINE l == k - (hi - lo + 1)
    <3>1. l \in 1..Len(r) /\ ~(l < lo) /\ l + (hi - lo + 1) = k
      BY <1>1, <1>2, <2>2
    <3> QED
      BY <3>1
  <2> QED
    BY <2>1, <2>2
<1>6. \A k, l \in 1..Len(s) : s[k] = s[l] => k = l
  BY <1>1 DEF IsInjective
<1> HIDE DEF from
<1>7. IsInjective(r)
  BY <1>1, <1>2, <1>3, <1>4, <1>6 DEF IsInjective
<1>8. ASSUME NEW x, Contains(r, x)
      PROVE  Contains(s, x) /\ \A k \in lo..hi : s[k] # x
  <2>1. PICK l \in 1..Len(r) : r[l] = x
    BY <1>8 DEF Contains
  <2>2. s[from(l)] = x /\ from(l) \in 1..Len(s) /\ from(l) \notin lo..hi
    BY <1>2, <1>3, <2>1
  <2>3. \A k \in lo..hi : k \in 1..Len(s)
    BY <1>1
  <2> QED
    BY <1>6, <2>2, <2>3 DEF Contains
<1>9. ASSUME NEW x, Contains(s, x), \A k \in lo..hi : s[k] # x
      PROVE  Contains(r, x)
  <2>1. PICK k \in 1..Len(s) : s[k] = x
    BY <1>9 DEF Contains
  <2>2. PICK l \in 1..Len(r) : from(l) = k
    BY <1>5, <1>9, <2>1
  <2> QED
    BY <1>2, <2>1, <2>2 DEF Contains
<1> QED
  BY <1>7, <1>8, <1>9

(* The tags of s increase and stay below c.                                *)
TagsBelow(s, c) ==
    /\ \A i, j \in 1..Len(s) : i < j => s[i].tag < s[j].tag
    /\ \A i \in 1..Len(s) : s[i].tag < c

(* Dropping elements keeps the order of the tags.                          *)
LEMMA DropsOrder ==
    ASSUME NEW S, NEW s \in Seq(S), NEW hi \in 1..Len(s), NEW lo \in 1..hi,
           NEW r \in Seq(S), NEW c, Drops(r, s, lo, hi), TagsBelow(s, c)
    PROVE  TagsBelow(r, c)
<1> DEFINE from(k) == IF k < lo THEN k ELSE k + (hi - lo + 1)
<1>1. /\ Len(s) \in Nat /\ Len(r) \in Nat /\ hi \in Int /\ lo \in Int
      /\ 1 <= lo /\ lo <= hi /\ hi <= Len(s)
  OBVIOUS
<1>2. Len(r) = Len(s) - (hi - lo + 1) /\ \A k \in 1..Len(r) : r[k] = s[from(k)]
  BY DEF Drops
<1>3. \A k \in 1..Len(r) : from(k) \in 1..Len(s)
  BY <1>1, <1>2
<1>4. \A k, l \in 1..Len(r) : k < l => from(k) < from(l)
  BY <1>1, <1>2
<1> HIDE DEF from
<1> QED
  BY <1>2, <1>3, <1>4 DEF TagsBelow

(* Appending elements tagged c, c + 1, ... keeps the order of the tags.    *)
LEMMA ConcatOrder ==
    ASSUME NEW S, NEW s \in Seq(S), NEW t \in Seq(S), NEW r, NEW c \in Nat,
           IsConcat(r, s, t), TagsBelow(s, c), \A i \in 1..Len(s) : s[i].tag \in Nat,
           \A i \in 1..Len(t) : t[i].tag = c + i - 1
    PROVE  TagsBelow(r, c + Len(t))
<1> DEFINE st == s \o t
<1>1. /\ Len(s) \in Nat /\ Len(t) \in Nat /\ Len(st) = Len(s) + Len(t)
      /\ \A k \in 1..Len(st) :
            \/ k \in 1..Len(s) /\ st[k] = s[k]
            \/ k - Len(s) \in 1..Len(t) /\ st[k] = t[k - Len(s)]
  BY ConcatIndex
<1>2. r = st
  BY DEF IsConcat
<1> HIDE DEF st
<1>3. /\ \A i, j \in 1..Len(s) : i < j => s[i].tag < s[j].tag
      /\ \A i \in 1..Len(s) : s[i].tag < c
  BY DEF TagsBelow
<1>4. ASSUME NEW k \in 1..Len(st) PROVE st[k].tag < c + Len(t)
  <2>1. CASE k \in 1..Len(s) /\ st[k] = s[k]
    BY <1>1, <1>3, <2>1
  <2>2. CASE k - Len(s) \in 1..Len(t) /\ st[k] = t[k - Len(s)]
    BY <1>1, <2>2
  <2> QED
    BY <1>1, <2>1, <2>2
<1>5. ASSUME NEW k \in 1..Len(st), NEW l \in 1..Len(st), k < l
      PROVE  st[k].tag < st[l].tag
  <2>1. CASE l \in 1..Len(s) /\ st[l] = s[l]
    <3>1. k \in 1..Len(s) /\ ~(k - Len(s) \in 1..Len(t))
      BY <1>1, <1>5, <2>1
    <3>2. st[k] = s[k]
      BY <1>1, <3>1
    <3> QED
      BY <1>3, <1>5, <2>1, <3>1, <3>2
  <2>2. CASE l - Len(s) \in 1..Len(t) /\ st[l] = t[l - Len(s)]
    <3>0. st[l].tag = c + (l - Len(s)) - 1 /\ l - Len(s) >= 1 /\ l \in Nat
      BY <1>1, <2>2
    <3>1. CASE k \in 1..Len(s) /\ st[k] = s[k]
      <4>1. s[k].tag < c /\ s[k].tag \in Nat
        BY <1>3, <3>1
      <4> QED
        BY <1>1, <3>0, <3>1, <4>1
    <3>2. CASE k - Len(s) \in 1..Len(t) /\ st[k] = t[k - Len(s)]
      <4>1. st[k].tag = c + (k - Len(s)) - 1 /\ k \in Nat
        BY <1>1, <3>2
      <4> QED
        BY <1>1, <1>5, <3>0, <4>1
    <3> QED
      BY <1>1, <3>1, <3>2
  <2> QED
    BY <1>1, <2>1, <2>2
<1> QED
  BY <1>2, <1>4, <1>5 DEF TagsBelow

=============================================================================
