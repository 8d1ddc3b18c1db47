--------------------------- MODULE Bytes_proofs ---------------------------
(***************************************************************************)
(* Facts about runs of bytes and about lists of buffers.                   *)
(***************************************************************************)
EXTENDS Bytes, SequenceTheorems, WellFoundedInduction, TLAPS

---------------------------------------------------------------------------
(* Runs of bytes *)

(* The n bytes from position p are a sequence of bytes.                    *)
LEMMA RunType == ASSUME NEW p \in Nat, NEW n \in Nat PROVE Run(p, n) \in Seq(Nat)
BY DEF Run

(* A run of n bytes has n bytes, and its i-th byte is where it should be.  *)
LEMMA RunBytes ==
  ASSUME NEW p \in Nat, NEW n \in Nat
  PROVE  /\ Run(p, n) \in Seq(Nat) /\ Len(Run(p, n)) = n
         /\ \A i \in 1..n : Run(p, n)[i] = p + i - 1
BY DEF Run

(* No bytes are the empty run.                                             *)
LEMMA RunEmpty == ASSUME NEW p \in Nat PROVE Run(p, 0) = <<>>
BY RunBytes, EmptySeq

(* Two runs that touch are one run.                                        *)
LEMMA RunCat ==
  ASSUME NEW p \in Nat, NEW m \in Nat, NEW n \in Nat
  PROVE  Run(p, m) \o Run(p + m, n) = Run(p, m + n)
<1> DEFINE s == Run(p, m)
           t == Run(p + m, n)
           u == Run(p, m + n)
<1>1. /\ s \in Seq(Nat) /\ Len(s) = m /\ \A i \in 1..m : s[i] = p + i - 1
      /\ t \in Seq(Nat) /\ Len(t) = n /\ \A i \in 1..n : t[i] = (p + m) + i - 1
      /\ u \in Seq(Nat) /\ Len(u) = m + n /\ \A i \in 1..(m + n) : u[i] = p + i - 1
  BY RunBytes, SMTT(30)
<1> HIDE DEF s, t, u
<1>2. /\ s \o t \in Seq(Nat) /\ Len(s \o t) = m + n
      /\ \A i \in 1..(m + n) : (s \o t)[i] = IF i <= m THEN s[i] ELSE t[i - m]
  BY <1>1, ConcatProperties, ZenonT(60)
<1>3. \A i \in 1..(m + n) : (s \o t)[i] = u[i]
  <2> TAKE i \in 1..(m + n)
  <2>1. CASE i <= m
    BY <2>1, <1>1, <1>2
  <2>2. CASE i > m
    <3>1. i - m \in 1..n
      BY <2>2
    <3>2. t[i - m] = (p + m) + (i - m) - 1
      BY <3>1, <1>1
    <3> QED
      BY <2>2, <3>2, <1>1, <1>2, SMTT(30)
  <2>3. i <= m \/ i > m
    OBVIOUS
  <2> QED
    BY <2>1, <2>2, <2>3, Zenon
<1> QED
  BY <1>1, <1>2, <1>3, SeqEqual DEF s, t, u

(* A part of a run is a run.                                               *)
LEMMA RunPart ==
  ASSUME NEW p \in Nat, NEW k \in Nat, NEW q \in Nat, NEW n \in Nat \ {0}, q + n <= k
  PROVE  SubSeq(Run(p, k), q + 1, q + n) = Run(p + q, n)
<1> DEFINE s == Run(p, k)
           t == SubSeq(s, q + 1, q + n)
           u == Run(p + q, n)
<1>1. s \in Seq(Nat) /\ Len(s) = k /\ \A i \in 1..k : s[i] = p + i - 1
  BY RunBytes
<1>2. u \in Seq(Nat) /\ Len(u) = n /\ \A i \in 1..n : u[i] = (p + q) + i - 1
  <2>1. p + q \in Nat
    OBVIOUS
  <2> QED
    BY <2>1, RunBytes
<1> HIDE DEF s, u
<1>3. t \in Seq(Nat) /\ Len(t) = n /\ \A i \in 1..n : t[i] = s[q + i]
  <2>1. q + 1 \in 1..k /\ q + n \in 1..k /\ q + n - (q + 1) + 1 = n
    OBVIOUS
  <2> QED
    BY <1>1, <2>1, SubSeqProperties
<1> HIDE DEF t
<1>4. \A i \in 1..n : t[i] = u[i]
  <2> TAKE i \in 1..n
  <2>1. q + i \in 1..k /\ p + (q + i) - 1 = (p + q) + i - 1
    OBVIOUS
  <2>2. s[q + i] = p + (q + i) - 1
    BY <1>1, <2>1
  <2> QED
    BY <1>2, <1>3, <2>1, <2>2
<1> QED
  BY <1>2, <1>3, <1>4, SeqEqual DEF s, t, u

---------------------------------------------------------------------------
(* Lists *)

(* A part of a sequence that does not reach beyond its end is a sequence.  *)
LEMMA SubSeqType ==
  ASSUME NEW S, NEW s \in Seq(S), NEW m \in Nat \ {0}, NEW n \in Int, n <= Len(s)
  PROVE  SubSeq(s, m, n) \in Seq(S)
<1>1. CASE n >= m - 1
  BY <1>1, SubSeqProperties
<1>2. CASE n < m - 1
  BY <1>2, EmptySeq
<1> QED
  BY <1>1, <1>2

(* The rest of a list of one is empty.                                     *)
LEMMA TailEmpty ==
  ASSUME NEW S, NEW list \in Seq(S), list # <<>>
  PROVE  Len(list) > 1 <=> Tail(list) # <<>>
<1> DEFINE t == Tail(list)
<1>1. t \in Seq(S) /\ Len(t) = Len(list) - 1 /\ Len(list) \in Nat
  BY HeadTailProperties
<1>2. t = <<>> <=> Len(t) = 0
  BY <1>1, EmptySeq
<1> HIDE DEF t
<1>3. CASE Len(t) = 0
  BY <1>1, <1>2, <1>3 DEF t
<1>4. CASE Len(t) # 0
  BY <1>1, <1>2, <1>4 DEF t
<1> QED
  BY <1>3, <1>4

(* The empty list holds nothing.                                           *)
LEMMA EmptyList == NoRepeat(<<>>) /\ \A b : ~InList(b, <<>>)
BY DEF NoRepeat, InList

(* Append adds one element and keeps the list free of repeats.            *)
LEMMA ListAppend ==
  ASSUME NEW S, NEW list \in Seq(S), NEW b \in S
  PROVE  /\ Append(list, b) \in Seq(S)
         /\ Append(list, b) # <<>>
         /\ \A x : InList(x, Append(list, b)) <=> InList(x, list) \/ x = b
         /\ NoRepeat(list) /\ ~InList(b, list) => NoRepeat(Append(list, b))
<1> DEFINE r == Append(list, b)
<1>1. /\ r \in Seq(S) /\ Len(r) = Len(list) + 1 /\ Len(list) \in Nat
      /\ \A i \in 1..Len(list) : r[i] = list[i]
      /\ r[Len(list) + 1] = b
  OBVIOUS
<1>2. r # <<>>
  BY <1>1
<1> HIDE DEF r
<1>3. \A x : InList(x, r) <=> InList(x, list) \/ x = b
  BY <1>1 DEF InList
<1>4. ASSUME NoRepeat(list), ~InList(b, list) PROVE NoRepeat(r)
  BY <1>1, <1>4 DEF InList, NoRepeat
<1> QED
  BY <1>1, <1>2, <1>3, <1>4 DEF r

(* So does a push at the head.                                            *)
LEMMA ListPush ==
  ASSUME NEW S, NEW list \in Seq(S), NEW b \in S
  PROVE  /\ (<<b>> \o list) \in Seq(S)
         /\ (<<b>> \o list) # <<>>
         /\ \A x : InList(x, <<b>> \o list) <=> InList(x, list) \/ x = b
         /\ NoRepeat(list) /\ ~InList(b, list) => NoRepeat(<<b>> \o list)
<1> DEFINE r == <<b>> \o list
<1>1. /\ r \in Seq(S) /\ Len(r) = Len(list) + 1 /\ Len(list) \in Nat
      /\ \A i \in 1..Len(list) : r[i + 1] = list[i]
      /\ r[1] = b
  OBVIOUS
<1>2. r # <<>>
  BY <1>1
<1> HIDE DEF r
<1>3. \A i \in 2..Len(r) : i - 1 \in 1..Len(list) /\ r[i] = list[i - 1]
  BY <1>1
<1>4. \A x : InList(x, r) <=> InList(x, list) \/ x = b
  <2>1. ASSUME NEW x, NEW i \in 1..Len(r), r[i] = x PROVE InList(x, list) \/ x = b
    <3>1. CASE i = 1
      BY <3>1, <2>1, <1>1
    <3>2. CASE i # 1
      <4>1. i \in 2..Len(r)
        BY <3>2, <1>1
      <4>2. i - 1 \in 1..Len(list) /\ list[i - 1] = x
        BY <4>1, <2>1, <1>3
      <4> QED
        BY <4>2 DEF InList
    <3> QED
      BY <3>1, <3>2
  <2>2. ASSUME NEW x, NEW i \in 1..Len(list), list[i] = x PROVE InList(x, r)
    <3>1. i + 1 \in 1..Len(r) /\ r[i + 1] = x
      BY <2>2, <1>1
    <3> QED
      BY <3>1 DEF InList
  <2>3. InList(b, r)
    BY <1>1 DEF InList
  <2> QED
    BY <2>1, <2>2, <2>3 DEF InList
<1>5. ASSUME NoRepeat(list), ~InList(b, list) PROVE NoRepeat(r)
  <2>1. \A i \in 1..Len(list) : list[i] # b
    BY <1>5 DEF InList
  <2>2. ASSUME NEW i \in 1..Len(r), NEW j \in 1..Len(r), r[i] = r[j] PROVE i = j
    <3>1. CASE i = 1 /\ j # 1
      BY <3>1, <2>1, <2>2, <1>1, <1>3
    <3>2. CASE i # 1 /\ j = 1
      BY <3>2, <2>1, <2>2, <1>1, <1>3
    <3>3. CASE i # 1 /\ j # 1
      <4>1. list[i - 1] = list[j - 1] /\ i - 1 \in 1..Len(list) /\ j - 1 \in 1..Len(list)
        BY <3>3, <2>2, <1>1, <1>3
      <4>2. i - 1 = j - 1
        BY <4>1, <1>5 DEF NoRepeat
      <4> QED
        BY <4>2
    <3> QED
      BY <3>1, <3>2, <3>3
  <2> QED
    BY <2>2 DEF NoRepeat
<1> QED
  BY <1>1, <1>2, <1>4, <1>5 DEF r

(* The tail is the list without its head.                                  *)
LEMMA ListTail ==
  ASSUME NEW S, NEW list \in Seq(S), list # <<>>
  PROVE  /\ Tail(list) \in Seq(S) /\ Head(list) \in S
         /\ \A x : InList(x, list) <=> x = Head(list) \/ InList(x, Tail(list))
         /\ NoRepeat(list) => NoRepeat(Tail(list)) /\ ~InList(Head(list), Tail(list))
<1> DEFINE r == Tail(list)
           h == Head(list)
<1>1. /\ h \in S /\ r \in Seq(S) /\ Len(list) = Len(r) + 1 /\ Len(r) \in Nat
      /\ list[1] = h
      /\ \A i \in 1..Len(r) : r[i] = list[i + 1]
  OBVIOUS
<1> HIDE DEF r, h
<1>2. \A i \in 2..Len(list) : i - 1 \in 1..Len(r) /\ list[i] = r[i - 1]
  BY <1>1
<1>3. \A x : InList(x, list) <=> x = h \/ InList(x, r)
  <2>1. ASSUME NEW x, NEW i \in 1..Len(list), list[i] = x PROVE x = h \/ InList(x, r)
    <3>1. CASE i = 1
      BY <3>1, <2>1, <1>1
    <3>2. CASE i # 1
      <4>1. i \in 2..Len(list)
        BY <3>2, <1>1
      <4>2. i - 1 \in 1..Len(r) /\ r[i - 1] = x
        BY <4>1, <2>1, <1>2
      <4> QED
        BY <4>2 DEF InList
    <3> QED
      BY <3>1, <3>2
  <2>2. ASSUME NEW x, NEW i \in 1..Len(r), r[i] = x PROVE InList(x, list)
    <3>1. i + 1 \in 1..Len(list) /\ list[i + 1] = x
      BY <2>2, <1>1
    <3> QED
      BY <3>1 DEF InList
  <2>3. InList(h, list)
    BY <1>1 DEF InList
  <2> QED
    BY <2>1, <2>2, <2>3 DEF InList
<1>4. ASSUME NoRepeat(list) PROVE NoRepeat(r) /\ ~InList(h, r)
  <2>1. \A i, j \in 1..Len(list) : list[i] = list[j] => i = j
    BY <1>4 DEF NoRepeat
  <2>2. NoRepeat(r)
    BY <2>1, <1>1 DEF NoRepeat
  <2>3. \A i \in 1..Len(r) : r[i] # h
    BY <2>1, <1>1
  <2> QED
    BY <2>2, <2>3 DEF InList
<1> QED
  BY <1>1, <1>3, <1>4 DEF r, h

(* An element is put in behind the first n of a list. *)
Put(list, n, b) == SubSeq(list, 1, n) \o <<b>> \o SubSeq(list, n + 1, Len(list))

(* What a list becomes when an element is put in.                          *)
LEMMA ListInsert ==
  ASSUME NEW S, NEW list \in Seq(S), NEW n \in 0..Len(list), NEW b \in S
  PROVE  LET r == Put(list, n, b)
         IN /\ r \in Seq(S) /\ Len(r) = Len(list) + 1
            /\ \A i \in 1..n : r[i] = list[i]
            /\ r[n + 1] = b
            /\ \A i \in (n + 1)..Len(list) : r[i + 1] = list[i]
            /\ \A x : InList(x, r) <=> InList(x, list) \/ x = b
            /\ NoRepeat(list) /\ ~InList(b, list) => NoRepeat(r)
<1> DEFINE L == Len(list)
           p == SubSeq(list, 1, n)
           q == SubSeq(list, n + 1, L)
           r == p \o <<b>> \o q
<1>0. L \in Nat /\ n \in Nat /\ n <= L
  OBVIOUS
<1>1. p \in Seq(S) /\ Len(p) = n /\ \A i \in 1..n : p[i] = list[i]
  <2>1. CASE n = 0
    BY <2>1, EmptySeq
  <2>2. CASE n # 0
    BY <1>0, <2>2, SubSeqProperties
  <2> QED
    BY <2>1, <2>2
<1>2. q \in Seq(S) /\ Len(q) = L - n /\ \A i \in 1..(L - n) : q[i] = list[n + i]
  <2>1. CASE n = L
    BY <1>0, <2>1, EmptySeq
  <2>2. CASE n # L
    BY <1>0, <2>2, SubSeqProperties
  <2> QED
    BY <2>1, <2>2
<1> HIDE DEF p, q, L
<1>3. /\ r \in Seq(S) /\ Len(r) = L + 1 /\ r[n + 1] = b
      /\ \A i \in 1..n : r[i] = p[i]
      /\ \A i \in 1..(L - n) : r[n + 1 + i] = q[i]
  <2>1. /\ p \o <<b>> \in Seq(S) /\ Len(p \o <<b>>) = n + 1 /\ (p \o <<b>>)[n + 1] = b
        /\ \A i \in 1..n : (p \o <<b>>)[i] = p[i]
    BY <1>0, <1>1
  <2> DEFINE u == p \o <<b>>
  <2> HIDE DEF u
  <2>2. /\ u \o q \in Seq(S) /\ Len(u \o q) = L + 1
        /\ \A i \in 1..(L + 1) : (u \o q)[i] = IF i <= n + 1 THEN u[i] ELSE q[i - (n + 1)]
    BY <1>0, <1>2, <2>1, ConcatProperties, SMTT(30) DEF u
  <2> QED
    BY <1>0, <2>1, <2>2, SMTT(30) DEF u
<1> HIDE DEF r
<1>4. \A i \in (n + 1)..L : r[i + 1] = list[i]
  <2> TAKE i \in (n + 1)..L
  <2>1. i - n \in 1..(L - n) /\ n + 1 + (i - n) = i + 1 /\ n + (i - n) = i
    BY <1>0
  <2> QED
    BY <1>2, <1>3, <2>1, SMTT(30)
<1>5. \A i \in 1..n : r[i] = list[i]
  BY <1>1, <1>3
<1>6. \A j \in 1..(L + 1) : \/ j \in 1..n /\ r[j] = list[j]
                            \/ j = n + 1
                            \/ j - 1 \in (n + 1)..L /\ r[j] = list[j - 1]
  <2> TAKE j \in 1..(L + 1)
  <2>1. j \in 1..n \/ j = n + 1 \/ (j - 1 \in (n + 1)..L /\ (j - 1) + 1 = j)
    BY <1>0
  <2> QED
    BY <1>4, <1>5, <2>1
<1>7. \A x : InList(x, r) <=> InList(x, list) \/ x = b
  <2>1. ASSUME NEW x, NEW j \in 1..(L + 1), r[j] = x PROVE InList(x, list) \/ x = b
    <3>1. CASE j \in 1..n /\ r[j] = list[j]
      BY <1>0, <2>1, <3>1 DEF InList, L
    <3>2. CASE j = n + 1
      BY <1>3, <2>1, <3>2
    <3>3. CASE j - 1 \in (n + 1)..L /\ r[j] = list[j - 1]
      BY <1>0, <2>1, <3>3 DEF InList, L
    <3> QED
      BY <1>6, <3>1, <3>2, <3>3
  <2>2. ASSUME NEW x, NEW i \in 1..L, list[i] = x PROVE InList(x, r)
    <3>1. CASE i <= n
      BY <1>0, <1>3, <1>5, <2>2, <3>1 DEF InList
    <3>2. CASE i > n
      <4>1. i \in (n + 1)..L /\ i + 1 \in 1..(L + 1)
        BY <1>0, <3>2
      <4> QED
        BY <1>3, <1>4, <2>2, <4>1 DEF InList
    <3> QED
      BY <1>0, <3>1, <3>2
  <2>3. InList(b, r)
    BY <1>0, <1>3 DEF InList
  <2> QED
    BY <1>3, <2>1, <2>2, <2>3 DEF InList, L
<1>8. ASSUME NoRepeat(list), ~InList(b, list) PROVE NoRepeat(r)
  <2>1. (\A i \in 1..L : list[i] # b) /\ \A i, j \in 1..L : list[i] = list[j] => i = j
    BY <1>8 DEF InList, NoRepeat, L
  <2>2. ASSUME NEW i \in 1..(L + 1), NEW j \in 1..(L + 1), i < j PROVE r[i] # r[j]
    <3> DEFINE at(k) == IF k <= n THEN k ELSE k - 1
    <3>1. \A k \in 1..(L + 1) : k # n + 1 => at(k) \in 1..L /\ r[k] = list[at(k)]
      BY <1>0, <1>6
    <3>2. CASE i = n + 1 \/ j = n + 1
      BY <1>3, <2>1, <2>2, <3>1, <3>2
    <3>3. CASE i # n + 1 /\ j # n + 1
      <4>1. at(i) # at(j)
        BY <1>0, <2>2, <3>3
      <4> HIDE DEF at
      <4> QED
        BY <2>1, <3>1, <3>3, <4>1
    <3> QED
      BY <3>2, <3>3
  <2> QED
    BY <1>0, <1>3, <2>2 DEF NoRepeat
<1> QED
  BY <1>3, <1>4, <1>5, <1>7, <1>8 DEF r, p, q, L, Put
---------------------------------------------------------------------------
(* Induction: a set of naturals has a least element *)

(* Every set of naturals that is not empty has a least element.            *)
LEMMA LeastNat ==
  ASSUME NEW S, S \subseteq Nat, S # {}
  PROVE  \E m \in S : \A k \in S : m <= k
<1>1. \E x \in S : \A y \in S : ~ (<<y, x>> \in OpToRel(<, Nat))
  BY WFMin, NatLessThanWellFounded, Zenon
<1>2. PICK x \in S : \A y \in S : ~ (<<y, x>> \in OpToRel(<, Nat))
  BY <1>1
<1>3. ASSUME NEW y \in S, y < x PROVE FALSE
  <2>1. OpToRel(<, Nat) = {ss \in Nat \X Nat : ss[1] < ss[2]}
    BY Zenon DEF OpToRel
  <2>2. <<y, x>> \in {ss \in Nat \X Nat : ss[1] < ss[2]}
    BY <1>3
  <2> QED
    BY <1>2, <1>3, <2>1, <2>2, Zenon
<1>4. \A k \in S : x <= k
  BY <1>3
<1> QED
  BY <1>4

---------------------------------------------------------------------------
(* The sums of the first numbers of a sequence *)

(* sum[i] is the sum of the first i numbers of s.                          *)
IsSums(sum, s) ==
  /\ sum \in [0..Len(s) -> Nat]
  /\ sum[0] = 0
  /\ \A i \in 1..Len(s) : sum[i] = sum[i - 1] + s[i]

(* Every sequence of numbers has them.                                     *)
LEMMA SumsExist ==
  ASSUME NEW s \in Seq(Nat)
  PROVE  \E sum : IsSums(sum, s)
<1> DEFINE n == Len(s)
           Made(sum, j) == /\ sum \in [0..j -> Nat] /\ sum[0] = 0
                           /\ \A i \in 1..j : sum[i] = sum[i - 1] + s[i]
           Bad == {j \in 0..n : ~ \E sum : Made(sum, j)}
<1>0. n \in Nat /\ \A i \in 1..n : s[i] \in Nat
  OBVIOUS
<1>1. Bad = {}
  <2> SUFFICES ASSUME Bad # {} PROVE FALSE
    OBVIOUS
  <2>1. PICK m \in Bad : \A k \in Bad : m <= k
    <3>1. Bad \subseteq Nat
      BY <1>0
    <3> QED
      BY <3>1, LeastNat
  <2>2. m # 0
    <3>1. Made([i \in 0..0 |-> 0], 0)
      OBVIOUS
    <3> QED
      BY <2>1, <3>1
  <2>3. m \in 1..n /\ m - 1 \in 0..n
    <3>1. m \in 0..n
      BY <2>1
    <3> HIDE DEF n
    <3> QED
      BY <1>0, <2>2, <3>1
  <2>4. PICK sum : Made(sum, m - 1)
    <3>1. m - 1 \notin Bad
      <4> HIDE DEF Bad
      <4> QED
        BY <2>1, <2>3
    <3> QED
      BY <2>3, <3>1
  <2>5. Made([i \in 0..m |-> IF i = m THEN sum[m - 1] + s[m] ELSE sum[i]], m)
    <3> DEFINE longer == [i \in 0..m |-> IF i = m THEN sum[m - 1] + s[m] ELSE sum[i]]
    <3>0. sum \in [0..(m - 1) -> Nat] /\ sum[0] = 0 /\ \A i \in 1..(m - 1) : sum[i] = sum[i - 1] + s[i]
      BY <2>4
    <3>1. longer \in [0..m -> Nat]
      BY <1>0, <2>3, <3>0
    <3>2. longer[0] = 0
      BY <2>3, <3>0
    <3>3. ASSUME NEW i \in 1..m PROVE longer[i] = longer[i - 1] + s[i]
      <4>0. i \in 0..m /\ i - 1 \in 0..m /\ i - 1 # m
        BY <2>3
      <4>1. longer[i - 1] = sum[i - 1]
        BY <4>0
      <4>2. CASE i = m
        BY <4>0, <4>1, <4>2
      <4>3. CASE i # m
        <5>1. i \in 1..(m - 1) /\ longer[i] = sum[i]
          BY <2>3, <4>0, <4>3
        <5> QED
          BY <3>0, <4>1, <5>1
      <4> QED
        BY <4>2, <4>3
    <3> QED
      BY <3>1, <3>2, <3>3
  <2> QED
    BY <2>1, <2>5
<1>2. n \in 0..n
  BY <1>0
<1> QED
  BY <1>1, <1>2 DEF IsSums

(* There is only one function with the recursive equation of the sums.     *)
LEMMA SumsUnique ==
  ASSUME NEW s \in Seq(Nat), NEW list,
         list = CHOOSE f : f = [i \in 0..Len(s) |-> IF i = 0 THEN 0 ELSE f[i - 1] + s[i]]
  PROVE  IsSums(list, s)
<1> DEFINE n == Len(s)
<1>0. n \in Nat
  OBVIOUS
<1>2. PICK sum : IsSums(sum, s)
  BY SumsExist
<1>3. sum = [i \in 0..n |-> IF i = 0 THEN 0 ELSE sum[i - 1] + s[i]]
  BY <1>0, <1>2 DEF IsSums
<1>4. list = [i \in 0..n |-> IF i = 0 THEN 0 ELSE list[i - 1] + s[i]]
  BY <1>3, Zenon
<1>5. \A i \in 0..n : list[i] = IF i = 0 THEN 0 ELSE list[i - 1] + s[i]
  BY <1>4
<1>6. /\ sum \in [0..n -> Nat] /\ sum[0] = 0
      /\ \A i \in 1..n : sum[i] = sum[i - 1] + s[i]
  BY <1>2 DEF IsSums
<1> DEFINE Diff == {j \in 0..n : list[j] # sum[j]}
<1> HIDE DEF n
<1>7. Diff = {}
  <2> SUFFICES ASSUME Diff # {} PROVE FALSE
    OBVIOUS
  <2>1. PICK m \in Diff : \A k \in Diff : m <= k
    <3>1. Diff \subseteq Nat
      BY <1>0
    <3> QED
      BY <3>1, LeastNat
  <2>2. m # 0
    BY <1>5, <1>6, <2>1
  <2>3. m - 1 \in 0..n /\ m \in 1..n /\ m - 1 \notin Diff
    BY <1>0, <2>1, <2>2
  <2> QED
    BY <1>5, <1>6, <2>1, <2>2, <2>3
<1>8. list = sum
  <2>1. \A j \in 0..n : list[j] = sum[j]
    BY <1>7
  <2>2. list = [j \in 0..n |-> list[j]]
    BY <1>4
  <2>3. sum = [j \in 0..n |-> sum[j]]
    BY <1>6
  <2>4. [j \in 0..n |-> list[j]] = [j \in 0..n |-> sum[j]]
    BY <2>1
  <2> QED
    BY <2>2, <2>3, <2>4, Zenon
<1> QED
  BY <1>2, <1>8

(* Each is at least the ones before it.                                    *)
LEMMA SumsGrow ==
  ASSUME NEW s \in Seq(Nat), NEW sum, IsSums(sum, s),
         NEW i \in 0..Len(s), NEW j \in 0..Len(s), i <= j
  PROVE  sum[i] <= sum[j]
<1> DEFINE n == Len(s)
           Bad == {k \in 0..n : i <= k /\ ~(sum[i] <= sum[k])}
<1>0. n \in Nat /\ \A k \in 1..n : s[k] \in Nat
  OBVIOUS
<1>e. sum \in [0..n -> Nat] /\ \A k \in 1..n : sum[k] = sum[k - 1] + s[k]
  BY DEF IsSums
<1> HIDE DEF n
<1>1. Bad = {}
  <2> SUFFICES ASSUME Bad # {} PROVE FALSE
    OBVIOUS
  <2>1. PICK m \in Bad : \A k \in Bad : m <= k
    <3>1. Bad \subseteq Nat
      BY <1>0
    <3> QED
      BY <3>1, LeastNat
  <2>2. m \in 0..n /\ i <= m /\ ~(sum[i] <= sum[m]) /\ i \in 0..n
    BY <2>1 DEF n
  <2>3. m # i
    BY <1>e, <2>2, SMTT(30)
  <2>4. m \in 1..n /\ m - 1 \in 0..n /\ i <= m - 1
    BY <1>0, <2>2, <2>3
  <2>5. m - 1 \notin Bad
    <3> HIDE DEF Bad
    <3> QED
      BY <2>1, <2>4
  <2>6. sum[i] <= sum[m - 1]
    BY <2>4, <2>5
  <2>7. sum[m] = sum[m - 1] + s[m] /\ s[m] \in Nat /\ sum[m - 1] \in Nat /\ sum[i] \in Nat
    BY <1>0, <1>e, <2>2, <2>4
  <2> QED
    BY <2>2, <2>6, <2>7
<1> QED
  BY <1>1 DEF n
===========================================================================
