---------------------------- MODULE QueueLemmas -----------------------------
(***************************************************************************)
(* Facts about sequences used as queues: what taking an element out and    *)
(* putting one in leaves.                                                  *)
(***************************************************************************)
EXTENDS Integers, Sequences, SequencesExt, SequenceTheorems,
        WellFoundedInduction, TLAPS

(* Injectivity of a sequence, by its positions.                             *)
LEMMA InjectiveSeq ==
  ASSUME NEW S, NEW s \in Seq(S)
  PROVE  IsInjective(s) <=> \A i, j \in 1..Len(s) : s[i] = s[j] => i = j
  BY LenProperties DEF IsInjective

(* A function on 1..n is a sequence of length n.                             *)
LEMMA FunctionIsSeq ==
  ASSUME NEW S, NEW n \in Nat, NEW f \in [1..n -> S]
  PROVE  f \in Seq(S) /\ Len(f) = n
<1>1. f \in UNION {[1..m -> S] : m \in Nat}
  OBVIOUS
<1>2. f \in Seq(S)
  BY <1>1, SeqDef
<1> QED BY <1>2, LenProperties

(* The elements after position k move up by one.                            *)
LEMMA RemoveAtProps ==
  ASSUME NEW S, NEW s \in Seq(S), NEW k \in 1..Len(s)
  PROVE  /\ RemoveAt(s, k) \in Seq(S)
         /\ Len(RemoveAt(s, k)) = Len(s) - 1
         /\ \A j \in 1..Len(s)-1 : RemoveAt(s, k)[j] = IF j < k THEN s[j] ELSE s[j+1]
<1> DEFINE a == SubSeq(s, 1, k-1)
           c == SubSeq(s, k+1, Len(s))
<1>1. a \in Seq(S) /\ Len(a) = k-1 /\ \A j \in 1..k-1 : a[j] = s[j]
  BY SubSeqProperties
<1>2. c \in Seq(S) /\ Len(c) = Len(s)-k /\ \A j \in 1..Len(s)-k : c[j] = s[k+j]
  BY SubSeqProperties
<1>3. /\ a \o c \in Seq(S) /\ Len(a \o c) = Len(s) - 1
      /\ \A j \in 1..Len(s)-1 : (a \o c)[j] = IF j =< k-1 THEN a[j] ELSE c[j-(k-1)]
  <2> HIDE DEF a, c
  <2> QED BY <1>1, <1>2, ConcatProperties
<1>4. RemoveAt(s, k) = a \o c BY DEF RemoveAt
<1>5. \A j \in 1..Len(s)-1 : (a \o c)[j] = IF j < k THEN s[j] ELSE s[j+1]
  <2> HIDE DEF a, c
  <2> QED BY <1>1, <1>2, <1>3
<1> QED BY <1>3, <1>4, <1>5

(* Removing x from a queue without duplicates (_List_Ring_Del) removes x only. *)
LEMMA RemoveFirstProps ==
  ASSUME NEW S, NEW s \in Seq(S), NEW x, Contains(s, x), IsInjective(s)
  PROVE  /\ RemoveFirst(s, x) \in Seq(S)
         /\ Len(RemoveFirst(s, x)) = Len(s) - 1
         /\ IsInjective(RemoveFirst(s, x))
         /\ \A y : Contains(RemoveFirst(s, x), y) <=> Contains(s, y) /\ y # x
<1>1. PICK k \in 1..Len(s) : s[k] = x
  BY DEF Contains
<1>2. {i \in 1..Len(s) : s[i] = x} = {k}
  BY <1>1, InjectiveSeq
<1>3. SelectInSeq(s, LAMBDA v : v = x) = k
  BY <1>2 DEF SelectInSeq, Min
<1>4. RemoveFirst(s, x) = RemoveAt(s, k)
  BY <1>1, <1>3 DEF RemoveFirst
<1> DEFINE r == RemoveAt(s, k)
<1>0. /\ r \in Seq(S) /\ Len(r) = Len(s) - 1
      /\ \A j \in 1..Len(s)-1 : r[j] = IF j < k THEN s[j] ELSE s[j+1]
  BY RemoveAtProps
<1>5. IsInjective(r)
  <2> HIDE DEF r
  <2>1. Len(s) \in Nat /\ k \in 1..Len(s)
    BY LenProperties
  <2>2. \A i, j \in 1..Len(s) : s[i] = s[j] => i = j
    BY InjectiveSeq
  <2>3. ASSUME NEW i \in 1..Len(s)-1, NEW j \in 1..Len(s)-1, r[i] = r[j]
        PROVE  i = j
    <3> DEFINE at(n) == IF n < k THEN n ELSE n+1
    <3>1. at(i) \in 1..Len(s) /\ at(j) \in 1..Len(s)
      BY <2>1
    <3>2. r[i] = s[at(i)] /\ r[j] = s[at(j)]
      BY <1>0
    <3>3. at(i) = at(j)
      <4> HIDE DEF at
      <4> QED BY <2>2, <2>3, <3>1, <3>2
    <3> QED BY <2>1, <3>3
  <2> QED BY <1>0, <2>1, <2>3, InjectiveSeq
<1>6. ASSUME NEW y PROVE Contains(RemoveAt(s, k), y) <=> Contains(s, y) /\ y # x
  <2>1. ASSUME Contains(r, y) PROVE Contains(s, y) /\ y # x
    <3> HIDE DEF r
    <3>1. PICK j \in 1..Len(s)-1 : r[j] = y
      BY <1>0, <2>1 DEF Contains
    <3>2. CASE j < k
      <4>1. j \in 1..Len(s) /\ s[j] = y /\ j # k
        BY <1>0, <3>1, <3>2
      <4> QED BY <1>1, <4>1, InjectiveSeq DEF Contains
    <3>3. CASE j >= k
      <4>1. j+1 \in 1..Len(s) /\ s[j+1] = y /\ j+1 # k
        BY <1>0, <3>1, <3>3
      <4> QED BY <1>1, <4>1, InjectiveSeq DEF Contains
    <3> QED BY <3>2, <3>3
  <2>2. ASSUME Contains(s, y), y # x PROVE Contains(RemoveAt(s, k), y)
    <3>1. PICK i \in 1..Len(s) : s[i] = y
      BY <2>2 DEF Contains
    <3>2. i # k BY <1>1, <2>2, <3>1
    <3>3. CASE i < k
      <4>1. i \in 1..Len(s)-1 /\ RemoveAt(s, k)[i] = y
        BY <3>1, <3>3, RemoveAtProps
      <4> QED BY <4>1, RemoveAtProps DEF Contains
    <3>4. CASE i > k
      <4>1. i - 1 \in 1..Len(s)-1 /\ r[i-1] = y
        <5> HIDE DEF r
        <5> QED BY <1>0, <3>1, <3>4
      <4> QED BY <4>1, RemoveAtProps DEF Contains
    <3> QED BY <3>2, <3>3, <3>4
  <2> QED BY <2>1, <2>2
<1> QED BY <1>4, <1>5, <1>6, RemoveAtProps

(* The elements from position k on move down by one.                        *)
LEMMA InsertAtProps ==
  ASSUME NEW S, NEW s \in Seq(S), NEW k \in 1..Len(s)+1, NEW x \in S
  PROVE  /\ InsertAt(s, k, x) \in Seq(S)
         /\ Len(InsertAt(s, k, x)) = Len(s) + 1
         /\ \A j \in 1..Len(s)+1 : InsertAt(s, k, x)[j] =
              IF j < k THEN s[j] ELSE IF j = k THEN x ELSE s[j-1]
<1> DEFINE a == SubSeq(s, 1, k-1)
           c == SubSeq(s, k, Len(s))
           b == a \o <<x>>
<1>1. a \in Seq(S) /\ Len(a) = k-1 /\ \A j \in 1..k-1 : a[j] = s[j]
  BY SubSeqProperties
<1>2. c \in Seq(S) /\ Len(c) = Len(s)-k+1 /\ \A j \in 1..Len(s)-k+1 : c[j] = s[k+j-1]
  BY SubSeqProperties
<1>3. b \in Seq(S) /\ Len(b) = k /\ \A j \in 1..k : b[j] = IF j < k THEN s[j] ELSE x
  <2> HIDE DEF a
  <2> QED BY <1>1, ConcatProperties
<1> HIDE DEF b, c, a
<1>0. Len(s) \in Nat
  BY LenProperties
<1>4. b \o c \in Seq(S) /\ Len(b \o c) = Len(s) + 1
  <2>1. b \o c \in Seq(S) /\ Len(b \o c) = Len(b) + Len(c)
    BY <1>2, <1>3, ConcatProperties
  <2> QED BY <1>0, <1>2, <1>3, <2>1
<1>5. ASSUME NEW j \in 1..Len(s)+1
      PROVE  (b \o c)[j] = IF j < k THEN s[j] ELSE IF j = k THEN x ELSE s[j-1]
  <2>1. CASE j =< k
    BY <1>2, <1>3, <2>1, ConcatProperties
  <2>2. CASE j > k
    <3>1. j - k \in 1..Len(s)-k+1 /\ (b \o c)[j] = c[j-k]
      BY <1>2, <1>3, <2>2, ConcatProperties
    <3> QED BY <1>2, <2>2, <3>1
  <2>3. j =< k \/ j > k
    BY <1>0
  <2> QED BY <2>1, <2>2, <2>3, Zenon
<1>6. InsertAt(s, k, x) = b \o c BY DEF InsertAt, a, b, c
<1> QED BY <1>4, <1>5, <1>6

(* Inserting a new element (_AddTCBToEventPriority) adds it only.            *)
LEMMA InsertKeeps ==
  ASSUME NEW S, NEW s \in Seq(S), NEW k \in 1..Len(s)+1, NEW x \in S, IsInjective(s), ~Contains(s, x)
  PROVE  /\ IsInjective(InsertAt(s, k, x))
         /\ \A y : Contains(InsertAt(s, k, x), y) <=> Contains(s, y) \/ y = x
<1> DEFINE r == InsertAt(s, k, x)
<1>0. /\ r \in Seq(S) /\ Len(r) = Len(s) + 1
      /\ \A j \in 1..Len(s)+1 : r[j] = IF j < k THEN s[j] ELSE IF j = k THEN x ELSE s[j-1]
  BY InsertAtProps
<1> HIDE DEF r
<1>1. ASSUME NEW i \in 1..Len(s)+1, i # k
      PROVE  \E p \in 1..Len(s) : r[i] = s[p] /\ (i < k => p = i) /\ (i > k => p = i-1)
  <2>1. CASE i < k
    BY <1>0, <2>1
  <2>2. CASE i > k
    <3>1. i-1 \in 1..Len(s) /\ r[i] = s[i-1]
      BY <1>0, <2>2
    <3> QED BY <2>2, <3>1
  <2> QED BY <1>1, <2>1, <2>2
<1>2. ASSUME NEW i \in 1..Len(s)+1, NEW j \in 1..Len(s)+1, r[i] = r[j]
      PROVE  i = j
  <2>1. CASE i = k \/ j = k
    BY <1>0, <1>1, <1>2, <2>1, InjectiveSeq DEF Contains
  <2>2. CASE i # k /\ j # k
    <3>1. PICK p \in 1..Len(s) : r[i] = s[p] /\ (i < k => p = i) /\ (i > k => p = i-1)
      BY <1>1, <2>2
    <3>2. PICK q \in 1..Len(s) : r[j] = s[q] /\ (j < k => q = j) /\ (j > k => q = j-1)
      BY <1>1, <2>2
    <3>3. p = q
      BY <1>2, <3>1, <3>2, InjectiveSeq
    <3> QED BY <2>2, <3>1, <3>2, <3>3
  <2> QED BY <2>1, <2>2
<1>5. IsInjective(r)
  BY <1>0, <1>2, InjectiveSeq
<1>6. ASSUME NEW y, Contains(r, y) PROVE Contains(s, y) \/ y = x
  <2>1. PICK j \in 1..Len(s)+1 : r[j] = y
    BY <1>0, <1>6 DEF Contains
  <2> QED BY <1>0, <1>1, <2>1 DEF Contains
<1>3. ASSUME NEW y, Contains(s, y) PROVE Contains(r, y)
  <2>1. PICK i \in 1..Len(s) : s[i] = y
    BY <1>3 DEF Contains
  <2>2. CASE i < k
    BY <1>0, <2>1, <2>2 DEF Contains
  <2>3. CASE i >= k
    <3>1. Len(s) \in Nat
      BY LenProperties
    <3>2. i + 1 \in 1..Len(s)+1 /\ i + 1 > k /\ (i + 1) - 1 = i
      BY <2>3, <3>1
    <3>3. r[i+1] = s[(i+1) - 1]
      BY <1>0, <3>1, <3>2
    <3>4. r[i+1] = y
      BY <2>1, <3>2, <3>3
    <3> QED BY <1>0, <3>2, <3>4 DEF Contains
  <2> QED BY <2>2, <2>3
<1>4. Contains(r, x)
  BY <1>0 DEF Contains
<1> QED BY <1>3, <1>4, <1>5, <1>6 DEF r

(* Appending a new element (_AddTCBToEventFifo) adds it only.                *)
LEMMA AppendKeeps ==
  ASSUME NEW S, NEW s \in Seq(S), NEW x \in S, IsInjective(s), ~Contains(s, x)
  PROVE  /\ Append(s, x) \in Seq(S)
         /\ Len(Append(s, x)) = Len(s) + 1
         /\ IsInjective(Append(s, x))
         /\ \A y : Contains(Append(s, x), y) <=> Contains(s, y) \/ y = x
<1>1. /\ Append(s, x) \in Seq(S) /\ Len(Append(s, x)) = Len(s) + 1
      /\ \A i \in 1..Len(s) : Append(s, x)[i] = s[i]
      /\ Append(s, x)[Len(s) + 1] = x
  BY AppendProperties
<1>2. IsInjective(Append(s, x))
  <2>1. \A i, j \in 1..Len(s) : s[i] = s[j] => i = j BY InjectiveSeq
  <2>2. \A i, j \in 1..Len(s)+1 : Append(s, x)[i] = Append(s, x)[j] => i = j
    BY <1>1, <2>1 DEF Contains
  <2> QED BY <1>1, <2>2, InjectiveSeq
<1>3. \A y : Contains(Append(s, x), y) <=> Contains(s, y) \/ y = x BY <1>1 DEF Contains
<1> QED BY <1>1, <1>2, <1>3

(* Taking the head off a queue removes the head only.                        *)
LEMMA TailKeeps ==
  ASSUME NEW S, NEW s \in Seq(S), Len(s) > 0, IsInjective(s)
  PROVE  /\ Head(s) \in S /\ Contains(s, Head(s))
         /\ Tail(s) \in Seq(S)
         /\ Len(Tail(s)) = Len(s) - 1
         /\ IsInjective(Tail(s))
         /\ \A y : Contains(Tail(s), y) <=> Contains(s, y) /\ y # Head(s)
<1>1. /\ s # <<>> /\ Head(s) = s[1] /\ Head(s) \in S /\ Tail(s) \in Seq(S)
      /\ Len(Tail(s)) = Len(s) - 1
      /\ \A i \in 1..Len(s)-1 : Tail(s)[i] = s[i+1]
  BY HeadTailProperties
<1>2. IsInjective(Tail(s))
  <2>1. \A i, j \in 1..Len(s) : s[i] = s[j] => i = j BY InjectiveSeq
  <2>2. \A i, j \in 1..Len(Tail(s)) : Tail(s)[i] = Tail(s)[j] => i = j BY <1>1, <2>1
  <2> QED BY <1>1, <2>2, InjectiveSeq
<1>3. ASSUME NEW y, Contains(Tail(s), y) PROVE Contains(s, y) /\ y # Head(s)
  BY <1>1, <1>3, InjectiveSeq DEF Contains
<1>4. ASSUME NEW y, Contains(s, y), y # Head(s) PROVE Contains(Tail(s), y)
  <2>1. PICK i \in 1..Len(s) : s[i] = y BY <1>4 DEF Contains
  <2>2. i - 1 \in 1..Len(s)-1 /\ Tail(s)[i-1] = y BY <1>1, <1>4, <2>1
  <2> QED BY <1>1, <2>2 DEF Contains
<1>5. Contains(s, Head(s)) BY <1>1 DEF Contains
<1> QED BY <1>1, <1>2, <1>3, <1>4, <1>5

(* Every set of naturals that is not empty has a least element.             *)
LEMMA LeastOf ==
  ASSUME NEW T \in SUBSET Nat, T # {}
  PROVE  \E x \in T : \A y \in T : x =< y
<1> DEFINE R == {ss \in Nat \X Nat : ss[1] < ss[2]}
<1>1. IsWellFoundedOn(R, Nat)
  BY NatLessThanWellFounded DEF OpToRel
<1>2. \A x, y \in Nat : <<x, y>> \in R <=> x < y
  OBVIOUS
<1> HIDE DEF R
<1>3. PICK x \in T : \A y \in T : ~(<<y, x>> \in R)
  BY <1>1, WFMin
<1>4. ASSUME NEW y \in T PROVE x =< y
  <2>1. x \in Nat /\ y \in Nat /\ ~(<<y, x>> \in R)
    BY <1>3
  <2> QED BY <1>2, <2>1
<1> QED BY <1>4

(* The first place that is in T, or the one after the last.                 *)
LEMMA FirstPlace ==
  ASSUME NEW n \in Nat, NEW T \in SUBSET (1..n)
  PROVE  \E i \in 1..n+1 : (\A j \in 1..i-1 : j \notin T) /\ (i =< n => i \in T)
<1>1. PICK i \in T \cup {n + 1} : \A j \in T \cup {n + 1} : i =< j
  <2>1. T \cup {n + 1} \in SUBSET Nat /\ T \cup {n + 1} # {}
    OBVIOUS
  <2> QED BY <2>1, LeastOf
<1>2. i \in 1..n+1 /\ (i =< n => i \in T)
  OBVIOUS
<1>3. \A j \in 1..i-1 : j \notin T
  BY <1>1
<1> QED BY <1>2, <1>3

(* The same, said of the queue after the insertion.                          *)
LEMMA InsertedAt ==
  ASSUME NEW S, NEW s \in Seq(S), NEW k \in 1..Len(s)+1, NEW x \in S, NEW r,
         r = InsertAt(s, k, x)
  PROVE  /\ Len(s) \in Nat /\ Len(r) = Len(s) + 1 /\ r[k] = x
         /\ \A j \in 1..Len(s) : j < k => r[j] = s[j]
         /\ \A j \in 2..Len(s)+1 : k < j => r[j] = s[j-1]
<1>1. /\ Len(s) \in Nat /\ Len(r) = Len(s) + 1
      /\ \A j \in 1..Len(s)+1 : r[j] = IF j < k THEN s[j] ELSE IF j = k THEN x ELSE s[j-1]
  BY InsertAtProps
<1>2. k \in Int /\ ~(k < k)
  BY <1>1
<1>3. r[k] = x
  BY <1>1, <1>2
<1>4. ASSUME NEW j \in 1..Len(s), j < k PROVE r[j] = s[j]
  <2>1. j \in 1..Len(s)+1
    BY <1>1
  <2> QED BY <1>1, <1>4, <2>1
<1>5. ASSUME NEW j \in 2..Len(s)+1, k < j PROVE r[j] = s[j-1]
  <2>1. j \in 1..Len(s)+1 /\ ~(j < k) /\ j # k
    BY <1>1, <1>5
  <2> QED BY <1>1, <2>1
<1> QED BY <1>1, <1>3, <1>4, <1>5

(* Inserting x adds nothing but x.                                           *)
LEMMA InsertAdds ==
  ASSUME NEW S, NEW s \in Seq(S), NEW k \in 1..Len(s) + 1, NEW x \in S,
         NEW i \in 1..Len(InsertAt(s, k, x))
  PROVE  \/ InsertAt(s, k, x)[i] = x
         \/ \E a \in 1..Len(s) : InsertAt(s, k, x)[i] = s[a]
<1>0. PICK r : r = InsertAt(s, k, x)
  OBVIOUS
<1>1. /\ Len(s) \in Nat /\ Len(r) = Len(s) + 1 /\ r[k] = x
      /\ \A j \in 1..Len(s) : j < k => r[j] = s[j]
      /\ \A j \in 2..Len(s)+1 : k < j => r[j] = s[j-1]
  BY <1>0, InsertedAt
<1>2. i \in 1..Len(s)+1
  BY <1>0, <1>1
<1>3. CASE i < k
  <2>1. i \in 1..Len(s)
    BY <1>1, <1>2, <1>3
  <2> QED BY <1>0, <1>1, <1>3, <2>1
<1>4. CASE k < i
  <2>1. i \in 2..Len(s)+1 /\ i - 1 \in 1..Len(s)
    BY <1>1, <1>2, <1>4
  <2> QED BY <1>0, <1>1, <1>4, <2>1
<1>5. CASE i = k
  BY <1>0, <1>1, <1>5
<1> QED BY <1>1, <1>2, <1>3, <1>4, <1>5

-----------------------------------------------------------------------------
(* A queue some elements have left: those that stay keep their order.        *)
Shrinks(r, s) ==
  \A i, j \in 1..Len(r) : i =< j =>
    \E a, b \in 1..Len(s) : a =< b /\ r[i] = s[a] /\ r[j] = s[b]

(* Nobody has left.                                                          *)
LEMMA ShrinksSelf ==
  ASSUME NEW S, NEW s \in Seq(S)
  PROVE  Shrinks(s, s)
  BY DEF Shrinks

(* An empty queue stays empty.                                               *)
LEMMA ShrinksEmpty ==
  ASSUME NEW S, NEW r \in Seq(S), Shrinks(r, <<>>)
  PROVE  r = <<>>
<1>1. Len(r) \in Nat /\ Len(<<>>) = 0
  OBVIOUS
<1>2. ASSUME Len(r) # 0 PROVE FALSE
  <2>1. 1 \in 1..Len(r)
    BY <1>1, <1>2
  <2> QED BY <1>1, <2>1 DEF Shrinks
<1> QED BY <1>1, <1>2, EmptySeq

(* Taking an element out keeps the order of the others.                      *)
LEMMA RemoveFirstShrinks ==
  ASSUME NEW S, NEW s \in Seq(S), NEW x, Contains(s, x), IsInjective(s)
  PROVE  Shrinks(RemoveFirst(s, x), s)
<1>1. PICK k \in 1..Len(s) : s[k] = x
  BY DEF Contains
<1>2. {i \in 1..Len(s) : s[i] = x} = {k}
  BY <1>1, InjectiveSeq
<1>3. SelectInSeq(s, LAMBDA v : v = x) = k
  BY <1>2 DEF SelectInSeq, Min
<1>4. RemoveFirst(s, x) = RemoveAt(s, k)
  BY <1>1, <1>3 DEF RemoveFirst
<1> DEFINE r == RemoveAt(s, k)
           at(n) == IF n < k THEN n ELSE n + 1
<1>5. Len(s) \in Nat /\ Len(r) = Len(s) - 1 /\ \A j \in 1..Len(s)-1 : r[j] = s[at(j)]
  <2>1. /\ r \in Seq(S) /\ Len(r) = Len(s) - 1
        /\ \A j \in 1..Len(s)-1 : r[j] = IF j < k THEN s[j] ELSE s[j+1]
    BY RemoveAtProps
  <2> HIDE DEF r
  <2> QED BY <2>1
<1>6. \A i, j \in 1..Len(s)-1 : i =< j =>
        at(i) \in 1..Len(s) /\ at(j) \in 1..Len(s) /\ at(i) =< at(j)
  BY <1>5
<1> HIDE DEF at, r
<1>7. Shrinks(r, s)
  <2> SUFFICES ASSUME NEW i \in 1..Len(r), NEW j \in 1..Len(r), i =< j
               PROVE  \E a, b \in 1..Len(s) : a =< b /\ r[i] = s[a] /\ r[j] = s[b]
    BY DEF Shrinks
  <2>1. i \in 1..Len(s)-1 /\ j \in 1..Len(s)-1
    BY <1>5
  <2> QED BY <1>5, <1>6, <2>1
<1> QED BY <1>4, <1>7 DEF r

(* So does taking the head off.                                              *)
LEMMA TailShrinks ==
  ASSUME NEW S, NEW s \in Seq(S), Len(s) > 0
  PROVE  Shrinks(Tail(s), s)
<1>1. /\ Len(Tail(s)) = Len(s) - 1 /\ Len(s) \in Nat
      /\ \A i \in 1..Len(s)-1 : Tail(s)[i] = s[i+1]
  BY HeadTailProperties
<1> SUFFICES ASSUME NEW i \in 1..Len(Tail(s)), NEW j \in 1..Len(Tail(s)), i =< j
             PROVE  \E a, b \in 1..Len(s) : a =< b /\ Tail(s)[i] = s[a] /\ Tail(s)[j] = s[b]
  BY DEF Shrinks
<1>2. i + 1 \in 1..Len(s) /\ j + 1 \in 1..Len(s) /\ i + 1 =< j + 1
  BY <1>1
<1>3. Tail(s)[i] = s[i+1] /\ Tail(s)[j] = s[j+1]
  BY <1>1
<1> QED BY <1>2, <1>3
=============================================================================
