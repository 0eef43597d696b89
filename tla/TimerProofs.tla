---------------------------- MODULE TimerProofs -----------------------------
(***************************************************************************)
(* Proofs about WakeupLine and Timer for every set of timers, all intervals *)
(* and any lateness of the timer thread: the lines stay consistent, and the  *)
(* high-speed timers implement Countdown.                                    *)
(***************************************************************************)
EXTENDS Timer, QueueLemmas

-----------------------------------------------------------------------------
(* Induction, by the least number that is not in a set.                      *)
LEMMA UpTo ==
  ASSUME NEW n \in Nat, NEW T, 0 \in T, \A i \in 0 .. n - 1 : i \in T => i + 1 \in T
  PROVE  \A i \in 0 .. n : i \in T
<1>1. SUFFICES ASSUME (0 .. n) \ T # {} PROVE FALSE
  OBVIOUS
<1>2. (0 .. n) \ T \in SUBSET Nat
  OBVIOUS
<1>3. PICK x \in (0 .. n) \ T : \A y \in (0 .. n) \ T : x =< y
  BY <1>1, <1>2, LeastOf
<1>4. x # 0 /\ x \in Nat /\ x =< n
  BY <1>3
<1>5. x - 1 \in 0 .. n - 1 /\ x - 1 \in 0 .. n
  BY <1>4
<1>6. x - 1 \in T
  BY <1>3, <1>4, <1>5
<1>7. x \in T
  BY <1>4, <1>5, <1>6
<1> QED BY <1>3, <1>7

-----------------------------------------------------------------------------
(* The time the first nodes of a line wait.                                  *)

(* f holds the sums of the first i counters.                                 *)
Sums(w, i, f) == f = [j \in 0 .. i |-> IF j = 0 THEN 0 ELSE f[j - 1] + w.ctr[w.nodes[j]]]

(* The recursive definition of WaitOf defines a function.                    *)
LEMMA SumsExist ==
  ASSUME NEW w, NEW n \in Nat
  PROVE  \E f : Sums(w, n, f)
<1> DEFINE T == {i \in 0 .. n : \E f : Sums(w, i, f)}
<1>1. 0 \in T
  <2>1. PICK f : f = [j \in 0 .. 0 |-> 0]
    OBVIOUS
  <2>2. Sums(w, 0, f)
    BY <2>1 DEF Sums
  <2> QED BY <2>2
<1>2. ASSUME NEW i \in 0 .. n - 1, i \in T PROVE i + 1 \in T
  <2>1. PICK f : Sums(w, i, f)
    BY <1>2
  <2>2. PICK g : g = [j \in 0 .. i + 1 |-> IF j = i + 1 THEN f[i] + w.ctr[w.nodes[i + 1]] ELSE f[j]]
    OBVIOUS
  <2>3. \A j \in 0 .. i : g[j] = f[j]
    BY <2>2
  <2>4. ASSUME NEW j \in 0 .. i + 1
        PROVE  g[j] = IF j = 0 THEN 0 ELSE g[j - 1] + w.ctr[w.nodes[j]]
    <3>1. CASE j = i + 1
      <4>1. g[j] = f[i] + w.ctr[w.nodes[j]] /\ j - 1 = i /\ j # 0 /\ i \in 0 .. i
        BY <2>2, <3>1
      <4> QED BY <2>3, <4>1
    <3>2. CASE j # i + 1
      <4>1. j \in 0 .. i /\ (j # 0 => j - 1 \in 0 .. i)
        BY <3>2
      <4>2. f[j] = IF j = 0 THEN 0 ELSE f[j - 1] + w.ctr[w.nodes[j]]
        BY <2>1, <4>1 DEF Sums
      <4> QED BY <2>3, <4>1, <4>2
    <3> QED BY <3>1, <3>2
  <2>5. Sums(w, i + 1, g)
    BY <2>2, <2>4 DEF Sums
  <2> QED BY <2>5
<1>3. n \in T
  <2> HIDE DEF T
  <2> QED BY <1>1, <1>2, UpTo
<1> QED BY <1>3

(* WaitOf is the last of the sums.                                           *)
LEMMA WaitOfIs ==
  ASSUME NEW w, NEW i \in Nat
  PROVE  \E f : Sums(w, i, f) /\ WaitOf(w, i) = f[i]
<1>1. PICK f : f = CHOOSE g : Sums(w, i, g)
  OBVIOUS
<1>2. Sums(w, i, f)
  BY <1>1, SumsExist
<1>3. WaitOf(w, i) = f[i]
  BY <1>1 DEF WaitOf, Sums
<1> QED BY <1>2, <1>3

(* One node more.                                                            *)
LEMMA WaitStep ==
  ASSUME NEW w, NEW i \in Nat
  PROVE  /\ WaitOf(w, 0) = 0
         /\ WaitOf(w, i + 1) = WaitOf(w, i) + w.ctr[w.nodes[i + 1]]
<1>1. PICK f : Sums(w, i, f) /\ WaitOf(w, i) = f[i]
  BY WaitOfIs
<1>2. PICK g : Sums(w, i + 1, g) /\ WaitOf(w, i + 1) = g[i + 1]
  <2>1. i + 1 \in Nat
    OBVIOUS
  <2> QED BY <2>1, WaitOfIs
<1>3. f[i] = g[i]
  <2> DEFINE T == {j \in 0 .. i : f[j] = g[j]}
  <2>1. 0 \in T
    BY <1>1, <1>2 DEF Sums
  <2>2. ASSUME NEW j \in 0 .. i - 1, j \in T PROVE j + 1 \in T
    <3>1. f[j] = g[j] /\ j + 1 \in 0 .. i /\ j + 1 \in 0 .. i + 1 /\ j + 1 # 0 /\ (j + 1) - 1 = j
      BY <2>2
    <3>2. f[j + 1] = f[j] + w.ctr[w.nodes[j + 1]]
      BY <1>1, <3>1 DEF Sums
    <3>3. g[j + 1] = g[j] + w.ctr[w.nodes[j + 1]]
      BY <1>2, <3>1 DEF Sums
    <3> QED BY <3>1, <3>2, <3>3
  <2>3. \A j \in 0 .. i : j \in T
    <3> HIDE DEF T
    <3> QED BY <2>1, <2>2, UpTo
  <2> QED BY <2>3
<1>4. g[i + 1] = g[i] + w.ctr[w.nodes[i + 1]]
  BY <1>2 DEF Sums
<1>5. WaitOf(w, 0) = 0
  <2>1. PICK h : Sums(w, 0, h) /\ WaitOf(w, 0) = h[0]
    BY WaitOfIs
  <2> QED BY <2>1 DEF Sums
<1> QED BY <1>1, <1>2, <1>3, <1>4, <1>5

(* The lines by type.                                                        *)
Line == [nodes : Seq(Nodes), ctr : [Nodes -> Nat], op : Nodes \cup {Null}, elapsed : Nat]

(* The types of the parts of a line.                                         *)
LEMMA LineParts ==
  ASSUME NEW w \in Line
  PROVE  /\ w.nodes \in Seq(Nodes) /\ w.ctr \in [Nodes -> Nat] /\ w.op \in Nodes \cup {Null}
         /\ w.elapsed \in Nat /\ Len(w.nodes) \in Nat
         /\ \A i \in 1 .. Len(w.nodes) : w.nodes[i] \in Nodes /\ w.ctr[w.nodes[i]] \in Nat
<1>1. w.nodes \in Seq(Nodes) /\ w.ctr \in [Nodes -> Nat] /\ w.op \in Nodes \cup {Null}
      /\ w.elapsed \in Nat
  BY DEF Line
<1>2. Len(w.nodes) \in Nat /\ \A i \in 1 .. Len(w.nodes) : w.nodes[i] \in Nodes
  BY <1>1
<1> QED BY <1>1, <1>2

(* Waits are numbers, and later nodes wait no shorter.                       *)
LEMMA WaitNat ==
  ASSUME NEW w \in Line
  PROVE  \A i \in 0 .. Len(w.nodes) : WaitOf(w, i) \in Nat
<1> DEFINE T == {i \in 0 .. Len(w.nodes) : WaitOf(w, i) \in Nat}
<1>1. 0 \in T
  BY WaitStep, LineParts
<1>2. ASSUME NEW i \in 0 .. Len(w.nodes) - 1, i \in T PROVE i + 1 \in T
  <2>1. i \in Nat /\ i + 1 \in 1 .. Len(w.nodes) /\ i + 1 \in 0 .. Len(w.nodes)
    BY LineParts
  <2>2. w.ctr[w.nodes[i + 1]] \in Nat /\ WaitOf(w, i) \in Nat
    BY <1>2, <2>1, LineParts
  <2>3. WaitOf(w, i + 1) = WaitOf(w, i) + w.ctr[w.nodes[i + 1]]
    BY <2>1, WaitStep
  <2>4. WaitOf(w, i + 1) \in Nat
    BY <2>2, <2>3
  <2> QED BY <2>1, <2>4
<1>3. \A i \in 0 .. Len(w.nodes) : i \in T
  <2> HIDE DEF T
  <2> QED BY <1>1, <1>2, UpTo, LineParts
<1> QED BY <1>3

(* The wait of a node by that of the one before it.                          *)
LEMMA WaitBefore ==
  ASSUME NEW w \in Line, NEW i \in 1 .. Len(w.nodes)
  PROVE  /\ WaitOf(w, i) = WaitOf(w, i - 1) + w.ctr[w.nodes[i]]
         /\ WaitOf(w, i) \in Nat /\ WaitOf(w, i - 1) \in Nat /\ w.ctr[w.nodes[i]] \in Nat
<1>1. i - 1 \in Nat /\ (i - 1) + 1 = i /\ i \in 0 .. Len(w.nodes) /\ i - 1 \in 0 .. Len(w.nodes)
  BY LineParts
<1>2. WaitOf(w, (i - 1) + 1) = WaitOf(w, i - 1) + w.ctr[w.nodes[(i - 1) + 1]]
  BY <1>1, WaitStep
<1> QED BY <1>1, <1>2, WaitNat, LineParts

(* The first node waits shortest.                                            *)
LEMMA FirstShortest ==
  ASSUME NEW w \in Line
  PROVE  \A i \in 1 .. Len(w.nodes) : w.ctr[w.nodes[1]] =< WaitOf(w, i)
<1> DEFINE T == {i \in 0 .. Len(w.nodes) : i # 0 => w.ctr[w.nodes[1]] =< WaitOf(w, i)}
<1>0. Len(w.nodes) \in Nat
  BY LineParts
<1>1. 0 \in T
  BY <1>0
<1>2. ASSUME NEW i \in 0 .. Len(w.nodes) - 1, i \in T PROVE i + 1 \in T
  <2>1. i + 1 \in 1 .. Len(w.nodes) /\ i + 1 \in 0 .. Len(w.nodes) /\ (i + 1) - 1 = i
        /\ 1 \in 1 .. Len(w.nodes)
    BY <1>0
  <2>2. /\ WaitOf(w, i + 1) = WaitOf(w, i) + w.ctr[w.nodes[i + 1]]
        /\ WaitOf(w, i + 1) \in Nat /\ WaitOf(w, i) \in Nat /\ w.ctr[w.nodes[i + 1]] \in Nat
    BY <2>1, WaitBefore
  <2>3. w.ctr[w.nodes[1]] \in Nat
    BY <2>1, LineParts
  <2>4. CASE i = 0
    <3>1. WaitOf(w, i) = 0 /\ w.nodes[i + 1] = w.nodes[1]
      BY <2>4, WaitStep
    <3> QED BY <2>1, <2>2, <2>3, <3>1
  <2>5. CASE i # 0
    BY <1>2, <2>1, <2>2, <2>3, <2>5, SMTT(60)
  <2> QED BY <2>4, <2>5
<1>3. \A i \in 0 .. Len(w.nodes) : i \in T
  <2> HIDE DEF T
  <2> QED BY <1>0, <1>1, <1>2, UpTo
<1> QED BY <1>0, <1>3

(* The m nodes of v behind place b count like those of w behind place a.     *)
Alike(v, b, w, a, m) == \A j \in 1 .. m : v.ctr[v.nodes[b + j]] = w.ctr[w.nodes[a + j]]

(* From place b of v and a of w on they wait d apart.                        *)
Apart(v, b, w, a, m, d) == \A j \in 0 .. m : WaitOf(v, b + j) = WaitOf(w, a + j) + d

(* Nodes that count alike wait as far apart as the places before them.       *)
LEMMA WaitsAlike ==
  ASSUME NEW v \in Line, NEW w \in Line, NEW d \in Int, NEW m \in Nat,
         NEW a \in Nat, NEW b \in Nat, a + m =< Len(w.nodes), b + m =< Len(v.nodes),
         WaitOf(v, b) = WaitOf(w, a) + d, Alike(v, b, w, a, m)
  PROVE  Apart(v, b, w, a, m, d)
<1> DEFINE T == {j \in 0 .. m : WaitOf(v, b + j) = WaitOf(w, a + j) + d}
<1>0. Len(w.nodes) \in Nat /\ Len(v.nodes) \in Nat
  BY LineParts
<1>1. 0 \in T
  <2>1. b + 0 = b /\ a + 0 = a
    OBVIOUS
  <2> QED BY <2>1
<1>2. ASSUME NEW j \in 0 .. m - 1, j \in T PROVE j + 1 \in T
  <2>1. WaitOf(v, b + j) = WaitOf(w, a + j) + d
    BY <1>2
  <2>2. PICK x \in 1 .. Len(w.nodes) : x = a + j + 1
    BY <1>0
  <2>3. PICK y \in 1 .. Len(v.nodes) : y = b + j + 1
    BY <1>0
  <2>4. v.ctr[v.nodes[y]] = w.ctr[w.nodes[x]]
    <3>1. j + 1 \in 1 .. m /\ b + (j + 1) = y /\ a + (j + 1) = x
      BY <2>2, <2>3
    <3>2. v.ctr[v.nodes[b + (j + 1)]] = w.ctr[w.nodes[a + (j + 1)]]
      BY <3>1 DEF Alike
    <3> QED BY <3>1, <3>2
  <2>5. /\ WaitOf(w, x) = WaitOf(w, x - 1) + w.ctr[w.nodes[x]]
        /\ WaitOf(w, x) \in Nat /\ WaitOf(w, x - 1) \in Nat /\ w.ctr[w.nodes[x]] \in Nat
    BY WaitBefore
  <2>6. /\ WaitOf(v, y) = WaitOf(v, y - 1) + v.ctr[v.nodes[y]]
        /\ WaitOf(v, y) \in Nat /\ WaitOf(v, y - 1) \in Nat /\ v.ctr[v.nodes[y]] \in Nat
    BY WaitBefore
  <2>7. x - 1 = a + j /\ y - 1 = b + j /\ b + (j + 1) = y /\ a + (j + 1) = x /\ j + 1 \in 0 .. m
    BY <2>2, <2>3
  <2>8. WaitOf(v, y) = WaitOf(w, x) + d
    BY ONLY <2>1, <2>4, <2>5, <2>6, <2>7, d \in Int, SMTT(60)
  <2>9. WaitOf(v, b + (j + 1)) = WaitOf(w, a + (j + 1)) + d
    BY <2>7, <2>8
  <2> QED BY <2>7, <2>9
<1>3. \A j \in 0 .. m : j \in T
  <2> HIDE DEF T
  <2> QED BY <1>1, <1>2, UpTo
<1> QED BY <1>3 DEF Apart

(* Smaller differences, shorter waits.                                       *)
LEMMA WaitsLess ==
  ASSUME NEW v \in Line, NEW w \in Line, v.nodes = w.nodes,
         \A n \in Nodes : v.ctr[n] =< w.ctr[n]
  PROVE  \A i \in 0 .. Len(w.nodes) : WaitOf(v, i) =< WaitOf(w, i)
<1> DEFINE T == {i \in 0 .. Len(w.nodes) : WaitOf(v, i) =< WaitOf(w, i)}
<1>0. Len(w.nodes) \in Nat
  BY LineParts
<1>1. 0 \in T
  BY <1>0, WaitStep
<1>2. ASSUME NEW i \in 0 .. Len(w.nodes) - 1, i \in T PROVE i + 1 \in T
  <2>1. WaitOf(v, i) =< WaitOf(w, i)
    BY <1>2
  <2>2. PICK x \in 1 .. Len(w.nodes) : x = i + 1
    BY <1>0
  <2>3. /\ WaitOf(w, x) = WaitOf(w, x - 1) + w.ctr[w.nodes[x]]
        /\ WaitOf(w, x) \in Nat /\ WaitOf(w, x - 1) \in Nat /\ w.ctr[w.nodes[x]] \in Nat
    BY WaitBefore
  <2>4. /\ WaitOf(v, x) = WaitOf(v, x - 1) + v.ctr[w.nodes[x]]
        /\ WaitOf(v, x) \in Nat /\ WaitOf(v, x - 1) \in Nat /\ v.ctr[w.nodes[x]] \in Nat
    BY WaitBefore
  <2>5. v.ctr[w.nodes[x]] =< w.ctr[w.nodes[x]]
    BY LineParts
  <2>6. x - 1 = i /\ x \in 0 .. Len(w.nodes)
    BY <2>2
  <2>a. WaitOf(v, x - 1) =< WaitOf(w, x - 1)
    BY <2>1, <2>6
  <2>7. WaitOf(v, x) =< WaitOf(w, x)
    BY ONLY <2>a, <2>3, <2>4, <2>5, SMTT(60)
  <2> QED BY <2>2, <2>6, <2>7
<1>3. \A i \in 0 .. Len(w.nodes) : i \in T
  <2> HIDE DEF T
  <2> QED BY <1>0, <1>1, <1>2, UpTo
<1> QED BY <1>3

(* Lines that begin alike wait alike so far.                                 *)
LEMMA WaitsSame ==
  ASSUME NEW v \in Line, NEW w \in Line, NEW m \in Nat, m =< Len(w.nodes), m =< Len(v.nodes),
         \A j \in 1 .. m : v.ctr[v.nodes[j]] = w.ctr[w.nodes[j]]
  PROVE  \A j \in 0 .. m : WaitOf(v, j) = WaitOf(w, j)
<1>0. Len(w.nodes) \in Nat /\ Len(v.nodes) \in Nat
  BY LineParts
<1>1. PICK z \in Nat : z = 0
  OBVIOUS
<1>2. PICK d \in Int : d = 0
  OBVIOUS
<1>3. z + m =< Len(w.nodes) /\ z + m =< Len(v.nodes)
  BY <1>0, <1>1
<1>4. WaitOf(v, z) = WaitOf(w, z) + d
  BY <1>1, <1>2, WaitStep
<1>5. Alike(v, z, w, z, m)
  <2>1. \A j \in 1 .. m : z + j = j
    BY <1>1
  <2> QED BY <2>1 DEF Alike
<1>6. Apart(v, z, w, z, m, d)
  BY <1>3, <1>4, <1>5, WaitsAlike
<1>7. SUFFICES ASSUME NEW j \in 0 .. m PROVE WaitOf(v, j) = WaitOf(w, j)
  OBVIOUS
<1>8. z + j = j /\ j \in 0 .. Len(w.nodes)
  BY <1>0, <1>1
<1>9. WaitOf(w, j) \in Nat
  BY <1>8, WaitNat
<1>a. WaitOf(v, j) = WaitOf(w, j) + d
  BY <1>6, <1>8 DEF Apart
<1> QED BY <1>2, <1>9, <1>a

-----------------------------------------------------------------------------
(* Lines by the names of their nodes.                                        *)

In(w, n) == Contains(w.nodes, n)

(* What node n of a line still waits.                                        *)
Wait(w, n) == WaitOf(w, Position(w, n))

(* A line a scan may be in: every node once, the scan at a node of it.       *)
Good(w) ==
  /\ w \in Line
  /\ IsInjective(w.nodes)
  /\ w.op # Null => In(w, w.op)

(* Membership is having a place.                                             *)
LEMMA InIs ==
  ASSUME NEW w \in Line, NEW n
  PROVE  /\ In(w, n) <=> \E i \in 1 .. Len(w.nodes) : w.nodes[i] = n
         /\ In(w, n) => n \in Nodes /\ n # Null
  BY LineParts, WakeupLineAssumption DEF In, Contains

(* The position of the i-th node is i.                                       *)
LEMMA PositionIs ==
  ASSUME NEW w, Good(w), NEW i \in 1 .. Len(w.nodes)
  PROVE  Position(w, w.nodes[i]) = i /\ Wait(w, w.nodes[i]) = WaitOf(w, i)
<1>1. \A j \in 1 .. Len(w.nodes) : w.nodes[j] = w.nodes[i] => j = i
  BY InjectiveSeq, LineParts DEF Good
<1>2. Position(w, w.nodes[i]) = i
  BY <1>1 DEF Position
<1> QED BY <1>2 DEF Wait

(* A node of the line has a position.                                        *)
LEMMA AtPosition ==
  ASSUME NEW w, Good(w), NEW n, In(w, n)
  PROVE  \E i \in 1 .. Len(w.nodes) :
           w.nodes[i] = n /\ Position(w, n) = i /\ Wait(w, n) = WaitOf(w, i)
<1>1. PICK i \in 1 .. Len(w.nodes) : w.nodes[i] = n
  BY InIs DEF Good
<1> QED BY <1>1, PositionIs

(* A linked node waits at least its own counter, and never a negative time.  *)
LEMMA WaitIsNat ==
  ASSUME NEW w, Good(w), NEW n, In(w, n)
  PROVE  Wait(w, n) \in Nat /\ n \in Nodes /\ w.ctr[n] \in Nat /\ w.ctr[n] =< Wait(w, n)
<1>1. PICK i \in 1 .. Len(w.nodes) :
           w.nodes[i] = n /\ Position(w, n) = i /\ Wait(w, n) = WaitOf(w, i)
  BY AtPosition
<1>2. w \in Line
  BY DEF Good
<1>3. /\ WaitOf(w, i) = WaitOf(w, i - 1) + w.ctr[w.nodes[i]]
      /\ WaitOf(w, i) \in Nat /\ WaitOf(w, i - 1) \in Nat /\ w.ctr[w.nodes[i]] \in Nat
  BY <1>2, WaitBefore
<1> QED BY <1>1, <1>2, <1>3, LineParts

(* The first node: it is in the line, and nobody waits shorter.              *)
LEMMA FirstIs ==
  ASSUME NEW w, Good(w)
  PROVE  /\ Len(w.nodes) = 0 => First(w) = Null /\ \A n : ~In(w, n)
         /\ Len(w.nodes) # 0 => /\ First(w) = w.nodes[1] /\ In(w, First(w)) /\ First(w) # Null
                                /\ Position(w, First(w)) = 1
                                /\ Wait(w, First(w)) = w.ctr[First(w)]
                                /\ \A n : In(w, n) => w.ctr[First(w)] =< Wait(w, n)
         /\ First(w) = Null => \A n : ~In(w, n)
<1>0. w \in Line
  BY DEF Good
<1>1. w.nodes \in Seq(Nodes) /\ Len(w.nodes) \in Nat
  BY <1>0, LineParts
<1>2. CASE Len(w.nodes) = 0
  <2>1. w.nodes = <<>>
    BY <1>1, <1>2, EmptySeq
  <2>2. \A n : ~In(w, n)
    BY <1>0, <1>2, InIs
  <2> QED BY <1>2, <2>1, <2>2 DEF First
<1>3. CASE Len(w.nodes) # 0
  <2>1. w.nodes # <<>> /\ Head(w.nodes) = w.nodes[1] /\ 1 \in 1 .. Len(w.nodes)
    BY <1>1, <1>3
  <2>2. First(w) = w.nodes[1]
    BY <2>1 DEF First
  <2>3. In(w, First(w)) /\ First(w) # Null
    BY <1>0, <2>1, <2>2, InIs
  <2>4. Position(w, First(w)) = 1 /\ Wait(w, First(w)) = WaitOf(w, 1)
    BY <2>1, <2>2, PositionIs
  <2>5. WaitOf(w, 1) = w.ctr[First(w)]
    <3>1. /\ WaitOf(w, 1) = WaitOf(w, 1 - 1) + w.ctr[w.nodes[1]]
          /\ WaitOf(w, 1) \in Nat /\ w.ctr[w.nodes[1]] \in Nat
      BY <1>0, <2>1, WaitBefore
    <3>2. WaitOf(w, 1 - 1) = 0
      BY WaitStep
    <3> QED BY <2>2, <3>1, <3>2
  <2>6. ASSUME NEW n, In(w, n) PROVE w.ctr[First(w)] =< Wait(w, n)
    <3>1. PICK i \in 1 .. Len(w.nodes) :
           w.nodes[i] = n /\ Position(w, n) = i /\ Wait(w, n) = WaitOf(w, i)
      BY <2>6, AtPosition
    <3> QED BY <1>0, <2>2, <3>1, FirstShortest
  <2> QED BY <1>3, <2>2, <2>3, <2>4, <2>5, <2>6
<1> QED BY <1>1, <1>2, <1>3

(* The node after another.                                                   *)
LEMMA NextIs ==
  ASSUME NEW w, Good(w), NEW i \in 1 .. Len(w.nodes)
  PROVE  /\ i < Len(w.nodes) => /\ NextOf(w, w.nodes[i]) = w.nodes[i + 1]
                                /\ w.nodes[i + 1] \in Nodes /\ w.nodes[i + 1] # Null
                                /\ w.nodes[i + 1] # w.nodes[i]
         /\ i = Len(w.nodes) => NextOf(w, w.nodes[i]) = Null
         /\ NextOf(w, w.nodes[i]) \in Nodes \cup {Null}
<1>0. w \in Line /\ Len(w.nodes) \in Nat
  BY LineParts DEF Good
<1>1. Position(w, w.nodes[i]) = i
  BY PositionIs
<1>2. CASE i < Len(w.nodes)
  <2>1. i + 1 \in 1 .. Len(w.nodes)
    BY <1>0, <1>2
  <2>2. w.nodes[i + 1] \in Nodes /\ w.nodes[i + 1] # Null
    BY <1>0, <2>1, LineParts, WakeupLineAssumption
  <2>3. w.nodes[i + 1] # w.nodes[i]
    BY <1>0, <2>1, InjectiveSeq, LineParts DEF Good
  <2>4. NextOf(w, w.nodes[i]) = w.nodes[i + 1]
    BY <1>1, <1>2 DEF NextOf
  <2> QED BY <1>0, <1>2, <2>2, <2>3, <2>4
<1>3. CASE i = Len(w.nodes)
  BY <1>0, <1>1, <1>3 DEF NextOf
<1> QED BY <1>0, <1>2, <1>3

(* Lines with the same nodes and counters wait the same.                     *)
LEMMA SameWaits ==
  ASSUME NEW w, Good(w), NEW v, Good(v), v.nodes = w.nodes,
         \A n \in Nodes : In(w, n) => v.ctr[n] = w.ctr[n]
  PROVE  /\ \A n : In(v, n) <=> In(w, n)
         /\ \A n : In(v, n) => Wait(v, n) = Wait(w, n)
         /\ First(v) = First(w)
<1>0. w \in Line /\ v \in Line /\ Len(w.nodes) \in Nat
  BY LineParts DEF Good
<1>1. ASSUME NEW n, In(w, n) PROVE Wait(v, n) = Wait(w, n)
  <2>1. PICK i \in 1 .. Len(w.nodes) :
           w.nodes[i] = n /\ Position(w, n) = i /\ Wait(w, n) = WaitOf(w, i)
    BY <1>1, AtPosition
  <2>2. Wait(v, n) = WaitOf(v, i)
    BY <2>1, PositionIs
  <2>3. \A j \in 1 .. Len(w.nodes) : v.ctr[v.nodes[j]] = w.ctr[w.nodes[j]]
    <3>1. SUFFICES ASSUME NEW j \in 1 .. Len(w.nodes)
                   PROVE  v.ctr[w.nodes[j]] = w.ctr[w.nodes[j]]
      OBVIOUS
    <3>2. In(w, w.nodes[j]) /\ w.nodes[j] \in Nodes
      BY <1>0, InIs
    <3> QED BY <3>2
  <2>4. PICK m \in Nat : m = Len(w.nodes)
    BY <1>0
  <2>5. \A j \in 0 .. m : WaitOf(v, j) = WaitOf(w, j)
    BY <1>0, <2>3, <2>4, WaitsSame, SMTT(60)
  <2>7. WaitOf(v, i) = WaitOf(w, i)
    BY <2>4, <2>5
  <2> QED BY <2>1, <2>2, <2>7
<1> QED BY <1>1 DEF In, First

(* Lines with the same nodes and smaller counters wait no longer.            *)
LEMMA LessWaits ==
  ASSUME NEW w, Good(w), NEW v, Good(v), v.nodes = w.nodes,
         \A n \in Nodes : v.ctr[n] =< w.ctr[n]
  PROVE  \A n : In(v, n) => In(w, n) /\ Wait(v, n) =< Wait(w, n)
<1>0. w \in Line /\ v \in Line /\ Len(w.nodes) \in Nat
  BY LineParts DEF Good
<1>1. ASSUME NEW n, In(w, n) PROVE Wait(v, n) =< Wait(w, n)
  <2>1. PICK i \in 1 .. Len(w.nodes) :
           w.nodes[i] = n /\ Position(w, n) = i /\ Wait(w, n) = WaitOf(w, i)
    BY <1>1, AtPosition
  <2>2. Wait(v, n) = WaitOf(v, i)
    BY <2>1, PositionIs
  <2>3. i \in 0 .. Len(w.nodes)
    BY <1>0
  <2>4. WaitOf(v, i) =< WaitOf(w, i)
    BY <1>0, <2>3, WaitsLess
  <2> QED BY <2>1, <2>2, <2>4
<1> QED BY <1>1 DEF In

-----------------------------------------------------------------------------
(* The operations on a line.                                                 *)

(* A line with one part changed.                                             *)
LEMMA LineExcept ==
  ASSUME NEW w \in Line
  PROVE  /\ \A s \in Seq(Nodes) :
              LET v == [w EXCEPT !.nodes = s] IN
              /\ v \in Line /\ v.nodes = s /\ v.ctr = w.ctr /\ v.op = w.op /\ v.elapsed = w.elapsed
         /\ \A c \in [Nodes -> Nat] :
              LET v == [w EXCEPT !.ctr = c] IN
              /\ v \in Line /\ v.nodes = w.nodes /\ v.ctr = c /\ v.op = w.op /\ v.elapsed = w.elapsed
         /\ \A o \in Nodes \cup {Null} :
              LET v == [w EXCEPT !.op = o] IN
              /\ v \in Line /\ v.nodes = w.nodes /\ v.ctr = w.ctr /\ v.op = o /\ v.elapsed = w.elapsed
         /\ \A e \in Nat :
              LET v == [w EXCEPT !.elapsed = e] IN
              /\ v \in Line /\ v.nodes = w.nodes /\ v.ctr = w.ctr /\ v.op = w.op /\ v.elapsed = e
<1>1. ASSUME NEW s \in Seq(Nodes), NEW v, v = [w EXCEPT !.nodes = s]
      PROVE  /\ v \in Line /\ v.nodes = s /\ v.ctr = w.ctr /\ v.op = w.op /\ v.elapsed = w.elapsed
  BY <1>1 DEF Line
<1>2. ASSUME NEW c \in [Nodes -> Nat], NEW v, v = [w EXCEPT !.ctr = c]
      PROVE  /\ v \in Line /\ v.nodes = w.nodes /\ v.ctr = c /\ v.op = w.op /\ v.elapsed = w.elapsed
  BY <1>2 DEF Line
<1>3. ASSUME NEW o \in Nodes \cup {Null}, NEW v, v = [w EXCEPT !.op = o]
      PROVE  /\ v \in Line /\ v.nodes = w.nodes /\ v.ctr = w.ctr /\ v.op = o /\ v.elapsed = w.elapsed
  BY <1>3 DEF Line
<1>4. ASSUME NEW e \in Nat, NEW v, v = [w EXCEPT !.elapsed = e]
      PROVE  /\ v \in Line /\ v.nodes = w.nodes /\ v.ctr = w.ctr /\ v.op = w.op /\ v.elapsed = e
  BY <1>4 DEF Line
<1> QED BY <1>1, <1>2, <1>3, <1>4

(* ProcTime takes time off one counter at most.                              *)
LEMMA ProcParts ==
  ASSUME NEW w \in Line, NEW n \in Nodes \cup {Null}, NEW v, v = ProcTime(w, n)
  PROVE  /\ v \in Line /\ v.nodes = w.nodes /\ v.op = w.op
         /\ \A m \in Nodes : v.ctr[m] =< w.ctr[m]
<1> USE LineParts
<1>1. PICK c \in [Nodes -> Nat] :
        /\ c = IF n = Null THEN w.ctr ELSE [w.ctr EXCEPT ![n] = Less(w.ctr[n], w.elapsed)]
        /\ \A m \in Nodes : c[m] =< w.ctr[m]
  <2>1. CASE n = Null
    BY <2>1
  <2>2. CASE n # Null
    <3>1. PICK l \in Nat : l = Less(w.ctr[n], w.elapsed) /\ l =< w.ctr[n]
      BY <2>2 DEF Less
    <3>2. PICK c \in [Nodes -> Nat] : c = [w.ctr EXCEPT ![n] = l]
      OBVIOUS
    <3>3. \A m \in Nodes : c[m] =< w.ctr[m]
      BY <3>1, <3>2
    <3> QED BY <2>2, <3>1, <3>2, <3>3
  <2> QED BY <2>1, <2>2
<1>2. PICK a : a = [w EXCEPT !.elapsed = 0]
  OBVIOUS
<1>a. a \in Line /\ a.nodes = w.nodes /\ a.op = w.op /\ a.ctr = w.ctr
  BY <1>2, LineExcept
<1>3. v = [a EXCEPT !.ctr = c]
  <2>1. v = [w EXCEPT !.elapsed = 0, !.ctr = c]
    BY <1>1 DEF ProcTime
  <2> QED BY <1>2, <2>1
<1>4. v \in Line /\ v.nodes = a.nodes /\ v.op = a.op /\ v.ctr = c
  BY <1>3, <1>a, LineExcept
<1> QED BY <1>1, <1>a, <1>4

(* The counters once n is unlinked: the node to the right takes n's over.    *)
Without(w, n) ==
  IF NextOf(w, n) = Null THEN w.ctr
  ELSE [w.ctr EXCEPT ![NextOf(w, n)] = w.ctr[NextOf(w, n)] + w.ctr[n]]

(* _WakeupDel field by field; taking off the time passed first, when it      *)
(* does, only makes counters smaller.                                        *)
LEMMA DelParts ==
  ASSUME NEW w, Good(w), NEW n, In(w, n), NEW proc \in BOOLEAN, NEW v, v = WakeupDel(w, n, proc)
  PROVE  /\ v \in Line
         /\ v.nodes = RemoveAt(w.nodes, Position(w, n))
         /\ v.op = IF w.op = n THEN NextOf(w, n) ELSE w.op
         /\ Without(w, n) \in [Nodes -> Nat]
         /\ \A m \in Nodes : v.ctr[m] =< Without(w, n)[m]
         /\ ~proc => v.ctr = Without(w, n) /\ v.elapsed = w.elapsed
<1>0. w \in Line
  BY DEF Good
<1>1. PICK i \in 1 .. Len(w.nodes) :
         w.nodes[i] = n /\ Position(w, n) = i /\ Wait(w, n) = WaitOf(w, i)
  BY AtPosition
<1>2. PICK right \in Nodes \cup {Null} : right = NextOf(w, n)
  BY <1>1, NextIs
<1>3. n \in Nodes /\ w.ctr[n] \in Nat
  BY <1>0, <1>1, LineParts
<1>4. PICK c \in [Nodes -> Nat] : c = Without(w, n)
  <2>1. Without(w, n) \in [Nodes -> Nat]
    <3>1. CASE right = Null
      BY <1>0, <1>2, <3>1, LineParts DEF Without
    <3>2. CASE right # Null
      <4>1. w.ctr[right] + w.ctr[n] \in Nat /\ right \in Nodes /\ w.ctr \in [Nodes -> Nat]
        BY <1>0, <1>3, <3>2, LineParts
      <4> QED BY <1>2, <3>2, <4>1 DEF Without
    <3> QED BY <3>1, <3>2
  <2> QED BY <2>1
<1>5. PICK o \in Nodes \cup {Null} : o = IF w.op = n THEN right ELSE w.op
  BY <1>0, LineParts
<1>6. PICK a : a = [w EXCEPT !.op = o]
  OBVIOUS
<1>a. a \in Line /\ a.nodes = w.nodes /\ a.op = o /\ a.ctr = w.ctr /\ a.elapsed = w.elapsed
  BY <1>0, <1>6, LineExcept
<1>b. PICK w1 : w1 = [a EXCEPT !.ctr = c]
  OBVIOUS
<1>7. w1 \in Line /\ w1.nodes = w.nodes /\ w1.op = o /\ w1.ctr = c /\ w1.elapsed = w.elapsed
  BY <1>a, <1>b, LineExcept
<1>8. PICK w2 \in Line : /\ w2 = IF proc /\ First(w) = n THEN ProcTime(w1, right) ELSE w1
                         /\ w2.nodes = w.nodes /\ w2.op = o
                         /\ \A m \in Nodes : w2.ctr[m] =< c[m]
                         /\ ~proc => w2.ctr = c /\ w2.elapsed = w.elapsed
  <2>1. CASE proc /\ First(w) = n
    <3>1. PICK p : p = ProcTime(w1, right)
      OBVIOUS
    <3>2. /\ p \in Line /\ p.nodes = w1.nodes /\ p.op = w1.op
          /\ \A m \in Nodes : p.ctr[m] =< w1.ctr[m]
      BY <1>7, <3>1, ProcParts
    <3> QED BY <1>7, <2>1, <3>1, <3>2
  <2>2. CASE ~(proc /\ First(w) = n)
    <3>1. \A m \in Nodes : c[m] =< c[m]
      OBVIOUS
    <3> QED BY <1>7, <2>2, <3>1
  <2> QED BY <2>1, <2>2
<1>9. RemoveAt(w.nodes, i) \in Seq(Nodes)
  BY <1>0, LineParts, RemoveAtProps
<1>10. w1 = [w EXCEPT !.op  = IF w.op = n THEN right ELSE w.op,
                      !.ctr = IF right = Null THEN w.ctr ELSE [w.ctr EXCEPT ![right] = @ + w.ctr[n]]]
  <2>1. w1 = [w EXCEPT !.op = o, !.ctr = c]
    BY <1>6, <1>b
  <2> QED BY <1>2, <1>4, <1>5, <2>1 DEF Without
<1>11. v = [w2 EXCEPT !.nodes = RemoveAt(w.nodes, i)]
  BY <1>1, <1>2, <1>8, <1>10 DEF WakeupDel
<1>12. /\ v \in Line /\ v.nodes = RemoveAt(w.nodes, i) /\ v.op = o
       /\ v.ctr = w2.ctr /\ v.elapsed = w2.elapsed
  BY <1>8, <1>9, <1>11, LineExcept
<1> QED BY <1>1, <1>2, <1>4, <1>5, <1>8, <1>12

(* The waits after an unlinking, place by place.                             *)
LEMMA DelWaits ==
  ASSUME NEW w, Good(w), NEW k \in 1 .. Len(w.nodes), NEW v \in Line,
         v.nodes = RemoveAt(w.nodes, k), v.ctr = Without(w, w.nodes[k])
  PROVE  /\ Len(v.nodes) = Len(w.nodes) - 1
         /\ \A j \in 0 .. k - 1 : WaitOf(v, j) = WaitOf(w, j)
         /\ \A j \in k .. Len(w.nodes) - 1 : WaitOf(v, j) = WaitOf(w, j + 1)
         /\ \A j \in 1 .. Len(w.nodes) - 1 : v.nodes[j] = IF j < k THEN w.nodes[j] ELSE w.nodes[j + 1]
<1>0. w \in Line /\ Len(w.nodes) \in Nat
  BY LineParts DEF Good
<1>1. /\ Len(v.nodes) = Len(w.nodes) - 1
      /\ \A j \in 1 .. Len(w.nodes) - 1 : v.nodes[j] = IF j < k THEN w.nodes[j] ELSE w.nodes[j + 1]
  BY <1>0, LineParts, RemoveAtProps
<1>2. \A i, j \in 1 .. Len(w.nodes) : w.nodes[i] = w.nodes[j] => i = j
  BY <1>0, LineParts, InjectiveSeq DEF Good
<1>3. \A j \in 1 .. Len(w.nodes) : w.nodes[j] \in Nodes /\ w.ctr[w.nodes[j]] \in Nat
  BY <1>0, LineParts
<1>4. ASSUME NEW j \in 1 .. Len(w.nodes), j # k + 1 PROVE v.ctr[w.nodes[j]] = w.ctr[w.nodes[j]]
  <2>1. CASE k < Len(w.nodes)
    <3>1. k + 1 \in 1 .. Len(w.nodes)
      BY <1>0, <2>1
    <3>2. NextOf(w, w.nodes[k]) = w.nodes[k + 1] /\ w.nodes[k + 1] # w.nodes[j] /\ w.nodes[j] \in Nodes
      BY <1>2, <1>3, <1>4, <2>1, <3>1, NextIs
    <3> QED BY <1>0, <3>2, LineParts DEF Without
  <2>2. CASE k = Len(w.nodes)
    <3>1. NextOf(w, w.nodes[k]) = Null
      BY <2>2, NextIs
    <3> QED BY <3>1 DEF Without
  <2> QED BY <1>0, <2>1, <2>2
<1>5. \A j \in 0 .. k - 1 : WaitOf(v, j) = WaitOf(w, j)
  <2>1. PICK m \in Nat : m = k - 1 /\ m =< Len(w.nodes) /\ m =< Len(v.nodes)
    BY <1>0, <1>1
  <2>2. ASSUME NEW j \in 1 .. m PROVE v.ctr[v.nodes[j]] = w.ctr[w.nodes[j]]
    <3>1. v.nodes[j] = w.nodes[j] /\ j \in 1 .. Len(w.nodes) /\ j # k + 1
      BY <1>0, <1>1, <2>1
    <3> QED BY <1>4, <3>1
  <2>3. \A j \in 0 .. m : WaitOf(v, j) = WaitOf(w, j)
    BY <1>0, <2>1, <2>2, WaitsSame
  <2> QED BY <2>1, <2>3
<1>6. CASE k = Len(w.nodes)
  BY <1>0, <1>1, <1>5, <1>6
<1>7. CASE k < Len(w.nodes)
  <2>1. PICK a \in 1 .. Len(w.nodes) : a = k + 1
    BY <1>0, <1>7
  <2>2. v.ctr[w.nodes[a]] = w.ctr[w.nodes[a]] + w.ctr[w.nodes[k]]
    <3>1. NextOf(w, w.nodes[k]) = w.nodes[a] /\ w.nodes[a] # Null /\ w.nodes[a] \in Nodes
      BY <1>7, <2>1, NextIs
    <3> QED BY <1>0, <3>1, LineParts DEF Without
  <2>3. v.nodes[k] = w.nodes[a] /\ k \in 1 .. Len(v.nodes)
    BY <1>0, <1>1, <1>7, <2>1
  <2>4. /\ WaitOf(v, k) = WaitOf(v, k - 1) + v.ctr[v.nodes[k]]
        /\ WaitOf(v, k) \in Nat /\ WaitOf(v, k - 1) \in Nat /\ v.ctr[v.nodes[k]] \in Nat
    BY <2>3, WaitBefore
  <2>5. /\ WaitOf(w, k) = WaitOf(w, k - 1) + w.ctr[w.nodes[k]]
        /\ WaitOf(w, k) \in Nat /\ WaitOf(w, k - 1) \in Nat /\ w.ctr[w.nodes[k]] \in Nat
    BY <1>0, WaitBefore
  <2>6. /\ WaitOf(w, a) = WaitOf(w, a - 1) + w.ctr[w.nodes[a]]
        /\ WaitOf(w, a) \in Nat /\ WaitOf(w, a - 1) \in Nat /\ w.ctr[w.nodes[a]] \in Nat
    BY <1>0, WaitBefore
  <2>7. WaitOf(w, a - 1) = WaitOf(w, k)
    BY <2>1
  <2>8. WaitOf(v, k - 1) = WaitOf(w, k - 1)
    <3>1. k - 1 \in 0 .. k - 1
      OBVIOUS
    <3> QED BY <1>5, <3>1
  <2>9. PICK d \in Int : d = 0
    OBVIOUS
  <2>10. WaitOf(v, k) = WaitOf(w, a) + d
    <3>1. v.ctr[v.nodes[k]] = w.ctr[w.nodes[a]] + w.ctr[w.nodes[k]]
      BY <2>2, <2>3
    <3>2. WaitOf(v, k) = WaitOf(w, k - 1) + (w.ctr[w.nodes[a]] + w.ctr[w.nodes[k]])
      BY <2>4, <2>8, <3>1
    <3>3. WaitOf(w, a) = (WaitOf(w, k - 1) + w.ctr[w.nodes[k]]) + w.ctr[w.nodes[a]]
      BY <2>5, <2>6, <2>7
    <3>4. WaitOf(v, k) = WaitOf(w, a)
      <4>1. PICK p \in Nat, x \in Nat, y \in Nat :
              p = WaitOf(w, k - 1) /\ x = w.ctr[w.nodes[a]] /\ y = w.ctr[w.nodes[k]]
        BY <2>5, <2>6
      <4>2. p + (x + y) = (p + y) + x
        OBVIOUS
      <4> QED BY <3>2, <3>3, <4>1, <4>2
    <3> QED BY <2>4, <2>9, <3>4
  <2>11. PICK m \in Nat : m = Len(w.nodes) - a
    BY <1>0
  <2>12. Alike(v, k, w, a, m)
    <3>1. SUFFICES ASSUME NEW j \in 1 .. m
                   PROVE  v.ctr[v.nodes[k + j]] = w.ctr[w.nodes[a + j]]
      BY DEF Alike
    <3>2. PICK y \in 1 .. Len(w.nodes) : y = a + j /\ y # k + 1
      BY <1>0, <2>1, <2>11
    <3>3. PICK x \in 1 .. Len(w.nodes) - 1 : x = k + j /\ x + 1 = y /\ ~(x < k)
      BY <1>0, <2>1, <2>11, <3>2
    <3>4. v.nodes[x] = w.nodes[y]
      BY <1>1, <3>3
    <3>5. v.ctr[w.nodes[y]] = w.ctr[w.nodes[y]]
      BY <1>4, <3>2
    <3> QED BY <3>2, <3>3, <3>4, <3>5
  <2>13. Apart(v, k, w, a, m, d)
    <3>1. a + m =< Len(w.nodes) /\ k + m =< Len(v.nodes) /\ a \in Nat /\ k \in Nat
      <4>1. k \in Nat /\ a \in Nat
        OBVIOUS
      <4>2. a + m = Len(w.nodes)
        BY <1>0, <2>11, <4>1
      <4>3. k + m = Len(w.nodes) - 1
        BY <1>0, <2>1, <4>1, <4>2
      <4> QED BY <1>0, <1>1, <4>1, <4>2, <4>3
    <3> QED BY <1>0, <2>10, <2>12, <3>1, WaitsAlike
  <2>14. ASSUME NEW j \in k .. Len(w.nodes) - 1 PROVE WaitOf(v, j) = WaitOf(w, j + 1)
    <3>1. PICK i \in 0 .. m : k + i = j /\ a + i = j + 1
      <4>1. j - k \in 0 .. m /\ k + (j - k) = j /\ a + (j - k) = j + 1
        BY <1>0, <2>1, <2>11, <2>14
      <4> QED BY <4>1
    <3>2. WaitOf(v, k + i) = WaitOf(w, a + i) + d
      BY <2>13 DEF Apart
    <3>3. j + 1 \in 0 .. Len(w.nodes)
      BY <1>0, <2>14
    <3>4. WaitOf(w, j + 1) \in Nat
      BY <1>0, <3>3, WaitNat
    <3>5. WaitOf(v, j) = WaitOf(w, j + 1) + d
      BY <3>1, <3>2
    <3> QED BY <2>9, <3>4, <3>5
  <2> QED BY <1>1, <1>5, <2>14
<1> QED BY <1>0, <1>6, <1>7

(* The scan's cursor after an unlinking, and the nodes of the line.          *)
LEMMA DelGood ==
  ASSUME NEW w, Good(w), NEW n, In(w, n), NEW proc \in BOOLEAN, NEW v, v = WakeupDel(w, n, proc)
  PROVE  /\ Good(v)
         /\ \A m : In(v, m) <=> In(w, m) /\ m # n
         /\ NextOf(w, n) # Null => In(v, NextOf(w, n))
         /\ First(v) = IF First(w) = n THEN NextOf(w, n) ELSE First(w)
<1>0. w \in Line /\ Len(w.nodes) \in Nat /\ w.nodes \in Seq(Nodes)
  BY LineParts DEF Good
<1>1. PICK k \in 1 .. Len(w.nodes) :
         w.nodes[k] = n /\ Position(w, n) = k /\ Wait(w, n) = WaitOf(w, k)
  BY AtPosition
<1>2. /\ v \in Line
      /\ v.nodes = RemoveAt(w.nodes, k)
      /\ v.op = IF w.op = n THEN NextOf(w, n) ELSE w.op
  BY <1>1, DelParts
<1>3. \A i, j \in 1 .. Len(w.nodes) : w.nodes[i] = w.nodes[j] => i = j
  BY <1>0, InjectiveSeq DEF Good
<1>4. /\ v.nodes \in Seq(Nodes) /\ Len(v.nodes) = Len(w.nodes) - 1
      /\ \A j \in 1 .. Len(w.nodes) - 1 : v.nodes[j] = IF j < k THEN w.nodes[j] ELSE w.nodes[j + 1]
  BY <1>0, <1>2, RemoveAtProps, SMTT(60)
<1>5. \A i, j \in 1 .. Len(v.nodes) : v.nodes[i] = v.nodes[j] => i = j
  <2> SUFFICES ASSUME NEW i \in 1 .. Len(v.nodes), NEW j \in 1 .. Len(v.nodes), v.nodes[i] = v.nodes[j]
               PROVE  i = j
    OBVIOUS
  <2>1. PICK x \in 1 .. Len(w.nodes) : x = (IF i < k THEN i ELSE i + 1) /\ v.nodes[i] = w.nodes[x]
    BY <1>0, <1>4, SMTT(60)
  <2>2. PICK y \in 1 .. Len(w.nodes) : y = (IF j < k THEN j ELSE j + 1) /\ v.nodes[j] = w.nodes[y]
    BY <1>0, <1>4, SMTT(60)
  <2>3. x = y
    BY <1>3, <2>1, <2>2
  <2>4. i \in Nat /\ j \in Nat
    BY <1>0, <1>4
  <2> QED BY <2>1, <2>2, <2>3, <2>4
<1>6. IsInjective(v.nodes)
  BY <1>4, <1>5, InjectiveSeq
<1>7. ASSUME NEW m, In(v, m) PROVE In(w, m) /\ m # n
  <2>1. PICK j \in 1 .. Len(v.nodes) : v.nodes[j] = m
    BY <1>2, <1>7, InIs
  <2>2. PICK y \in 1 .. Len(w.nodes) : y # k /\ v.nodes[j] = w.nodes[y]
    <3>1. PICK y \in 1 .. Len(w.nodes) : y = (IF j < k THEN j ELSE j + 1) /\ v.nodes[j] = w.nodes[y]
      BY <1>0, <1>4, SMTT(60)
    <3>2. y # k
      BY <1>4, <3>1
    <3> QED BY <3>1, <3>2
  <2> QED BY <1>0, <1>1, <1>3, <2>1, <2>2, InIs
<1>8. ASSUME NEW m, In(w, m), m # n PROVE In(v, m)
  <2>1. PICK j \in 1 .. Len(w.nodes) : w.nodes[j] = m /\ j # k
    BY <1>0, <1>1, <1>8, InIs
  <2>2. PICK x \in 1 .. Len(v.nodes) : x = (IF j < k THEN j ELSE j - 1)
    BY <1>0, <1>4, <2>1
  <2>3. v.nodes[x] = w.nodes[j]
    <3>1. CASE j < k
      BY <1>4, <2>2, <3>1
    <3>2. CASE ~(j < k)
      <4>1. x + 1 = j /\ ~(x < k) /\ x \in 1 .. Len(w.nodes) - 1
        BY <1>0, <1>4, <2>1, <2>2, <3>2
      <4> QED BY <1>4, <4>1
    <3> QED BY <3>1, <3>2
  <2> QED BY <1>2, <2>1, <2>3, InIs
<1>9. NextOf(w, n) # Null => In(v, NextOf(w, n))
  <2>1. SUFFICES ASSUME NextOf(w, n) # Null PROVE In(v, NextOf(w, n))
    OBVIOUS
  <2>2. k < Len(w.nodes)
    BY <1>0, <1>1, <2>1, NextIs
  <2>3. NextOf(w, n) = w.nodes[k + 1] /\ NextOf(w, n) # n /\ k + 1 \in 1 .. Len(w.nodes)
    BY <1>0, <1>1, <2>2, NextIs
  <2>4. In(w, NextOf(w, n))
    BY <1>0, <2>3, InIs
  <2> QED BY <1>8, <2>3, <2>4
<1>10. v.op # Null => In(v, v.op)
  <2>1. CASE w.op = n
    BY <1>2, <1>9, <2>1
  <2>2. CASE w.op # n
    BY <1>2, <1>8, <2>2 DEF Good
  <2> QED BY <2>1, <2>2
<1>11. Good(v)
  BY <1>2, <1>6, <1>10 DEF Good
<1>12. First(w) = w.nodes[1]
  BY <1>0, FirstIs
<1>13. First(v) = IF First(w) = n THEN NextOf(w, n) ELSE First(w)
  <2>1. CASE k = 1
    <3>1. First(w) = n
      BY <1>1, <1>12, <2>1
    <3>2. CASE Len(w.nodes) = 1
      <4>1. NextOf(w, n) = Null /\ Len(v.nodes) = 0
        BY <1>1, <1>4, <2>1, <3>2, NextIs
      <4> QED BY <1>11, <3>1, <4>1, FirstIs
    <3>3. CASE Len(w.nodes) # 1
      <4>1. 1 < Len(w.nodes) /\ 1 \in 1 .. Len(w.nodes) - 1 /\ 1 + 1 = 2 /\ Len(v.nodes) # 0
        <5>1. Len(v.nodes) = Len(w.nodes) - 1
          BY <1>4
        <5>2. PICK l \in Nat : l = Len(w.nodes)
          BY <1>0
        <5>3. l # 1 /\ l # 0
          BY <3>3, <5>2
        <5>4. 1 < l /\ 1 \in 1 .. l - 1 /\ l - 1 # 0
          BY <5>3
        <5> QED BY <5>1, <5>2, <5>4
      <4>2. NextOf(w, n) = w.nodes[2]
        BY <1>1, <2>1, <4>1, NextIs
      <4>3. v.nodes[1] = w.nodes[2]
        BY <1>4, <2>1, <4>1
      <4> QED BY <1>11, <3>1, <4>1, <4>2, <4>3, FirstIs
    <3> QED BY <3>2, <3>3
  <2>2. CASE k # 1
    <3>1. 1 < k /\ 1 \in 1 .. Len(w.nodes) - 1 /\ Len(v.nodes) # 0 /\ 1 \in 1 .. Len(w.nodes)
      BY <1>0, <1>4, <2>2
    <3>2. v.nodes[1] = w.nodes[1] /\ w.nodes[1] # n
      BY <1>1, <1>3, <1>4, <2>2, <3>1
    <3> QED BY <1>11, <1>12, <3>1, <3>2, FirstIs
  <2> QED BY <2>1, <2>2
<1> QED BY <1>7, <1>8, <1>9, <1>11, <1>13

(* An unlinking changes nobody else's wait.                                  *)
LEMMA DelLine ==
  ASSUME NEW w, Good(w), NEW n, In(w, n), NEW proc \in BOOLEAN, ~proc,
         NEW v, v = WakeupDel(w, n, proc)
  PROVE  /\ \A m : In(v, m) => Wait(v, m) = Wait(w, m)
         /\ \A m : In(v, m) => w.ctr[m] =< v.ctr[m]
         /\ NextOf(w, n) # Null => v.ctr[NextOf(w, n)] = w.ctr[NextOf(w, n)] + w.ctr[n]
         /\ v.op = IF w.op = n THEN NextOf(w, n) ELSE w.op
         /\ v.elapsed = w.elapsed
<1>0. w \in Line /\ Len(w.nodes) \in Nat
  BY LineParts DEF Good
<1>1. PICK k \in 1 .. Len(w.nodes) :
         w.nodes[k] = n /\ Position(w, n) = k /\ Wait(w, n) = WaitOf(w, k)
  BY AtPosition
<1>2. /\ v \in Line
      /\ v.nodes = RemoveAt(w.nodes, k)
      /\ v.ctr = Without(w, n)
      /\ v.op = IF w.op = n THEN NextOf(w, n) ELSE w.op
      /\ v.elapsed = w.elapsed
  BY <1>1, DelParts
<1>3. Good(v) /\ (\A m : In(v, m) <=> In(w, m) /\ m # n)
  BY DelGood
<1>4. /\ Len(v.nodes) = Len(w.nodes) - 1
      /\ \A j \in 0 .. k - 1 : WaitOf(v, j) = WaitOf(w, j)
      /\ \A j \in k .. Len(w.nodes) - 1 : WaitOf(v, j) = WaitOf(w, j + 1)
      /\ \A j \in 1 .. Len(w.nodes) - 1 : v.nodes[j] = IF j < k THEN w.nodes[j] ELSE w.nodes[j + 1]
  BY <1>1, <1>2, DelWaits
<1>5. ASSUME NEW m, In(v, m) PROVE Wait(v, m) = Wait(w, m)
  <2>1. PICK j \in 1 .. Len(v.nodes) : v.nodes[j] = m /\ Wait(v, m) = WaitOf(v, j)
    BY <1>3, <1>5, AtPosition
  <2>4. /\ j \in 1 .. Len(w.nodes) - 1 /\ j + 1 \in 1 .. Len(w.nodes)
        /\ j < k => j \in 1 .. Len(w.nodes) /\ j \in 0 .. k - 1
        /\ ~(j < k) => j \in k .. Len(w.nodes) - 1
    <3>1. Len(v.nodes) = Len(w.nodes) - 1
      BY <1>4
    <3>2. Len(w.nodes) \in Nat
      BY <1>0
    <3>3. j \in 1 .. Len(w.nodes) - 1
      BY <3>1
    <3> QED BY ONLY <3>2, <3>3, k \in 1 .. Len(w.nodes)
  <2>2. CASE j < k
    <3>1. v.nodes[j] = w.nodes[j] /\ j \in 1 .. Len(w.nodes) /\ j \in 0 .. k - 1
      BY <1>4, <2>2, <2>4
    <3>2. Wait(w, w.nodes[j]) = WaitOf(w, j)
      BY <3>1, PositionIs
    <3> QED BY <1>4, <2>1, <3>1, <3>2
  <2>3. CASE ~(j < k)
    <3>1. v.nodes[j] = w.nodes[j + 1] /\ j + 1 \in 1 .. Len(w.nodes) /\ j \in k .. Len(w.nodes) - 1
      BY <1>4, <2>3, <2>4
    <3>2. PICK y \in 1 .. Len(w.nodes) : y = j + 1
      BY <3>1
    <3>3. Wait(w, w.nodes[y]) = WaitOf(w, y)
      BY PositionIs
    <3>4. WaitOf(v, j) = WaitOf(w, y)
      BY <1>4, <3>1, <3>2
    <3> QED BY <2>1, <3>1, <3>2, <3>3, <3>4
  <2> QED BY <2>2, <2>3
<1>6. PICK right \in Nodes \cup {Null} : right = NextOf(w, n)
  BY <1>1, NextIs
<1>7. right # Null => v.ctr[right] = w.ctr[right] + w.ctr[n] /\ w.ctr[right] \in Nat
  BY <1>0, <1>2, <1>6, LineParts DEF Without
<1>8. ASSUME NEW m, In(v, m) PROVE w.ctr[m] =< v.ctr[m]
  <2>1. m \in Nodes /\ w.ctr[m] \in Nat /\ w.ctr[n] \in Nat
    BY <1>0, <1>3, <1>8, WaitIsNat
  <2>2. CASE m = right
    <3>1. m # Null
      BY <2>1, WakeupLineAssumption
    <3>2. v.ctr[m] = w.ctr[m] + w.ctr[n]
      BY <1>7, <2>2, <3>1
    <3> QED BY ONLY <2>1, <3>2
  <2>3. CASE m # right
    <3>1. v.ctr[m] = w.ctr[m]
      BY <1>0, <1>2, <1>6, <2>1, <2>3, LineParts DEF Without
    <3> QED BY ONLY <2>1, <3>1
  <2> QED BY <2>2, <2>3
<1> QED BY <1>2, <1>5, <1>6, <1>7, <1>8

(* With the time since the last scan taken off, waits only get shorter.      *)
LEMMA DelLess ==
  ASSUME NEW w, Good(w), NEW n, In(w, n), NEW proc \in BOOLEAN, NEW v, v = WakeupDel(w, n, proc)
  PROVE  \A m : In(v, m) => Wait(v, m) =< Wait(w, m)
<1>0. PICK no \in BOOLEAN : ~no
  OBVIOUS
<1>1. PICK u : u = WakeupDel(w, n, no)
  OBVIOUS
<1>2. Good(u) /\ Good(v) /\ (\A m : In(v, m) <=> In(u, m))
  BY <1>1, DelGood
<1>3. v.nodes = u.nodes /\ \A m \in Nodes : v.ctr[m] =< u.ctr[m]
  <2>1. u.nodes = RemoveAt(w.nodes, Position(w, n)) /\ u.ctr = Without(w, n)
    BY <1>0, <1>1, DelParts
  <2>2. v.nodes = RemoveAt(w.nodes, Position(w, n)) /\ \A m \in Nodes : v.ctr[m] =< Without(w, n)[m]
    BY DelParts
  <2> QED BY <2>1, <2>2
<1>4. \A m : In(v, m) => Wait(v, m) =< Wait(u, m)
  BY <1>2, <1>3, LessWaits
<1>5. \A m : In(u, m) => Wait(u, m) = Wait(w, m)
  BY <1>0, <1>1, DelLine
<1> QED BY <1>2, <1>4, <1>5

(* There is a place for every wait.                                          *)
LEMMA PlaceIs ==
  ASSUME NEW w \in Line, NEW c \in Nat
  PROVE  \E i \in 1 .. Len(w.nodes) + 1 :
           /\ i = Place(w, c) /\ WaitOf(w, i - 1) =< c
           /\ i =< Len(w.nodes) => c < WaitOf(w, i)
<1>1. PICK l \in Nat : l = Len(w.nodes)
  BY LineParts
<1>2. PICK T \in SUBSET (1 .. l) : \A j \in 1 .. l : j \in T <=> c < WaitOf(w, j)
  <2>1. {j \in 1 .. l : c < WaitOf(w, j)} \in SUBSET (1 .. l)
    OBVIOUS
  <2> QED BY <2>1
<1>3. PICK i \in 1 .. l + 1 : (\A j \in 1 .. i - 1 : j \notin T) /\ (i =< l => i \in T)
  BY FirstPlace
<1>4. WaitOf(w, i - 1) =< c
  <2>1. CASE i = 1
    <3>1. i - 1 = 0
      BY <2>1
    <3>2. WaitOf(w, i - 1) = 0
      BY <3>1, WaitStep
    <3> QED BY <3>2
  <2>2. CASE i # 1
    <3>1. PICK j \in 1 .. l : j = i - 1 /\ j \in 1 .. i - 1 /\ j \in 0 .. Len(w.nodes)
      BY <1>1, <2>2
    <3>2. ~(c < WaitOf(w, j)) /\ WaitOf(w, j) \in Nat
      BY <1>2, <1>3, <3>1, WaitNat
    <3>3. WaitOf(w, j) =< c
      BY <3>2
    <3> QED BY <3>1, <3>3
  <2> QED BY <2>1, <2>2
<1>5. i =< l => c < WaitOf(w, i)
  <2>1. i =< l => i \in 1 .. l
    OBVIOUS
  <2> QED BY <1>2, <1>3, <2>1
<1>6. \E x \in 1 .. Len(w.nodes) + 1 :
        WaitOf(w, x - 1) =< c /\ (x =< Len(w.nodes) => c < WaitOf(w, x))
  BY <1>1, <1>4, <1>5
<1>7. PICK p : p = CHOOSE x \in 1 .. Len(w.nodes) + 1 :
                     WaitOf(w, x - 1) =< c /\ (x =< Len(w.nodes) => c < WaitOf(w, x))
  OBVIOUS
<1>8. p \in 1 .. Len(w.nodes) + 1 /\ WaitOf(w, p - 1) =< c /\ (p =< Len(w.nodes) => c < WaitOf(w, p))
  BY <1>6, <1>7
<1>9. p = Place(w, c)
  BY <1>7 DEF Place
<1> QED BY <1>8, <1>9

(* The parts of the line n is linked into at place i.                        *)
LinkedAt(w, n, c, v, i) ==
  /\ WaitOf(w, i - 1) =< c /\ WaitOf(w, i - 1) \in Nat
  /\ v \in Line /\ v.nodes = InsertAt(w.nodes, i, n)
  /\ v.op = w.op /\ v.elapsed = w.elapsed
  /\ v.ctr[n] = c - WaitOf(w, i - 1)
  /\ i =< Len(w.nodes) => /\ c < WaitOf(w, i) /\ WaitOf(w, i) \in Nat
                          /\ v.ctr[w.nodes[i]] = WaitOf(w, i) - c
  /\ \A m \in Nodes : (m # n /\ (i =< Len(w.nodes) => m # w.nodes[i])) => v.ctr[m] = w.ctr[m]

(* The scan for a place in _WakeupAdd ends at one, with nobody before it     *)
(* that waits longer and nobody behind it that is to fire sooner.            *)
LEMMA LinkParts ==
  ASSUME NEW w, Good(w), NEW n \in Nodes, ~In(w, n), NEW c \in Nat, NEW v, v = Link(w, n, c)
  PROVE  \E i \in 1 .. Len(w.nodes) + 1 : LinkedAt(w, n, c, v, i)
<1>0. w \in Line /\ Len(w.nodes) \in Nat /\ w.nodes \in Seq(Nodes) /\ w.ctr \in [Nodes -> Nat]
  BY LineParts DEF Good
<1>1. PICK l \in Nat : l = Len(w.nodes)
  BY <1>0
<1>2. PICK i \in 1 .. Len(w.nodes) + 1 :
           /\ i = Place(w, c) /\ WaitOf(w, i - 1) =< c
           /\ i =< Len(w.nodes) => c < WaitOf(w, i)
  BY <1>0, PlaceIs
<1>3. i \in 1 .. l + 1 /\ i - 1 \in 0 .. l /\ i \in Int
  BY <1>1, <1>2
<1>4. WaitOf(w, i - 1) \in Nat
  BY <1>0, <1>1, <1>3, WaitNat
<1>5. PICK own \in Nat : own = c - WaitOf(w, i - 1)
  BY <1>2, <1>4
<1>6. PICK ctrs \in [Nodes -> Nat] : ctrs = [w.ctr EXCEPT ![n] = own]
  BY <1>0
<1>7. PICK s \in Seq(Nodes) : s = InsertAt(w.nodes, i, n)
  BY <1>0, <1>2, InsertAtProps
<1>8. ASSUME NEW f \in [Nodes -> Nat], v = [w EXCEPT !.nodes = s, !.ctr = f]
      PROVE  v \in Line /\ v.nodes = s /\ v.ctr = f /\ v.op = w.op /\ v.elapsed = w.elapsed
  <2>1. PICK a : a = [w EXCEPT !.nodes = s]
    OBVIOUS
  <2>2. a \in Line /\ a.nodes = s /\ a.op = w.op /\ a.elapsed = w.elapsed
    BY <1>0, <2>1, LineExcept
  <2>3. v = [a EXCEPT !.ctr = f]
    BY <1>8, <2>1
  <2> QED BY <2>2, <2>3, LineExcept
<1>9. CASE i > Len(w.nodes)
  <2>1. v = [w EXCEPT !.nodes = s, !.ctr = ctrs]
    BY <1>2, <1>5, <1>6, <1>7, <1>9 DEF Link
  <2>2. v \in Line /\ v.nodes = s /\ v.ctr = ctrs /\ v.op = w.op /\ v.elapsed = w.elapsed
    BY <1>8, <2>1
  <2>3. ~(i =< Len(w.nodes))
    BY <1>1, <1>3, <1>9
  <2> QED BY <1>0, <1>2, <1>4, <1>5, <1>6, <1>7, <2>2, <2>3, SMTT(60) DEF LinkedAt
<1>10. CASE ~(i > Len(w.nodes))
  <2>0. i \in 1 .. Len(w.nodes) /\ i =< Len(w.nodes)
    BY <1>1, <1>3, <1>10
  <2>1. PICK r \in Nodes : r = w.nodes[i] /\ r # n /\ w.ctr[r] \in Nat
    BY <1>0, <2>0, LineParts, InIs, SMTT(60)
  <2>2. /\ WaitOf(w, i) = WaitOf(w, i - 1) + w.ctr[r]
        /\ WaitOf(w, i) \in Nat
    BY <1>0, <2>0, <2>1, WaitBefore
  <2>3. PICK x \in Nat, y \in Nat, z \in Nat : x = WaitOf(w, i - 1) /\ y = WaitOf(w, i) /\ z = w.ctr[r]
    BY <1>4, <2>1, <2>2
  <2>4. y = x + z /\ own = c - x /\ c < y
    BY <1>2, <1>5, <2>0, <2>2, <2>3
  <2>5. z - own = y - c /\ z - own \in Nat
    BY <2>4
  <2>6. PICK f \in [Nodes -> Nat] : f = [ctrs EXCEPT ![r] = z - own]
    BY <2>5
  <2>7. ctrs[r] = z
    BY <1>0, <1>6, <2>1, <2>3
  <2>8. v = [w EXCEPT !.nodes = s, !.ctr = f]
    BY <1>2, <1>5, <1>6, <1>7, <1>10, <2>1, <2>6, <2>7 DEF Link
  <2>9. v \in Line /\ v.nodes = s /\ v.ctr = f /\ v.op = w.op /\ v.elapsed = w.elapsed
    BY <1>8, <2>8
  <2>10. v.ctr[n] = own /\ v.ctr[r] = y - c
    BY <1>0, <1>6, <2>1, <2>5, <2>6, <2>9
  <2>11. \A m \in Nodes : m # n /\ m # r => v.ctr[m] = w.ctr[m]
    BY <1>0, <1>6, <2>6, <2>9
  <2> QED BY <1>2, <1>4, <1>5, <1>7, <2>0, <2>1, <2>2, <2>3, <2>9, <2>10, <2>11 DEF LinkedAt
<1> QED BY <1>9, <1>10

(* r is s with n put in before place i.                                      *)
Inserted(s, n, l, i, r) ==
  /\ r \in Seq(Nodes) /\ Len(r) = l + 1
  /\ \A j \in 1 .. l + 1 : r[j] = IF j < i THEN s[j] ELSE IF j = i THEN n ELSE s[j - 1]

(* InsertAt of the library, at a place that exists.                          *)
LEMMA InsertIs ==
  ASSUME NEW s \in Seq(Nodes), NEW n \in Nodes, NEW l \in Nat, l = Len(s),
         NEW i \in 1 .. l + 1, NEW r, r = InsertAt(s, i, n)
  PROVE  Inserted(s, n, l, i, r)
  BY InsertAtProps, SMTT(60) DEF Inserted

(* v is w with n linked into it to wait c: nobody else waits differently.    *)
Linked(w, n, c, v) ==
  /\ Good(v)
  /\ v.op = w.op /\ v.elapsed = w.elapsed
  /\ \A m : In(v, m) <=> In(w, m) \/ m = n
  /\ Wait(v, n) = c
  /\ \A m : In(w, m) => Wait(v, m) = Wait(w, m)
  /\ \A m : In(w, m) => v.ctr[m] = w.ctr[m] \/ v.ctr[m] > 0
  /\ First(v) = First(w) \/ (First(v) = n /\ (First(w) # Null => v.ctr[First(w)] > 0))

(* _WakeupAdd links a timer so that it waits what it was set to.             *)
LEMMA LinkLine ==
  ASSUME NEW w, Good(w), NEW n \in Nodes, ~In(w, n), NEW c \in Nat, NEW v, v = Link(w, n, c)
  PROVE  Linked(w, n, c, v)
<1>0. w \in Line /\ Len(w.nodes) \in Nat /\ w.nodes \in Seq(Nodes) /\ w.ctr \in [Nodes -> Nat]
  BY LineParts DEF Good
<1>a. PICK i \in 1 .. Len(w.nodes) + 1 : LinkedAt(w, n, c, v, i)
  BY LinkParts
<1>1. /\ WaitOf(w, i - 1) =< c /\ WaitOf(w, i - 1) \in Nat
      /\ v \in Line /\ v.nodes = InsertAt(w.nodes, i, n)
      /\ v.op = w.op /\ v.elapsed = w.elapsed
      /\ v.ctr[n] = c - WaitOf(w, i - 1)
      /\ i =< Len(w.nodes) => /\ c < WaitOf(w, i) /\ WaitOf(w, i) \in Nat
                              /\ v.ctr[w.nodes[i]] = WaitOf(w, i) - c
      /\ \A m \in Nodes : (m # n /\ (i =< Len(w.nodes) => m # w.nodes[i])) => v.ctr[m] = w.ctr[m]
  BY <1>a DEF LinkedAt
<1>2. PICK l \in Nat : l = Len(w.nodes)
  BY <1>0
<1>3. i \in 1 .. l + 1 /\ i \in Nat
  BY <1>2
<1>4. /\ v.nodes \in Seq(Nodes) /\ Len(v.nodes) = l + 1
      /\ \A j \in 1 .. l + 1 : v.nodes[j] = IF j < i THEN w.nodes[j] ELSE IF j = i THEN n ELSE w.nodes[j - 1]
  <2>1. w.nodes \in Seq(Nodes) /\ l = Len(w.nodes) /\ v.nodes = InsertAt(w.nodes, i, n)
    BY <1>0, <1>1, <1>2
  <2>2. Inserted(w.nodes, n, l, i, v.nodes)
    BY <2>1, <1>3, InsertIs
  <2> QED BY <2>2 DEF Inserted
<1>5. IsInjective(v.nodes) /\ \A m : In(v, m) <=> In(w, m) \/ m = n
  BY <1>0, <1>1, InsertKeeps DEF Good, In
<1>6. Good(v)
  BY <1>1, <1>5 DEF Good
<1>7. \A x, y \in 1 .. Len(w.nodes) : w.nodes[x] = w.nodes[y] => x = y
  BY <1>0, InjectiveSeq DEF Good
<1>8. \A j \in 1 .. l : w.nodes[j] \in Nodes /\ w.nodes[j] # n
  BY <1>0, <1>2, LineParts, InIs
<1>9. ASSUME NEW j \in 1 .. l, j # i PROVE v.ctr[w.nodes[j]] = w.ctr[w.nodes[j]]
  <2>1. i =< l => i \in 1 .. l
    BY <1>3
  <2>2. i =< Len(w.nodes) => w.nodes[j] # w.nodes[i]
    BY <1>2, <1>7, <1>9, <2>1
  <2> QED BY <1>1, <1>8, <2>2
<1>10. \A j \in 0 .. i - 1 : WaitOf(v, j) = WaitOf(w, j)
  <2>1. PICK m \in Nat : m = i - 1
    BY <1>3
  <2>2. m =< l /\ m =< l + 1
    BY <1>3, <2>1
  <2>3. ASSUME NEW j \in 1 .. m PROVE v.ctr[v.nodes[j]] = w.ctr[w.nodes[j]]
    <3>1. j \in 1 .. l + 1 /\ j < i /\ j \in 1 .. l /\ j # i
      BY <1>3, <2>1, <2>2
    <3>2. v.nodes[j] = w.nodes[j]
      BY <1>4, <3>1
    <3> QED BY <1>9, <3>1, <3>2
  <2>4. \A j \in 0 .. m : WaitOf(v, j) = WaitOf(w, j)
    BY <1>0, <1>1, <1>2, <1>4, <2>2, <2>3, WaitsSame, ZenonT(60)
  <2> QED BY <2>1, <2>4
<1>11. WaitOf(v, i) = c
  <2>1. i \in 1 .. Len(v.nodes) /\ v.nodes[i] = n
    BY <1>3, <1>4
  <2>2. WaitOf(v, i) = WaitOf(v, i - 1) + v.ctr[n]
    BY <1>1, <2>1, WaitBefore
  <2>3. WaitOf(v, i - 1) = WaitOf(w, i - 1)
    <3>1. i - 1 \in 0 .. i - 1
      BY <1>3
    <3> QED BY <1>10, <3>1
  <2>4. PICK x \in Nat : x = WaitOf(w, i - 1)
    BY <1>1
  <2>5. x + (c - x) = c
    OBVIOUS
  <2> QED BY <1>1, <2>2, <2>3, <2>4, <2>5
<1>12. ASSUME i =< l PROVE \A j \in i .. l : WaitOf(v, j + 1) = WaitOf(w, j)
  <2>1. PICK b \in 1 .. l + 1 : b = i + 1
    BY <1>3, <1>12
  <2>2. i \in 1 .. l /\ b \in 1 .. Len(v.nodes) /\ b - 1 = i /\ b \in Nat
    BY <1>3, <1>4, <1>12, <2>1
  <2>3. v.nodes[b] = w.nodes[i]
    BY <1>3, <1>4, <2>1, <2>2
  <2>4. /\ c < WaitOf(w, i) /\ WaitOf(w, i) \in Nat
        /\ v.ctr[w.nodes[i]] = WaitOf(w, i) - c
    BY <1>1, <1>2, <1>12
  <2>5. WaitOf(v, b) = WaitOf(v, b - 1) + v.ctr[v.nodes[b]]
    BY <1>1, <2>2, WaitBefore
  <2>6. PICK d \in Int : d = 0
    OBVIOUS
  <2>7. WaitOf(v, b) = WaitOf(w, i) + d
    <3>1. PICK x \in Nat : x = WaitOf(w, i)
      BY <2>4
    <3>2. c + (x - c) = x + d
      BY <2>6
    <3>3. WaitOf(v, b) = c + (x - c)
      BY <1>11, <2>2, <2>3, <2>4, <2>5, <3>1
    <3> QED BY <3>1, <3>2, <3>3
  <2>8. PICK m \in Nat : m = l - i
    BY <1>3, <1>12
  <2>9. Alike(v, b, w, i, m)
    <3>1. SUFFICES ASSUME NEW j \in 1 .. m
                   PROVE  v.ctr[v.nodes[b + j]] = w.ctr[w.nodes[i + j]]
      BY DEF Alike
    <3>2. PICK y \in 1 .. l : y = i + j /\ y # i
      BY <1>3, <2>8
    <3>3. PICK x \in 1 .. l + 1 : x = b + j /\ x - 1 = y /\ ~(x < i) /\ x # i
      BY <1>3, <2>1, <3>2
    <3>4. v.nodes[x] = w.nodes[y]
      BY <1>4, <3>3
    <3>5. v.ctr[w.nodes[y]] = w.ctr[w.nodes[y]]
      BY <1>9, <3>2
    <3> QED BY <3>2, <3>3, <3>4, <3>5
  <2>10. Apart(v, b, w, i, m, d)
    <3>1. i + m = l /\ b + m = l + 1
      BY <1>3, <2>1, <2>8
    <3>2. i + m =< Len(w.nodes) /\ b + m =< Len(v.nodes)
      BY <1>2, <1>4, <3>1
    <3> QED BY <1>0, <1>1, <1>3, <2>2, <2>7, <2>9, <3>2, WaitsAlike
  <2>11. SUFFICES ASSUME NEW j \in i .. l PROVE WaitOf(v, j + 1) = WaitOf(w, j)
    OBVIOUS
  <2>12. PICK x \in 0 .. m : b + x = j + 1 /\ i + x = j
    <3>1. j - i \in 0 .. m /\ b + (j - i) = j + 1 /\ i + (j - i) = j
      BY <1>3, <2>1, <2>8
    <3> QED BY <3>1
  <2>13. WaitOf(v, b + x) = WaitOf(w, i + x) + d
    BY <2>10 DEF Apart
  <2>14. WaitOf(v, j + 1) = WaitOf(w, j) + d
    BY <2>12, <2>13
  <2>15. WaitOf(w, j) \in Nat
    <3>1. j \in 0 .. l
      BY <1>3
    <3> QED BY <1>0, <1>2, <3>1, WaitNat
  <2> QED BY <2>6, <2>14, <2>15
<1>13. ASSUME NEW m, In(w, m) PROVE Wait(v, m) = Wait(w, m)
  <2>1. PICK j \in 1 .. l : w.nodes[j] = m /\ Wait(w, m) = WaitOf(w, j)
    BY <1>2, <1>13, AtPosition
  <2>2. CASE j < i
    <3>1. j \in 1 .. l + 1 /\ j \in 0 .. i - 1
      BY <1>3, <2>2
    <3>2. v.nodes[j] = m
      BY <1>4, <2>1, <2>2, <3>1
    <3>3. Wait(v, m) = WaitOf(v, j)
      BY <1>4, <1>6, <3>1, <3>2, PositionIs
    <3> QED BY <1>10, <2>1, <3>1, <3>3
  <2>3. CASE ~(j < i)
    <3>1. PICK y \in 1 .. l + 1 : y = j + 1 /\ y - 1 = j /\ ~(y < i) /\ y # i
      BY <1>3, <2>3
    <3>2. v.nodes[y] = m
      BY <1>4, <2>1, <3>1
    <3>3. Wait(v, m) = WaitOf(v, y)
      BY <1>4, <1>6, <3>2, PositionIs
    <3>4. i =< l /\ j \in i .. l
      BY <1>3, <2>3
    <3>5. WaitOf(v, j + 1) = WaitOf(w, j)
      BY <1>12, <3>4
    <3> QED BY <2>1, <3>1, <3>3, <3>5
  <2> QED BY <2>2, <2>3
<1>14. Wait(v, n) = c
  <2>1. i \in 1 .. Len(v.nodes) /\ v.nodes[i] = n
    BY <1>3, <1>4
  <2> QED BY <1>6, <1>11, <2>1, PositionIs
<1>15. i =< l => v.ctr[w.nodes[i]] > 0
  <2>1. SUFFICES ASSUME i =< l PROVE v.ctr[w.nodes[i]] > 0
    OBVIOUS
  <2>2. PICK x \in Nat : x = WaitOf(w, i) /\ c < x /\ v.ctr[w.nodes[i]] = x - c
    BY <1>1, <1>2, <2>1
  <2> QED BY <2>2
<1>16. ASSUME NEW m, In(w, m) PROVE v.ctr[m] = w.ctr[m] \/ v.ctr[m] > 0
  <2>1. PICK j \in 1 .. l : w.nodes[j] = m
    BY <1>2, <1>16, AtPosition
  <2>2. j = i => i =< l
    BY <1>3
  <2> QED BY <1>9, <1>15, <2>1, <2>2
<1>17. First(v) = First(w) \/ (First(v) = n /\ (First(w) # Null => v.ctr[First(w)] > 0))
  <2>1. First(v) = v.nodes[1] /\ 1 \in 1 .. l + 1
    <3>1. l + 1 # 0 /\ 1 \in 1 .. l + 1
      OBVIOUS
    <3> QED BY <1>4, <1>6, <3>1, FirstIs
  <2>2. CASE i = 1
    <3>1. First(v) = n
      BY <1>4, <2>1, <2>2
    <3>2. First(w) # Null => First(w) = w.nodes[1] /\ 1 =< l
      BY <1>2, FirstIs
    <3> QED BY <1>15, <2>2, <3>1, <3>2
  <2>3. CASE i # 1
    <3>1. 1 < i /\ l # 0
      BY <1>3, <2>3
    <3> QED BY <1>2, <1>4, <2>1, <3>1, FirstIs
  <2> QED BY <2>2, <2>3
<1> QED BY <1>1, <1>5, <1>6, <1>13, <1>14, <1>16, <1>17 DEF Linked

-----------------------------------------------------------------------------
(* Scans, and what Countdown sees of a line.                                 *)

(* The time left of every node, -1 for the ones that are not linked.         *)
Left(w) == [n \in Nodes |-> IF In(w, n) THEN Wait(w, n) ELSE -1]

(* Nobody waits longer than a timer can be set to.                           *)
LineOK(w) == Good(w) /\ \A n \in Nodes : In(w, n) => Wait(w, n) =< MaxCount

(* Between two scans of the high-speed line: nobody is due.                  *)
Rested(w) == \A n \in Nodes : In(w, n) => Wait(w, n) > 0

(* Within a scan of it: nodes that are due begin at the cursor, and a cursor *)
(* that is behind the first node is at one that is not due.                  *)
MidScan(w) ==
  /\ (\E n \in Nodes : In(w, n) /\ Wait(w, n) = 0) => w.op = First(w)
  /\ w.op # Null /\ w.op # First(w) => w.ctr[w.op] > 0

(* A cursor at the first node.                                               *)
LEMMA AtFirst ==
  ASSUME NEW w, w.op = First(w)
  PROVE  MidScan(w)
  BY DEF MidScan

(* Unlinking n, with or without taking time off.                             *)
LEMMA DelKeeps ==
  ASSUME NEW w, LineOK(w), NEW n, In(w, n), NEW proc \in BOOLEAN, NEW v, v = WakeupDel(w, n, proc)
  PROVE  LineOK(v) /\ (\A m : In(v, m) <=> In(w, m) /\ m # n)
<1>1. Good(w)
  BY DEF LineOK
<1>2. Good(v) /\ (\A m : In(v, m) <=> In(w, m) /\ m # n)
  BY <1>1, DelGood
<1>3. ASSUME NEW m \in Nodes, In(v, m) PROVE Wait(v, m) =< MaxCount
  <2>1. In(w, m) /\ Wait(w, m) =< MaxCount /\ Wait(w, m) \in Nat
    BY <1>1, <1>2, <1>3, WaitIsNat DEF LineOK
  <2>2. Wait(v, m) =< Wait(w, m) /\ Wait(v, m) \in Nat
    BY <1>1, <1>2, <1>3, DelLess, WaitIsNat
  <2> QED BY <2>1, <2>2, TimerAssumption
<1> QED BY <1>2, <1>3 DEF LineOK

(* Unlinking n from the high-speed line.                                     *)
LEMMA DelLeft ==
  ASSUME NEW w, LineOK(w), NEW n, In(w, n), NEW proc \in BOOLEAN, ~proc,
         NEW v, v = WakeupDel(w, n, proc)
  PROVE  /\ Left(v) = [Left(w) EXCEPT ![n] = -1]
         /\ Rested(w) => Rested(v)
         /\ MidScan(w) => MidScan(v)
<1>1. Good(w)
  BY DEF LineOK
<1>2. /\ Good(v) /\ (\A m : In(v, m) <=> In(w, m) /\ m # n)
      /\ NextOf(w, n) # Null => In(v, NextOf(w, n))
      /\ First(v) = IF First(w) = n THEN NextOf(w, n) ELSE First(w)
  BY <1>1, DelGood
<1>3. /\ \A m : In(v, m) => Wait(v, m) = Wait(w, m)
      /\ \A m : In(v, m) => w.ctr[m] =< v.ctr[m]
      /\ NextOf(w, n) # Null => v.ctr[NextOf(w, n)] = w.ctr[NextOf(w, n)] + w.ctr[n]
      /\ v.op = IF w.op = n THEN NextOf(w, n) ELSE w.op
  BY <1>1, DelLine
<1>4. Left(v) = [Left(w) EXCEPT ![n] = -1]
  BY <1>2, <1>3 DEF Left
<1>5. Rested(w) => Rested(v)
  BY <1>2, <1>3 DEF Rested
<1>6. ASSUME MidScan(w) PROVE MidScan(v)
  <2>1. ASSUME NEW m \in Nodes, In(v, m), Wait(v, m) = 0 PROVE v.op = First(v)
    <3>1. w.op = First(w)
      BY <1>2, <1>3, <1>6, <2>1 DEF MidScan
    <3> QED BY <1>2, <1>3, <3>1
  <2>2. ASSUME v.op # Null, v.op # First(v) PROVE v.ctr[v.op] > 0
    <3>1. w.op # First(w) /\ w.op # Null
      <4>1. w.op # First(w)
        BY <1>2, <1>3, <2>2
      <4>2. w.op # Null
        <5>1. n # Null
          BY <1>1, InIs DEF Good
        <5> QED BY <1>3, <2>2, <5>1
      <4> QED BY <4>1, <4>2
    <3>2. w.ctr[w.op] > 0
      BY <1>6, <3>1 DEF MidScan
    <3>3. CASE w.op = n
      <4>1. v.op = NextOf(w, n) /\ In(w, v.op) /\ v.ctr[v.op] = w.ctr[v.op] + w.ctr[n]
        BY <1>2, <1>3, <2>2, <3>3
      <4>2. w.ctr[v.op] \in Nat /\ w.ctr[n] \in Nat /\ w.ctr[n] > 0
        BY <1>1, <3>2, <3>3, <4>1, WaitIsNat
      <4> QED BY <4>1, <4>2
    <3>4. CASE w.op # n
      <4>1. v.op = w.op /\ In(v, v.op)
        BY <1>2, <1>3, <2>2, <3>4 DEF Good
      <4>2. w.ctr[v.op] =< v.ctr[v.op] /\ w.ctr[v.op] \in Nat /\ v.ctr[v.op] \in Nat
        BY <1>1, <1>2, <1>3, <4>1, WaitIsNat
      <4> QED BY <3>2, <4>1, <4>2
    <3> QED BY <3>3, <3>4
  <2> QED BY <2>1, <2>2 DEF MidScan
<1> QED BY <1>4, <1>5, <1>6

(* Linking n to wait c.                                                      *)
LEMMA LinkedKeeps ==
  ASSUME NEW w, LineOK(w), NEW n \in Nodes, ~In(w, n), NEW c \in 1 .. MaxCount, NEW v, Linked(w, n, c, v)
  PROVE  /\ LineOK(v) /\ (\A m : In(v, m) <=> In(w, m) \/ m = n)
         /\ Left(v) = [Left(w) EXCEPT ![n] = c]
         /\ Rested(w) => Rested(v)
         /\ MidScan(w) => MidScan(v)
<1> USE DEF Linked
<1>0. c \in Nat /\ c > 0 /\ c =< MaxCount /\ c # 0
  BY TimerAssumption
<1>1. LineOK(v)
  BY <1>0 DEF LineOK
<1>2. Left(v) = [Left(w) EXCEPT ![n] = c]
  BY DEF Left
<1>3. Rested(w) => Rested(v)
  BY <1>0 DEF Rested
<1>4. ASSUME MidScan(w) PROVE MidScan(v)
  <2>1. Good(w) /\ (w.op # Null => In(w, w.op))
    BY DEF LineOK, Good
  <2>2. ASSUME NEW m \in Nodes, In(v, m), Wait(v, m) = 0 PROVE v.op = First(v)
    <3>1. In(w, m) /\ Wait(w, m) = 0
      BY <1>0, <2>2
    <3>2. w.op = First(w)
      BY <1>4, <3>1 DEF MidScan
    <3>3. First(w) # Null
      BY <2>1, <3>1, FirstIs
    <3>4. w.ctr[First(w)] = 0
      <4>1. w.ctr[First(w)] =< Wait(w, m) /\ w.ctr[First(w)] \in Nat
        BY <2>1, <3>1, <3>2, <3>3, FirstIs, WaitIsNat
      <4> QED BY <3>1, <4>1
    <3>5. First(v) = First(w)
      <4>1. ASSUME First(v) = n, v.ctr[First(w)] > 0 PROVE FALSE
        <5>1. First(w) # n
          BY <2>1, <3>2, <3>3
        <5>2. In(v, First(w)) /\ Wait(v, First(w)) = Wait(w, First(w))
          BY <2>1, <3>2, <3>3
        <5>3. Wait(w, First(w)) = w.ctr[First(w)]
          BY <2>1, <3>1, FirstIs, LineParts DEF Good
        <5>4. v.ctr[First(w)] =< Wait(v, First(w)) /\ v.ctr[First(w)] \in Nat
          BY <5>2, WaitIsNat
        <5> QED BY <3>4, <4>1, <5>2, <5>3, <5>4
      <4> QED BY <3>3, <4>1
    <3> QED BY <3>2, <3>5
  <2>3. ASSUME v.op # Null, v.op # First(v) PROVE v.ctr[v.op] > 0
    <3>1. w.op # Null /\ In(w, w.op)
      BY <2>1, <2>3
    <3>2. CASE w.op = First(w)
      BY <2>3, <3>2
    <3>3. CASE w.op # First(w)
      BY <1>4, <3>1, <3>3 DEF MidScan
    <3> QED BY <3>2, <3>3
  <2> QED BY <2>2, <2>3 DEF MidScan
<1> QED BY <1>1, <1>2, <1>3, <1>4

(* WakeupAdd, with or without taking time off first.                         *)
LEMMA AddKeeps ==
  ASSUME NEW w, LineOK(w), NEW n \in Nodes, ~In(w, n), NEW c \in 1 .. MaxCount,
         NEW proc \in BOOLEAN, NEW v, v = WakeupAdd(w, n, c, proc)
  PROVE  /\ LineOK(v) /\ (\A m : In(v, m) <=> In(w, m) \/ m = n)
         /\ ~proc => /\ Left(v) = [Left(w) EXCEPT ![n] = c]
                     /\ Rested(w) => Rested(v)
                     /\ MidScan(w) => MidScan(v)
<1>0. Good(w) /\ w \in Line /\ c \in Nat
  BY TimerAssumption DEF LineOK, Good
<1>1. PICK u : u = IF proc THEN ProcTime(w, First(w)) ELSE w
  OBVIOUS
<1>2. LineOK(u) /\ (\A m : In(u, m) <=> In(w, m)) /\ (~proc => u = w)
  <2>1. CASE ~proc
    BY <1>1, <2>1
  <2>2. CASE proc
    <3>1. u = ProcTime(w, First(w)) /\ First(w) \in Nodes \cup {Null}
      BY <1>0, <1>1, <2>2, FirstIs, InIs
    <3>2. u \in Line /\ u.nodes = w.nodes /\ u.op = w.op /\ \A m \in Nodes : u.ctr[m] =< w.ctr[m]
      BY <1>0, <3>1, ProcParts
    <3>3. \A m : In(u, m) <=> In(w, m)
      BY <3>2 DEF In
    <3>4. Good(u)
      BY <1>0, <3>2, <3>3 DEF Good
    <3>5. \A m : In(u, m) => In(w, m) /\ Wait(u, m) =< Wait(w, m)
      BY <1>0, <3>2, <3>4, LessWaits
    <3>6. ASSUME NEW m \in Nodes, In(u, m) PROVE Wait(u, m) =< MaxCount
      <4>1. /\ Wait(u, m) =< Wait(w, m) /\ Wait(w, m) =< MaxCount
            /\ Wait(u, m) \in Nat /\ Wait(w, m) \in Nat
        BY <1>0, <3>4, <3>5, <3>6, WaitIsNat DEF LineOK
      <4> QED BY <4>1, TimerAssumption
    <3> QED BY <2>2, <3>3, <3>4, <3>6 DEF LineOK
  <2> QED BY <2>1, <2>2
<1>3. v = Link(u, n, c)
  BY <1>1 DEF WakeupAdd
<1>4. Good(u) /\ ~In(u, n)
  BY <1>2 DEF LineOK
<1>5. Linked(u, n, c, v)
  BY <1>0, <1>3, <1>4, LinkLine
<1>6. /\ LineOK(v) /\ (\A m : In(v, m) <=> In(u, m) \/ m = n)
      /\ Left(v) = [Left(u) EXCEPT ![n] = c]
      /\ Rested(u) => Rested(v)
      /\ MidScan(u) => MidScan(v)
  BY <1>2, <1>4, <1>5, LinkedKeeps
<1> QED BY <1>2, <1>6

(* A line with other times or another cursor and the same counters.          *)
LEMMA SameLine ==
  ASSUME NEW w, LineOK(w), NEW v \in Line, v.nodes = w.nodes,
         v.op # Null => In(w, v.op),
         \A n \in Nodes : In(w, n) => v.ctr[n] = w.ctr[n]
  PROVE  /\ LineOK(v) /\ (\A m : In(v, m) <=> In(w, m))
         /\ Left(v) = Left(w) /\ First(v) = First(w)
         /\ Rested(w) => Rested(v)
         /\ v.op = w.op /\ MidScan(w) => MidScan(v)
<1>1. Good(w) /\ Good(v)
  BY DEF LineOK, Good, In
<1>2. /\ \A n : In(v, n) <=> In(w, n)
      /\ \A n : In(v, n) => Wait(v, n) = Wait(w, n)
      /\ First(v) = First(w)
  BY <1>1, SameWaits
<1>3. LineOK(v)
  BY <1>1, <1>2 DEF LineOK
<1>4. Left(v) = Left(w)
  BY <1>2 DEF Left
<1>5. Rested(w) => Rested(v)
  BY <1>2 DEF Rested
<1>6. v.op = w.op /\ MidScan(w) => MidScan(v)
  <2>1. v.op # Null => v.op \in Nodes
    BY LineParts
  <2> QED BY <1>2, <2>1 DEF MidScan
<1> QED BY <1>2, <1>3, <1>4, <1>5, <1>6

(* A step of the cursor to the next node with a counter made smaller.        *)
Stepped(w, v) ==
  /\ v \in Line /\ v.nodes = w.nodes /\ v.elapsed = w.elapsed
  /\ v.op = NextOf(w, w.op)
  /\ \A n \in Nodes : v.ctr[n] =< w.ctr[n]
  /\ \A n \in Nodes : n # w.op => v.ctr[n] = w.ctr[n]

(* Moving the cursor on and lowering the counter of the node it leaves is    *)
(* such a step.                                                              *)
LEMMA StepParts ==
  ASSUME NEW w, Good(w), w.op # Null, NEW x \in Nat, x =< w.ctr[w.op],
         NEW v, v = [w EXCEPT !.op = NextOf(w, w.op), !.ctr = [w.ctr EXCEPT ![w.op] = x]]
  PROVE  Stepped(w, v) /\ v.ctr[w.op] = x
<1>0. w \in Line /\ In(w, w.op) /\ w.op \in Nodes /\ w.ctr \in [Nodes -> Nat]
  BY LineParts DEF Good
<1>1. PICK i \in 1 .. Len(w.nodes) : w.nodes[i] = w.op
  BY <1>0, AtPosition
<1>2. PICK o \in Nodes \cup {Null} : o = NextOf(w, w.op)
  BY <1>1, NextIs
<1>3. PICK f \in [Nodes -> Nat] : f = [w.ctr EXCEPT ![w.op] = x]
  BY <1>0
<1>4. PICK a : a = [w EXCEPT !.op = o]
  OBVIOUS
<1>5. a \in Line /\ a.nodes = w.nodes /\ a.op = o /\ a.elapsed = w.elapsed
  BY <1>0, <1>4, LineExcept
<1>6. v = [a EXCEPT !.ctr = f]
  BY <1>2, <1>3, <1>4
<1>7. v \in Line /\ v.nodes = w.nodes /\ v.op = o /\ v.elapsed = w.elapsed /\ v.ctr = f
  BY ONLY <1>5, <1>6, f \in [Nodes -> Nat], LineExcept
<1>8. ASSUME NEW n \in Nodes PROVE f[n] =< w.ctr[n] /\ (n # w.op => f[n] = w.ctr[n])
  <2>1. w.ctr[n] \in Nat
    BY <1>0
  <2>2. CASE n = w.op
    BY <1>0, <1>3, <2>2
  <2>3. CASE n # w.op
    <3>1. f[n] = w.ctr[n]
      BY <1>0, <1>3, <2>3
    <3> QED BY <2>1, <2>3, <3>1
  <2> QED BY <2>2, <2>3
<1>9. f[w.op] = x
  BY <1>0, <1>3
<1> QED BY <1>2, <1>7, <1>8, <1>9 DEF Stepped

(* It links nobody in or out and keeps the order.                            *)
LEMMA StepKeeps ==
  ASSUME NEW w, LineOK(w), w.op # Null, NEW v, Stepped(w, v)
  PROVE  LineOK(v) /\ (\A m : In(v, m) <=> In(w, m)) /\ First(v) = First(w)
         /\ \A m : NextOf(v, m) = NextOf(w, m)
<1>0. Good(w) /\ w \in Line /\ In(w, w.op) /\ v \in Line
  BY DEF LineOK, Good, Stepped
<1>1. PICK i \in 1 .. Len(w.nodes) : w.nodes[i] = w.op
  BY <1>0, AtPosition
<1>2. \A m : In(v, m) <=> In(w, m)
  BY DEF Stepped, In
<1>3. v.op # Null => In(w, v.op)
  <2>1. SUFFICES ASSUME v.op # Null PROVE In(w, v.op)
    OBVIOUS
  <2>2. v.op = NextOf(w, w.op)
    BY DEF Stepped
  <2>3. PICK l \in Nat : l = Len(w.nodes)
    BY <1>0, LineParts
  <2>4. i < l /\ v.op = w.nodes[i + 1]
    BY <1>0, <1>1, <2>1, <2>2, <2>3, NextIs
  <2>5. i + 1 \in 1 .. Len(w.nodes)
    BY <2>3, <2>4
  <2> QED BY <1>0, <2>4, <2>5, InIs
<1>4. Good(v)
  BY <1>0, <1>2, <1>3 DEF Good, Stepped
<1>5. \A m : In(v, m) => In(w, m) /\ Wait(v, m) =< Wait(w, m)
  BY <1>0, <1>4, LessWaits DEF Stepped
<1>6. ASSUME NEW m \in Nodes, In(v, m) PROVE Wait(v, m) =< MaxCount
  <2>1. /\ Wait(v, m) =< Wait(w, m) /\ Wait(w, m) =< MaxCount
        /\ Wait(v, m) \in Nat /\ Wait(w, m) \in Nat
    BY <1>0, <1>4, <1>5, <1>6, WaitIsNat DEF LineOK
  <2> QED BY <2>1, TimerAssumption
<1> QED BY <1>2, <1>4, <1>6 DEF LineOK, Stepped, First, NextOf, Position

(* One tick for the first node is one tick for all of them.                  *)
LEMMA TickLine ==
  ASSUME NEW w, LineOK(w), w.op # Null, w.op = First(w), w.ctr[w.op] > 0,
         NEW v, Stepped(w, v), v.ctr[w.op] = w.ctr[w.op] - 1
  PROVE  \A n : In(v, n) => Wait(v, n) = Wait(w, n) - 1
<1>0. Good(w) /\ w \in Line /\ Len(w.nodes) \in Nat
  BY LineParts DEF LineOK, Good
<1>1. Good(v) /\ v \in Line /\ v.nodes = w.nodes /\ (\A n : In(v, n) <=> In(w, n))
  BY StepKeeps DEF LineOK, Stepped
<1>2. PICK l \in Nat : l = Len(w.nodes) /\ l # 0
  BY <1>0, FirstIs
<1>3. First(w) = w.nodes[1] /\ w.ctr[w.op] \in Nat
  BY <1>0, <1>2, FirstIs, WaitIsNat DEF Good
<1>4. PICK one \in Nat : one = 1
  OBVIOUS
<1>5. PICK d \in Int : d = -1
  OBVIOUS
<1>6. WaitOf(v, one) = WaitOf(w, one) + d
  <2>1. 1 \in 1 .. Len(w.nodes)
    BY <1>2
  <2>2. WaitOf(w, 1) = WaitOf(w, 1 - 1) + w.ctr[w.op] /\ WaitOf(v, 1) = WaitOf(v, 1 - 1) + v.ctr[w.op]
    BY <1>0, <1>1, <1>3, <2>1, WaitBefore
  <2>3. WaitOf(w, 1 - 1) = 0 /\ WaitOf(v, 1 - 1) = 0
    BY WaitStep
  <2>4. PICK x \in Nat : x = w.ctr[w.op]
    BY <1>3
  <2>5. WaitOf(w, 1) = x /\ WaitOf(v, 1) = x - 1
    BY <2>2, <2>3, <2>4
  <2> QED BY <1>4, <1>5, <2>5
<1>7. PICK m \in Nat : m = l - 1
  <2>1. l # 0
    BY <1>2
  <2>2. l - 1 \in Nat
    BY ONLY <2>1, l \in Nat
  <2> QED BY <2>2
<1>8. Alike(v, one, w, one, m)
  <2>1. SUFFICES ASSUME NEW j \in 1 .. m PROVE v.ctr[w.nodes[one + j]] = w.ctr[w.nodes[one + j]]
    BY <1>1 DEF Alike
  <2>2. PICK x \in 1 .. l : x = one + j /\ x # 1 /\ 1 \in 1 .. l
    BY <1>4, <1>7
  <2>3. w.nodes[x] # w.nodes[1]
    BY <1>0, <1>2, <2>2, InjectiveSeq, LineParts DEF Good
  <2>4. w.nodes[x] \in Nodes
    BY <1>0, <1>2, LineParts
  <2>5. v.ctr[w.nodes[x]] = w.ctr[w.nodes[x]]
    BY <1>3, <2>3, <2>4 DEF Stepped
  <2> QED BY <2>2, <2>5
<1>9. Apart(v, one, w, one, m, d)
  <2>1. one + m = l
    BY <1>4, <1>7
  <2>2. one + m =< Len(w.nodes) /\ one + m =< Len(v.nodes)
    BY <1>1, <1>2, <2>1
  <2> QED BY <1>0, <1>1, <1>6, <1>8, <2>2, WaitsAlike
<1>10. SUFFICES ASSUME NEW n, In(w, n) PROVE Wait(v, n) = Wait(w, n) - 1
  BY <1>1
<1>11. PICK i \in 1 .. l : w.nodes[i] = n /\ Wait(w, n) = WaitOf(w, i)
  BY <1>0, <1>2, <1>10, AtPosition
<1>12. Wait(v, n) = WaitOf(v, i)
  BY <1>1, <1>2, <1>11, PositionIs
<1>13. PICK j \in 0 .. m : one + j = i
  <2>1. i - 1 \in 0 .. m /\ one + (i - 1) = i
    BY <1>4, <1>7
  <2> QED BY <2>1
<1>14. WaitOf(v, i) = WaitOf(w, i) + d
  BY <1>9, <1>13 DEF Apart
<1>15. Wait(w, n) \in Nat
  BY <1>0, <1>10, WaitIsNat
<1> QED BY <1>5, <1>11, <1>12, <1>14, <1>15

(* Every node of the left, one tick later.                                   *)
Down(f) == [n \in Nodes |-> IF f[n] # -1 THEN f[n] - 1 ELSE -1]

(* One tick taken off the first node of a line is taken off every node.      *)
LEMMA TickLeft ==
  ASSUME NEW w, LineOK(w), w.op # Null, w.op = First(w), w.ctr[w.op] > 0,
         NEW v, Stepped(w, v), v.ctr[w.op] = w.ctr[w.op] - 1
  PROVE  Left(v) = Down(Left(w))
<1>1. \A n : In(v, n) => Wait(v, n) = Wait(w, n) - 1
  BY TickLine
<1>2. \A n : In(v, n) <=> In(w, n)
  BY StepKeeps
<1>3. ASSUME NEW n \in Nodes PROVE Left(v)[n] = Down(Left(w))[n]
  <2>1. CASE In(w, n)
    <3>1. Wait(w, n) \in Nat
      BY <2>1, WaitIsNat DEF LineOK
    <3>2. Left(w)[n] = Wait(w, n) /\ Left(v)[n] = Wait(w, n) - 1
      BY <1>1, <1>2, <2>1 DEF Left
    <3> QED BY <3>1, <3>2 DEF Down
  <2>2. CASE ~In(w, n)
    BY <1>2, <2>2 DEF Left, Down
  <2> QED BY <2>1, <2>2
<1> QED BY <1>3 DEF Left, Down

(* A due node is taken: its counter is zeroed and it is unlinked.            *)
LEMMA TakeDueLine ==
  ASSUME NEW w, LineOK(w), w.op # Null, NEW proc \in BOOLEAN, ~proc,
         NEW u, u = TakeDue(w), NEW v, v = WakeupDel(u, w.op, proc)
  PROVE  /\ LineOK(v) /\ (\A m : In(v, m) <=> In(w, m) /\ m # w.op)
         /\ w.op \in Nodes
         /\ Stepped(w, u) /\ u.ctr[w.op] = 0
         /\ Left(v) = [Left(u) EXCEPT ![w.op] = -1]
         /\ w.op = First(w) => MidScan(v)
<1>0. Good(w) /\ In(w, w.op) /\ w.op \in Nodes /\ w.ctr[w.op] \in Nat
  BY WaitIsNat DEF LineOK, Good
<1>1. PICK z \in Nat : z = 0
  OBVIOUS
<1>2. z =< w.ctr[w.op] /\ u = [w EXCEPT !.op = NextOf(w, w.op), !.ctr = [w.ctr EXCEPT ![w.op] = z]]
  BY <1>0, <1>1 DEF TakeDue
<1>3. Stepped(w, u) /\ u.ctr[w.op] = 0
  BY <1>0, <1>1, <1>2, StepParts
<1>4. /\ LineOK(u) /\ (\A m : In(u, m) <=> In(w, m)) /\ First(u) = First(w)
      /\ \A m : NextOf(u, m) = NextOf(w, m)
  BY <1>3, StepKeeps
<1>5. In(u, w.op) /\ Good(u)
  BY <1>0, <1>4 DEF LineOK
<1>6. LineOK(v) /\ (\A m : In(v, m) <=> In(u, m) /\ m # w.op)
  BY <1>4, <1>5, DelKeeps
<1>7. Left(v) = [Left(u) EXCEPT ![w.op] = -1]
  BY <1>4, <1>5, DelLeft
<1>8. ASSUME w.op = First(w) PROVE MidScan(v)
  <2>1. u.op = NextOf(w, w.op) /\ u.op # w.op
    <3>1. PICK i \in 1 .. Len(w.nodes) : w.nodes[i] = w.op
      BY <1>0, AtPosition
    <3>2. PICK l \in Nat : l = Len(w.nodes)
      BY <1>0, LineParts DEF Good
    <3>3. NextOf(w, w.op) # w.op
      <4>1. i < l \/ i = l
        BY <3>2
      <4> QED BY <1>0, <3>1, <3>2, <4>1, NextIs
    <3> QED BY <1>3, <3>3 DEF Stepped
  <2>2. v.op = u.op
    BY <1>5, <2>1, DelLine
  <2>3. First(v) = NextOf(u, w.op)
    BY <1>4, <1>5, <1>8, DelGood
  <2> QED BY <1>4, <2>1, <2>2, <2>3, AtFirst
<1> QED BY <1>0, <1>3, <1>4, <1>6, <1>7, <1>8

(* A scan that stops takes what is left to apply off the node it stops at.   *)
LEMMA StopParts ==
  ASSUME NEW w, LineOK(w), NEW c \in Nat, ScanStops(w, c), NEW v, v = StopScan(w, c)
  PROVE  /\ Stepped(w, v) /\ w.op # Null /\ v.ctr[w.op] = w.ctr[w.op] - c
         /\ v.ctr[w.op] \in Nat /\ v.ctr[w.op] > 0
<1>1. Good(w) /\ w.op # Null /\ w.ctr[w.op] > c /\ w.ctr[w.op] \in Nat
  BY WaitIsNat DEF ScanStops, LineOK, Good
<1>2. PICK x \in Nat : x = w.ctr[w.op] - c /\ x =< w.ctr[w.op] /\ x > 0
  BY <1>1
<1>3. v = [w EXCEPT !.op = NextOf(w, w.op), !.ctr = [w.ctr EXCEPT ![w.op] = x]]
  BY <1>2 DEF StopScan
<1>4. Stepped(w, v) /\ v.ctr[w.op] = x
  BY <1>1, <1>2, <1>3, StepParts
<1> QED BY <1>1, <1>2, <1>4

-----------------------------------------------------------------------------
(* The inductive invariant.                                                  *)

(* Types; unlike TypeOK, with the type of a whole line.                      *)
TimerType ==
  /\ ucType \in [Timers -> {"UNUSED"} \cup Kinds]
  /\ ucStatus \in [Timers -> {"STOP", "RUNNING"}]
  /\ ulCounterSave \in [Timers -> 0 .. MaxCount]
  /\ autoRestart \in [Timers -> BOOLEAN]
  /\ wu \in [Lines -> Line]
  /\ scan \in [Lines -> Scan]
  /\ ulDelay \in 0 .. MaxCount + IdleTicks
  /\ bNoTimer \in BOOLEAN

(* Both lines at all times.                                                  *)
LinesOK == \A k \in Lines : LineOK(wu[k])

(* The lines hold the timers that run.                                       *)
Members == \A k \in Lines, t \in Timers : In(wu[k], t) <=> ucType[t] = k /\ Running(t)

(* A timer that runs was started: it is in use and has an interval.          *)
Started == \A t \in Timers : Running(t) => ucType[t] # "UNUSED" /\ ulCounterSave[t] > 0

(* API_TimerHTicks applies its one tick to the first node, so that nothing   *)
(* is left to apply later; what is due is ahead of its cursor.               *)
HScan ==
  /\ scan["H"].pc \in {"idle", "call", "window"}
  /\ scan["H"].t # Null <=> scan["H"].pc = "call"
  /\ IF scan["H"].pc = "idle" THEN Rested(wu["H"])
     ELSE scan["H"].ulCounter = 0 /\ MidScan(wu["H"])

(* All of it.                                                                *)
IInv == TimerType /\ LinesOK /\ Members /\ Started /\ HScan

-----------------------------------------------------------------------------
(* Pieces of the actions.                                                    *)

(* What the assumptions on the constants say of timers and lines.            *)
LEMMA TimersAreNodes ==
  /\ Timers = Nodes /\ Null \notin Timers
  /\ {"UNUSED"} \cup Kinds \subseteq {"UNUSED"} \cup Lines
  /\ 1 .. MaxCount \subseteq Nat
  BY TimerAssumption, WakeupLineAssumption DEF Lines

(* One line is replaced.                                                     *)
LEMMA LineChange ==
  ASSUME IInv, NEW k \in Lines, NEW v, LineOK(v), wu' = [wu EXCEPT ![k] = v]
  PROVE  /\ wu' \in [Lines -> Line] /\ LinesOK'
         /\ wu'[k] = v /\ \A j \in Lines : j # k => wu'[j] = wu[j]
<1>1. wu \in [Lines -> Line] /\ v \in Line
  BY DEF IInv, TimerType, LineOK, Good
<1>2. wu'[k] = v /\ \A j \in Lines : j # k => wu'[j] = wu[j]
  BY <1>1
<1>3. wu' \in [Lines -> Line]
  BY <1>1
<1>4. ASSUME NEW j \in Lines PROVE LineOK(wu'[j])
  <2>1. CASE j = k
    BY <1>2, <2>1
  <2>2. CASE j # k
    BY <1>2, <2>2 DEF IInv, LinesOK
  <2> QED BY <2>1, <2>2
<1>5. LinesOK'
  BY <1>4 DEF LinesOK, LineOK, Good, In, Wait, WaitOf, Position
<1> QED BY <1>2, <1>3, <1>5

(* A step that is not one of the scan of the high-speed line.                *)
LEMMA OutsideHScan ==
  ASSUME IInv, scan'["H"] = scan["H"],
         Rested(wu["H"]) => Rested(wu'["H"]), MidScan(wu["H"]) => MidScan(wu'["H"])
  PROVE  HScan'
<1>1. HScan
  BY DEF IInv
<1>2. /\ Rested(wu["H"])' <=> Rested(wu'["H"])
      /\ MidScan(wu["H"])' <=> MidScan(wu'["H"])
  OBVIOUS
<1> QED BY <1>1, <1>2 DEF HScan

(* Where t is linked.                                                        *)
LEMMA KindOf ==
  ASSUME IInv, NEW t \in Timers, ucType[t] # "UNUSED"
  PROVE  /\ ucType[t] \in Lines /\ LineOK(wu[ucType[t]])
         /\ HasWakeup(ucType[t]) \in BOOLEAN
         /\ HasWakeup(ucType[t]) <=> ucType[t] # "H"
         /\ In(wu[ucType[t]], t) <=> Running(t)
         /\ \A k \in Lines : In(wu[k], t) => k = ucType[t]
<1>1. ucType[t] \in Lines
  BY TimersAreNodes DEF IInv, TimerType
<1> QED BY <1>1 DEF IInv, LinesOK, Members, HasWakeup, Lines

(* The line of t without t.                                                  *)
LEMMA UnlinkedFacts ==
  ASSUME IInv, NEW t \in Timers, ucType[t] # "UNUSED", Running(t), NEW w, w = Unlinked(t)
  PROVE  /\ LineOK(w) /\ (\A m : In(w, m) <=> In(wu[ucType[t]], m) /\ m # t)
         /\ ucType[t] = "H" => /\ Left(w) = [Left(wu["H"]) EXCEPT ![t] = -1]
                               /\ Rested(wu["H"]) => Rested(w)
                               /\ MidScan(wu["H"]) => MidScan(w)
<1>1. PICK k \in Lines : k = ucType[t] /\ LineOK(wu[k]) /\ In(wu[k], t) /\ (HasWakeup(k) <=> k # "H")
  BY KindOf
<1>2. PICK proc \in BOOLEAN : proc = HasWakeup(k)
  BY <1>1, KindOf
<1>3. w = WakeupDel(wu[k], t, proc)
  BY <1>1, <1>2 DEF Unlinked
<1>4. LineOK(w) /\ (\A m : In(w, m) <=> In(wu[k], m) /\ m # t)
  BY <1>1, <1>3, DelKeeps
<1>5. CASE k = "H"
  <2>1. ~proc
    BY <1>1, <1>2, <1>5
  <2>2. /\ Left(w) = [Left(wu[k]) EXCEPT ![t] = -1]
        /\ Rested(wu[k]) => Rested(w)
        /\ MidScan(wu[k]) => MidScan(w)
    BY <1>1, <1>3, <2>1, DelLeft
  <2> QED BY <1>1, <1>4, <1>5, <2>2
<1>6. CASE k # "H"
  BY <1>1, <1>4, <1>6
<1> QED BY <1>5, <1>6

(* What a call that links t to wait c leaves.                                *)
Set(t, c) ==
  /\ wu' \in [Lines -> Line] /\ LinesOK'
  /\ \A k \in Lines, u \in Timers : In(wu'[k], u) <=> In(wu[k], u) \/ (k = ucType[t] /\ u = t)
  /\ scan' \in [Lines -> Scan] /\ HScan' /\ scan'["H"] = scan["H"]
  /\ Left(wu'["H"]) = IF IsH(t) THEN [Left(wu["H"]) EXCEPT ![t] = c] ELSE Left(wu["H"])

(* AddTimer links a timer to wait c, whether it ran before or not, and wakes *)
(* only the timer thread.                                                    *)
LEMMA AddTimerSets ==
  ASSUME IInv, NEW t \in Timers, ucType[t] # "UNUSED", NEW c \in 1 .. MaxCount, NEW w,
         w = IF Running(t) THEN Unlinked(t) ELSE wu[ucType[t]], AddTimer(t, w, c)
  PROVE  Set(t, c)
<1>0. t \in Nodes
  BY TimersAreNodes
<1>1. PICK k \in Lines : /\ k = ucType[t] /\ LineOK(wu[k]) /\ (In(wu[k], t) <=> Running(t))
                         /\ HasWakeup(k) <=> k # "H"
  BY KindOf
<1>2. PICK proc \in BOOLEAN : proc = HasWakeup(k)
  BY <1>1, KindOf
<1>3. /\ LineOK(w) /\ (\A m : In(w, m) <=> In(wu[k], m) /\ m # t)
      /\ k = "H" => /\ [Left(w) EXCEPT ![t] = c] = [Left(wu["H"]) EXCEPT ![t] = c]
                    /\ Rested(wu["H"]) => Rested(w)
                    /\ MidScan(wu["H"]) => MidScan(w)
  <2>1. CASE Running(t)
    <3>1. w = Unlinked(t)
      BY <2>1
    <3>2. /\ LineOK(w) /\ (\A m : In(w, m) <=> In(wu[k], m) /\ m # t)
          /\ k = "H" => /\ Left(w) = [Left(wu["H"]) EXCEPT ![t] = -1]
                        /\ Rested(wu["H"]) => Rested(w)
                        /\ MidScan(wu["H"]) => MidScan(w)
      BY <1>1, <2>1, <3>1, UnlinkedFacts
    <3>3. [[Left(wu["H"]) EXCEPT ![t] = -1] EXCEPT ![t] = c] = [Left(wu["H"]) EXCEPT ![t] = c]
      BY DEF Left
    <3> QED BY <3>2, <3>3
  <2>2. CASE ~Running(t)
    BY <1>1, <2>2
  <2> QED BY <2>1, <2>2
<1>4. PICK v : v = WakeupAdd(w, t, c, proc)
  OBVIOUS
<1>5. /\ LineOK(v) /\ (\A m : In(v, m) <=> In(w, m) \/ m = t)
      /\ ~proc => /\ Left(v) = [Left(w) EXCEPT ![t] = c]
                  /\ Rested(w) => Rested(v)
                  /\ MidScan(w) => MidScan(v)
  <2>1. ~In(w, t)
    BY <1>3
  <2> QED BY <1>0, <1>3, <1>4, <2>1, AddKeeps
<1>6. wu' = [wu EXCEPT ![k] = v]
  BY <1>1, <1>2, <1>4 DEF AddTimer
<1>7. /\ wu' \in [Lines -> Line] /\ LinesOK'
      /\ wu'[k] = v /\ \A j \in Lines : j # k => wu'[j] = wu[j]
  BY <1>5, <1>6, LineChange
<1>8. \A j \in Lines, u \in Timers : In(wu'[j], u) <=> In(wu[j], u) \/ (j = ucType[t] /\ u = t)
  BY <1>1, <1>3, <1>5, <1>7
<1>9. scan' \in [Lines -> Scan] /\ scan'["H"] = scan["H"]
  <2>1. scan \in [Lines -> Scan] /\ "I" \in Lines /\ "H" \in Lines /\ At("awake") \in Scan
    BY DEF IInv, TimerType, Lines, Scan, At
  <2>2. CASE HasWakeup(k)
    <3>1. scan' = [scan EXCEPT !["I"] = IF scan["I"].pc = "sleep" THEN At("awake") ELSE scan["I"]]
      BY <1>1, <2>2 DEF AddTimer, ITimerWakeup
    <3> QED BY <2>1, <3>1
  <2>3. CASE ~HasWakeup(k)
    BY <1>1, <2>1, <2>3 DEF AddTimer
  <2> QED BY <2>2, <2>3
<1>10. /\ Rested(wu["H"]) => Rested(wu'["H"])
       /\ MidScan(wu["H"]) => MidScan(wu'["H"])
       /\ Left(wu'["H"]) = IF IsH(t) THEN [Left(wu["H"]) EXCEPT ![t] = c] ELSE Left(wu["H"])
  <2>1. CASE k = "H"
    <3>1. ~proc
      BY <1>1, <1>2, <2>1
    <3> QED BY <1>1, <1>3, <1>5, <1>7, <2>1, <3>1 DEF IsH
  <2>2. CASE k # "H"
    BY <1>1, <1>7, <2>2 DEF IsH, Lines
  <2> QED BY <2>1, <2>2
<1>11. HScan'
  BY <1>9, <1>10, OutsideHScan
<1> QED BY <1>7, <1>8, <1>9, <1>10, <1>11 DEF Set

(* What a call that unlinks t leaves.                                        *)
Unset(t) ==
  /\ wu' \in [Lines -> Line] /\ LinesOK'
  /\ \A k \in Lines, u \in Timers : In(wu'[k], u) <=> In(wu[k], u) /\ u # t
  /\ HScan'
  /\ Left(wu'["H"]) = IF IsH(t) THEN [Left(wu["H"]) EXCEPT ![t] = -1] ELSE Left(wu["H"])

(* Stopping a timer takes it off its line and delays no other.               *)
LEMMA StopTimerUnsets ==
  ASSUME IInv, NEW t \in Timers, ucType[t] # "UNUSED", Running(t), StopTimer(t), UNCHANGED scan
  PROVE  Unset(t)
<1>0. t \in Nodes
  BY TimersAreNodes
<1>1. PICK k \in Lines : k = ucType[t] /\ \A j \in Lines : In(wu[j], t) => j = k
  BY KindOf
<1>2. PICK w : w = Unlinked(t)
  OBVIOUS
<1>3. /\ LineOK(w) /\ (\A m : In(w, m) <=> In(wu[k], m) /\ m # t)
      /\ k = "H" => /\ Left(w) = [Left(wu["H"]) EXCEPT ![t] = -1]
                    /\ Rested(wu["H"]) => Rested(w)
                    /\ MidScan(wu["H"]) => MidScan(w)
  BY <1>1, <1>2, UnlinkedFacts
<1>4. w \in Line /\ w.ctr \in [Nodes -> Nat]
  BY <1>3, LineParts DEF LineOK, Good
<1>5. PICK f \in [Nodes -> Nat] : f = [w.ctr EXCEPT ![t] = 0] /\ \A n \in Nodes : n # t => f[n] = w.ctr[n]
  BY <1>0, <1>4
<1>6. PICK v : v = [w EXCEPT !.ctr = f]
  OBVIOUS
<1>7. v \in Line /\ v.nodes = w.nodes /\ v.op = w.op /\ v.ctr = f
  BY <1>4, <1>6, LineExcept
<1>8. /\ LineOK(v) /\ (\A m : In(v, m) <=> In(w, m))
      /\ Left(v) = Left(w)
      /\ Rested(w) => Rested(v)
      /\ v.op = w.op /\ MidScan(w) => MidScan(v)
  <2>1. v.op # Null => In(w, v.op)
    BY <1>3, <1>7 DEF LineOK, Good
  <2>2. \A n \in Nodes : In(w, n) => v.ctr[n] = w.ctr[n]
    BY <1>3, <1>5, <1>7
  <2> QED BY <1>3, <1>7, <2>1, <2>2, SameLine
<1>9. wu' = [wu EXCEPT ![k] = v]
  BY <1>1, <1>2, <1>5, <1>6 DEF StopTimer
<1>10. /\ wu' \in [Lines -> Line] /\ LinesOK'
       /\ wu'[k] = v /\ \A j \in Lines : j # k => wu'[j] = wu[j]
  BY <1>8, <1>9, LineChange
<1>11. \A j \in Lines, u \in Timers : In(wu'[j], u) <=> In(wu[j], u) /\ u # t
  BY <1>1, <1>3, <1>8, <1>10
<1>12. /\ Rested(wu["H"]) => Rested(wu'["H"])
       /\ MidScan(wu["H"]) => MidScan(wu'["H"])
       /\ Left(wu'["H"]) = IF IsH(t) THEN [Left(wu["H"]) EXCEPT ![t] = -1] ELSE Left(wu["H"])
  <2>1. CASE k = "H"
    BY <1>1, <1>3, <1>7, <1>8, <1>10, <2>1 DEF IsH
  <2>2. CASE k # "H"
    BY <1>1, <1>10, <2>2 DEF IsH, Lines
  <2> QED BY <2>1, <2>2
<1>13. HScan'
  BY <1>12, OutsideHScan
<1> QED BY <1>10, <1>11, <1>12, <1>13 DEF Unset

(* The calls that change no line.                                            *)
LEMMA LinesUnchanged ==
  ASSUME IInv, UNCHANGED <<wu, scan>>
  PROVE  LinesOK' /\ HScan' /\ wu' \in [Lines -> Line] /\ scan' \in [Lines -> Scan]
<1>1. HScan'
  BY OutsideHScan
<1> QED BY <1>1 DEF IInv, LinesOK, TimerType

(* The parts of the invariant about the timers, from what a step does.       *)
LEMMA MembersAre ==
  ASSUME IInv,
         \A k \in Lines, t \in Timers : In(wu'[k], t) <=> ucType'[t] = k /\ ucStatus'[t] = "RUNNING"
  PROVE  Members'
  BY DEF Members, Running

-----------------------------------------------------------------------------
(* The calls keep the invariant.                                             *)

(* API_TimerCreate: a control block nobody uses is on no line.               *)
LEMMA CreateKeeps ==
  ASSUME IInv, NEW t \in Timers, NEW kind \in Kinds, TimerCreate(t, kind)
  PROVE  IInv'
<1> USE DEF TimerCreate
<1>1. LinesOK' /\ HScan' /\ wu' \in [Lines -> Line] /\ scan' \in [Lines -> Scan]
  BY LinesUnchanged
<1>2. TimerType'
  <2>1. 0 \in 0 .. MaxCount
    BY TimerAssumption
  <2> QED BY <1>1, <2>1 DEF IInv, TimerType
<1>3. ~Running(t) /\ ucType \in [Timers -> {"UNUSED"} \cup Kinds] /\ ucStatus \in [Timers -> {"STOP", "RUNNING"}]
      /\ ulCounterSave \in [Timers -> 0 .. MaxCount]
  BY DEF IInv, Started, TimerType
<1>4. Members'
  <2>1. ASSUME NEW k \in Lines, NEW u \in Timers
        PROVE  In(wu'[k], u) <=> ucType'[u] = k /\ ucStatus'[u] = "RUNNING"
    <3>1. In(wu[k], u) <=> ucType[u] = k /\ Running(u)
      BY DEF IInv, Members
    <3>2. CASE u = t
      <4>1. ~In(wu[k], u) /\ ucStatus'[u] = "STOP"
        BY <1>3, <3>1, <3>2
      <4> QED BY <4>1
    <3>3. CASE u # t
      BY <1>3, <3>1, <3>3 DEF Running
    <3> QED BY <3>2, <3>3
  <2> QED BY <2>1, MembersAre
<1>5. Started'
  BY <1>3 DEF IInv, Started, Running
<1> QED BY <1>1, <1>2, <1>4, <1>5 DEF IInv

(* API_TimerStartEx.                                                         *)
LEMMA StartKeeps ==
  ASSUME IInv, NEW t \in Timers, NEW a \in Starts, TimerStartEx(t, a.init, a.repeat, a.auto)
  PROVE  IInv' /\ Set(t, a.init) /\ a.init \in 1 .. MaxCount /\ a.repeat \in 1 .. MaxCount
         /\ a.auto \in BOOLEAN
<1>1. a.init \in 1 .. MaxCount /\ a.repeat \in 1 .. MaxCount /\ a.auto \in BOOLEAN
  BY TimerAssumption
<1>2. Set(t, a.init)
  <2>1. PICK w : w = IF Running(t) THEN Unlinked(t) ELSE wu[ucType[t]]
    OBVIOUS
  <2>2. PICK c \in 1 .. MaxCount : c = a.init
    BY <1>1
  <2>3. ucType[t] # "UNUSED" /\ AddTimer(t, w, c)
    BY <2>1, <2>2 DEF TimerStartEx
  <2>4. Set(t, c)
    BY <2>1, <2>3, AddTimerSets
  <2> QED BY <2>2, <2>4
<1>3. /\ ucType[t] # "UNUSED" /\ ucType' = ucType
      /\ ulCounterSave' = [ulCounterSave EXCEPT ![t] = a.repeat]
      /\ autoRestart' = [autoRestart EXCEPT ![t] = a.auto]
      /\ ucStatus' = [ucStatus EXCEPT ![t] = "RUNNING"]
      /\ UNCHANGED <<ulDelay, bNoTimer>>
  BY DEF TimerStartEx
<1>4. TimerType'
  <2>1. a.repeat \in 0 .. MaxCount
    BY <1>1, TimerAssumption
  <2> QED BY <1>1, <1>2, <1>3, <2>1 DEF IInv, TimerType, Set
<1>5. ucStatus \in [Timers -> {"STOP", "RUNNING"}] /\ ulCounterSave \in [Timers -> 0 .. MaxCount]
  BY DEF IInv, TimerType
<1>6. Members'
  <2>1. ASSUME NEW k \in Lines, NEW u \in Timers
        PROVE  In(wu'[k], u) <=> ucType'[u] = k /\ ucStatus'[u] = "RUNNING"
    <3>1. In(wu[k], u) <=> ucType[u] = k /\ Running(u)
      BY DEF IInv, Members
    <3>2. In(wu'[k], u) <=> In(wu[k], u) \/ (k = ucType[t] /\ u = t)
      BY <1>2 DEF Set
    <3> QED BY <1>3, <1>5, <3>1, <3>2 DEF Running
  <2> QED BY <2>1, MembersAre
<1>7. Started'
  <2>1. a.repeat > 0
    BY <1>1
  <2> QED BY <1>3, <1>5, <2>1 DEF IInv, Started, Running
<1> QED BY <1>1, <1>2, <1>4, <1>6, <1>7 DEF IInv, Set

(* API_TimerReset: the interval of a timer that runs is never 0.             *)
LEMMA ResetKeeps ==
  ASSUME IInv, NEW t \in Timers, TimerReset(t)
  PROVE  IInv' /\ Set(t, ulCounterSave[t])
<1>1. PICK c \in 1 .. MaxCount : c = ulCounterSave[t]
  <2>1. ulCounterSave[t] \in 0 .. MaxCount /\ ulCounterSave[t] > 0
    BY DEF IInv, TimerType, Started, TimerReset
  <2> QED BY <2>1, TimerAssumption
<1>2. Set(t, c)
  <2>1. PICK w : w = Unlinked(t)
    OBVIOUS
  <2>2. ucType[t] # "UNUSED" /\ Running(t) /\ AddTimer(t, w, c)
    BY <1>1, <2>1 DEF TimerReset
  <2> QED BY <2>1, <2>2, AddTimerSets
<1>3. UNCHANGED <<ucType, ucStatus, ulCounterSave, autoRestart, ulDelay, bNoTimer>> /\ Running(t)
  BY DEF TimerReset, tmrVars
<1>4. TimerType' /\ Started'
  BY <1>2, <1>3 DEF IInv, TimerType, Set, Started, Running
<1>5. Members'
  <2>1. ASSUME NEW k \in Lines, NEW u \in Timers
        PROVE  In(wu'[k], u) <=> ucType'[u] = k /\ ucStatus'[u] = "RUNNING"
    <3>1. In(wu[k], u) <=> ucType[u] = k /\ Running(u)
      BY DEF IInv, Members
    <3>2. In(wu'[k], u) <=> In(wu[k], u) \/ (k = ucType[t] /\ u = t)
      BY <1>2 DEF Set
    <3> QED BY <1>3, <3>1, <3>2 DEF Running
  <2> QED BY <2>1, MembersAre
<1> QED BY <1>1, <1>2, <1>4, <1>5 DEF IInv, Set

(* API_TimerCancel.                                                          *)
LEMMA CancelKeeps ==
  ASSUME IInv, NEW t \in Timers, TimerCancel(t)
  PROVE  IInv' /\ Unset(t)
<1>1. ucType[t] # "UNUSED" /\ Running(t) /\ StopTimer(t) /\ UNCHANGED scan
  BY DEF TimerCancel
<1>2. Unset(t)
  BY <1>1, StopTimerUnsets
<1>3. /\ UNCHANGED <<ucType, ulCounterSave, autoRestart, scan, ulDelay, bNoTimer>>
      /\ ucStatus' = [ucStatus EXCEPT ![t] = "STOP"]
  BY DEF TimerCancel, StopTimer
<1>4. ucStatus \in [Timers -> {"STOP", "RUNNING"}]
  BY DEF IInv, TimerType
<1>5. TimerType' /\ Started'
  BY <1>2, <1>3, <1>4 DEF IInv, TimerType, Unset, Started, Running
<1>6. Members'
  <2>1. ASSUME NEW k \in Lines, NEW u \in Timers
        PROVE  In(wu'[k], u) <=> ucType'[u] = k /\ ucStatus'[u] = "RUNNING"
    <3>1. In(wu[k], u) <=> ucType[u] = k /\ Running(u)
      BY DEF IInv, Members
    <3>2. In(wu'[k], u) <=> In(wu[k], u) /\ u # t
      BY <1>2 DEF Unset
    <3> QED BY <1>3, <1>4, <3>1, <3>2 DEF Running
  <2> QED BY <2>1, MembersAre
<1> QED BY <1>2, <1>5, <1>6 DEF IInv, Unset

(* API_TimerDelete: a timer that runs is unlinked before its block is free.  *)
LEMMA DeleteKeeps ==
  ASSUME IInv, NEW t \in Timers, TimerDelete(t)
  PROVE  /\ IInv'
         /\ Left(wu'["H"]) = IF IsH(t) THEN [Left(wu["H"]) EXCEPT ![t] = -1] ELSE Left(wu["H"])
<1>1. /\ ucType[t] # "UNUSED" /\ ucType' = [ucType EXCEPT ![t] = "UNUSED"]
      /\ UNCHANGED <<ulCounterSave, autoRestart, scan, ulDelay, bNoTimer>>
  BY DEF TimerDelete
<1>2. ucStatus \in [Timers -> {"STOP", "RUNNING"}] /\ ucType \in [Timers -> {"UNUSED"} \cup Kinds]
  BY DEF IInv, TimerType
<1>3. /\ Unset(t) /\ ucStatus' \in [Timers -> {"STOP", "RUNNING"}]
      /\ ucStatus'[t] # "RUNNING" /\ \A u \in Timers : u # t => ucStatus'[u] = ucStatus[u]
  <2>1. CASE Running(t)
    <3>1. StopTimer(t)
      BY <2>1 DEF TimerDelete
    <3>2. Unset(t)
      BY <1>1, <2>1, <3>1, StopTimerUnsets
    <3> QED BY <1>2, <3>1, <3>2 DEF StopTimer
  <2>2. CASE ~Running(t)
    <3>1. UNCHANGED <<ucStatus, wu>>
      BY <2>2 DEF TimerDelete
    <3>2. LinesOK' /\ HScan' /\ wu' \in [Lines -> Line]
      BY <1>1, <3>1, LinesUnchanged
    <3>3. \A k \in Lines : ~In(wu[k], t)
      BY <2>2 DEF IInv, Members
    <3>4. "H" \in Lines /\ [Left(wu["H"]) EXCEPT ![t] = -1] = Left(wu["H"])
      BY <3>3 DEF Left, Lines
    <3>5. Unset(t)
      BY <3>1, <3>2, <3>3, <3>4 DEF Unset
    <3> QED BY <1>2, <2>2, <3>1, <3>5 DEF Running
  <2> QED BY <2>1, <2>2
<1>4. TimerType' /\ Started'
  BY <1>1, <1>2, <1>3 DEF IInv, TimerType, Unset, Started, Running
<1>5. Members'
  <2>1. ASSUME NEW k \in Lines, NEW u \in Timers
        PROVE  In(wu'[k], u) <=> ucType'[u] = k /\ ucStatus'[u] = "RUNNING"
    <3>1. In(wu[k], u) <=> ucType[u] = k /\ Running(u)
      BY DEF IInv, Members
    <3>2. In(wu'[k], u) <=> In(wu[k], u) /\ u # t
      BY <1>3 DEF Unset
    <3> QED BY <1>1, <1>2, <1>3, <3>1, <3>2 DEF Running
  <2> QED BY <2>1, MembersAre
<1> QED BY <1>3, <1>4, <1>5 DEF IInv, Unset

-----------------------------------------------------------------------------
(* The scans keep the invariant.                                             *)

(* What FireTimer leaves of a line w whose cursor is at a node that is due.  *)
Fired(k, w, v) ==
  /\ LineOK(v) /\ wu' = [wu EXCEPT ![k] = v]
  /\ \A m : In(v, m) <=> In(w, m) /\ (m = w.op => autoRestart[w.op])
  /\ w.op = First(w) => MidScan(v)
  /\ Left(v) = [Left(TakeDue(w)) EXCEPT ![w.op] = IF autoRestart[w.op] THEN ulCounterSave[w.op] ELSE -1]
  /\ Stepped(w, TakeDue(w)) /\ TakeDue(w).ctr[w.op] = 0

(* A due timer leaves the line, or is linked in again to wait its interval.  *)
LEMMA FireLeaves ==
  ASSUME IInv, NEW k \in Lines, NEW w, LineOK(w), \A m \in Timers : In(w, m) => In(wu[k], m),
         w.op # Null, NEW c, FireTimer(k, w, c)
  PROVE  \E v : Fired(k, w, v)
<1>0. PICK t \in Timers : /\ t = w.op /\ In(w, t) /\ Running(t) /\ ucType[t] = k
                          /\ ulCounterSave[t] \in 1 .. MaxCount /\ autoRestart[t] \in BOOLEAN
  <2>1. w.op \in Timers /\ In(w, w.op)
    BY TimersAreNodes, WaitIsNat DEF LineOK, Good
  <2>2. Running(w.op) /\ ucType[w.op] = k
    BY <2>1 DEF IInv, Members
  <2>3. ulCounterSave[w.op] \in 0 .. MaxCount /\ ulCounterSave[w.op] > 0 /\ autoRestart[w.op] \in BOOLEAN
    BY <2>1, <2>2 DEF IInv, TimerType, Started
  <2>4. ulCounterSave[w.op] \in 1 .. MaxCount
    BY <2>3, TimerAssumption
  <2> QED BY <2>1, <2>2, <2>3, <2>4
<1>1. PICK no \in BOOLEAN : ~no
  OBVIOUS
<1>2. PICK u : u = TakeDue(w)
  OBVIOUS
<1>3. PICK gone : gone = WakeupDel(u, w.op, no)
  OBVIOUS
<1>4. /\ LineOK(gone) /\ (\A m : In(gone, m) <=> In(w, m) /\ m # w.op)
      /\ w.op \in Nodes
      /\ Stepped(w, u) /\ u.ctr[w.op] = 0
      /\ Left(gone) = [Left(u) EXCEPT ![w.op] = -1]
      /\ w.op = First(w) => MidScan(gone)
  BY <1>1, <1>2, <1>3, TakeDueLine
<1>5. gone = WakeupDel(TakeDue(w), w.op, FALSE)
  BY <1>1, <1>2, <1>3
<1>6. CASE autoRestart[t]
  <2>1. PICK v : v = WakeupAdd(gone, t, ulCounterSave[t], no)
    OBVIOUS
  <2>2. v = WakeupAdd(gone, t, ulCounterSave[t], FALSE)
    BY <1>1, <2>1
  <2>3. wu' = [wu EXCEPT ![k] = v]
    BY <1>0, <1>5, <1>6, <2>2 DEF FireTimer
  <2>4. PICK s \in 1 .. MaxCount : s = ulCounterSave[t]
    BY <1>0
  <2>5. ~In(gone, t) /\ t \in Nodes /\ v = WakeupAdd(gone, t, s, no)
    BY <1>0, <1>4, <2>1, <2>4
  <2>6. /\ LineOK(v) /\ (\A m : In(v, m) <=> In(gone, m) \/ m = t)
        /\ Left(v) = [Left(gone) EXCEPT ![t] = s]
        /\ MidScan(gone) => MidScan(v)
    <3>1. LineOK(gone)
      BY <1>4
    <3>2. /\ LineOK(v) /\ (\A m : In(v, m) <=> In(gone, m) \/ m = t)
          /\ ~no => /\ Left(v) = [Left(gone) EXCEPT ![t] = s]
                    /\ Rested(gone) => Rested(v)
                    /\ MidScan(gone) => MidScan(v)
      BY ONLY <3>1, <2>5, s \in 1 .. MaxCount, no \in BOOLEAN, AddKeeps
    <3> QED BY <1>1, <3>2
  <2>7. Left(v) = [Left(u) EXCEPT ![t] = s]
    <3>1. [[Left(u) EXCEPT ![t] = -1] EXCEPT ![t] = s] = [Left(u) EXCEPT ![t] = s]
      BY <2>5 DEF Left
    <3> QED BY <1>0, <1>4, <2>6, <3>1
  <2> QED BY <1>0, <1>2, <1>4, <1>6, <2>3, <2>4, <2>6, <2>7 DEF Fired
<1>7. CASE ~autoRestart[t]
  <2>1. wu' = [wu EXCEPT ![k] = gone]
    BY <1>0, <1>5, <1>7 DEF FireTimer
  <2> QED BY <1>0, <1>2, <1>4, <1>7, <2>1 DEF Fired
<1> QED BY <1>6, <1>7

(* The state of a scan after a step of it.                                   *)
LEMMA ScanTyped ==
  ASSUME IInv, NEW k \in Lines, NEW s \in Scan, scan' = [scan EXCEPT ![k] = s]
  PROVE  scan' \in [Lines -> Scan] /\ scan'[k] = s /\ \A j \in Lines : j # k => scan'[j] = scan[j]
  BY DEF IInv, TimerType

(* Where the two scans are between ticks.                                    *)
LEMMA RestIsScan ==
  ASSUME NEW k \in Lines
  PROVE  ScanRests[k] \in Scan /\ ScanRests["H"] = [pc |-> "idle", t |-> Null, ulCounter |-> 0]
  BY DEF ScanRests, Scan, At, Lines

(* A step of a scan, but for the state of the high-speed scan.               *)
LEMMA ScanKeeps ==
  ASSUME IInv, NEW k \in Lines, NEW w, LineOK(w), \A m \in Timers : In(w, m) <=> In(wu[k], m),
         NEW c \in Nat, ScanFrom(k, w, c)
  PROVE  /\ TimerType' /\ LinesOK' /\ Members' /\ Started'
         /\ \A j \in Lines : j # k => wu'[j] = wu[j] /\ scan'[j] = scan[j]
<1>0. UNCHANGED <<ucType, ulCounterSave, autoRestart, ulDelay, bNoTimer>>
  BY DEF ScanFrom
<1>1. /\ ucStatus \in [Timers -> {"STOP", "RUNNING"}] /\ autoRestart \in [Timers -> BOOLEAN]
      /\ \A j \in Lines, u \in Timers : In(wu[j], u) <=> ucType[u] = j /\ Running(u)
  BY DEF IInv, TimerType, Members
<1>2. CASE ScanDue(w, c) /\ FireTimer(k, w, c)
  <2>1. w.op # Null /\ w.ctr[w.op] =< c
    BY <1>2 DEF ScanDue
  <2>2. PICK v : Fired(k, w, v)
    BY <1>2, <2>1, FireLeaves
  <2>3. /\ wu' \in [Lines -> Line] /\ LinesOK'
        /\ wu'[k] = v /\ \A j \in Lines : j # k => wu'[j] = wu[j]
    BY <2>2, LineChange DEF Fired
  <2>4. w.op \in Timers /\ In(w, w.op) /\ w.ctr[w.op] \in Nat
    BY <2>1, TimersAreNodes, WaitIsNat DEF LineOK, Good
  <2>5. PICK s \in Scan : s = [pc |-> "call", t |-> w.op, ulCounter |-> c - w.ctr[w.op]]
    <3>1. PICK n \in Nat : n = c - w.ctr[w.op]
      BY <2>1, <2>4
    <3>2. [pc |-> "call", t |-> w.op, ulCounter |-> n] \in Scan
      BY <2>4 DEF Scan
    <3> QED BY <3>1, <3>2
  <2>6. scan' \in [Lines -> Scan] /\ \A j \in Lines : j # k => scan'[j] = scan[j]
    <3>1. scan' = [scan EXCEPT ![k] = s]
      BY <1>2, <2>5 DEF FireTimer
    <3> QED BY <3>1, ScanTyped
  <2>7. ucStatus' = IF autoRestart[w.op] THEN ucStatus ELSE [ucStatus EXCEPT ![w.op] = "STOP"]
    BY <1>2 DEF FireTimer
  <2>8. TimerType' /\ Started'
    BY <1>0, <1>1, <2>3, <2>6, <2>7 DEF IInv, TimerType, Started, Running
  <2>9. Members'
    <3>1. ASSUME NEW j \in Lines, NEW u \in Timers
          PROVE  In(wu'[j], u) <=> ucType'[u] = j /\ ucStatus'[u] = "RUNNING"
      <4>0. ucType[w.op] = k
        BY <1>1, <2>4
      <4>1. CASE j = k
        <5>1. In(wu'[j], u) <=> In(wu[k], u) /\ (u = w.op => autoRestart[w.op])
          BY <2>2, <2>3, <4>1 DEF Fired
        <5>2. CASE u = w.op
          BY <1>0, <1>1, <2>4, <2>7, <4>1, <5>1, <5>2 DEF Running
        <5>3. CASE u # w.op
          BY <1>0, <1>1, <2>4, <2>7, <4>1, <5>1, <5>3 DEF Running
        <5> QED BY <5>2, <5>3
      <4>2. CASE j # k
        <5>1. In(wu'[j], u) <=> In(wu[j], u)
          BY <2>3, <4>2
        <5>2. CASE u = w.op
          BY <1>0, <1>1, <2>4, <4>0, <4>2, <5>1, <5>2
        <5>3. CASE u # w.op
          BY <1>0, <1>1, <2>4, <2>7, <5>1, <5>3 DEF Running
        <5> QED BY <5>2, <5>3
      <4> QED BY <4>1, <4>2
    <3> QED BY <3>1, MembersAre
  <2> QED BY <2>3, <2>6, <2>8, <2>9
<1>3. ASSUME NEW v, LineOK(v), \A m : In(v, m) <=> In(w, m), wu' = [wu EXCEPT ![k] = v],
             scan' = [scan EXCEPT ![k] = ScanRests[k]], UNCHANGED ucStatus
      PROVE  /\ TimerType' /\ LinesOK' /\ Members' /\ Started'
             /\ \A j \in Lines : j # k => wu'[j] = wu[j] /\ scan'[j] = scan[j]
  <2>1. /\ wu' \in [Lines -> Line] /\ LinesOK'
        /\ wu'[k] = v /\ \A j \in Lines : j # k => wu'[j] = wu[j]
    BY <1>3, LineChange
  <2>2. scan' \in [Lines -> Scan] /\ \A j \in Lines : j # k => scan'[j] = scan[j]
    BY <1>3, RestIsScan, ScanTyped
  <2>3. TimerType' /\ Started'
    BY <1>0, <1>3, <2>1, <2>2 DEF IInv, TimerType, Started, Running
  <2>4. Members'
    <3>1. ASSUME NEW j \in Lines, NEW u \in Timers
          PROVE  In(wu'[j], u) <=> ucType'[u] = j /\ ucStatus'[u] = "RUNNING"
      <4>1. In(wu'[j], u) <=> In(wu[j], u)
        BY <1>3, <2>1
      <4> QED BY <1>0, <1>1, <1>3, <4>1 DEF Running
    <3> QED BY <3>1, MembersAre
  <2> QED BY <2>1, <2>2, <2>3, <2>4
<1>4. CASE ScanStops(w, c) /\ wu' = [wu EXCEPT ![k] = StopScan(w, c)]
           /\ scan' = [scan EXCEPT ![k] = ScanRests[k]] /\ UNCHANGED ucStatus
  <2>1. PICK v : v = StopScan(w, c)
    OBVIOUS
  <2>2. Stepped(w, v) /\ w.op # Null
    BY <1>4, <2>1, StopParts
  <2>3. LineOK(v) /\ \A m : In(v, m) <=> In(w, m)
    BY <2>2, StepKeeps
  <2> QED BY <1>3, <1>4, <2>1, <2>3
<1>5. CASE ScanOver(w) /\ wu' = [wu EXCEPT ![k] = w]
           /\ scan' = [scan EXCEPT ![k] = ScanRests[k]] /\ UNCHANGED ucStatus
  BY <1>3, <1>5
<1> QED BY <1>2, <1>4, <1>5 DEF ScanFrom

(* The time left once c, one tick or none, has gone by.                      *)
After(c, f) == IF c = 1 THEN Down(f) ELSE f

(* Where a scan of the high-speed line goes on: at the first node with its   *)
(* tick to apply, or further on with nothing to apply.                       *)
HFrom(w, c) ==
  \/ c = 1 /\ w.op = First(w) /\ Rested(w)
  \/ c = 0 /\ MidScan(w)

(* What a step of it leaves.                                                 *)
HStepped(w, c) ==
  \/ /\ wu'["H"] \in Line /\ Rested(wu'["H"]) /\ scan'["H"] = ScanRests["H"]
     /\ Left(wu'["H"]) = After(c, Left(w))
  \/ \E t \in Timers :
       /\ In(w, t) /\ MidScan(wu'["H"])
       /\ scan'["H"] = [pc |-> "call", t |-> t, ulCounter |-> 0]
       /\ After(c, Left(w))[t] = 0
       /\ Left(wu'["H"]) = [After(c, Left(w)) EXCEPT
                              ![t] = IF autoRestart[t] THEN ulCounterSave[t] ELSE -1]

(* A node that is due on the high-speed line is the first one, and due now.  *)
LEMMA HDue ==
  ASSUME NEW w, LineOK(w), NEW c \in Nat, HFrom(w, c), w.op # Null, w.ctr[w.op] =< c
  PROVE  w.op = First(w) /\ w.ctr[w.op] = c
<1>1. Good(w) /\ w.ctr[w.op] \in Nat
  BY WaitIsNat DEF LineOK, Good
<1>2. CASE c = 1 /\ w.op = First(w) /\ Rested(w)
  <2>1. Len(w.nodes) # 0
    BY <1>1, <1>2, FirstIs
  <2>2. In(w, w.op) /\ Wait(w, w.op) = w.ctr[w.op] /\ w.op \in Nodes
    BY <1>1, <1>2, <2>1, FirstIs, WaitIsNat
  <2>3. Wait(w, w.op) > 0
    BY <1>2, <2>2 DEF Rested
  <2>4. w.ctr[w.op] > 0 /\ w.ctr[w.op] =< 1
    BY <1>2, <2>2, <2>3
  <2> QED BY <1>1, <1>2, <2>4
<1>3. CASE c = 0 /\ MidScan(w)
  <2>1. w.ctr[w.op] = 0
    BY <1>1, <1>3
  <2>2. w.op = First(w)
    BY <1>3, <2>1 DEF MidScan
  <2> QED BY <1>3, <2>1, <2>2
<1> QED BY <1>2, <1>3 DEF HFrom

(* The step from w to a line with c taken off the first node.                *)
LEMMA HTakesOff ==
  ASSUME NEW w, LineOK(w), NEW c \in Nat, HFrom(w, c), w.op # Null, c =< w.ctr[w.op],
         NEW u, Stepped(w, u), u.ctr[w.op] = w.ctr[w.op] - c
  PROVE  Left(u) = After(c, Left(w))
<1>1. Good(w) /\ w.ctr[w.op] \in Nat /\ w.op \in Nodes
  BY WaitIsNat DEF LineOK, Good
<1>2. CASE c = 1 /\ w.op = First(w) /\ Rested(w)
  <2>1. w.ctr[w.op] > 0 /\ u.ctr[w.op] = w.ctr[w.op] - 1
    BY <1>1, <1>2
  <2>2. Left(u) = Down(Left(w))
    BY <1>2, <2>1, TickLeft
  <2> QED BY <1>2, <2>2 DEF After
<1>3. CASE c = 0 /\ MidScan(w)
  <2>1. u.ctr[w.op] = w.ctr[w.op]
    BY <1>1, <1>3
  <2>2. \A n \in Nodes : u.ctr[n] = w.ctr[n]
    BY <2>1 DEF Stepped
  <2>3. LineOK(u) /\ (\A m : In(u, m) <=> In(w, m)) /\ u \in Line /\ u.nodes = w.nodes
    BY StepKeeps DEF Stepped
  <2>4. u.op # Null => In(w, u.op)
    BY <2>3 DEF LineOK, Good
  <2>5. Left(u) = Left(w)
    BY <2>2, <2>3, <2>4, SameLine
  <2> QED BY <1>3, <2>5 DEF After
<1> QED BY <1>2, <1>3 DEF HFrom

(* A step of the high-speed scan that finds a due timer.                     *)
LEMMA HFires ==
  ASSUME IInv, NEW w, LineOK(w), \A m \in Timers : In(w, m) <=> In(wu["H"], m),
         NEW c \in Nat, HFrom(w, c), ScanDue(w, c), FireTimer("H", w, c)
  PROVE  HStepped(w, c)
<1>0. w.op # Null /\ w.ctr[w.op] =< c /\ "H" \in Lines
  BY DEF ScanDue, Lines
<1>1. w.op = First(w) /\ w.ctr[w.op] = c
  BY <1>0, HDue
<1>2. w.op \in Timers /\ w.op \in Nodes /\ In(w, w.op)
  BY <1>0, WaitIsNat, TimersAreNodes DEF LineOK, Good
<1>3. PICK v : Fired("H", w, v)
  BY <1>0, FireLeaves
<1>4. wu'["H"] = v
  BY <1>0, <1>3, LineChange DEF Fired
<1>5. PICK u : u = TakeDue(w)
  OBVIOUS
<1>6. Stepped(w, u) /\ u.ctr[w.op] = 0
  BY <1>3, <1>5 DEF Fired
<1>7. Left(u) = After(c, Left(w))
  <2>1. u.ctr[w.op] = w.ctr[w.op] - c /\ c =< w.ctr[w.op]
    BY <1>1, <1>6
  <2> QED BY <1>0, <1>6, <2>1, HTakesOff
<1>8. /\ MidScan(v)
      /\ Left(v) = [After(c, Left(w)) EXCEPT
                      ![w.op] = IF autoRestart[w.op] THEN ulCounterSave[w.op] ELSE -1]
  BY <1>1, <1>3, <1>5, <1>7 DEF Fired
<1>9. After(c, Left(w))[w.op] = 0
  <2>1. LineOK(u) /\ In(u, w.op) /\ First(u) = First(w)
    BY <1>0, <1>2, <1>6, StepKeeps
  <2>2. Wait(u, w.op) = 0
    <3>1. Good(u) /\ Len(u.nodes) # 0
      BY <1>0, <1>1, <2>1, FirstIs DEF LineOK
    <3>2. Wait(u, w.op) = u.ctr[w.op]
      BY <1>1, <2>1, <3>1, FirstIs
    <3> QED BY <1>6, <3>2
  <2> QED BY <1>2, <1>7, <2>1, <2>2 DEF Left
<1>10. scan'["H"] = [pc |-> "call", t |-> w.op, ulCounter |-> 0]
  <2>1. c - w.ctr[w.op] = 0
    BY <1>1
  <2>2. scan' = [scan EXCEPT !["H"] = [pc |-> "call", t |-> w.op, ulCounter |-> 0]]
    BY <2>1 DEF FireTimer
  <2> QED BY <1>0, <2>2 DEF IInv, TimerType
<1> QED BY <1>2, <1>4, <1>8, <1>9, <1>10 DEF HStepped

(* A step of it that ends at a timer that is not due.                        *)
LEMMA HStops ==
  ASSUME IInv, NEW w, LineOK(w), NEW c \in Nat, HFrom(w, c), ScanStops(w, c),
         wu' = [wu EXCEPT !["H"] = StopScan(w, c)],
         scan' = [scan EXCEPT !["H"] = ScanRests["H"]]
  PROVE  HStepped(w, c)
<1>0. "H" \in Lines /\ Good(w)
  BY DEF Lines, LineOK
<1>1. PICK v : v = StopScan(w, c)
  OBVIOUS
<1>2. /\ Stepped(w, v) /\ w.op # Null /\ v.ctr[w.op] = w.ctr[w.op] - c
      /\ v.ctr[w.op] \in Nat /\ v.ctr[w.op] > 0
  BY <1>1, StopParts
<1>3. /\ LineOK(v) /\ Good(v) /\ v \in Line /\ (\A m : In(v, m) <=> In(w, m))
      /\ First(v) = First(w)
  BY <1>2, StepKeeps DEF LineOK, Good
<1>4. w.ctr[w.op] \in Nat /\ c =< w.ctr[w.op]
  BY <1>0, WaitIsNat DEF ScanStops, Good
<1>5. Left(v) = After(c, Left(w))
  BY <1>2, <1>4, HTakesOff
<1>6. ASSUME NEW n \in Nodes, In(v, n) PROVE Wait(v, n) > 0
  <2>1. Wait(v, n) \in Nat /\ Len(v.nodes) # 0
    BY <1>3, <1>6, WaitIsNat, FirstIs
  <2>2. CASE w.op = First(w)
    <3>1. v.ctr[w.op] =< Wait(v, n)
      BY <1>3, <1>6, <2>1, <2>2, FirstIs
    <3> QED BY <1>2, <2>1, <3>1
  <2>3. CASE w.op # First(w)
    <3>1. c = 0 /\ MidScan(w)
      BY <2>3 DEF HFrom
    <3>2. In(w, n) /\ Wait(w, n) # 0
      BY <1>3, <1>6, <2>3, <3>1 DEF MidScan
    <3>3. Wait(v, n) = Wait(w, n)
      <4>1. Left(v)[n] = Left(w)[n]
        BY <1>5, <3>1 DEF After
      <4> QED BY <1>6, <3>2, <4>1 DEF Left
    <3> QED BY <2>1, <3>2, <3>3
  <2> QED BY <2>2, <2>3
<1>7. wu'["H"] = v /\ scan'["H"] = ScanRests["H"]
  BY <1>0, <1>1 DEF IInv, TimerType
<1> QED BY <1>3, <1>5, <1>6, <1>7 DEF HStepped, Rested

(* A step of it that ends behind the last timer.                             *)
LEMMA HOver ==
  ASSUME IInv, NEW w, LineOK(w), NEW c \in Nat, HFrom(w, c), ScanOver(w),
         wu' = [wu EXCEPT !["H"] = w],
         scan' = [scan EXCEPT !["H"] = ScanRests["H"]]
  PROVE  HStepped(w, c)
<1>0. "H" \in Lines /\ Good(w) /\ w.op = Null /\ w \in Line
  BY DEF Lines, LineOK, ScanOver, Good
<1>1. wu'["H"] = w /\ scan'["H"] = ScanRests["H"]
  BY <1>0 DEF IInv, TimerType
<1>2. CASE c = 1 /\ w.op = First(w) /\ Rested(w)
  <2>1. \A n : ~In(w, n)
    BY <1>0, <1>2, FirstIs
  <2>2. Left(w) = Down(Left(w))
    BY <2>1 DEF Left, Down
  <2> QED BY <1>0, <1>1, <1>2, <2>2 DEF HStepped, After
<1>3. CASE c = 0 /\ MidScan(w)
  <2>1. ASSUME NEW n \in Nodes, In(w, n) PROVE Wait(w, n) > 0
    <3>1. First(w) # Null /\ Wait(w, n) \in Nat
      BY <1>0, <2>1, FirstIs, WaitIsNat
    <3>2. Wait(w, n) # 0
      BY <1>0, <1>3, <2>1, <3>1 DEF MidScan
    <3> QED BY <3>1, <3>2
  <2>2. Left(w) = After(c, Left(w))
    BY <1>3 DEF After
  <2> QED BY <1>0, <1>1, <2>1, <2>2 DEF HStepped, Rested
<1> QED BY <1>2, <1>3 DEF HFrom

(* A step of the high-speed scan keeps the invariant.                        *)
LEMMA HScanKeeps ==
  ASSUME IInv, NEW w, LineOK(w), \A m \in Timers : In(w, m) <=> In(wu["H"], m),
         NEW c \in Nat, HFrom(w, c), ScanFrom("H", w, c)
  PROVE  IInv' /\ HStepped(w, c)
<1>1. HStepped(w, c)
  BY HFires, HStops, HOver DEF ScanFrom
<1>2. TimerType' /\ LinesOK' /\ Members' /\ Started'
  <2>1. "H" \in Lines
    BY DEF Lines
  <2> QED BY <2>1, ScanKeeps
<1>3. HScan'
  <2>1. CASE Rested(wu'["H"]) /\ scan'["H"] = ScanRests["H"]
    <3>1. scan'["H"] = [pc |-> "idle", t |-> Null, ulCounter |-> 0]
      BY <2>1 DEF ScanRests, At, Lines
    <3> QED BY <2>1, <3>1 DEF HScan
  <2>2. CASE MidScan(wu'["H"]) /\ \E t \in Timers : scan'["H"] = [pc |-> "call", t |-> t, ulCounter |-> 0]
    BY <2>2, TimersAreNodes DEF HScan
  <2> QED BY <1>1, <2>1, <2>2 DEF HStepped
<1> QED BY <1>1, <1>2, <1>3 DEF IInv

(* A line with its cursor at the first node.                                 *)
LEMMA HeaderLine ==
  ASSUME NEW w, LineOK(w), NEW v, v = FromHeader(w)
  PROVE  /\ LineOK(v) /\ (\A m : In(v, m) <=> In(w, m))
         /\ Left(v) = Left(w) /\ v.op = First(v)
         /\ Rested(w) => Rested(v)
<1>0. Good(w) /\ w \in Line
  BY DEF LineOK, Good
<1>1. First(w) \in Nodes \cup {Null} /\ (First(w) # Null => In(w, First(w)))
  <2>1. PICK l \in Nat : l = Len(w.nodes)
    BY <1>0, LineParts
  <2> QED BY <1>0, <2>1, FirstIs, InIs
<1>2. v \in Line /\ v.nodes = w.nodes /\ v.ctr = w.ctr /\ v.op = First(w)
  BY <1>0, <1>1, LineExcept DEF FromHeader
<1>3. First(v) = First(w)
  BY <1>2 DEF First
<1> QED BY <1>1, <1>2, <1>3, SameLine

(* A line with another time since its last scan.                             *)
LEMMA ElapsedLine ==
  ASSUME NEW w, LineOK(w), NEW e \in Nat, NEW v, v = [w EXCEPT !.elapsed = e]
  PROVE  LineOK(v) /\ (\A m : In(v, m) <=> In(w, m))
<1>1. Good(w) /\ w \in Line
  BY DEF LineOK, Good
<1>2. v \in Line /\ v.nodes = w.nodes /\ v.ctr = w.ctr /\ v.op = w.op
  BY <1>1, LineExcept
<1> QED BY <1>1, <1>2, SameLine DEF Good

(* A step of the timer thread's line alone.                                  *)
LEMMA IStep ==
  ASSUME IInv, NEW v, LineOK(v), \A m : In(v, m) <=> In(wu["I"], m),
         wu' = [wu EXCEPT !["I"] = v], NEW s \in Scan, scan' = [scan EXCEPT !["I"] = s],
         UNCHANGED tmrVars, ulDelay' \in 0 .. MaxCount + IdleTicks, bNoTimer' \in BOOLEAN
  PROVE  IInv' /\ wu'["H"] = wu["H"] /\ scan'["H"] = scan["H"]
<1>0. "I" \in Lines /\ "H" \in Lines
  BY DEF Lines
<1>1. /\ wu' \in [Lines -> Line] /\ LinesOK'
      /\ wu'["I"] = v /\ \A j \in Lines : j # "I" => wu'[j] = wu[j]
  BY <1>0, LineChange
<1>2. scan' \in [Lines -> Scan] /\ \A j \in Lines : j # "I" => scan'[j] = scan[j]
  BY <1>0, ScanTyped
<1>3. HScan'
  BY <1>0, <1>1, <1>2, OutsideHScan
<1>4. TimerType' /\ Started'
  BY <1>1, <1>2 DEF IInv, TimerType, Started, Running, tmrVars
<1>5. Members'
  <2>1. ASSUME NEW j \in Lines, NEW u \in Timers
        PROVE  In(wu'[j], u) <=> ucType'[u] = j /\ ucStatus'[u] = "RUNNING"
    <3>1. In(wu[j], u) <=> ucType[u] = j /\ Running(u)
      BY DEF IInv, Members
    <3>2. In(wu'[j], u) <=> In(wu[j], u)
      BY <1>1
    <3> QED BY <3>1, <3>2 DEF Running, tmrVars
  <2> QED BY <2>1, MembersAre
<1> QED BY <1>0, <1>1, <1>2, <1>3, <1>4, <1>5 DEF IInv

(* A place outside the calls of routines.                                    *)
LEMMA AtIsScan ==
  ASSUME NEW pc \in {"idle", "loop", "sleep", "awake", "call", "window"}
  PROVE  At(pc) \in Scan
  BY DEF At, Scan

(* What the invariant says of the two lines, by their names.                 *)
LEMMA ILine ==
  ASSUME IInv
  PROVE  LineOK(wu["I"]) /\ LineOK(wu["H"]) /\ wu["I"].elapsed \in Nat /\ scan["I"] \in Scan
         /\ scan["H"] \in Scan /\ "I" \in Lines /\ "H" \in Lines /\ wu \in [Lines -> Line]
         /\ scan \in [Lines -> Scan]
<1>1. "I" \in Lines /\ "H" \in Lines
  BY DEF Lines
<1>2. wu["I"] \in Line
  BY <1>1 DEF IInv, TimerType
<1> QED BY <1>1, <1>2, LineParts DEF IInv, LinesOK, TimerType

(* API_TimerHTicks starts at the header with one tick to apply, and nobody   *)
(* is due from before.                                                       *)
LEMMA HTicksKeeps ==
  ASSUME IInv, HTicks
  PROVE  \E w : /\ w = FromHeader(wu["H"]) /\ LineOK(w) /\ Left(w) = Left(wu["H"])
                /\ Rested(wu["H"]) /\ IInv' /\ HStepped(w, 1)
                /\ \A m : In(w, m) <=> In(wu["H"], m)
<1>1. PICK w : w = FromHeader(wu["H"])
  OBVIOUS
<1>2. Rested(wu["H"])
  BY DEF IInv, HScan, HTicks
<1>3. /\ LineOK(w) /\ (\A m : In(w, m) <=> In(wu["H"], m))
      /\ Left(w) = Left(wu["H"]) /\ w.op = First(w) /\ Rested(w)
  BY <1>1, <1>2, ILine, HeaderLine
<1>4. PICK c \in Nat : c = 1
  OBVIOUS
<1>5. HFrom(w, c) /\ ScanFrom("H", w, c)
  BY <1>1, <1>3, <1>4 DEF HFrom, HTicks
<1>6. IInv' /\ HStepped(w, c)
  BY <1>3, <1>5, HScanKeeps
<1> QED BY <1>1, <1>2, <1>3, <1>4, <1>6

(* The high-speed scan goes on behind a routine with nothing left to apply,  *)
(* whatever the routine did to the line.                                     *)
LEMMA HNextKeeps ==
  ASSUME IInv, ScanNext("H")
  PROVE  IInv' /\ HStepped(wu["H"], 0)
<1>1. scan["H"].ulCounter = 0 /\ MidScan(wu["H"])
  BY DEF IInv, HScan, ScanNext
<1>2. PICK c \in Nat : c = 0
  OBVIOUS
<1>3. PICK w : w = wu["H"]
  OBVIOUS
<1>4. LineOK(w) /\ (\A m \in Timers : In(w, m) <=> In(wu["H"], m)) /\ HFrom(w, c) /\ ScanFrom("H", w, c)
  BY <1>1, <1>2, <1>3, ILine DEF HFrom, ScanNext
<1>5. IInv' /\ HStepped(w, c)
  BY <1>4, HScanKeeps
<1> QED BY <1>2, <1>3, <1>5

(* A step of the timer thread's scan.                                        *)
LEMMA IScanKeeps ==
  ASSUME IInv, NEW w, LineOK(w), \A m \in Timers : In(w, m) <=> In(wu["I"], m),
         NEW c \in Nat, ScanFrom("I", w, c)
  PROVE  IInv' /\ wu'["H"] = wu["H"] /\ scan'["H"] = scan["H"]
<1>1. /\ TimerType' /\ LinesOK' /\ Members' /\ Started'
      /\ \A j \in Lines : j # "I" => wu'[j] = wu[j] /\ scan'[j] = scan[j]
  BY ILine, ScanKeeps
<1>2. wu'["H"] = wu["H"] /\ scan'["H"] = scan["H"]
  BY <1>1 DEF Lines
<1>3. HScan'
  BY <1>2, OutsideHScan
<1> QED BY <1>1, <1>2, <1>3 DEF IInv

(* The scan of the timer thread goes on; it does not touch the high-speed    *)
(* line.                                                                     *)
LEMMA INextKeeps ==
  ASSUME IInv, ScanNext("I")
  PROVE  IInv' /\ wu'["H"] = wu["H"] /\ scan'["H"] = scan["H"]
<1>1. PICK c \in Nat : c = scan["I"].ulCounter
  BY ILine DEF Scan
<1>2. PICK w : w = wu["I"]
  OBVIOUS
<1>3. LineOK(w) /\ (\A m \in Timers : In(w, m) <=> In(wu["I"], m)) /\ ScanFrom("I", w, c)
  BY <1>1, <1>2, ILine DEF ScanNext
<1> QED BY <1>3, IScanKeeps

(* A routine returns: the lines are as it left them.                         *)
LEMMA ReturnKeeps ==
  ASSUME IInv, NEW k \in Lines, CallReturns(k)
  PROVE  /\ IInv' /\ wu' = wu
         /\ k = "I" => scan'["H"] = scan["H"]
         /\ k = "H" => scan["H"].t # Null /\ scan'["H"].t = Null
<1>1. scan[k] \in Scan /\ scan[k].pc = "call"
  BY DEF IInv, TimerType, CallReturns
<1>2. PICK s \in Scan : s = [pc |-> "window", t |-> Null, ulCounter |-> scan[k].ulCounter]
  BY <1>1 DEF Scan
<1>3. scan' = [scan EXCEPT ![k] = s]
  <2>0. PICK r \in Scan : r = scan[k]
    BY <1>1
  <2>a. [r EXCEPT !.pc = "window"] = [pc |-> "window", t |-> r.t, ulCounter |-> r.ulCounter]
    BY DEF Scan
  <2>b. PICK a : a = [pc |-> "window", t |-> r.t, ulCounter |-> r.ulCounter]
    OBVIOUS
  <2>c. [a EXCEPT !.t = Null] = s
    BY <1>2, <2>0, <2>b
  <2>1. [scan[k] EXCEPT !.pc = "window", !.t = Null] = s
    BY <2>0, <2>a, <2>b, <2>c
  <2> QED BY <2>1 DEF CallReturns
<1>4. scan' \in [Lines -> Scan] /\ scan'[k] = s /\ \A j \in Lines : j # k => scan'[j] = scan[j]
  BY <1>3, ScanTyped
<1>5. UNCHANGED <<ucType, ucStatus, ulCounterSave, autoRestart, wu, ulDelay, bNoTimer>>
  BY DEF CallReturns, tmrVars
<1>6. TimerType' /\ LinesOK' /\ Members' /\ Started'
  BY <1>4, <1>5 DEF IInv, TimerType, LinesOK, Members, Started, Running
<1>7. HScan' /\ (k = "I" => scan'["H"] = scan["H"])
      /\ (k = "H" => scan["H"].t # Null /\ scan'["H"].t = Null)
  <2>1. CASE k = "I"
    <3>1. scan'["H"] = scan["H"]
      BY <1>4, <2>1 DEF Lines
    <3> QED BY <1>5, <2>1, <3>1, OutsideHScan
  <2>2. CASE k = "H"
    <3>1. HScan
      BY DEF IInv
    <3>2. scan["H"].t # Null /\ scan["H"].ulCounter = 0 /\ MidScan(wu["H"])
      BY <1>1, <2>2, <3>1 DEF HScan
    <3>3. scan'["H"].pc = "window" /\ scan'["H"].t = Null /\ scan'["H"].ulCounter = 0
      BY <1>2, <1>4, <2>2, <3>2
    <3>4. MidScan(wu["H"])'
      BY <1>5, <3>2
    <3> QED BY <2>2, <3>2, <3>3, <3>4 DEF HScan
  <2> QED BY <2>1, <2>2 DEF Lines
<1> QED BY <1>5, <1>6, <1>7 DEF IInv

(* The timer thread goes to sleep.                                           *)
LEMMA LoopKeeps ==
  ASSUME IInv, ITimerLoop
  PROVE  IInv' /\ wu'["H"] = wu["H"] /\ scan'["H"] = scan["H"]
<1>1. PICK z \in Nat : z = 0
  OBVIOUS
<1>2. PICK v : v = [wu["I"] EXCEPT !.elapsed = z]
  OBVIOUS
<1>3. LineOK(v) /\ \A m : In(v, m) <=> In(wu["I"], m)
  BY <1>2, ILine, ElapsedLine
<1>4. wu' = [wu EXCEPT !["I"] = v]
  BY <1>1, <1>2 DEF ITimerLoop
<1>5. PICK s \in Scan : s = At("sleep")
  BY AtIsScan
<1>6. scan' = [scan EXCEPT !["I"] = s]
  BY <1>5 DEF ITimerLoop
<1>7. ulDelay' \in 0 .. MaxCount + IdleTicks
  <2>0. MaxCount \in Nat /\ IdleTicks \in Nat
    BY TimerAssumption
  <2>1. CASE wu["I"].nodes = <<>>
    <3>1. ulDelay' = IdleTicks
      BY <2>1 DEF ITimerLoop
    <3> QED BY <2>0, <3>1
  <2>2. CASE wu["I"].nodes # <<>>
    <3>1. ulDelay' = wu["I"].ctr[First(wu["I"])]
      BY <2>2 DEF ITimerLoop
    <3>2. Good(wu["I"]) /\ First(wu["I"]) # Null
      <4>1. Good(wu["I"]) /\ wu["I"] \in Line
        BY ILine DEF LineOK, Good
      <4>2. Len(wu["I"].nodes) # 0
        BY <2>2, <4>1, LineParts, EmptySeq
      <4> QED BY <4>1, <4>2, FirstIs
    <3>3. /\ In(wu["I"], First(wu["I"])) /\ First(wu["I"]) \in Nodes
          /\ wu["I"].ctr[First(wu["I"])] =< Wait(wu["I"], First(wu["I"]))
          /\ wu["I"].ctr[First(wu["I"])] \in Nat /\ Wait(wu["I"], First(wu["I"])) \in Nat
      BY <3>2, FirstIs, WaitIsNat
    <3>4. Wait(wu["I"], First(wu["I"])) =< MaxCount
      BY <3>3, ILine DEF LineOK
    <3>5. PICK x \in Nat : x = ulDelay' /\ x =< MaxCount
      BY <2>0, <3>1, <3>3, <3>4
    <3>6. x \in 0 .. MaxCount + IdleTicks
      BY <2>0, <3>5
    <3> QED BY <3>5, <3>6
  <2> QED BY <2>1, <2>2
<1>8. bNoTimer' \in BOOLEAN /\ UNCHANGED tmrVars
  BY DEF ITimerLoop
<1> QED BY <1>3, <1>4, <1>6, <1>7, <1>8, IStep

(* The timer thread wakes up, early or late, and starts its scan.            *)
LEMMA AwakeKeeps ==
  ASSUME IInv, ITimerAwake
  PROVE  IInv' /\ wu'["H"] = wu["H"] /\ scan'["H"] = scan["H"]
<1>1. CASE bNoTimer /\ scan' = [scan EXCEPT !["I"] = At("loop")] /\ UNCHANGED <<tmrVars, wu, ulDelay, bNoTimer>>
  <2>1. PICK s \in Scan : s = At("loop")
    BY AtIsScan
  <2>2. PICK v : v = wu["I"]
    OBVIOUS
  <2>3. wu' = [wu EXCEPT !["I"] = v]
    BY <1>1, <2>2, ILine
  <2>4. ulDelay' \in 0 .. MaxCount + IdleTicks /\ bNoTimer' \in BOOLEAN
    BY <1>1 DEF IInv, TimerType
  <2>5. scan' = [scan EXCEPT !["I"] = s] /\ UNCHANGED tmrVars /\ LineOK(v)
    BY <1>1, <2>1, <2>2, ILine
  <2> QED BY <2>2, <2>3, <2>4, <2>5, IStep
<1>2. CASE ~bNoTimer /\ ScanFrom("I", [FromHeader(wu["I"]) EXCEPT !.elapsed = 0], wu["I"].elapsed)
  <2>1. PICK u : u = FromHeader(wu["I"])
    OBVIOUS
  <2>2. PICK z \in Nat : z = 0
    OBVIOUS
  <2>3. PICK w : w = [u EXCEPT !.elapsed = z]
    OBVIOUS
  <2>4. LineOK(u) /\ \A m : In(u, m) <=> In(wu["I"], m)
    BY <2>1, ILine, HeaderLine
  <2>5. LineOK(w) /\ \A m : In(w, m) <=> In(u, m)
    BY <2>3, <2>4, ElapsedLine
  <2>6. PICK c \in Nat : c = wu["I"].elapsed
    BY ILine
  <2>7. ScanFrom("I", w, c)
    BY <1>2, <2>1, <2>2, <2>3, <2>6
  <2> QED BY <2>4, <2>5, <2>7, IScanKeeps
<1> QED BY <1>1, <1>2 DEF ITimerAwake

(* A system tick.                                                            *)
LEMMA ClockKeeps ==
  ASSUME IInv, Clock
  PROVE  IInv' /\ wu'["H"] = wu["H"] /\ scan'["H"] = scan["H"]
<1>1. PICK e \in Nat : e = IF wu["I"].elapsed < MaxElapsed THEN wu["I"].elapsed + 1 ELSE wu["I"].elapsed
  BY ILine
<1>2. PICK v : v = [wu["I"] EXCEPT !.elapsed = e]
  OBVIOUS
<1>3. LineOK(v) /\ \A m : In(v, m) <=> In(wu["I"], m)
  BY <1>2, ILine, ElapsedLine
<1>4. wu' = [wu EXCEPT !["I"] = v]
  BY <1>1, <1>2 DEF Clock
<1>5. UNCHANGED tmrVars /\ bNoTimer' \in BOOLEAN
  BY DEF Clock, IInv, TimerType
<1>6. ulDelay' \in 0 .. MaxCount + IdleTicks
  <2>1. ulDelay \in 0 .. MaxCount + IdleTicks /\ MaxCount \in Nat /\ IdleTicks \in Nat
    BY TimerAssumption DEF IInv, TimerType
  <2>2. ulDelay' = ulDelay \/ ulDelay' = Less(ulDelay, 1)
    BY DEF Clock
  <2> QED BY <2>1, <2>2 DEF Less
<1>7. \E s \in Scan : scan' = [scan EXCEPT !["I"] = s]
  <2>1. CASE scan["I"].pc = "sleep"
    <3>1. PICK s \in Scan : s = IF ulDelay' = 0 THEN At("awake") ELSE scan["I"]
      BY AtIsScan, ILine
    <3>2. scan' = [scan EXCEPT !["I"] = s]
      BY <2>1, <3>1 DEF Clock
    <3> QED BY <3>2
  <2>2. CASE scan["I"].pc # "sleep"
    <3>1. scan' = scan
      BY <2>2 DEF Clock
    <3>2. scan' = [scan EXCEPT !["I"] = scan["I"]]
      BY <3>1, ILine
    <3> QED BY <3>2, ILine
  <2> QED BY <2>1, <2>2
<1> QED BY <1>3, <1>4, <1>5, <1>6, <1>7, IStep

-----------------------------------------------------------------------------
(* The theorems.                                                             *)

(* The lines are empty at first.                                             *)
LEMMA InitInv == Init => IInv
<1> SUFFICES ASSUME Init PROVE IInv
  OBVIOUS
<1> USE DEF Init
<1>0. 0 \in 0 .. MaxCount /\ 0 \in 0 .. MaxCount + IdleTicks
  BY TimerAssumption
<1>1. PICK w : w = EmptyLine
  OBVIOUS
<1>2. w \in Line /\ w.nodes = <<>> /\ w.op = Null
  BY <1>1 DEF EmptyLine, Line
<1>3. Len(w.nodes) = 0 /\ \A m : ~In(w, m)
  BY <1>2, InIs
<1>4. IsInjective(w.nodes)
  <2>1. w.nodes \in Seq(Nodes) /\ \A i, j \in 1 .. Len(w.nodes) : w.nodes[i] = w.nodes[j] => i = j
    BY <1>2, <1>3
  <2> QED BY <2>1, InjectiveSeq
<1>5. LineOK(w) /\ Rested(w)
  BY <1>2, <1>3, <1>4 DEF LineOK, Good, Rested
<1>6. wu \in [Lines -> Line] /\ \A k \in Lines : wu[k] = w
  BY <1>1, <1>2
<1>7. scan \in [Lines -> Scan] /\ scan["H"] = At("idle") /\ "H" \in Lines
  BY AtIsScan DEF ScanRests, Lines
<1>8. TimerType
  BY <1>0, <1>6, <1>7 DEF TimerType
<1>9. LinesOK /\ Members /\ Started
  BY <1>3, <1>5, <1>6 DEF LinesOK, Members, Started, Running
<1>10. HScan
  BY <1>5, <1>6, <1>7 DEF HScan, At
<1> QED BY <1>8, <1>9, <1>10 DEF IInv

(* One case per action.                                                      *)
LEMMA NextInv == IInv /\ [Next]_vars => IInv'
<1> SUFFICES ASSUME IInv, [Next]_vars PROVE IInv'
  OBVIOUS
<1>1. ASSUME NEW t \in Timers, Call(t) PROVE IInv'
  BY <1>1, CreateKeeps, StartKeeps, ResetKeeps, CancelKeeps, DeleteKeeps DEF Call
<1>2. CASE HTicks
  BY <1>2, HTicksKeeps
<1>3. CASE IntStep
  BY <1>3, HNextKeeps, ReturnKeeps DEF IntStep, Lines
<1>4. CASE ThreadStep
  BY <1>4, LoopKeeps, AwakeKeeps, INextKeeps, ReturnKeeps DEF ThreadStep, Lines
<1>5. CASE Clock
  BY <1>5, ClockKeeps
<1>6. CASE UNCHANGED vars
  BY <1>6 DEF vars, IInv, TimerType, LinesOK, Members, Started, HScan, Running
<1> QED BY <1>1, <1>2, <1>3, <1>4, <1>5, <1>6 DEF Next, Machine

(* The invariant holds in every state of the timers, whatever the number of  *)
(* timers, their intervals and the lateness of the timer thread.             *)
THEOREM InductiveInvariant == Spec => []IInv
<1>1. Init => IInv
  BY InitInv
<1>2. IInv /\ [Next]_vars => IInv'
  BY NextInv
<1> QED BY <1>1, <1>2, PTL DEF Spec

(* The control blocks, lines and scans of the timers keep their types; no    *)
(* counter of a line goes below zero, and the thread sleeps no longer than   *)
(* the longest interval or its idle time.                                    *)
THEOREM TypeCorrect == Spec => []TypeOK
<1>1. ASSUME IInv PROVE TypeOK
  <2>1. \A k \in Lines : wu[k] \in Line
    BY <1>1 DEF IInv, TimerType
  <2>2. \A k \in Lines : LineType(wu[k])
    BY <2>1, LineParts DEF LineType
  <2> QED BY <1>1, <2>2 DEF IInv, TimerType, TypeOK
<1> QED BY <1>1, InductiveInvariant, PTL

(* LineConsistent: a timer that runs is linked exactly once into the line of *)
(* its kind and any other into none, and a scan's cursor is never left at a  *)
(* node that was unlinked while a routine ran or interrupts were let in.     *)
THEOREM LineCorrect == Spec => []LineConsistent
<1>1. ASSUME IInv PROVE LineConsistent
  <2>1. ASSUME NEW k \in Lines
        PROVE  /\ IsInjective(wu[k].nodes)
               /\ ToSet(wu[k].nodes) = {t \in Timers : ucType[t] = k /\ Running(t)}
               /\ wu[k].op # Null => Contains(wu[k].nodes, wu[k].op)
    <3>1. Good(wu[k]) /\ wu[k] \in Line
      BY <1>1 DEF IInv, LinesOK, LineOK, Good
    <3>2. \A t \in Timers : In(wu[k], t) <=> ucType[t] = k /\ Running(t)
      BY <1>1 DEF IInv, Members
    <3>3. \A t : In(wu[k], t) => t \in Timers
      BY <3>1, InIs, TimersAreNodes
    <3>4. PICK s \in Seq(Nodes) : s = wu[k].nodes
      BY <3>1, LineParts
    <3>5. \A t : t \in ToSet(s) <=> In(wu[k], t)
      <4>1. DOMAIN s = 1 .. Len(s)
        OBVIOUS
      <4> QED BY <3>1, <3>4, <4>1, InIs DEF ToSet
    <3> QED BY <3>1, <3>2, <3>3, <3>4, <3>5 DEF Good, In
  <2>2. \A t \in Timers : ucType[t] = "UNUSED" => ~Running(t)
    BY <1>1 DEF IInv, Started
  <2> QED BY <2>1, <2>2 DEF LineConsistent
<1> QED BY <1>1, InductiveInvariant, PTL

-----------------------------------------------------------------------------
(* The high-speed timers implement Countdown.                                *)

(* The variables of Countdown.                                               *)
aLeft == [t \in Timers |-> HLeft(t)]
aReload == [t \in Timers |-> IF IsH(t) THEN ulCounterSave[t] ELSE 0]
aAuto == [t \in Timers |-> IsH(t) /\ autoRestart[t]]

(* The time left, read off the line.                                         *)
Mapped == aLeft = Left(wu["H"])

(* The time left that Countdown sees is what the line says.                  *)
LEMMA Maps == IInv => Mapped
<1> SUFFICES ASSUME IInv, NEW t \in Timers PROVE HLeft(t) = Left(wu["H"])[t]
  BY TimersAreNodes DEF Mapped, aLeft, Left
<1>1. In(wu["H"], t) <=> ucType[t] = "H" /\ Running(t)
  BY ILine DEF IInv, Members
<1> QED BY <1>1, TimersAreNodes DEF HLeft, Left, In, Wait

(* Steps of Countdown, by what they do to these.                             *)
LEMMA CSet ==
  ASSUME NEW t \in Timers, NEW n \in 1 .. MaxCount, NEW r \in 1 .. MaxCount, NEW a \in BOOLEAN,
         aLeft' = [aLeft EXCEPT ![t] = n], aReload' = [aReload EXCEPT ![t] = r],
         aAuto' = [aAuto EXCEPT ![t] = a], scan'["H"].t = scan["H"].t
  PROVE  HCountdown!Next
  BY DEF HCountdown!Next, HCountdown!Set, aLeft, aReload, aAuto

(* StartOver of Countdown.                                                   *)
LEMMA CStartOver ==
  ASSUME NEW t \in Timers, aLeft[t] # -1, aLeft' = [aLeft EXCEPT ![t] = aReload[t]],
         aReload' = aReload, aAuto' = aAuto, scan'["H"].t = scan["H"].t
  PROVE  HCountdown!Next
  BY DEF HCountdown!Next, HCountdown!StartOver, HCountdown!Armed, HCountdown!Stopped, aLeft, aReload, aAuto

(* Stop.                                                                     *)
LEMMA CStop ==
  ASSUME NEW t \in Timers, aLeft' = [aLeft EXCEPT ![t] = -1],
         aReload' = aReload, aAuto' = aAuto, scan'["H"].t = scan["H"].t
  PROVE  HCountdown!Next
  BY DEF HCountdown!Next, HCountdown!Stop, HCountdown!Stopped, aLeft, aReload, aAuto

(* Forget.                                                                   *)
LEMMA CForget ==
  ASSUME NEW t \in Timers, aLeft' = [aLeft EXCEPT ![t] = -1],
         aReload' = [aReload EXCEPT ![t] = 0], aAuto' = [aAuto EXCEPT ![t] = FALSE],
         scan'["H"].t = scan["H"].t
  PROVE  HCountdown!Next
  BY DEF HCountdown!Next, HCountdown!Forget, HCountdown!Stopped, aLeft, aReload, aAuto

(* Fire.                                                                     *)
LEMMA CFire ==
  ASSUME NEW t \in Timers, scan["H"].t = Null, aLeft[t] = 0,
         aLeft' = [aLeft EXCEPT ![t] = IF aAuto[t] THEN aReload[t] ELSE -1],
         scan'["H"].t = t, aReload' = aReload, aAuto' = aAuto
  PROVE  HCountdown!Next
  BY DEF HCountdown!Next, HCountdown!Fire, HCountdown!AfterFiring, HCountdown!Stopped,
         aLeft, aReload, aAuto

(* Return.                                                                   *)
LEMMA CReturn ==
  ASSUME scan["H"].t # Null, scan'["H"].t = Null, aLeft' = aLeft, aReload' = aReload, aAuto' = aAuto
  PROVE  HCountdown!Next
  BY DEF HCountdown!Next, HCountdown!Return, aLeft, aReload, aAuto

(* Tick, with or without a routine to call at once.                          *)
LEMMA CTick ==
  ASSUME scan["H"].t = Null, \A t \in Timers : aLeft[t] # 0, aReload' = aReload, aAuto' = aAuto,
         \/ aLeft' = Down(aLeft) /\ scan'["H"].t = scan["H"].t
         \/ \E t \in Timers :
              /\ Down(aLeft)[t] = 0 /\ scan'["H"].t = t
              /\ aLeft' = [Down(aLeft) EXCEPT ![t] = IF aAuto[t] THEN aReload[t] ELSE -1]
  PROVE  HCountdown!Tick
<1>1. HCountdown!CountedDown = Down(aLeft)
  BY TimersAreNodes DEF HCountdown!CountedDown, HCountdown!Armed, HCountdown!Stopped, Down, aLeft
<1>2. \A t \in Timers : HCountdown!AfterFiring(t) = IF aAuto[t] THEN aReload[t] ELSE -1
  BY DEF HCountdown!AfterFiring, HCountdown!Stopped, aReload, aAuto
<1> QED BY <1>1, <1>2 DEF HCountdown!Tick, aLeft, aReload, aAuto

(* A step Countdown does not see.                                            *)
LEMMA CStutter ==
  ASSUME aLeft' = aLeft, aReload' = aReload, aAuto' = aAuto, scan'["H"].t = scan["H"].t
  PROVE  UNCHANGED HCountdown!cVars
  BY DEF HCountdown!cVars, aLeft, aReload, aAuto

(* What Countdown sees of an action.                                         *)
Simulated == HCountdown!Next \/ UNCHANGED HCountdown!cVars

(* The other variables of Countdown follow the control blocks.               *)
LEMMA BlocksSame ==
  ASSUME UNCHANGED <<ucType, ulCounterSave, autoRestart>>
  PROVE  aReload' = aReload /\ aAuto' = aAuto
  BY DEF aReload, aAuto, IsH

(* API_TimerCreate forgets what the block was used for.                      *)
LEMMA CreateSim ==
  ASSUME IInv, Mapped, Mapped', NEW t \in Timers, NEW kind \in Kinds, TimerCreate(t, kind)
  PROVE  Simulated
<1>1. /\ ucType[t] = "UNUSED" /\ ucType' = [ucType EXCEPT ![t] = kind]
      /\ ulCounterSave' = [ulCounterSave EXCEPT ![t] = 0]
      /\ autoRestart' = [autoRestart EXCEPT ![t] = FALSE]
      /\ wu' = wu /\ scan' = scan
  BY DEF TimerCreate
<1>2. /\ ucType \in [Timers -> {"UNUSED"} \cup Kinds] /\ ulCounterSave \in [Timers -> 0 .. MaxCount]
      /\ autoRestart \in [Timers -> BOOLEAN]
  BY DEF IInv, TimerType
<1>3. aLeft' = [aLeft EXCEPT ![t] = -1]
  <2>1. ~In(wu["H"], t)
    BY <1>1, ILine DEF IInv, Members
  <2>2. [Left(wu["H"]) EXCEPT ![t] = -1] = Left(wu["H"])
    BY <2>1, TimersAreNodes DEF Left
  <2> QED BY <1>1, <2>2 DEF Mapped
<1>4. aReload' = [aReload EXCEPT ![t] = 0]
  BY <1>1, <1>2 DEF aReload, IsH
<1>5. aAuto' = [aAuto EXCEPT ![t] = FALSE]
  BY <1>1, <1>2 DEF aAuto, IsH
<1> QED BY <1>1, <1>3, <1>4, <1>5, CForget DEF Simulated

(* API_TimerStartEx of a high-speed timer is Set.                            *)
LEMMA StartSim ==
  ASSUME IInv, Mapped, Mapped', NEW t \in Timers, NEW a \in Starts,
         TimerStartEx(t, a.init, a.repeat, a.auto)
  PROVE  Simulated
<1>1. /\ ucType[t] # "UNUSED" /\ ucType' = ucType
      /\ ulCounterSave' = [ulCounterSave EXCEPT ![t] = a.repeat]
      /\ autoRestart' = [autoRestart EXCEPT ![t] = a.auto]
  BY DEF TimerStartEx
<1>2. ulCounterSave \in [Timers -> 0 .. MaxCount] /\ autoRestart \in [Timers -> BOOLEAN]
  BY DEF IInv, TimerType
<1>3. /\ Set(t, a.init) /\ a.init \in 1 .. MaxCount /\ a.repeat \in 1 .. MaxCount
      /\ a.auto \in BOOLEAN
  BY StartKeeps
<1>4. scan'["H"] = scan["H"]
      /\ Left(wu'["H"]) = IF IsH(t) THEN [Left(wu["H"]) EXCEPT ![t] = a.init] ELSE Left(wu["H"])
  BY <1>3 DEF Set
<1>5. CASE IsH(t)
  <2>1. aLeft' = [aLeft EXCEPT ![t] = a.init]
    BY <1>4, <1>5 DEF Mapped
  <2>2. aReload' = [aReload EXCEPT ![t] = a.repeat]
    BY <1>1, <1>2, <1>5 DEF aReload, IsH
  <2>3. aAuto' = [aAuto EXCEPT ![t] = a.auto]
    BY <1>1, <1>2, <1>3, <1>5 DEF aAuto, IsH
  <2>4. PICK n \in 1 .. MaxCount, r \in 1 .. MaxCount : n = a.init /\ r = a.repeat
    BY <1>3
  <2> QED BY <1>3, <1>4, <2>1, <2>2, <2>3, <2>4, CSet DEF Simulated
<1>6. CASE ~IsH(t)
  <2>1. aLeft' = aLeft
    BY <1>4, <1>6 DEF Mapped
  <2>2. aReload' = aReload
    BY <1>1, <1>2, <1>6 DEF aReload, IsH
  <2>3. aAuto' = aAuto
    BY <1>1, <1>2, <1>6 DEF aAuto, IsH
  <2> QED BY <1>4, <2>1, <2>2, <2>3, CStutter DEF Simulated
<1> QED BY <1>5, <1>6

(* API_TimerReset is StartOver.                                              *)
LEMMA ResetSim ==
  ASSUME IInv, Mapped, Mapped', NEW t \in Timers, TimerReset(t)
  PROVE  Simulated
<1>1. UNCHANGED <<ucType, ulCounterSave, autoRestart>> /\ Running(t)
  BY DEF TimerReset, tmrVars
<1>2. aReload' = aReload /\ aAuto' = aAuto
  BY <1>1, BlocksSame
<1>3. Set(t, ulCounterSave[t])
  BY ResetKeeps
<1>4. scan'["H"] = scan["H"]
      /\ Left(wu'["H"]) = IF IsH(t) THEN [Left(wu["H"]) EXCEPT ![t] = ulCounterSave[t]] ELSE Left(wu["H"])
  BY <1>3 DEF Set
<1>5. CASE IsH(t)
  <2>1. In(wu["H"], t) /\ Good(wu["H"])
    BY <1>1, <1>5, ILine DEF IInv, Members, IsH, LineOK
  <2>2. Wait(wu["H"], t) \in Nat
    BY <2>1, WaitIsNat
  <2>3. aLeft[t] # -1
    <3>1. aLeft[t] = Wait(wu["H"], t)
      BY <2>1, TimersAreNodes DEF Mapped, Left
    <3> QED BY <2>2, <3>1
  <2>4. aLeft' = [aLeft EXCEPT ![t] = aReload[t]]
    BY <1>4, <1>5 DEF Mapped, aReload
  <2> QED BY <1>2, <1>4, <2>3, <2>4, CStartOver DEF Simulated
<1>6. CASE ~IsH(t)
  BY <1>2, <1>4, <1>6, CStutter DEF Simulated, Mapped
<1> QED BY <1>5, <1>6

(* API_TimerCancel is Stop.                                                  *)
LEMMA CancelSim ==
  ASSUME IInv, Mapped, Mapped', NEW t \in Timers, TimerCancel(t)
  PROVE  Simulated
<1>1. UNCHANGED <<ucType, ulCounterSave, autoRestart, scan>>
  BY DEF TimerCancel
<1>2. aReload' = aReload /\ aAuto' = aAuto
  BY <1>1, BlocksSame
<1>3. Left(wu'["H"]) = IF IsH(t) THEN [Left(wu["H"]) EXCEPT ![t] = -1] ELSE Left(wu["H"])
  BY CancelKeeps DEF Unset
<1>4. CASE IsH(t)
  <2>1. aLeft' = [aLeft EXCEPT ![t] = -1]
    BY <1>3, <1>4 DEF Mapped
  <2> QED BY <1>1, <1>2, <2>1, CStop DEF Simulated
<1>5. CASE ~IsH(t)
  BY <1>1, <1>2, <1>3, <1>5, CStutter DEF Simulated, Mapped
<1> QED BY <1>4, <1>5

(* API_TimerDelete is Forget.                                                *)
LEMMA DeleteSim ==
  ASSUME IInv, Mapped, Mapped', NEW t \in Timers, TimerDelete(t)
  PROVE  Simulated
<1>1. /\ ucType[t] # "UNUSED" /\ ucType' = [ucType EXCEPT ![t] = "UNUSED"]
      /\ UNCHANGED <<ulCounterSave, autoRestart, scan>>
  BY DEF TimerDelete
<1>2. ucType \in [Timers -> {"UNUSED"} \cup Kinds]
  BY DEF IInv, TimerType
<1>3. Left(wu'["H"]) = IF IsH(t) THEN [Left(wu["H"]) EXCEPT ![t] = -1] ELSE Left(wu["H"])
  BY DeleteKeeps
<1>4. aReload' = [aReload EXCEPT ![t] = 0]
  BY <1>1, <1>2 DEF aReload, IsH
<1>5. aAuto' = [aAuto EXCEPT ![t] = FALSE]
  BY <1>1, <1>2 DEF aAuto, IsH
<1>6. aLeft' = [aLeft EXCEPT ![t] = -1]
  <2>1. CASE IsH(t)
    BY <1>3, <2>1 DEF Mapped
  <2>2. CASE ~IsH(t)
    <3>1. ~In(wu["H"], t)
      BY <2>2, ILine DEF IInv, Members, IsH
    <3>2. [Left(wu["H"]) EXCEPT ![t] = -1] = Left(wu["H"])
      BY <3>1, TimersAreNodes DEF Left
    <3> QED BY <1>3, <2>2, <3>2 DEF Mapped
  <2> QED BY <2>1, <2>2
<1> QED BY <1>1, <1>4, <1>5, <1>6, CForget DEF Simulated

(* A step that leaves the high-speed line and the blocks alone.              *)
LEMMA OtherSim ==
  ASSUME Mapped, Mapped', wu'["H"] = wu["H"], scan'["H"] = scan["H"],
         ucType' = ucType, ulCounterSave' = ulCounterSave, autoRestart' = autoRestart
  PROVE  Simulated
<1>1. aReload' = aReload /\ aAuto' = aAuto
  BY BlocksSame
<1>2. aLeft' = aLeft
  BY DEF Mapped
<1> QED BY <1>1, <1>2, CStutter DEF Simulated

(* The tick of the high-speed timers is the tick of Countdown.               *)
LEMMA TickSim ==
  ASSUME IInv, Mapped, Mapped', HTicks
  PROVE  HCountdown!Tick
<1>1. UNCHANGED <<ucType, ulCounterSave, autoRestart>>
  BY DEF HTicks, ScanFrom
<1>2. aReload' = aReload /\ aAuto' = aAuto
  BY <1>1, BlocksSame
<1>3. PICK w : /\ LineOK(w) /\ Left(w) = Left(wu["H"]) /\ Rested(wu["H"]) /\ HStepped(w, 1)
               /\ \A m : In(w, m) <=> In(wu["H"], m)
  BY HTicksKeeps
<1>4. scan["H"].t = Null
  BY DEF IInv, HScan, HTicks
<1>5. \A t \in Timers : aLeft[t] # 0
  BY <1>3, TimersAreNodes DEF Mapped, Left, Rested
<1>6. After(1, Left(w)) = Down(aLeft)
  BY <1>3 DEF After, Mapped
<1>7. CASE scan'["H"] = ScanRests["H"] /\ Left(wu'["H"]) = After(1, Left(w))
  <2>1. scan'["H"].t = scan["H"].t
    BY <1>4, <1>7, ILine, RestIsScan
  <2>2. aLeft' = Down(aLeft)
    BY <1>6, <1>7 DEF Mapped
  <2> QED BY <1>2, <1>4, <1>5, <2>1, <2>2, CTick
<1>8. ASSUME NEW t \in Timers, In(w, t),
             scan'["H"] = [pc |-> "call", t |-> t, ulCounter |-> 0],
             After(1, Left(w))[t] = 0,
             Left(wu'["H"]) = [After(1, Left(w)) EXCEPT
                                 ![t] = IF autoRestart[t] THEN ulCounterSave[t] ELSE -1]
      PROVE  HCountdown!Tick
  <2>1. IsH(t)
    BY <1>3, <1>8, ILine DEF IInv, Members, IsH
  <2>2. (IF aAuto[t] THEN aReload[t] ELSE -1) = IF autoRestart[t] THEN ulCounterSave[t] ELSE -1
    BY <2>1 DEF aAuto, aReload
  <2>3. aLeft' = [Down(aLeft) EXCEPT ![t] = IF aAuto[t] THEN aReload[t] ELSE -1]
    BY <1>6, <1>8, <2>2 DEF Mapped
  <2>4. scan'["H"].t = t /\ Down(aLeft)[t] = 0
    BY <1>6, <1>8
  <2> QED BY <1>2, <1>4, <1>5, <2>3, <2>4, CTick
<1> QED BY <1>3, <1>7, <1>8 DEF HStepped

(* The scan going on is Fire, or its end, which Countdown does not see.      *)
LEMMA HNextSim ==
  ASSUME IInv, Mapped, Mapped', ScanNext("H")
  PROVE  Simulated
<1>1. UNCHANGED <<ucType, ulCounterSave, autoRestart>>
  BY DEF ScanNext, ScanFrom
<1>2. aReload' = aReload /\ aAuto' = aAuto
  BY <1>1, BlocksSame
<1>3. HStepped(wu["H"], 0)
  BY HNextKeeps
<1>4. scan["H"].t = Null
  BY DEF IInv, HScan, ScanNext
<1>5. After(0, Left(wu["H"])) = aLeft
  BY DEF After, Mapped
<1>6. CASE scan'["H"] = ScanRests["H"] /\ Left(wu'["H"]) = After(0, Left(wu["H"]))
  <2>1. scan'["H"].t = scan["H"].t
    BY <1>4, <1>6, ILine, RestIsScan
  <2>2. aLeft' = aLeft
    BY <1>5, <1>6 DEF Mapped
  <2> QED BY <1>2, <2>1, <2>2, CStutter DEF Simulated
<1>7. ASSUME NEW t \in Timers, In(wu["H"], t),
             scan'["H"] = [pc |-> "call", t |-> t, ulCounter |-> 0],
             After(0, Left(wu["H"]))[t] = 0,
             Left(wu'["H"]) = [After(0, Left(wu["H"])) EXCEPT
                                 ![t] = IF autoRestart[t] THEN ulCounterSave[t] ELSE -1]
      PROVE  Simulated
  <2>1. IsH(t)
    BY <1>7, ILine DEF IInv, Members, IsH
  <2>2. (IF aAuto[t] THEN aReload[t] ELSE -1) = IF autoRestart[t] THEN ulCounterSave[t] ELSE -1
    BY <2>1 DEF aAuto, aReload
  <2>3. aLeft' = [aLeft EXCEPT ![t] = IF aAuto[t] THEN aReload[t] ELSE -1]
    BY <1>5, <1>7, <2>2 DEF Mapped
  <2>4. scan'["H"].t = t /\ aLeft[t] = 0
    BY <1>5, <1>7
  <2> QED BY <1>2, <1>4, <2>3, <2>4, CFire DEF Simulated
<1> QED BY <1>3, <1>6, <1>7 DEF HStepped

(* The return of a routine of the high-speed line is Return.                 *)
LEMMA ReturnSim ==
  ASSUME IInv, Mapped, Mapped', NEW k \in Lines, CallReturns(k)
  PROVE  Simulated
<1>1. UNCHANGED <<ucType, ulCounterSave, autoRestart>>
  BY DEF CallReturns, tmrVars
<1>2. /\ wu' = wu
      /\ k = "I" => scan'["H"] = scan["H"]
      /\ k = "H" => scan["H"].t # Null /\ scan'["H"].t = Null
  BY ReturnKeeps
<1>3. CASE k = "I"
  BY <1>1, <1>2, <1>3, OtherSim
<1>4. CASE k = "H"
  <2>1. aReload' = aReload /\ aAuto' = aAuto
    BY <1>1, BlocksSame
  <2>2. aLeft' = aLeft
    BY <1>2 DEF Mapped
  <2> QED BY <1>2, <1>4, <2>1, <2>2, CReturn DEF Simulated
<1> QED BY <1>3, <1>4 DEF Lines

(* Every timer is stopped at first.                                          *)
LEMMA InitSim == Init => HCountdown!Init
<1> SUFFICES ASSUME Init PROVE HCountdown!Init
  OBVIOUS
<1>1. \A t \in Timers : HLeft(t) = -1 /\ ~IsH(t)
  BY DEF Init, HLeft, IsH, Running
<1>2. scan["H"].t = Null
  BY DEF Init, ScanRests, At, Lines
<1> QED BY <1>1, <1>2 DEF HCountdown!Init, HCountdown!Stopped

(* Every step is one of Countdown's or is not seen by it.                    *)
LEMMA StepSim ==
  ASSUME IInv, Mapped, Mapped', [Next]_vars
  PROVE  Simulated
<1>0. "H" \in Lines /\ "I" \in Lines
  BY DEF Lines
<1>1. ASSUME NEW t \in Timers, Call(t) PROVE Simulated
  BY <1>1, CreateSim, StartSim, ResetSim, CancelSim, DeleteSim DEF Call
<1>2. HTicks => HCountdown!Tick
  BY TickSim
<1>3. CASE HTicks
  BY <1>2, <1>3 DEF Simulated, HCountdown!Next
<1>4. CASE IntStep
  BY <1>0, <1>4, HNextSim, ReturnSim DEF IntStep
<1>5. CASE CallReturns("I")
  BY <1>0, <1>5, ReturnSim
<1>6. CASE ITimerLoop
  <2>1. ucType' = ucType /\ ulCounterSave' = ulCounterSave /\ autoRestart' = autoRestart
    BY <1>6 DEF ITimerLoop, tmrVars
  <2>2. wu'["H"] = wu["H"] /\ scan'["H"] = scan["H"]
    BY <1>6, LoopKeeps
  <2> QED BY <2>1, <2>2, OtherSim
<1>7. CASE ITimerAwake
  <2>1. ucType' = ucType /\ ulCounterSave' = ulCounterSave /\ autoRestart' = autoRestart
    BY <1>7 DEF ITimerAwake, ScanFrom, tmrVars
  <2>2. wu'["H"] = wu["H"] /\ scan'["H"] = scan["H"]
    BY <1>7, AwakeKeeps
  <2> QED BY <2>1, <2>2, OtherSim
<1>8. CASE ScanNext("I")
  <2>1. ucType' = ucType /\ ulCounterSave' = ulCounterSave /\ autoRestart' = autoRestart
    BY <1>8 DEF ScanNext, ScanFrom
  <2>2. wu'["H"] = wu["H"] /\ scan'["H"] = scan["H"]
    BY <1>8, INextKeeps
  <2> QED BY <2>1, <2>2, OtherSim
<1>9. CASE Clock
  <2>1. ucType' = ucType /\ ulCounterSave' = ulCounterSave /\ autoRestart' = autoRestart
    BY <1>9 DEF Clock, tmrVars
  <2>2. wu'["H"] = wu["H"] /\ scan'["H"] = scan["H"]
    BY <1>9, ClockKeeps
  <2> QED BY <2>1, <2>2, OtherSim
<1>10. CASE UNCHANGED vars
  <2>1. /\ ucType' = ucType /\ ulCounterSave' = ulCounterSave /\ autoRestart' = autoRestart
        /\ wu'["H"] = wu["H"] /\ scan'["H"] = scan["H"]
    BY <1>10 DEF vars
  <2> QED BY <2>1, OtherSim
<1> QED
  BY <1>1, <1>3, <1>4, <1>5, <1>6, <1>7, <1>8, <1>9, <1>10 DEF Next, Machine, ThreadStep

(* HTimersCountDown: the high-speed timers implement Countdown, for every    *)
(* number of timers and every interval.  Each call of API_TimerHTicks counts *)
(* for every timer, and a routine is called at the tick it was set to, once, *)
(* whatever calls fall between the steps of the scan.                        *)
THEOREM ImplementsCountdown == Spec => HTimersCountDown
<1>1. Init => HCountdown!Init
  BY InitSim
<1>2. IInv => Mapped
  BY Maps
<1>3. IInv /\ Mapped /\ Mapped' /\ [Next]_vars =>
        /\ [HCountdown!Next]_(HCountdown!cVars)
        /\ [HTicks => HCountdown!Tick]_vars
  BY StepSim, TickSim DEF Simulated
<1> QED BY <1>1, <1>2, <1>3, InductiveInvariant, PTL DEF Spec, HTimersCountDown, HCountdown!Spec
=============================================================================
