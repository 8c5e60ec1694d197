------------------------ MODULE LocalityBuffer_proofs ------------------------
(***************************************************************************)
(* Proofs about the locality buffer: for every batch size and set of port  *)
(* keys the counting sort is a stable grouping, although clear resets the  *)
(* counters of the active ports only and the array keeps the references of *)
(* earlier batches.                                                        *)
(*                                                                         *)
(* The loops of the code are recursive functions, so the proofs are by     *)
(* induction on how far a loop has come.  Induction and Recursion are      *)
(* stated with a set and a function in place of operator parameters.       *)
(***************************************************************************)
EXTENDS LocalityBuffer, TLAPS, FiniteSetTheorems, SequenceTheorems, WellFoundedInduction

\* A non-empty set of naturals has a least element: the order of the naturals is well founded.
LEMMA LeastNat ==
  ASSUME NEW T \in SUBSET Nat, T # {}
  PROVE  \E x \in T : \A y \in T : x <= y
<1>1. PICK x \in T : \A y \in T : <<y, x>> \notin OpToRel(<, Nat)
  BY NatLessThanWellFounded, WFMin, Zenon
<1>2. ASSUME NEW y \in T PROVE x <= y
  <2>1. <<y, x>> \in Nat \X Nat /\ <<y, x>> \notin OpToRel(<, Nat)
    BY <1>1
  <2>2. ~ (<<y, x>>[1] < <<y, x>>[2])
    BY <2>1 DEF OpToRel
  <2> QED
    BY <2>2
<1> QED
  BY <1>2

\* Induction over the naturals, with the set of those for which a claim holds in place of the claim.
LEMMA Induction ==
  ASSUME NEW S, 0 \in S, \A n \in Nat : n \in S => n + 1 \in S
  PROVE  \A n \in Nat : n \in S
<1> SUFFICES ASSUME Nat \ S # {} PROVE FALSE
  OBVIOUS
<1>1. PICK x \in Nat \ S : \A y \in Nat \ S : x <= y
  BY LeastNat
<1>2. x - 1 \in Nat /\ x - 1 \in S
  BY <1>1
<1> QED
  BY <1>1, <1>2

\* f is the function that a recursion from base over 1 .. n makes, where F[i] is its i-th step.
Iterates(f, base, n, F) == f[0] = base /\ \A i \in 1 .. n : f[i] = F[i][f[i - 1]]

\* A loop over 1 .. n whose turns stay in V has a run: the recursive functions of the model are defined.
LEMMA Recursion ==
  ASSUME NEW V, NEW base \in V, NEW n \in Nat, NEW F \in [1 .. n -> [V -> V]]
  PROVE  \E f \in [0 .. n -> V] : Iterates(f, base, n, F)
<1> DEFINE Reached(k) == k <= n => \E f \in [0 .. k -> V] : Iterates(f, base, k, F)
           S == {k \in Nat : Reached(k)}
<1>1. Reached(0)
  <2>1. [i \in 0 .. 0 |-> base] \in [0 .. 0 -> V] /\ Iterates([i \in 0 .. 0 |-> base], base, 0, F)
    BY DEF Iterates
  <2> QED
    BY <2>1
<1>2. ASSUME NEW k \in Nat, Reached(k), k + 1 <= n
      PROVE  \E f \in [0 .. k + 1 -> V] : Iterates(f, base, k + 1, F)
  <2>1. PICK f \in [0 .. k -> V] : Iterates(f, base, k, F)
    BY <1>2
  <2> DEFINE g == [i \in 0 .. k + 1 |-> IF i = k + 1 THEN F[k + 1][f[k]] ELSE f[i]]
  <2>2. f[k] \in V /\ F[k + 1][f[k]] \in V
    BY <1>2, <2>1
  <2>3. g \in [0 .. k + 1 -> V]
    BY <2>2
  <2>4. g[0] = base
    BY <1>2, <2>1 DEF Iterates
  <2>5. ASSUME NEW i \in 1 .. k + 1 PROVE g[i] = F[i][g[i - 1]]
    <3>1. g[i] = IF i = k + 1 THEN F[k + 1][f[k]] ELSE f[i]
      BY <1>2
    <3>2. g[i - 1] = f[i - 1]
      BY <1>2
    <3>3. i # k + 1 => i \in 1 .. k
      BY <1>2
    <3> HIDE DEF g
    <3>4. CASE i = k + 1
      BY <3>1, <3>2, <3>4
    <3>5. CASE i # k + 1
      BY <2>1, <3>1, <3>2, <3>3, <3>5 DEF Iterates
    <3> QED
      BY <3>4, <3>5
  <2> HIDE DEF g
  <2> QED
    BY <2>3, <2>4, <2>5 DEF Iterates
<1>3. \A k \in Nat : Reached(k) => Reached(k + 1)
  BY <1>2
<1> HIDE DEF Reached
<1>4. 0 \in S /\ \A k \in Nat : k \in S => k + 1 \in S
  BY <1>1, <1>3
<1> HIDE DEF S
<1>5. n \in S
  BY <1>4, Induction
<1> QED
  BY <1>5 DEF Reached, S

\* T holds the offsets of the pieces of seqs in their concatenation.
Tiles(T, seqs) ==
  T[1] = 0 /\ \A i \in 1 .. Len(seqs) : T[i] \in Nat /\ T[i + 1] = T[i] + Len(seqs[i])

\* FlattenSeq puts piece after piece: the j-th element of the i-th piece is at T[i] + j.
LEMMA Flattened ==
  ASSUME NEW R, NEW seqs \in Seq(Seq(R)), NEW T, Tiles(T, seqs)
  PROVE  /\ FlattenSeq(seqs) \in Seq(R) /\ Len(FlattenSeq(seqs)) = T[Len(seqs) + 1]
         /\ \A i \in 1 .. Len(seqs) : \A j \in 1 .. Len(seqs[i]) : FlattenSeq(seqs)[T[i] + j] = seqs[i][j]
<1> DEFINE n == Len(seqs)
           flatten == CHOOSE f : f = [i \in 1 .. n |-> IF i = 1 THEN seqs[i] ELSE f[i - 1] \o seqs[i]]
<1>1. CASE n = 0
  <2>1. FlattenSeq(seqs) = <<>> /\ <<>> \in Seq(R) /\ Len(<<>>) = 0
    BY <1>1 DEF FlattenSeq
  <2> QED
    BY <1>1, <2>1 DEF Tiles
<1>2. CASE n # 0
  <2> DEFINE V == Seq(R)
             empty == <<>>
             F == [i \in 1 .. n |-> [v \in V |-> v \o seqs[i]]]
  <2>1. FlattenSeq(seqs) = flatten[n]
    BY <1>2, Zenon DEF FlattenSeq
  <2>2. n \in Nat /\ (\A i \in 1 .. n : seqs[i] \in V) /\ empty \in V
    OBVIOUS
  <2>3. \A i \in 1 .. n, v \in V : F[i][v] = v \o seqs[i]
    OBVIOUS
  <2>4. F \in [1 .. n -> [V -> V]]
    BY <2>2
  <2> HIDE DEF F, n, V, empty
  <2>5. PICK f \in [0 .. n -> V] : Iterates(f, empty, n, F)
    BY <2>2, <2>4, Recursion
  <2>6. \A i \in 1 .. n : f[i] = f[i - 1] \o seqs[i]
    <3> TAKE i \in 1 .. n
    <3>1. i - 1 \in 0 .. n
      BY <2>2
    <3> QED
      BY <2>3, <2>5, <3>1 DEF Iterates
  <2>7. f[1] = seqs[1]
    <3>1. 1 \in 1 .. n /\ 1 - 1 = 0
      BY <1>2, <2>2 DEF n
    <3>2. f[1] = f[0] \o seqs[1] /\ seqs[1] \in Seq(R)
      BY <2>2, <2>6, <3>1 DEF V
    <3> QED
      BY <2>5, <3>2 DEF empty, Iterates
  <2> DEFINE g == [i \in 1 .. n |-> f[i]]
  <2>8. ASSUME NEW i \in 1 .. n PROVE f[i] = IF i = 1 THEN seqs[i] ELSE g[i - 1] \o seqs[i]
    <3>1. i # 1 => i - 1 \in 1 .. n
      BY <2>2
    <3> QED
      BY <2>6, <2>7, <3>1
  <2>9. g = [i \in 1 .. n |-> IF i = 1 THEN seqs[i] ELSE g[i - 1] \o seqs[i]]
    BY <2>8
  <2>10. flatten = [i \in 1 .. n |-> IF i = 1 THEN seqs[i] ELSE flatten[i - 1] \o seqs[i]]
    BY <2>9
  <2> HIDE DEF flatten, g
  <2>11. \A i \in 1 .. n : flatten[i] = IF i = 1 THEN seqs[i] ELSE flatten[i - 1] \o seqs[i]
    BY <2>10, Zenon
  <2> DEFINE Good(k) == /\ flatten[k] \in Seq(R) /\ Len(flatten[k]) = T[k + 1]
                        /\ \A i \in 1 .. k : \A j \in 1 .. Len(seqs[i]) :
                             T[i] + j \in 1 .. T[k + 1] /\ flatten[k][T[i] + j] = seqs[i][j]
             Upto(k) == k + 1 <= n => Good(k + 1)
             S == {k \in Nat : Upto(k)}
  <2>12. Upto(0)
    <3>1. 1 \in 1 .. n /\ flatten[1] = seqs[1] /\ seqs[1] \in Seq(R)
      BY <1>2, <2>2, <2>11 DEF n, V
    <3>2. T[1] = 0 /\ T[1 + 1] = Len(seqs[1])
      BY <3>1 DEF n, V, Tiles
    <3>3. Good(1)
      BY <3>1, <3>2
    <3> QED
      BY <3>3
  <2>13. ASSUME NEW k \in Nat, Upto(k), k + 2 <= n PROVE Good(k + 2)
    <3> DEFINE s == flatten[k + 1]
               t == seqs[k + 2]
    <3>1. Good(k + 1) /\ k + 2 \in 1 .. n /\ k + 1 \in 1 .. n /\ (k + 2) - 1 = k + 1 /\ k + 2 # 1
      BY <2>2, <2>13
    <3>2. flatten[k + 2] = s \o t
      BY <2>11, <3>1, Zenon
    <3>3. s \in Seq(R) /\ t \in Seq(R) /\ Len(s) = T[k + 2]
      BY <2>2, <3>1 DEF V
    <3>4. \A i \in 1 .. k + 1 : \A j \in 1 .. Len(seqs[i]) : T[i] + j \in 1 .. T[k + 2] /\ s[T[i] + j] = seqs[i][j]
      BY <3>1
    <3>5. T[k + 2] \in Nat /\ T[k + 3] = T[k + 2] + Len(t)
      BY <3>1 DEF n, Tiles
    <3> HIDE DEF s, t
    <3>6. /\ s \o t \in Seq(R) /\ Len(s \o t) = Len(s) + Len(t)
          /\ \A x \in 1 .. Len(s) : (s \o t)[x] = s[x]
          /\ \A x \in 1 .. Len(t) : (s \o t)[Len(s) + x] = t[x]
      <4>1. /\ s \o t \in Seq(R) /\ Len(s \o t) = Len(s) + Len(t)
            /\ \A x \in 1 .. Len(s) + Len(t) : (s \o t)[x] = IF x <= Len(s) THEN s[x] ELSE t[x - Len(s)]
        BY <3>3, ConcatProperties, Zenon
      <4> QED
        BY <3>3, <4>1
    <3>7. flatten[k + 2] \in Seq(R) /\ Len(flatten[k + 2]) = T[k + 3]
      BY <3>2, <3>3, <3>5, <3>6
    <3>8. ASSUME NEW i \in 1 .. k + 2, NEW j \in 1 .. Len(seqs[i])
          PROVE  T[i] + j \in 1 .. T[k + 3] /\ flatten[k + 2][T[i] + j] = seqs[i][j]
      <4>1. CASE i = k + 2
        <5>1. j \in 1 .. Len(t) /\ T[i] = Len(s) /\ seqs[i] = t
          BY <3>3, <4>1 DEF t
        <5> QED
          BY <3>2, <3>3, <3>5, <3>6, <5>1
      <4>2. CASE i # k + 2
        <5>1. i \in 1 .. k + 1
          BY <4>2
        <5>2. T[i] + j \in 1 .. T[k + 2] /\ s[T[i] + j] = seqs[i][j]
          BY <3>4, <5>1
        <5> QED
          BY <3>2, <3>3, <3>5, <3>6, <5>2
      <4> QED
        BY <4>1, <4>2
    <3> QED
      BY <3>7, <3>8
  <2> HIDE DEF Good
  <2>14. \A k \in Nat : Upto(k) => Upto(k + 1)
    <3> SUFFICES ASSUME NEW k \in Nat, Upto(k), (k + 1) + 1 <= n PROVE Good((k + 1) + 1)
      OBVIOUS
    <3>1. (k + 1) + 1 = k + 2
      OBVIOUS
    <3> QED
      BY <2>13, <3>1
  <2> HIDE DEF Upto
  <2>15. 0 \in S /\ \A k \in Nat : k \in S => k + 1 \in S
    BY <2>12, <2>14
  <2> HIDE DEF S
  <2>18. \A k \in Nat : k \in S
    BY <2>15, Induction
  <2>16. n - 1 \in Nat /\ (n - 1) + 1 = n
    BY <1>2, <2>2
  <2>17. Good(n)
    BY <2>16, <2>18 DEF Upto, S
  <2> QED
    BY <2>1, <2>17 DEF Good, n
<1> QED
  BY <1>1, <1>2
----------------------------------------------------------------------------
(* Counting the references of a port.                                      *)

\* The references of port p among the first k, as positions and as a number.
Positions(refs, k, p) == {l \in 1 .. k : refs[l].port = p}
Count(refs, k, p) == Cardinality(Positions(refs, k, p))

\* A count is at most the number of references looked at.
LEMMA CountType ==
  ASSUME NEW refs, NEW k \in Nat, NEW p
  PROVE  IsFiniteSet(Positions(refs, k, p)) /\ Count(refs, k, p) \in Nat /\ Count(refs, k, p) <= k
<1>1. IsFiniteSet(1 .. k) /\ Cardinality(1 .. k) = k
  BY FS_Interval
<1>2. Positions(refs, k, p) \subseteq 1 .. k
  BY DEF Positions
<1> QED
  BY <1>1, <1>2, FS_Subset, FS_CardinalityType DEF Count

\* Counting goes on reference by reference, as add_packet counts.
LEMMA CountStep ==
  ASSUME NEW refs, NEW p
  PROVE  /\ Count(refs, 0, p) = 0
         /\ \A k \in Nat : Count(refs, k + 1, p) =
              IF refs[k + 1].port = p THEN Count(refs, k, p) + 1 ELSE Count(refs, k, p)
<1>1. Positions(refs, 0, p) = {}
  BY DEF Positions
<1>2. ASSUME NEW k \in Nat
      PROVE  Count(refs, k + 1, p) = IF refs[k + 1].port = p THEN Count(refs, k, p) + 1 ELSE Count(refs, k, p)
  <2>1. CASE refs[k + 1].port = p
    <3>1. Positions(refs, k + 1, p) = Positions(refs, k, p) \cup {k + 1} /\ k + 1 \notin Positions(refs, k, p)
      BY <2>1 DEF Positions
    <3> QED
      BY <2>1, <3>1, CountType, FS_AddElement DEF Count
  <2>2. CASE refs[k + 1].port # p
    <3>1. Positions(refs, k + 1, p) = Positions(refs, k, p)
      BY <2>2 DEF Positions
    <3> QED
      BY <2>2, <3>1 DEF Count
  <2> QED
    BY <2>1, <2>2
<1> QED
  BY <1>1, <1>2, FS_EmptySet DEF Count

\* Counts never fall.
LEMMA CountMonotone ==
  ASSUME NEW refs, NEW p, NEW j \in Nat, NEW k \in Nat, j <= k
  PROVE  Count(refs, j, p) <= Count(refs, k, p)
<1>1. Positions(refs, j, p) \subseteq Positions(refs, k, p)
  BY DEF Positions
<1> QED
  BY <1>1, CountType, FS_Subset DEF Count

\* The rank of a reference in its port, how many of the port come before it, is below the
\* number of them.
LEMMA RankBelow ==
  ASSUME NEW refs, NEW k \in Nat, NEW l \in 1 .. k
  PROVE  /\ Count(refs, l - 1, refs[l].port) \in Nat
         /\ Count(refs, l, refs[l].port) = Count(refs, l - 1, refs[l].port) + 1
         /\ Count(refs, l - 1, refs[l].port) < Count(refs, k, refs[l].port)
<1> DEFINE p == refs[l].port
<1>1. l - 1 \in Nat /\ (l - 1) + 1 = l /\ l \in Nat /\ l <= k
  OBVIOUS
<1>2. Count(refs, l, p) = Count(refs, l - 1, p) + 1
  BY <1>1, CountStep
<1>3. Count(refs, l, p) <= Count(refs, k, p)
  BY <1>1, CountMonotone
<1>4. Count(refs, l - 1, p) \in Nat /\ Count(refs, l, p) \in Nat /\ Count(refs, k, p) \in Nat
  BY <1>1, CountType
<1> QED
  BY <1>2, <1>3, <1>4

\* Of two references of a port the later one has the higher rank.
LEMMA RankGrows ==
  ASSUME NEW refs, NEW k \in Nat, NEW l \in 1 .. k, NEW m \in 1 .. k, refs[l].port = refs[m].port, l < m
  PROVE  Count(refs, l - 1, refs[l].port) < Count(refs, m - 1, refs[m].port)
<1>1. m - 1 \in Nat /\ l \in 1 .. m - 1
  OBVIOUS
<1> QED
  BY <1>1, RankBelow

\* The ranks of the references of port p among the first n are those below their number.
RanksTaken(refs, n, p) ==
  \A j \in 0 .. Count(refs, n, p) - 1 : \E l \in 1 .. n : refs[l].port = p /\ Count(refs, l - 1, p) = j

\* Every rank below the number of a port's references is that of one of them.
LEMMA RankTaken ==
  ASSUME NEW refs, NEW p, NEW n \in Nat
  PROVE  RanksTaken(refs, n, p)
<1> DEFINE Taken(k) == \A j \in 0 .. Count(refs, k, p) - 1 :
                         \E l \in 1 .. k : refs[l].port = p /\ Count(refs, l - 1, p) = j
           S == {k \in Nat : Taken(k)}
<1>1. Taken(0)
  BY CountStep
<1>2. ASSUME NEW k \in Nat, Taken(k) PROVE Taken(k + 1)
  <2> SUFFICES ASSUME NEW j \in 0 .. Count(refs, k + 1, p) - 1
               PROVE  \E l \in 1 .. k + 1 : refs[l].port = p /\ Count(refs, l - 1, p) = j
    OBVIOUS
  <2>1. Count(refs, k, p) \in Nat /\ Count(refs, k + 1, p) =
          IF refs[k + 1].port = p THEN Count(refs, k, p) + 1 ELSE Count(refs, k, p)
    BY CountStep, CountType
  <2>2. CASE j \in 0 .. Count(refs, k, p) - 1
    <3>1. PICK l \in 1 .. k : refs[l].port = p /\ Count(refs, l - 1, p) = j
      BY <1>2, <2>2
    <3> QED
      BY <3>1
  <2>3. CASE j \notin 0 .. Count(refs, k, p) - 1
    <3>1. refs[k + 1].port = p /\ j = Count(refs, k, p) /\ (k + 1) - 1 = k /\ k + 1 \in 1 .. k + 1
      BY <2>1, <2>3
    <3> QED
      BY <3>1
  <2> QED
    BY <2>2, <2>3
<1> HIDE DEF Taken
<1>3. 0 \in S /\ \A k \in Nat : k \in S => k + 1 \in S
  BY <1>1, <1>2
<1> HIDE DEF S
<1>4. n \in S
  BY <1>3, Induction
<1> QED
  BY <1>4 DEF S, Taken, RanksTaken

\* OfPort lists the references of a port by their ranks.
LEMMA OfPortByRank ==
  ASSUME NEW R, NEW refs \in Seq(R), NEW p
  PROVE  /\ OfPort(refs, p) \in Seq(R) /\ Len(OfPort(refs, p)) = Count(refs, Len(refs), p)
         /\ \A l \in 1 .. Len(refs) : refs[l].port = p =>
              OfPort(refs, p)[Count(refs, l - 1, p) + 1] = refs[l]
<1> DEFINE n == Len(refs)
           V == Seq(R)
           empty == <<>>
           G(v, i) == IF refs[i].port = p THEN Append(v, refs[i]) ELSE v
           F == [i \in 1 .. n |-> [v \in V |-> G(v, i)]]
           picked == CHOOSE f : f = [i \in 0 .. n |-> IF i = 0 THEN <<>>
                                                      ELSE IF refs[i].port = p THEN Append(f[i - 1], refs[i])
                                                      ELSE f[i - 1]]
<1>1. n \in Nat /\ (\A i \in 1 .. n : refs[i] \in R) /\ empty \in V
  OBVIOUS
<1>2. \A i \in 1 .. n, v \in V : G(v, i) \in V
  BY <1>1
<1>3. F \in [1 .. n -> [V -> V]]
  BY <1>2
<1>4. \A i \in 1 .. n, v \in V : F[i][v] = G(v, i)
  OBVIOUS
<1>5. OfPort(refs, p) = picked[n]
  BY Zenon DEF OfPort
<1> HIDE DEF n, V, F, empty
<1>6. PICK f \in [0 .. n -> V] : Iterates(f, empty, n, F)
  BY <1>1, <1>3, Recursion
<1>7. \A i \in 1 .. n : i - 1 \in 0 .. n /\ f[i] = G(f[i - 1], i)
  BY <1>1, <1>4, <1>6 DEF Iterates
<1>8. f = [i \in 0 .. n |-> IF i = 0 THEN <<>>
                            ELSE IF refs[i].port = p THEN Append(f[i - 1], refs[i]) ELSE f[i - 1]]
  <2>1. ASSUME NEW i \in 0 .. n
        PROVE  f[i] = IF i = 0 THEN <<>> ELSE IF refs[i].port = p THEN Append(f[i - 1], refs[i]) ELSE f[i - 1]
    <3>1. i # 0 => i \in 1 .. n
      BY <1>1
    <3> QED
      BY <1>6, <1>7, <3>1 DEF Iterates, empty
  <2> QED
    BY <2>1
<1>9. picked = [i \in 0 .. n |-> IF i = 0 THEN <<>>
                                 ELSE IF refs[i].port = p THEN Append(picked[i - 1], refs[i]) ELSE picked[i - 1]]
  BY <1>8
<1> HIDE DEF picked
<1>10. picked[0] = <<>>
  BY <1>1, <1>9
<1>11. ASSUME NEW i \in 1 .. n PROVE picked[i] = G(picked[i - 1], i)
  <2>1. i \in 0 .. n /\ i # 0
    BY <1>1
  <2> QED
    BY <1>9, <2>1
<1> DEFINE Listed(k) == /\ picked[k] \in Seq(R) /\ Len(picked[k]) = Count(refs, k, p)
                        /\ \A l \in 1 .. k : refs[l].port = p => picked[k][Count(refs, l - 1, p) + 1] = refs[l]
           Upto(k) == k <= n => Listed(k)
           S == {k \in Nat : Upto(k)}
<1>12. Upto(0)
  BY <1>10, CountStep
<1>13. ASSUME NEW k \in Nat, Upto(k), k + 1 <= n PROVE Listed(k + 1)
  <2>1. Listed(k) /\ k + 1 \in 1 .. n /\ (k + 1) - 1 = k /\ refs[k + 1] \in R
    BY <1>1, <1>13
  <2>2. picked[k + 1] = G(picked[k], k + 1)
    BY <1>11, <2>1
  <2>3. Count(refs, k, p) \in Nat
    BY CountType
  <2>4. ASSUME NEW l \in 1 .. k, refs[l].port = p
        PROVE  Count(refs, l - 1, p) + 1 \in 1 .. Count(refs, k, p)
    <3>1. /\ Count(refs, l - 1, refs[l].port) \in Nat
          /\ Count(refs, l - 1, refs[l].port) < Count(refs, k, refs[l].port)
      BY RankBelow
    <3> QED
      BY <2>3, <2>4, <3>1
  <2>5. CASE refs[k + 1].port = p
    <3>1. picked[k + 1] = Append(picked[k], refs[k + 1]) /\ Count(refs, k + 1, p) = Count(refs, k, p) + 1
      BY <2>2, <2>5, CountStep
    <3>2. /\ picked[k + 1] \in Seq(R) /\ Len(picked[k + 1]) = Count(refs, k + 1, p)
          /\ picked[k + 1][Count(refs, k, p) + 1] = refs[k + 1]
          /\ \A x \in 1 .. Count(refs, k, p) : picked[k + 1][x] = picked[k][x]
      BY <2>1, <2>3, <3>1
    <3>3. ASSUME NEW l \in 1 .. k + 1, refs[l].port = p
          PROVE  picked[k + 1][Count(refs, l - 1, p) + 1] = refs[l]
      <4>1. CASE l = k + 1
        BY <2>1, <3>2, <4>1
      <4>2. CASE l # k + 1
        <5>1. l \in 1 .. k
          BY <4>2
        <5> QED
          BY <2>1, <2>4, <3>2, <3>3, <5>1
      <4> QED
        BY <4>1, <4>2
    <3> QED
      BY <3>2, <3>3
  <2>6. CASE refs[k + 1].port # p
    <3>1. picked[k + 1] = picked[k] /\ Count(refs, k + 1, p) = Count(refs, k, p)
      BY <2>2, <2>6, CountStep
    <3>2. \A l \in 1 .. k + 1 : refs[l].port = p => l \in 1 .. k
      BY <2>6
    <3> QED
      BY <2>1, <3>1, <3>2
  <2> QED
    BY <2>5, <2>6
<1> HIDE DEF Listed
<1>14. \A k \in Nat : Upto(k) => Upto(k + 1)
  BY <1>13
<1> HIDE DEF Upto
<1>15. 0 \in S /\ \A k \in Nat : k \in S => k + 1 \in S
  BY <1>12, <1>14
<1> HIDE DEF S
<1>16. n \in S
  BY <1>1, <1>15, Induction
<1>17. Listed(n)
  BY <1>1, <1>16 DEF S, Upto
<1> QED
  BY <1>5, <1>17 DEF Listed, n

----------------------------------------------------------------------------
(* The counters of a batch.                                                *)

\* counts has the references of each port, active the ports that have any, each once.  A batch
\* fits its array, so no counter and no offset exceeds 16 bits.
Counted(b) ==
  /\ Len(b.input) <= MaxBatch /\ Len(b.active) <= Len(b.input)
  /\ \A p \in Ports : b.counts[p] = Count(b.input, Len(b.input), p)
  /\ \A p \in Ports : b.counts[p] > 0 <=> \E i \in 1 .. Len(b.active) : b.active[i] = p
  /\ \A i, j \in 1 .. Len(b.active) : b.active[i] = b.active[j] => i = j

\* The references of R have port keys.
Keyed(R) == \A r \in R : r.port \in Ports

\* The parts of a buffer.
LEMMA BufferFields ==
  ASSUME NEW R, NEW b \in BufferOf(R)
  PROVE  /\ b.input \in Seq(R) /\ Len(b.input) \in Nat /\ (\A i \in 1 .. Len(b.input) : b.input[i] \in R)
         /\ b.active \in Seq(Ports) /\ Len(b.active) \in Nat
         /\ \A i \in 1 .. Len(b.active) : b.active[i] \in Ports
         /\ b.sorted \in [0 .. MaxBatch - 1 -> R \cup {NoRef}]
         /\ b.counts \in [Ports -> Nat] /\ b.offsets \in [Ports -> Nat] /\ b.start_offsets \in [Ports -> Nat]
         /\ b = [input |-> b.input, sorted |-> b.sorted, active |-> b.active, counts |-> b.counts,
                 offsets |-> b.offsets, start_offsets |-> b.start_offsets]
<1>1. /\ b.input \in Seq(R) /\ b.active \in Seq(Ports)
      /\ b.sorted \in [0 .. MaxBatch - 1 -> R \cup {NoRef}]
      /\ b.counts \in [Ports -> Nat] /\ b.offsets \in [Ports -> Nat] /\ b.start_offsets \in [Ports -> Nat]
  BY DEF BufferOf
<1>2. b = [input |-> b.input, sorted |-> b.sorted, active |-> b.active, counts |-> b.counts,
           offsets |-> b.offsets, start_offsets |-> b.start_offsets]
  BY DEF BufferOf
<1>3. Len(b.input) \in Nat /\ (\A i \in 1 .. Len(b.input) : b.input[i] \in R)
  BY <1>1
<1>4. Len(b.active) \in Nat /\ \A i \in 1 .. Len(b.active) : b.active[i] \in Ports
  BY <1>1
<1> QED
  BY <1>1, <1>2, <1>3, <1>4

\* A new buffer is empty, and so are its counters.
LEMMA NewBufferCounted ==
  ASSUME NEW R
  PROVE  NewBuffer \in BufferOf(R) /\ Counted(NewBuffer)
<1>1. NewBuffer \in BufferOf(R)
  BY DEF NewBuffer, BufferOf
<1>2. Len(NewBuffer.input) = 0 /\ Len(NewBuffer.active) = 0 /\ \A p \in Ports : NewBuffer.counts[p] = 0
  BY DEF NewBuffer
<1>3. \A p \in Ports : Count(NewBuffer.input, 0, p) = 0
  BY CountStep
<1> DEFINE b == NewBuffer
<1> HIDE DEF b
<1>4. /\ Len(b.input) = 0 /\ Len(b.active) = 0 /\ \A p \in Ports : b.counts[p] = 0
      /\ \A p \in Ports : Count(b.input, 0, p) = 0
  BY <1>2, <1>3, Zenon DEF b
<1>5. Counted(b)
  <2>1. 0 <= MaxBatch
    BY BatchAssumption
  <2>2. \A i \in 1 .. Len(b.active) : FALSE
    BY <1>4
  <2> QED
    BY <1>4, <2>1, <2>2 DEF Counted
<1> QED
  BY <1>1, <1>5 DEF b

\* clear resets the counters of the active ports, which are all that need it.
LEMMA ClearCounted ==
  ASSUME NEW R, NEW b \in BufferOf(R), Counted(b)
  PROVE  Clear(b) \in BufferOf(R) /\ Counted(Clear(b)) /\ Clear(b).input = <<>>
<1> DEFINE c == Clear(b)
           cleared(f) == [p \in Ports |-> IF p \in ToSet(b.active) THEN 0 ELSE f[p]]
<1>1. /\ b.counts \in [Ports -> Nat] /\ b.offsets \in [Ports -> Nat] /\ b.start_offsets \in [Ports -> Nat]
      /\ b.active \in Seq(Ports) /\ b.sorted \in [0 .. MaxBatch - 1 -> R \cup {NoRef}]
      /\ b = [input |-> b.input, sorted |-> b.sorted, active |-> b.active, counts |-> b.counts,
              offsets |-> b.offsets, start_offsets |-> b.start_offsets]
  BY BufferFields
<1>2. c = [b EXCEPT !.counts = cleared(b.counts), !.offsets = cleared(b.offsets),
                    !.start_offsets = cleared(b.start_offsets), !.active = <<>>, !.input = <<>>]
  BY Zenon DEF Clear
<1>3. \A f \in [Ports -> Nat] : cleared(f) \in [Ports -> Nat]
  OBVIOUS
<1>4. \A p \in Ports : cleared(b.counts)[p] = IF p \in ToSet(b.active) THEN 0 ELSE b.counts[p]
  OBVIOUS
<1> HIDE DEF cleared, c
<1>5. /\ c.counts = cleared(b.counts) /\ c.active = <<>> /\ c.input = <<>>
      /\ c = [input |-> <<>>, sorted |-> b.sorted, active |-> <<>>, counts |-> cleared(b.counts),
              offsets |-> cleared(b.offsets), start_offsets |-> cleared(b.start_offsets)]
  BY <1>1, <1>2
<1>6. c \in BufferOf(R)
  <2>1. /\ cleared(b.counts) \in [Ports -> Nat] /\ cleared(b.offsets) \in [Ports -> Nat]
        /\ cleared(b.start_offsets) \in [Ports -> Nat]
    BY <1>1, <1>3, Zenon
  <2>2. <<>> \in Seq(R) /\ <<>> \in Seq(Ports)
    OBVIOUS
  <2> QED
    BY <1>1, <1>5, <2>1, <2>2 DEF BufferOf
<1>7. ASSUME NEW p \in Ports PROVE c.counts[p] = 0
  <2>1. c.counts[p] = IF p \in ToSet(b.active) THEN 0 ELSE b.counts[p]
    BY <1>4, <1>5
  <2>2. p \in ToSet(b.active) <=> \E i \in 1 .. Len(b.active) : b.active[i] = p
    <3>1. Len(b.active) \in Nat /\ DOMAIN b.active = 1 .. Len(b.active)
      BY <1>1
    <3> QED
      BY <3>1, Zenon DEF ToSet
  <2>3. b.counts[p] \in Nat /\ (b.counts[p] > 0 <=> \E i \in 1 .. Len(b.active) : b.active[i] = p)
    BY <1>1 DEF Counted
  <2> QED
    BY <2>1, <2>2, <2>3
<1>8. Len(c.input) = 0 /\ Len(c.active) = 0 /\ c.input = <<>> /\ MaxBatch \in Nat
  <2>1. MaxBatch \in Nat
    BY BatchAssumption
  <2>2. c.input = <<>> /\ c.active = <<>>
    BY <1>5
  <2> QED
    BY <2>1, <2>2
<1>9. \A p \in Ports : Count(c.input, 0, p) = 0
  BY CountStep
<1>10. Counted(c)
  BY <1>7, <1>8, <1>9 DEF Counted
<1> QED
  BY <1>6, <1>8, <1>10 DEF c

\* What a reference appended to a batch does to the counts.
LEMMA CountAppended ==
  ASSUME NEW R, NEW refs \in Seq(R), NEW ref \in R, NEW p
  PROVE  /\ Count(Append(refs, ref), Len(refs), p) = Count(refs, Len(refs), p)
         /\ Count(Append(refs, ref), Len(refs) + 1, p) =
              IF ref.port = p THEN Count(refs, Len(refs), p) + 1 ELSE Count(refs, Len(refs), p)
<1> DEFINE n == Len(refs)
<1>1. n \in Nat /\ Append(refs, ref)[n + 1] = ref /\ \A l \in 1 .. n : Append(refs, ref)[l] = refs[l]
  OBVIOUS
<1> HIDE DEF n
<1>2. Positions(Append(refs, ref), n, p) = Positions(refs, n, p)
  BY <1>1 DEF Positions
<1>3. Count(Append(refs, ref), n, p) = Count(refs, n, p)
  BY <1>2 DEF Count
<1>4. Count(Append(refs, ref), n + 1, p) =
        IF Append(refs, ref)[n + 1].port = p THEN Count(Append(refs, ref), n, p) + 1
        ELSE Count(Append(refs, ref), n, p)
  BY <1>1, CountStep, Zenon
<1> QED
  BY <1>1, <1>3, <1>4, Zenon DEF n

\* add_packet files a reference, unless the buffer is full, and keeps counters and batch together.
LEMMA AddRefCounted ==
  ASSUME NEW R, Keyed(R), NEW b \in BufferOf(R), Counted(b), NEW ref \in R
  PROVE  /\ AddRef(b, ref) \in BufferOf(R) /\ Counted(AddRef(b, ref))
         /\ AddRef(b, ref).input = IF Len(b.input) < MaxBatch THEN Append(b.input, ref) ELSE b.input
<1>1. /\ b.counts \in [Ports -> Nat] /\ b.active \in Seq(Ports) /\ b.input \in Seq(R)
      /\ ref.port \in Ports /\ Len(b.input) \in Nat /\ Len(b.active) \in Nat
  BY BufferFields DEF Keyed
<1>0. MaxBatch \in Nat /\ MaxBuckets \in Nat /\ MaxBatch <= MaxBuckets
  BY BatchAssumption
<1>2. CASE Len(b.input) >= MaxBatch
  <2>1. AddRef(b, ref) = b
    BY <1>2 DEF AddRef
  <2> QED
    BY <1>0, <1>1, <1>2, <2>1
<1>3. CASE Len(b.input) < MaxBatch
  <2> DEFINE c == AddRef(b, ref)
             n == Len(b.input)
             new == b.counts[ref.port] = 0
  <2>1. Len(b.active) < MaxBuckets
    BY <1>0, <1>1, <1>3 DEF Counted
  <2> DEFINE active == IF new THEN Append(b.active, ref.port) ELSE b.active
             counts == [b.counts EXCEPT ![ref.port] = b.counts[ref.port] + 1]
  <2>2. c = [b EXCEPT !.input = Append(b.input, ref),
                      !.active = IF b.counts[ref.port] = 0 /\ Len(b.active) < MaxBuckets
                                 THEN Append(b.active, ref.port) ELSE b.active,
                      !.counts[ref.port] = b.counts[ref.port] + 1]
    <3>1. ~ (Len(b.input) >= MaxBatch)
      BY <1>0, <1>1, <1>3
    <3> QED
      BY <3>1, Zenon DEF AddRef
  <2>3. /\ c.input = Append(b.input, ref) /\ c.counts = counts /\ c.active = active
        /\ c.sorted = b.sorted /\ c.offsets = b.offsets /\ c.start_offsets = b.start_offsets
        /\ c = [input |-> Append(b.input, ref), sorted |-> b.sorted, active |-> active,
                counts |-> counts, offsets |-> b.offsets, start_offsets |-> b.start_offsets]
    <3>1. b = [input |-> b.input, sorted |-> b.sorted, active |-> b.active, counts |-> b.counts,
               offsets |-> b.offsets, start_offsets |-> b.start_offsets]
      BY BufferFields
    <3>2. active = IF b.counts[ref.port] = 0 /\ Len(b.active) < MaxBuckets
                   THEN Append(b.active, ref.port) ELSE b.active
      BY <2>1
    <3>3. counts = [b.counts EXCEPT ![ref.port] = b.counts[ref.port] + 1]
      OBVIOUS
    <3> HIDE DEF active, c, counts
    <3> QED
      BY <2>2, <3>1, <3>2, <3>3
  <2>4. c \in BufferOf(R)
    <3>1. active \in Seq(Ports)
      BY <1>1
    <3>2. counts \in [Ports -> Nat]
      BY <1>1
    <3>3. Append(b.input, ref) \in Seq(R)
      BY <1>1
    <3>4. b.sorted \in [0 .. MaxBatch - 1 -> R \cup {NoRef}] /\ b.offsets \in [Ports -> Nat] /\ b.start_offsets \in [Ports -> Nat]
      BY BufferFields
    <3> HIDE DEF active, c, counts
    <3> QED
      BY <2>3, <3>1, <3>2, <3>3, <3>4 DEF BufferOf
  <2> HIDE DEF c
  <2>5. Len(c.input) = n + 1 /\ n + 1 <= MaxBatch
    BY <1>0, <1>1, <1>3, <2>3
  <2>6. \A p \in Ports : c.counts[p] = Count(c.input, Len(c.input), p)
    <3> TAKE p \in Ports
    <3>1. c.counts[p] = IF p = ref.port THEN b.counts[p] + 1 ELSE b.counts[p]
      BY <1>1, <2>3
    <3>2. Count(c.input, n + 1, p) = IF ref.port = p THEN Count(b.input, n, p) + 1 ELSE Count(b.input, n, p)
      <4>1. c.input = Append(b.input, ref) /\ n = Len(b.input)
        BY <2>3
      <4> QED
        BY <1>1, <4>1, CountAppended
    <3> QED
      BY <2>5, <3>1, <3>2 DEF Counted
  <2>7. CASE new
    <3>1. /\ c.active = Append(b.active, ref.port) /\ Len(c.active) = Len(b.active) + 1
          /\ c.active[Len(b.active) + 1] = ref.port
          /\ \A i \in 1 .. Len(b.active) : c.active[i] = b.active[i]
      BY <1>1, <2>3, <2>7
    <3>2. \A i \in 1 .. Len(b.active) : b.active[i] # ref.port
      BY <1>1, <2>7 DEF Counted
    <3>3. ASSUME NEW p \in Ports
          PROVE  c.counts[p] > 0 <=> \E i \in 1 .. Len(c.active) : c.active[i] = p
      <4>1. b.counts[p] > 0 <=> \E i \in 1 .. Len(b.active) : b.active[i] = p
        BY DEF Counted
      <4>2. c.counts[p] = IF p = ref.port THEN b.counts[p] + 1 ELSE b.counts[p]
        BY <1>1, <2>3
      <4>3. (\E i \in 1 .. Len(c.active) : c.active[i] = p)
              <=> p = ref.port \/ \E i \in 1 .. Len(b.active) : b.active[i] = p
        BY <1>1, <3>1
      <4> QED
        BY <1>1, <4>1, <4>2, <4>3
    <3>4. \A i, j \in 1 .. Len(c.active) : c.active[i] = c.active[j] => i = j
      BY <1>1, <3>1, <3>2 DEF Counted
    <3>5. Len(c.active) <= Len(c.input)
      BY <1>1, <2>5, <3>1 DEF Counted
    <3> QED
      BY <1>3, <2>3, <2>4, <2>5, <2>6, <3>3, <3>4, <3>5 DEF Counted, c
  <2>8. CASE ~ new
    <3>1. c.active = b.active
      BY <2>3, <2>8
    <3>2. ASSUME NEW p \in Ports
          PROVE  c.counts[p] > 0 <=> \E i \in 1 .. Len(c.active) : c.active[i] = p
      <4>1. b.counts[p] \in Nat /\ (b.counts[p] > 0 <=> \E i \in 1 .. Len(b.active) : b.active[i] = p)
        BY <1>1 DEF Counted
      <4>2. c.counts[p] = IF p = ref.port THEN b.counts[p] + 1 ELSE b.counts[p]
        BY <1>1, <2>3
      <4> QED
        BY <2>8, <3>1, <4>1, <4>2
    <3>3. /\ \A i, j \in 1 .. Len(c.active) : c.active[i] = c.active[j] => i = j
          /\ Len(c.active) <= Len(c.input)
      BY <1>1, <2>5, <3>1 DEF Counted
    <3> QED
      BY <1>3, <2>3, <2>4, <2>5, <2>6, <3>2, <3>3 DEF Counted, c
  <2> QED
    BY <2>7, <2>8
<1> QED
  BY <1>0, <1>1, <1>2, <1>3

----------------------------------------------------------------------------
(* The sort.                                                               *)

\* Where the i-th active port starts in the sorted array: after the references of the ports
\* before it.
Ahead(b, i) == {l \in 1 .. Len(b.input) : \E j \in 1 .. i - 1 : b.active[j] = b.input[l].port}
StartOf(b, i) == Cardinality(Ahead(b, i))

\* The start of a section is a natural number.
LEMMA StartType ==
  ASSUME NEW b, Len(b.input) \in Nat, NEW i
  PROVE  IsFiniteSet(Ahead(b, i)) /\ StartOf(b, i) \in Nat
<1>1. IsFiniteSet(1 .. Len(b.input))
  BY FS_Interval
<1>2. Ahead(b, i) \subseteq 1 .. Len(b.input)
  BY DEF Ahead
<1> QED
  BY <1>1, <1>2, FS_Subset, FS_CardinalityType DEF StartOf

\* Sections start one after the other.
LEMMA StartMonotone ==
  ASSUME NEW b, Len(b.input) \in Nat, NEW i \in Nat, NEW j \in Nat, i <= j
  PROVE  StartOf(b, i) <= StartOf(b, j)
<1>1. Ahead(b, i) \subseteq Ahead(b, j)
  BY DEF Ahead
<1> QED
  BY <1>1, StartType, FS_Subset DEF StartOf

\* The sections of the active ports tile the batch.
LEMMA Starts ==
  ASSUME NEW R, Keyed(R), NEW b \in BufferOf(R), Counted(b)
  PROVE  /\ StartOf(b, 1) = 0 /\ StartOf(b, Len(b.active) + 1) = Len(b.input)
         /\ \A i \in 1 .. Len(b.active) : StartOf(b, i + 1) = StartOf(b, i) + b.counts[b.active[i]]
<1> DEFINE n == Len(b.input)
           m == Len(b.active)
<1>1. n \in Nat /\ m \in Nat /\ b.input \in Seq(R) /\ b.active \in Seq(Ports)
  BY BufferFields
<1>2. \A l \in 1 .. n : b.input[l].port \in Ports
  BY <1>1 DEF Keyed
<1>3. Ahead(b, 1) = {}
  BY DEF Ahead
<1>4. Ahead(b, m + 1) = 1 .. n
  <2>1. ASSUME NEW l \in 1 .. n PROVE \E j \in 1 .. m : b.active[j] = b.input[l].port
    <3>1. /\ Count(b.input, l - 1, b.input[l].port) \in Nat
          /\ Count(b.input, l - 1, b.input[l].port) < Count(b.input, n, b.input[l].port)
          /\ Count(b.input, n, b.input[l].port) \in Nat
      BY <1>1, RankBelow, CountType
    <3>2. b.counts[b.input[l].port] > 0
      BY <1>2, <3>1 DEF Counted
    <3> QED
      BY <1>2, <3>2 DEF Counted
  <2>2. (m + 1) - 1 = m
    BY <1>1
  <2> QED
    BY <2>1, <2>2 DEF Ahead
<1>5. ASSUME NEW i \in 1 .. m PROVE StartOf(b, i + 1) = StartOf(b, i) + b.counts[b.active[i]]
  <2> DEFINE own == Positions(b.input, n, b.active[i])
  <2>1. b.active[i] \in Ports /\ (i + 1) - 1 = i
    BY <1>1
  <2>2. \A j \in 1 .. i - 1 : b.active[j] # b.active[i]
    BY <1>1 DEF Counted
  <2>3. Ahead(b, i + 1) = Ahead(b, i) \cup own
    <3>1. \A j : j \in 1 .. i <=> j \in 1 .. i - 1 \/ j = i
      BY <1>1
    <3> QED
      BY <2>1, <3>1 DEF Ahead, Positions
  <2>4. Ahead(b, i) \cap own = {}
    BY <2>2 DEF Ahead, Positions
  <2>5. IsFiniteSet(own) /\ Cardinality(own) = b.counts[b.active[i]] /\ Cardinality(own) \in Nat
    BY <1>1, <2>1, CountType DEF Counted, Count
  <2>6. IsFiniteSet(Ahead(b, i)) /\ StartOf(b, i) \in Nat
    BY <1>1, StartType
  <2> HIDE DEF own
  <2>7. Cardinality(Ahead(b, i) \cup own) = Cardinality(Ahead(b, i)) + Cardinality(own) - Cardinality({})
    BY <2>4, <2>5, <2>6, FS_Union
  <2>8. Cardinality({}) = 0
    BY FS_EmptySet
  <2>9. StartOf(b, i + 1) = Cardinality(Ahead(b, i) \cup own) /\ StartOf(b, i) = Cardinality(Ahead(b, i))
    BY <2>3 DEF StartOf
  <2> QED
    BY <2>5, <2>6, <2>7, <2>8, <2>9
<1>6. Cardinality(1 .. n) = n
  BY <1>1, FS_Interval
<1> QED
  BY <1>3, <1>4, <1>5, <1>6, FS_EmptySet DEF StartOf

\* Where the l-th reference goes, if its port is the i-th active one.
Slot(b, i, l) == StartOf(b, i) + Count(b.input, l - 1, b.active[i])

\* The slot of a reference is inside the section of its port, and so inside the batch.
LEMMA SlotInside ==
  ASSUME NEW R, Keyed(R), NEW b \in BufferOf(R), Counted(b),
         NEW i \in 1 .. Len(b.active), NEW l \in 1 .. Len(b.input), b.active[i] = b.input[l].port
  PROVE  /\ Slot(b, i, l) \in Nat /\ StartOf(b, i) <= Slot(b, i, l)
         /\ Slot(b, i, l) < StartOf(b, i + 1) /\ Slot(b, i, l) < Len(b.input)
<1>1. Len(b.input) \in Nat /\ Len(b.active) \in Nat /\ b.active[i] \in Ports
  BY BufferFields
<1>2. /\ Count(b.input, l - 1, b.active[i]) \in Nat
      /\ Count(b.input, l - 1, b.active[i]) < Count(b.input, Len(b.input), b.active[i])
  BY <1>1, RankBelow
<1>3. Count(b.input, Len(b.input), b.active[i]) = b.counts[b.active[i]] /\ b.counts[b.active[i]] \in Nat
  BY <1>1 DEF Counted, BufferOf
<1>4. StartOf(b, i + 1) = StartOf(b, i) + b.counts[b.active[i]] /\ StartOf(b, Len(b.active) + 1) = Len(b.input)
  BY Starts
<1>5. i + 1 \in Nat /\ Len(b.active) + 1 \in Nat /\ i + 1 <= Len(b.active) + 1
  BY <1>1
<1>6. StartOf(b, i + 1) <= StartOf(b, Len(b.active) + 1)
  BY <1>1, <1>5, StartMonotone
<1>7. StartOf(b, i) \in Nat /\ StartOf(b, i + 1) \in Nat
  BY <1>1, StartType
<1>8. Slot(b, i, l) = StartOf(b, i) + Count(b.input, l - 1, b.active[i])
  BY DEF Slot
<1> DEFINE s == StartOf(b, i)
           e == StartOf(b, i + 1)
           r == Count(b.input, l - 1, b.active[i])
           c == b.counts[b.active[i]]
           n == Len(b.input)
<1>9. /\ s \in Nat /\ e \in Nat /\ r \in Nat /\ c \in Nat /\ n \in Nat
      /\ r < c /\ e = s + c /\ e <= n /\ Slot(b, i, l) = s + r
  <2>1. r < c
    BY <1>2, <1>3
  <2>2. e = s + c
    BY <1>4
  <2>3. e <= n
    BY <1>4, <1>6
  <2> QED
    BY <1>1, <1>2, <1>3, <1>7, <1>8, <2>1, <2>2, <2>3
<1> HIDE DEF s, e, r, c, n
<1>10. Slot(b, i, l) \in Nat /\ s <= Slot(b, i, l) /\ Slot(b, i, l) < e /\ Slot(b, i, l) < n
  BY <1>9
<1> QED
  BY <1>10, Zenon DEF s, e, n

\* No two references have the same slot, and those of a port have theirs in the order of the batch.
LEMMA SlotsApart ==
  ASSUME NEW R, Keyed(R), NEW b \in BufferOf(R), Counted(b),
         NEW i \in 1 .. Len(b.active), NEW l \in 1 .. Len(b.input), b.active[i] = b.input[l].port,
         NEW j \in 1 .. Len(b.active), NEW k \in 1 .. Len(b.input), b.active[j] = b.input[k].port,
         l < k
  PROVE  Slot(b, i, l) # Slot(b, j, k) /\ (i = j => Slot(b, i, l) < Slot(b, j, k))
<1>1. Len(b.input) \in Nat /\ Len(b.active) \in Nat
  BY BufferFields
<1>2. /\ Slot(b, i, l) \in Nat /\ StartOf(b, i) <= Slot(b, i, l) /\ Slot(b, i, l) < StartOf(b, i + 1)
      /\ Slot(b, j, k) \in Nat /\ StartOf(b, j) <= Slot(b, j, k) /\ Slot(b, j, k) < StartOf(b, j + 1)
  BY SlotInside
<1>3. /\ StartOf(b, i) \in Nat /\ StartOf(b, i + 1) \in Nat
      /\ StartOf(b, j) \in Nat /\ StartOf(b, j + 1) \in Nat
  BY <1>1, StartType
<1>4. CASE i < j
  <2>1. StartOf(b, i + 1) <= StartOf(b, j)
    BY <1>1, <1>4, StartMonotone
  <2> QED
    BY <1>2, <1>3, <1>4, <2>1
<1>5. CASE j < i
  <2>1. StartOf(b, j + 1) <= StartOf(b, i)
    BY <1>1, <1>5, StartMonotone
  <2> QED
    BY <1>2, <1>3, <1>5, <2>1
<1>6. CASE i = j
  <2>1. b.input[l].port = b.input[k].port
    BY <1>6
  <2>2. Count(b.input, l - 1, b.active[i]) < Count(b.input, k - 1, b.active[j])
    BY <1>1, <1>6, <2>1, RankGrows
  <2>3. Count(b.input, l - 1, b.active[i]) \in Nat /\ Count(b.input, k - 1, b.active[j]) \in Nat
    BY <1>1, RankBelow
  <2> QED
    BY <1>3, <1>6, <2>2, <2>3 DEF Slot
<1> QED
  BY <1>4, <1>5, <1>6

\* What the passes leave alone.
SameBatch(c, b) == c.input = b.input /\ c.active = b.active /\ c.counts = b.counts

\* One turn of the first pass.
LEMMA OffsetSets ==
  ASSUME NEW R, NEW v \in [sum : Nat, buf : BufferOf(R)], NEW p \in Ports
  PROVE  /\ Offset(v, p) \in [sum : Nat, buf : BufferOf(R)]
         /\ SameBatch(Offset(v, p).buf, v.buf) /\ Offset(v, p).buf.sorted = v.buf.sorted
         /\ Offset(v, p).sum = v.sum + v.buf.counts[p]
         /\ \A q \in Ports :
              /\ Offset(v, p).buf.offsets[q] = IF q = p THEN v.sum ELSE v.buf.offsets[q]
              /\ Offset(v, p).buf.start_offsets[q] = IF q = p THEN v.sum ELSE v.buf.start_offsets[q]
<1> DEFINE b == v.buf
           offsets == [b.offsets EXCEPT ![p] = v.sum]
           starts == [b.start_offsets EXCEPT ![p] = v.sum]
           c == [b EXCEPT !.offsets[p] = v.sum, !.start_offsets[p] = v.sum]
<1>1. b \in BufferOf(R) /\ v.sum \in Nat
  OBVIOUS
<1>2. /\ b.counts \in [Ports -> Nat] /\ b.offsets \in [Ports -> Nat] /\ b.start_offsets \in [Ports -> Nat]
      /\ b.input \in Seq(R) /\ b.active \in Seq(Ports) /\ b.sorted \in [0 .. MaxBatch - 1 -> R \cup {NoRef}]
      /\ b = [input |-> b.input, sorted |-> b.sorted, active |-> b.active, counts |-> b.counts,
              offsets |-> b.offsets, start_offsets |-> b.start_offsets]
  BY <1>1 DEF BufferOf
<1>3. Offset(v, p) = [sum |-> v.sum + b.counts[p], buf |-> c]
  BY DEF Offset
<1>4. offsets \in [Ports -> Nat] /\ starts \in [Ports -> Nat]
  BY <1>1, <1>2
<1>5. \A q \in Ports : /\ offsets[q] = IF q = p THEN v.sum ELSE b.offsets[q]
                       /\ starts[q] = IF q = p THEN v.sum ELSE b.start_offsets[q]
  BY <1>2
<1>6. c = [input |-> b.input, sorted |-> b.sorted, active |-> b.active, counts |-> b.counts,
           offsets |-> offsets, start_offsets |-> starts]
  <2>1. c = [b EXCEPT !.offsets = offsets, !.start_offsets = starts]
    BY <1>2
  <2> HIDE DEF c, b, offsets, starts
  <2> QED
    BY <1>2, <2>1
<1> HIDE DEF c, b, offsets, starts
<1>7. /\ c.input = b.input /\ c.sorted = b.sorted /\ c.active = b.active /\ c.counts = b.counts
      /\ c.offsets = offsets /\ c.start_offsets = starts
  BY <1>6
<1>8. c \in BufferOf(R)
  BY <1>2, <1>4, <1>6 DEF BufferOf
<1>9. v.sum + b.counts[p] \in Nat
  BY <1>1, <1>2
<1>10. Offset(v, p).sum = v.sum + b.counts[p] /\ Offset(v, p).buf = c
  BY <1>3
<1> QED
  BY <1>3, <1>5, <1>7, <1>8, <1>9, <1>10 DEF b, SameBatch

\* The first pass sets the offset of every active port to where its section starts.
LEMMA OffsetsSet ==
  ASSUME NEW R, Keyed(R), NEW b \in BufferOf(R), Counted(b)
  PROVE  /\ WithOffsets(b) \in BufferOf(R) /\ SameBatch(WithOffsets(b), b)
         /\ \A i \in 1 .. Len(b.active) :
              /\ WithOffsets(b).offsets[b.active[i]] = StartOf(b, i)
              /\ WithOffsets(b).start_offsets[b.active[i]] = StartOf(b, i)
<1> DEFINE m == Len(b.active)
           V == [sum : Nat, buf : BufferOf(R)]
           base == [sum |-> 0, buf |-> b]
           F == [i \in 1 .. m |-> [v \in V |-> Offset(v, b.active[i])]]
           pass == CHOOSE f : f = [i \in 0 .. m |-> IF i = 0 THEN [sum |-> 0, buf |-> b]
                                                    ELSE Offset(f[i - 1], b.active[i])]
<1>1. m \in Nat /\ (\A i \in 1 .. m : b.active[i] \in Ports) /\ base \in V
  BY BufferFields
<1>2. WithOffsets(b) = pass[m].buf
  BY Zenon DEF WithOffsets
<1>3. F \in [1 .. m -> [V -> V]]
  BY <1>1, OffsetSets
<1>4. \A i \in 1 .. m, v \in V : F[i][v] = Offset(v, b.active[i])
  OBVIOUS
<1>5. base = [sum |-> 0, buf |-> b] /\ base.sum = 0 /\ base.buf = b
  OBVIOUS
<1> HIDE DEF m, V, F, base
<1>6. PICK f \in [0 .. m -> V] : Iterates(f, base, m, F)
  BY <1>1, <1>3, Recursion
<1>7. \A i \in 1 .. m : i - 1 \in 0 .. m /\ f[i] = Offset(f[i - 1], b.active[i])
  BY <1>1, <1>4, <1>6 DEF Iterates
<1>8. f = [i \in 0 .. m |-> IF i = 0 THEN [sum |-> 0, buf |-> b] ELSE Offset(f[i - 1], b.active[i])]
  <2>1. ASSUME NEW i \in 0 .. m
        PROVE  f[i] = IF i = 0 THEN [sum |-> 0, buf |-> b] ELSE Offset(f[i - 1], b.active[i])
    <3>1. i # 0 => i \in 1 .. m
      BY <1>1
    <3> QED
      BY <1>5, <1>6, <1>7, <3>1 DEF Iterates
  <2> QED
    BY <2>1
<1>9. pass = [i \in 0 .. m |-> IF i = 0 THEN [sum |-> 0, buf |-> b] ELSE Offset(pass[i - 1], b.active[i])]
  BY <1>8
<1> HIDE DEF pass
<1>10. pass[0] = base
  BY <1>1, <1>5, <1>9
<1>11. ASSUME NEW i \in 1 .. m PROVE pass[i] = Offset(pass[i - 1], b.active[i])
  <2>1. i \in 0 .. m /\ i # 0
    BY <1>1
  <2> QED
    BY <1>9, <2>1
<1> DEFINE Done(k) == /\ pass[k] \in V /\ SameBatch(pass[k].buf, b) /\ pass[k].sum = StartOf(b, k + 1)
                      /\ \A i \in 1 .. k : /\ pass[k].buf.offsets[b.active[i]] = StartOf(b, i)
                                           /\ pass[k].buf.start_offsets[b.active[i]] = StartOf(b, i)
           Upto(k) == k <= m => Done(k)
           S == {k \in Nat : Upto(k)}
<1>12. Upto(0)
  BY <1>1, <1>5, <1>10, Starts DEF SameBatch
<1>13. ASSUME NEW k \in Nat, Upto(k), k + 1 <= m PROVE Done(k + 1)
  <2> DEFINE v == pass[k]
             w == pass[k + 1]
             p == b.active[k + 1]
  <2>1. Done(k) /\ k + 1 \in 1 .. m /\ (k + 1) - 1 = k /\ p \in Ports
    BY <1>1, <1>13
  <2>2. w = Offset(v, p) /\ v \in V
    BY <1>11, <2>1
  <2>3. /\ w \in V /\ SameBatch(w.buf, v.buf) /\ w.sum = v.sum + v.buf.counts[p]
        /\ \A q \in Ports : /\ w.buf.offsets[q] = IF q = p THEN v.sum ELSE v.buf.offsets[q]
                            /\ w.buf.start_offsets[q] = IF q = p THEN v.sum ELSE v.buf.start_offsets[q]
    <3>1. v \in [sum : Nat, buf : BufferOf(R)] /\ p \in Ports /\ w = Offset(v, p)
      BY <2>1, <2>2 DEF V
    <3> HIDE DEF v, w, p
    <3>2. /\ Offset(v, p) \in [sum : Nat, buf : BufferOf(R)]
          /\ SameBatch(Offset(v, p).buf, v.buf) /\ Offset(v, p).sum = v.sum + v.buf.counts[p]
          /\ \A q \in Ports :
               /\ Offset(v, p).buf.offsets[q] = IF q = p THEN v.sum ELSE v.buf.offsets[q]
               /\ Offset(v, p).buf.start_offsets[q] = IF q = p THEN v.sum ELSE v.buf.start_offsets[q]
      BY <3>1, OffsetSets
    <3> QED
      BY <3>1, <3>2 DEF V
  <2>4. StartOf(b, (k + 1) + 1) = StartOf(b, k + 1) + b.counts[p]
    BY <2>1, Starts DEF m
  <2>5. SameBatch(w.buf, b) /\ w.sum = StartOf(b, (k + 1) + 1)
    BY <2>1, <2>3, <2>4 DEF SameBatch
  <2>6. ASSUME NEW i \in 1 .. k + 1
        PROVE  /\ w.buf.offsets[b.active[i]] = StartOf(b, i)
               /\ w.buf.start_offsets[b.active[i]] = StartOf(b, i)
    <3>1. CASE i = k + 1
      BY <2>1, <2>3, <3>1
    <3>2. CASE i # k + 1
      <4>1. i \in 1 .. k /\ i \in 1 .. m
        BY <1>1, <1>13, <3>2
      <4>2. b.active[i] # p /\ b.active[i] \in Ports
        BY <1>1, <2>1, <3>2, <4>1 DEF Counted, m
      <4> QED
        BY <2>1, <2>3, <4>1, <4>2
    <3> QED
      BY <3>1, <3>2
  <2> QED
    BY <2>3, <2>5, <2>6
<1> HIDE DEF Done
<1>14. \A k \in Nat : Upto(k) => Upto(k + 1)
  BY <1>13
<1> HIDE DEF Upto
<1>15. 0 \in S /\ \A k \in Nat : k \in S => k + 1 \in S
  BY <1>12, <1>14
<1> HIDE DEF S
<1>16. m \in S
  BY <1>1, <1>15, Induction
<1>17. Done(m)
  BY <1>1, <1>16 DEF S, Upto
<1> QED
  BY <1>2, <1>17 DEF Done, V, m

\* One turn of the second pass.
LEMMA PlaceSets ==
  ASSUME NEW R, NEW b \in BufferOf(R), NEW ref \in R, ref.port \in Ports
  PROVE  /\ Place(b, ref) \in BufferOf(R)
         /\ b.offsets[ref.port] < MaxBatch =>
              /\ SameBatch(Place(b, ref), b) /\ Place(b, ref).start_offsets = b.start_offsets
              /\ \A x \in 0 .. MaxBatch - 1 :
                   Place(b, ref).sorted[x] = IF x = b.offsets[ref.port] THEN ref ELSE b.sorted[x]
              /\ \A q \in Ports :
                   Place(b, ref).offsets[q] = IF q = ref.port THEN b.offsets[q] + 1 ELSE b.offsets[q]
<1> DEFINE p == ref.port
           o == b.offsets[p]
           sorted == [b.sorted EXCEPT ![o] = ref]
           offsets == [b.offsets EXCEPT ![p] = o + 1]
           c == Place(b, ref)
<1>1. /\ b.counts \in [Ports -> Nat] /\ b.offsets \in [Ports -> Nat] /\ b.start_offsets \in [Ports -> Nat]
      /\ b.input \in Seq(R) /\ b.active \in Seq(Ports) /\ b.sorted \in [0 .. MaxBatch - 1 -> R \cup {NoRef}]
      /\ b = [input |-> b.input, sorted |-> b.sorted, active |-> b.active, counts |-> b.counts,
              offsets |-> b.offsets, start_offsets |-> b.start_offsets]
  BY BufferFields
<1>2. o \in Nat /\ p \in Ports /\ MaxBatch \in Nat
  <2>1. MaxBatch \in Nat
    BY BatchAssumption
  <2> QED
    BY <1>1, <2>1
<1>3. CASE ~ (o < MaxBatch)
  <2>1. c = b
    BY <1>3 DEF Place
  <2> QED
    BY <1>2, <1>3, <2>1
<1>4. CASE o < MaxBatch
  <2>1. c = [b EXCEPT !.sorted[o] = ref, !.offsets[p] = b.offsets[p] + 1]
    BY <1>4, Zenon DEF Place
  <2>2. sorted \in [0 .. MaxBatch - 1 -> R \cup {NoRef}] /\ offsets \in [Ports -> Nat]
    <3>1. o + 1 \in Nat
      BY <1>2
    <3> HIDE DEF o, p
    <3>2. offsets \in [Ports -> Nat]
      BY <1>1, <3>1
    <3>3. sorted \in [0 .. MaxBatch - 1 -> R \cup {NoRef}]
      BY <1>1
    <3> QED
      BY <3>2, <3>3
  <2>3. \A x \in 0 .. MaxBatch - 1 : sorted[x] = IF x = o THEN ref ELSE b.sorted[x]
    BY <1>1
  <2>4. \A q \in Ports : offsets[q] = IF q = p THEN b.offsets[q] + 1 ELSE b.offsets[q]
    BY <1>1
  <2>5. c = [b EXCEPT !.sorted = sorted, !.offsets = offsets]
    BY <1>1, <2>1
  <2> HIDE DEF c, sorted, offsets, o, p
  <2>6. c = [input |-> b.input, sorted |-> sorted, active |-> b.active, counts |-> b.counts,
             offsets |-> offsets, start_offsets |-> b.start_offsets]
    BY <1>1, <2>5
  <2>7. /\ c.input = b.input /\ c.sorted = sorted /\ c.active = b.active /\ c.counts = b.counts
        /\ c.offsets = offsets /\ c.start_offsets = b.start_offsets
    BY <2>6
  <2>8. c \in BufferOf(R)
    BY <1>1, <2>2, <2>6 DEF BufferOf
  <2> QED
    BY <2>3, <2>4, <2>7, <2>8 DEF SameBatch, c, o, p
<1> QED
  BY <1>3, <1>4

\* The second pass puts every reference of the batch into its slot.
LEMMA Grouped ==
  ASSUME NEW R, Keyed(R), NEW b \in BufferOf(R), Counted(b)
  PROVE  /\ GroupPackets(b) \in BufferOf(R) /\ SameBatch(GroupPackets(b), b)
         /\ \A i \in 1 .. Len(b.active) : GroupPackets(b).start_offsets[b.active[i]] = StartOf(b, i)
         /\ \A i \in 1 .. Len(b.active), l \in 1 .. Len(b.input) :
              b.active[i] = b.input[l].port => GroupPackets(b).sorted[Slot(b, i, l)] = b.input[l]
<1> DEFINE n == Len(b.input)
           m == Len(b.active)
           V == BufferOf(R)
           base == WithOffsets(b)
           F == [i \in 1 .. n |-> [v \in V |-> Place(v, b.input[i])]]
           pass == CHOOSE f : f = [i \in 0 .. n |-> IF i = 0 THEN WithOffsets(b)
                                                    ELSE Place(f[i - 1], b.input[i])]
<1>1. n \in Nat /\ m \in Nat /\ (\A i \in 1 .. n : b.input[i] \in R) /\ MaxBatch \in Nat
  <2>1. MaxBatch \in Nat
    BY BatchAssumption
  <2> QED
    BY <2>1, BufferFields
<1>2. \A i \in 1 .. n : b.input[i].port \in Ports
  BY <1>1 DEF Keyed
<1>3. GroupPackets(b) = pass[n]
  BY Zenon DEF GroupPackets
<1>4. /\ base \in V /\ SameBatch(base, b)
      /\ \A i \in 1 .. m : base.offsets[b.active[i]] = StartOf(b, i) /\ base.start_offsets[b.active[i]] = StartOf(b, i)
  BY OffsetsSet
<1>5. F \in [1 .. n -> [V -> V]]
  BY <1>1, <1>2, PlaceSets
<1>6. \A i \in 1 .. n, v \in V : F[i][v] = Place(v, b.input[i])
  OBVIOUS
<1>7. base = WithOffsets(b)
  OBVIOUS
<1> HIDE DEF n, m, V, F, base
<1>8. PICK f \in [0 .. n -> V] : Iterates(f, base, n, F)
  BY <1>1, <1>4, <1>5, Recursion
<1>9. \A i \in 1 .. n : i - 1 \in 0 .. n /\ f[i] = Place(f[i - 1], b.input[i])
  BY <1>1, <1>6, <1>8 DEF Iterates
<1>10. f = [i \in 0 .. n |-> IF i = 0 THEN WithOffsets(b) ELSE Place(f[i - 1], b.input[i])]
  <2>1. ASSUME NEW i \in 0 .. n
        PROVE  f[i] = IF i = 0 THEN WithOffsets(b) ELSE Place(f[i - 1], b.input[i])
    <3>1. i # 0 => i \in 1 .. n
      BY <1>1
    <3> QED
      BY <1>7, <1>8, <1>9, <3>1 DEF Iterates
  <2> QED
    BY <2>1
<1>11. pass = [i \in 0 .. n |-> IF i = 0 THEN WithOffsets(b) ELSE Place(pass[i - 1], b.input[i])]
  BY <1>10
<1> HIDE DEF pass
<1>12. pass[0] = base
  BY <1>1, <1>7, <1>11
<1>13. ASSUME NEW i \in 1 .. n PROVE pass[i] = Place(pass[i - 1], b.input[i])
  <2>1. i \in 0 .. n /\ i # 0
    BY <1>1
  <2> QED
    BY <1>11, <2>1
<1> DEFINE Done(k) ==
             /\ pass[k] \in V /\ SameBatch(pass[k], b)
             /\ \A i \in 1 .. m : /\ pass[k].start_offsets[b.active[i]] = StartOf(b, i)
                                  /\ pass[k].offsets[b.active[i]] = StartOf(b, i) + Count(b.input, k, b.active[i])
             /\ \A i \in 1 .. m, l \in 1 .. k :
                  b.active[i] = b.input[l].port => pass[k].sorted[Slot(b, i, l)] = b.input[l]
           Upto(k) == k <= n => Done(k)
           S == {k \in Nat : Upto(k)}
<1>14. Upto(0)
  <2>1. \A i \in 1 .. m : StartOf(b, i) \in Nat /\ Count(b.input, 0, b.active[i]) = 0
    BY <1>1, StartType, CountStep DEF n
  <2> QED
    BY <1>4, <1>12, <2>1
<1>15. ASSUME NEW k \in Nat, Upto(k), k + 1 <= n PROVE Done(k + 1)
  <2> DEFINE v == pass[k]
             w == pass[k + 1]
             ref == b.input[k + 1]
  <2>1. Done(k) /\ k + 1 \in 1 .. n /\ (k + 1) - 1 = k /\ ref \in R /\ ref.port \in Ports
    BY <1>1, <1>2, <1>15
  <2>2. w = Place(v, ref) /\ v \in V
    BY <1>13, <2>1
  <2>3. PICK a \in 1 .. m : b.active[a] = ref.port
    <3>1. Count(b.input, n, ref.port) \in Nat /\ Count(b.input, (k + 1) - 1, ref.port) \in Nat
          /\ Count(b.input, (k + 1) - 1, ref.port) < Count(b.input, n, ref.port)
      BY <1>1, <2>1, RankBelow, CountType
    <3>2. b.counts[ref.port] > 0
      BY <2>1, <3>1 DEF Counted, n
    <3> QED
      BY <2>1, <3>2 DEF Counted, m
  <2>4. /\ Slot(b, a, k + 1) \in Nat /\ Slot(b, a, k + 1) < n
        /\ v.offsets[ref.port] = Slot(b, a, k + 1)
    <3>1. Slot(b, a, k + 1) \in Nat /\ Slot(b, a, k + 1) < n
      BY <2>1, <2>3, SlotInside DEF n, m
    <3>2. Slot(b, a, k + 1) = StartOf(b, a) + Count(b.input, k, b.active[a])
      BY <2>1 DEF Slot
    <3> QED
      BY <2>1, <2>3, <3>1, <3>2
  <2>5. n <= MaxBatch /\ Slot(b, a, k + 1) < MaxBatch
    BY <1>1, <2>4 DEF Counted, n
  <2> HIDE DEF v, w, ref
  <2>6. /\ w \in V /\ SameBatch(w, v) /\ w.start_offsets = v.start_offsets
        /\ \A x \in 0 .. MaxBatch - 1 : w.sorted[x] = IF x = Slot(b, a, k + 1) THEN ref ELSE v.sorted[x]
        /\ \A q \in Ports : w.offsets[q] = IF q = ref.port THEN v.offsets[q] + 1 ELSE v.offsets[q]
    <3>1. v \in BufferOf(R) /\ ref \in R /\ ref.port \in Ports /\ v.offsets[ref.port] < MaxBatch
      BY <2>1, <2>2, <2>4, <2>5 DEF V
    <3>2. /\ Place(v, ref) \in BufferOf(R)
          /\ SameBatch(Place(v, ref), v) /\ Place(v, ref).start_offsets = v.start_offsets
          /\ \A x \in 0 .. MaxBatch - 1 :
               Place(v, ref).sorted[x] = IF x = v.offsets[ref.port] THEN ref ELSE v.sorted[x]
          /\ \A q \in Ports : Place(v, ref).offsets[q] = IF q = ref.port THEN v.offsets[q] + 1 ELSE v.offsets[q]
      BY <3>1, PlaceSets
    <3> QED
      BY <2>2, <2>4, <3>2 DEF V
  <2>7. SameBatch(w, b)
    BY <2>1, <2>6 DEF SameBatch, v
  <2>8. ASSUME NEW i \in 1 .. m
        PROVE  /\ w.start_offsets[b.active[i]] = StartOf(b, i)
               /\ w.offsets[b.active[i]] = StartOf(b, i) + Count(b.input, k + 1, b.active[i])
    <3>1. /\ v.start_offsets[b.active[i]] = StartOf(b, i)
          /\ v.offsets[b.active[i]] = StartOf(b, i) + Count(b.input, k, b.active[i])
      BY <2>1 DEF v
    <3>2. b.active[i] \in Ports /\ StartOf(b, i) \in Nat /\ Count(b.input, k, b.active[i]) \in Nat
      <4>1. b.active \in Seq(Ports) /\ Len(b.input) \in Nat
        BY BufferFields
      <4>2. b.active[i] \in Ports
        BY <4>1 DEF m
      <4>3. StartOf(b, i) \in Nat /\ Count(b.input, k, b.active[i]) \in Nat
        BY <4>1, StartType, CountType
      <4> QED
        BY <4>2, <4>3
    <3>3. Count(b.input, k + 1, b.active[i]) =
            IF ref.port = b.active[i] THEN Count(b.input, k, b.active[i]) + 1 ELSE Count(b.input, k, b.active[i])
      BY CountStep DEF ref
    <3>4. w.offsets[b.active[i]] = IF b.active[i] = ref.port THEN v.offsets[b.active[i]] + 1 ELSE v.offsets[b.active[i]]
      BY <2>6, <3>2
    <3>5. w.start_offsets[b.active[i]] = StartOf(b, i)
      BY <2>6, <3>1
    <3> QED
      BY <3>1, <3>2, <3>3, <3>4, <3>5
  <2>9. ASSUME NEW i \in 1 .. m, NEW l \in 1 .. k + 1, b.active[i] = b.input[l].port
        PROVE  w.sorted[Slot(b, i, l)] = b.input[l]
    <3>1. l \in 1 .. n
      BY <1>1, <1>15
    <3>2. Slot(b, i, l) \in 0 .. MaxBatch - 1
      <4>1. Slot(b, i, l) \in Nat /\ Slot(b, i, l) < n
        BY <2>9, <3>1, SlotInside DEF n, m
      <4> QED
        BY <1>1, <2>5, <4>1
    <3>3. w.sorted[Slot(b, i, l)] = IF Slot(b, i, l) = Slot(b, a, k + 1) THEN ref ELSE v.sorted[Slot(b, i, l)]
      BY <2>6, <3>2
    <3>4. CASE l = k + 1
      <4>1. b.active[i] = b.active[a]
        BY <2>3, <2>9, <3>4 DEF ref
      <4>2. i = a
        BY <4>1 DEF Counted, m
      <4> QED
        BY <3>3, <3>4, <4>2 DEF ref
    <3>5. CASE l # k + 1
      <4>1. l \in 1 .. k /\ l < k + 1
        BY <3>5
      <4>2. b.active[a] = b.input[k + 1].port /\ k + 1 \in 1 .. n
        BY <2>1, <2>3 DEF ref
      <4>3. Slot(b, i, l) # Slot(b, a, k + 1)
        BY <2>9, <3>1, <4>1, <4>2, SlotsApart DEF n, m
      <4>4. v.sorted[Slot(b, i, l)] = b.input[l]
        BY <2>1, <2>9, <4>1 DEF v
      <4> QED
        BY <3>3, <4>3, <4>4
    <3> QED
      BY <3>4, <3>5
  <2> QED
    BY <2>6, <2>7, <2>8, <2>9 DEF w
<1> HIDE DEF Done
<1>16. \A k \in Nat : Upto(k) => Upto(k + 1)
  BY <1>15
<1> HIDE DEF Upto
<1>17. 0 \in S /\ \A k \in Nat : k \in S => k + 1 \in S
  BY <1>14, <1>16
<1> HIDE DEF S
<1>18. n \in S
  BY <1>1, <1>17, Induction
<1>19. Done(n)
  BY <1>1, <1>18 DEF S, Upto
<1> QED
  BY <1>3, <1>19 DEF Done, V, n, m

\* Every place of the batch is the slot of one of its references.
LEMMA SlotTaken ==
  ASSUME NEW R, Keyed(R), NEW b \in BufferOf(R), Counted(b), NEW x \in 0 .. Len(b.input) - 1
  PROVE  \E l \in 1 .. Len(b.input) : \E i \in 1 .. Len(b.active) :
           b.active[i] = b.input[l].port /\ Slot(b, i, l) = x
<1> DEFINE n == Len(b.input)
           m == Len(b.active)
           Inside(i) == StartOf(b, i) <= x /\ x < StartOf(b, i + 1)
           Found(k) == k <= m /\ x < StartOf(b, k + 1) => \E i \in 1 .. k : Inside(i)
           S == {k \in Nat : Found(k)}
<1>1. n \in Nat /\ m \in Nat /\ x \in Nat /\ (\A i \in 1 .. m : b.active[i] \in Ports)
  BY BufferFields
<1>2. \A i : StartOf(b, i) \in Nat
  BY <1>1, StartType
<1>3. /\ StartOf(b, 1) = 0 /\ StartOf(b, m + 1) = n
      /\ \A i \in 1 .. m : StartOf(b, i + 1) = StartOf(b, i) + b.counts[b.active[i]]
  BY Starts
<1> HIDE DEF n, m
<1>4. Found(0)
  BY <1>1, <1>3
<1>5. ASSUME NEW k \in Nat, Found(k), k + 1 <= m, x < StartOf(b, (k + 1) + 1)
      PROVE  \E i \in 1 .. k + 1 : Inside(i)
  <2>1. CASE x < StartOf(b, k + 1)
    <3>1. PICK i \in 1 .. k : Inside(i)
      BY <1>1, <1>5, <2>1
    <3> QED
      BY <3>1
  <2>2. CASE ~ (x < StartOf(b, k + 1))
    <3>1. Inside(k + 1)
      BY <1>1, <1>2, <1>5, <2>2
    <3> QED
      BY <3>1
  <2> QED
    BY <2>1, <2>2
<1> HIDE DEF Inside
<1>6. \A k \in Nat : Found(k) => Found(k + 1)
  BY <1>5
<1> HIDE DEF Found
<1>7. 0 \in S /\ \A k \in Nat : k \in S => k + 1 \in S
  BY <1>4, <1>6
<1> HIDE DEF S
<1>8. m \in S
  BY <1>1, <1>7, Induction
<1>9. x < n
  BY <1>1 DEF n
<1>10. PICK i \in 1 .. m : Inside(i)
  BY <1>1, <1>3, <1>8, <1>9 DEF S, Found
<1> DEFINE p == b.active[i]
           c == b.counts[p]
<1>11. p \in Ports /\ c = Count(b.input, n, p) /\ c \in Nat
  BY <1>1, CountType DEF Counted, n
<1>12. x - StartOf(b, i) \in 0 .. c - 1
  <2>1. StartOf(b, i) <= x /\ x < StartOf(b, i) + c
    BY <1>3, <1>10 DEF Inside
  <2> QED
    BY <1>1, <1>2, <1>11, <2>1
<1>13. PICK l \in 1 .. n : b.input[l].port = p /\ Count(b.input, l - 1, p) = x - StartOf(b, i)
  <2> HIDE DEF p, c
  <2>1. \A r \in 0 .. Count(b.input, n, p) - 1 : \E l \in 1 .. n : b.input[l].port = p /\ Count(b.input, l - 1, p) = r
    <3>1. RanksTaken(b.input, n, p)
      BY <1>1, RankTaken
    <3> QED
      BY <3>1, Zenon DEF RanksTaken
  <2> QED
    BY <1>11, <1>12, <2>1
<1>14. Slot(b, i, l) = x
  BY <1>1, <1>2, <1>13 DEF Slot
<1> QED
  BY <1>13, <1>14 DEF n, m

\* The slice of a port lists its references in the order in which the batch was built.
LEMMA Slices ==
  ASSUME NEW R, Keyed(R), NEW b \in BufferOf(R), Counted(b), NEW i \in 1 .. Len(b.active)
  PROVE  GetBucketSlice(GroupPackets(b), b.active[i]) = OfPort(b.input, b.active[i])
<1> DEFINE n == Len(b.input)
           g == GroupPackets(b)
           p == b.active[i]
           c == b.counts[p]
           o == OfPort(b.input, p)
<1>1. n \in Nat /\ Len(b.active) \in Nat /\ p \in Ports /\ b.input \in Seq(R)
  BY BufferFields
<1>2. c = Count(b.input, n, p) /\ c \in Nat
  BY <1>1, CountType DEF Counted
<1>3. g.input = b.input /\ g.counts = b.counts /\ g.start_offsets[p] = StartOf(b, i)
  BY Grouped DEF SameBatch
<1>4. \A l \in 1 .. n : p = b.input[l].port => g.sorted[Slot(b, i, l)] = b.input[l]
  BY Grouped
<1>5. StartOf(b, i) \in Nat /\ StartOf(b, i) + c <= n
  <2>1. /\ StartOf(b, i + 1) = StartOf(b, i) + c /\ StartOf(b, Len(b.active) + 1) = n
    BY Starts
  <2>2. i + 1 \in Nat /\ Len(b.active) + 1 \in Nat /\ i + 1 <= Len(b.active) + 1
    BY <1>1
  <2>3. StartOf(b, i + 1) <= StartOf(b, Len(b.active) + 1)
    BY <1>1, <2>2, StartMonotone
  <2>4. StartOf(b, i) \in Nat
    BY <1>1, StartType
  <2> QED
    BY <2>1, <2>3, <2>4
<1>6. GetBucketSlice(g, p) = [j \in 1 .. c |-> g.sorted[StartOf(b, i) + j - 1]]
  <2>1. g.start_offsets[p] + g.counts[p] <= Len(g.input)
    BY <1>3, <1>5
  <2>2. GetBucketSlice(g, p) = [j \in 1 .. g.counts[p] |-> g.sorted[g.start_offsets[p] + j - 1]]
    BY <2>1, Zenon DEF GetBucketSlice
  <2> QED
    BY <1>3, <2>2, Zenon
<1>7. /\ o \in Seq(R) /\ Len(o) = c
      /\ \A l \in 1 .. n : b.input[l].port = p => o[Count(b.input, l - 1, p) + 1] = b.input[l]
  BY <1>1, <1>2, OfPortByRank
<1> HIDE DEF n, g, p, c, o
<1>8. ASSUME NEW j \in 1 .. c PROVE g.sorted[StartOf(b, i) + j - 1] = o[j]
  <2>1. j - 1 \in 0 .. Count(b.input, n, p) - 1 /\ (j - 1) + 1 = j
    BY <1>2
  <2>2. PICK l \in 1 .. n : b.input[l].port = p /\ Count(b.input, l - 1, p) = j - 1
    <3>1. \A r \in 0 .. Count(b.input, n, p) - 1 : \E l \in 1 .. n : b.input[l].port = p /\ Count(b.input, l - 1, p) = r
      <4>1. RanksTaken(b.input, n, p)
        BY <1>1, RankTaken
      <4> QED
        BY <4>1, Zenon DEF RanksTaken
    <3> QED
      BY <2>1, <3>1
  <2>3. Slot(b, i, l) = StartOf(b, i) + j - 1
    BY <1>2, <1>5, <2>2 DEF Slot, p
  <2> QED
    BY <1>4, <1>7, <2>1, <2>2, <2>3
<1>9. o = [j \in 1 .. c |-> o[j]]
  BY <1>7
<1> QED
  BY <1>6, <1>8, <1>9 DEF g, p, o

\* StableGrouping of the capture thread for every batch: what get_bucket_slice gives after
\* group_packets is, port by port, the batch's references in order, whatever was in the array.
THEOREM GroupingIsStable ==
  ASSUME NEW R, Keyed(R), NEW b \in BufferOf(R), Counted(b)
  PROVE  Delivery(GroupPackets(b)) =
           FlattenSeq([i \in 1 .. Len(b.active) |-> OfPort(b.input, b.active[i])])
<1>1. GroupPackets(b).active = b.active
  BY Grouped DEF SameBatch
<1>2. \A i \in 1 .. Len(b.active) :
        GetBucketSlice(GroupPackets(b), b.active[i]) = OfPort(b.input, b.active[i])
  BY Slices
<1>3. [i \in 1 .. Len(b.active) |-> GetBucketSlice(GroupPackets(b), b.active[i])]
        = [i \in 1 .. Len(b.active) |-> OfPort(b.input, b.active[i])]
  BY <1>2
<1> QED
  BY <1>1, <1>3, Zenon DEF Delivery

\* seq has the references of refs in the order pi: each once, those of a port as they were.
Reorders(seq, refs, pi) ==
  /\ pi \in [1 .. Len(refs) -> 1 .. Len(refs)]
  /\ \A l \in 1 .. Len(refs) : \E x \in 1 .. Len(refs) : pi[x] = l
  /\ \A x, y \in 1 .. Len(refs) : pi[x] = pi[y] => x = y
  /\ \A x, y \in 1 .. Len(refs) : x < y /\ refs[pi[x]].port = refs[pi[y]].port => pi[x] < pi[y]
  /\ seq = [x \in 1 .. Len(refs) |-> refs[pi[x]]]

\* The thread visits each reference of the batch exactly once, those of a port in order.
LEMMA GroupingReorders ==
  ASSUME NEW R, Keyed(R), NEW b \in BufferOf(R), Counted(b)
  PROVE  \E pi : Reorders(Delivery(GroupPackets(b)), b.input, pi)
<1> DEFINE n == Len(b.input)
           m == Len(b.active)
           g == GroupPackets(b)
           slices == [i \in 1 .. m |-> OfPort(b.input, b.active[i])]
           starts == [i \in 1 .. m + 1 |-> StartOf(b, i)]
           d == Delivery(g)
           At(l, x) == \E i \in 1 .. m : b.active[i] = b.input[l].port /\ Slot(b, i, l) = x - 1
           pi == [x \in 1 .. n |-> CHOOSE l \in 1 .. n : At(l, x)]
<1>1. n \in Nat /\ m \in Nat /\ b.input \in Seq(R) /\ (\A i \in 1 .. m : b.active[i] \in Ports)
  BY BufferFields
<1>2. d = FlattenSeq(slices)
  BY GroupingIsStable
<1>3. /\ \A i \in 1 .. m : OfPort(b.input, b.active[i]) \in Seq(R)
                           /\ Len(OfPort(b.input, b.active[i])) = b.counts[b.active[i]]
      /\ \A i \in 1 .. m : \A l \in 1 .. n : b.input[l].port = b.active[i] =>
           OfPort(b.input, b.active[i])[Count(b.input, l - 1, b.active[i]) + 1] = b.input[l]
  BY <1>1, OfPortByRank DEF Counted
<1>4. slices \in Seq(Seq(R)) /\ Len(slices) = m /\ \A i \in 1 .. m : slices[i] = OfPort(b.input, b.active[i])
  BY <1>1, <1>3
<1>5. /\ StartOf(b, 1) = 0 /\ StartOf(b, m + 1) = n /\ \A i : StartOf(b, i) \in Nat
      /\ \A i \in 1 .. m : StartOf(b, i + 1) = StartOf(b, i) + b.counts[b.active[i]]
  BY <1>1, Starts, StartType
<1>6. starts[1] = 0 /\ starts[m + 1] = n /\ \A i \in 1 .. m : starts[i] = StartOf(b, i) /\ starts[i + 1] = StartOf(b, i + 1)
  BY <1>1, <1>5
<1> HIDE DEF slices, starts
<1>7. Tiles(starts, slices)
  <2>1. \A i \in 1 .. m : starts[i] \in Nat /\ starts[i + 1] = starts[i] + Len(slices[i])
    <3> TAKE i \in 1 .. m
    <3>1. Len(slices[i]) = b.counts[b.active[i]]
      BY <1>3, <1>4
    <3>2. StartOf(b, i + 1) = StartOf(b, i) + b.counts[b.active[i]] /\ StartOf(b, i) \in Nat
      BY <1>5
    <3>3. starts[i] = StartOf(b, i) /\ starts[i + 1] = StartOf(b, i + 1)
      BY <1>6
    <3> QED
      BY <3>1, <3>2, <3>3
  <2>2. starts[1] = 0 /\ Len(slices) = m
    BY <1>4, <1>6
  <2> QED
    BY <2>1, <2>2, Zenon DEF Tiles
<1>8. /\ d \in Seq(R) /\ Len(d) = n
      /\ \A i \in 1 .. m : \A j \in 1 .. Len(slices[i]) : d[starts[i] + j] = slices[i][j]
  BY <1>2, <1>4, <1>6, <1>7, Flattened
<1> HIDE DEF n, m, d, At
<1>9. ASSUME NEW i \in 1 .. m, NEW l \in 1 .. n, b.active[i] = b.input[l].port
      PROVE  Slot(b, i, l) \in 0 .. n - 1 /\ d[Slot(b, i, l) + 1] = b.input[l]
  <2> DEFINE r == Count(b.input, l - 1, b.active[i])
  <2>1. Slot(b, i, l) \in Nat /\ Slot(b, i, l) < n
    BY <1>9, SlotInside DEF n, m
  <2>2. r \in Nat /\ r < Count(b.input, n, b.active[i])
    BY <1>1, <1>9, RankBelow
  <2>3. r + 1 \in 1 .. Len(slices[i])
    <3>1. Len(slices[i]) = b.counts[b.active[i]] /\ b.active[i] \in Ports
      BY <1>1, <1>3, <1>4
    <3>2. Len(slices[i]) = Count(b.input, n, b.active[i])
      BY <3>1 DEF Counted, n
    <3>3. Count(b.input, n, b.active[i]) \in Nat
      BY <1>1, CountType
    <3> QED
      BY <2>2, <3>2, <3>3
  <2>4. d[starts[i] + (r + 1)] = slices[i][r + 1]
    BY <1>8, <2>3
  <2>5. slices[i][r + 1] = b.input[l]
    BY <1>3, <1>4, <1>9
  <2>6. starts[i] + (r + 1) = Slot(b, i, l) + 1
    BY <1>5, <1>6, <2>2 DEF Slot
  <2> QED
    BY <1>1, <2>1, <2>4, <2>5, <2>6
<1>10. ASSUME NEW x \in 1 .. n PROVE pi[x] \in 1 .. n /\ At(pi[x], x)
  <2>1. x - 1 \in 0 .. Len(b.input) - 1
    BY <1>1 DEF n
  <2>2. \E l \in 1 .. Len(b.input) : \E i \in 1 .. Len(b.active) : b.active[i] = b.input[l].port /\ Slot(b, i, l) = x - 1
    BY <2>1, SlotTaken
  <2>3. \E l \in 1 .. n : At(l, x)
    BY <2>2 DEF At, n, m
  <2> QED
    BY <2>3
<1>11. pi \in [1 .. n -> 1 .. n]
  BY <1>10
<1> HIDE DEF pi
<1>12. ASSUME NEW i \in 1 .. m, NEW l \in 1 .. n, NEW j \in 1 .. m, NEW k \in 1 .. n,
              b.active[i] = b.input[l].port, b.active[j] = b.input[k].port, l < k
       PROVE  Slot(b, i, l) # Slot(b, j, k) /\ (b.input[l].port = b.input[k].port => Slot(b, i, l) < Slot(b, j, k))
  <2>1. Slot(b, i, l) # Slot(b, j, k) /\ (i = j => Slot(b, i, l) < Slot(b, j, k))
    BY <1>12, SlotsApart DEF n, m
  <2>2. b.input[l].port = b.input[k].port => i = j
    BY <1>12 DEF Counted, m
  <2> QED
    BY <2>1, <2>2
<1>13. ASSUME NEW x \in 1 .. n, NEW y \in 1 .. n, pi[x] = pi[y] PROVE x = y
  <2>1. PICK i \in 1 .. m : b.active[i] = b.input[pi[x]].port /\ Slot(b, i, pi[x]) = x - 1
    BY <1>10 DEF At
  <2>2. PICK j \in 1 .. m : b.active[j] = b.input[pi[y]].port /\ Slot(b, j, pi[y]) = y - 1
    BY <1>10 DEF At
  <2>3. b.active[i] = b.active[j]
    BY <1>13, <2>1, <2>2
  <2>4. i = j
    BY <2>3 DEF Counted, m
  <2>5. x - 1 = y - 1
    BY <1>13, <2>1, <2>2, <2>4
  <2> QED
    BY <1>1, <2>5
<1>14. ASSUME NEW x \in 1 .. n, NEW y \in 1 .. n, x < y, b.input[pi[x]].port = b.input[pi[y]].port
       PROVE  pi[x] < pi[y]
  <2>1. PICK i \in 1 .. m : b.active[i] = b.input[pi[x]].port /\ Slot(b, i, pi[x]) = x - 1
    BY <1>10 DEF At
  <2>2. PICK j \in 1 .. m : b.active[j] = b.input[pi[y]].port /\ Slot(b, j, pi[y]) = y - 1
    BY <1>10 DEF At
  <2>3. pi[x] \in 1 .. n /\ pi[y] \in 1 .. n
    BY <1>10
  <2>4. ~ (pi[y] < pi[x])
    <3>1. SUFFICES ASSUME pi[y] < pi[x] PROVE FALSE
      OBVIOUS
    <3>2. Slot(b, j, pi[y]) < Slot(b, i, pi[x])
      BY <1>12, <1>14, <2>1, <2>2, <2>3, <3>1
    <3>3. y - 1 < x - 1
      BY <2>1, <2>2, <3>2
    <3> QED
      BY <1>1, <1>14, <3>3
  <2>5. pi[x] # pi[y]
    BY <1>13, <1>14
  <2> QED
    BY <1>1, <2>3, <2>4, <2>5
<1>15. ASSUME NEW l \in 1 .. n PROVE \E x \in 1 .. n : pi[x] = l
  <2>1. PICK i \in 1 .. m : b.active[i] = b.input[l].port
    <3>1. Count(b.input, l - 1, b.input[l].port) \in Nat /\ Count(b.input, l - 1, b.input[l].port) < Count(b.input, n, b.input[l].port)
          /\ Count(b.input, n, b.input[l].port) \in Nat
      BY <1>1, RankBelow, CountType
    <3>2. b.input[l].port \in Ports
      BY <1>1 DEF Keyed, n
    <3>3. b.counts[b.input[l].port] > 0
      BY <3>1, <3>2 DEF Counted, n
    <3> QED
      BY <3>2, <3>3 DEF Counted, m
  <2>2. Slot(b, i, l) \in 0 .. n - 1
    BY <1>9, <2>1
  <2> DEFINE x == Slot(b, i, l) + 1
  <2>3. x \in 1 .. n /\ x - 1 = Slot(b, i, l)
    BY <1>1, <2>2
  <2> HIDE DEF x
  <2>4. pi[x] \in 1 .. n /\ At(pi[x], x)
    BY <1>10, <2>3
  <2>5. PICK j \in 1 .. m : b.active[j] = b.input[pi[x]].port /\ Slot(b, j, pi[x]) = x - 1
    BY <2>4 DEF At
  <2>6. ~ (pi[x] < l) /\ ~ (l < pi[x])
    BY <1>12, <2>1, <2>3, <2>4, <2>5
  <2>7. pi[x] = l
    BY <1>1, <2>4, <2>6
  <2> QED
    BY <2>3, <2>7
<1>16. ASSUME NEW x \in 1 .. n PROVE d[x] = b.input[pi[x]]
  <2>1. pi[x] \in 1 .. n
    BY <1>10
  <2>2. PICK i \in 1 .. m : b.active[i] = b.input[pi[x]].port /\ Slot(b, i, pi[x]) = x - 1
    BY <1>10 DEF At
  <2>3. d[Slot(b, i, pi[x]) + 1] = b.input[pi[x]]
    BY <1>9, <2>1, <2>2
  <2>4. (x - 1) + 1 = x
    BY <1>1
  <2> QED
    BY <2>2, <2>3, <2>4
<1>17. d = [x \in 1 .. n |-> b.input[pi[x]]]
  <2>1. d = [x \in 1 .. n |-> d[x]]
    BY <1>8
  <2> QED
    BY <1>16, <2>1
<1>18. Reorders(d, b.input, pi)
  BY <1>11, <1>13, <1>14, <1>15, <1>17 DEF Reorders, n
<1> QED
  BY <1>18 DEF d
=============================================================================
